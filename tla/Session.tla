------------------------------ MODULE Session ------------------------------
(***************************************************************************)
(* One protocol session (protocol/session.rs with operation.rs, promise.rs,*)
(* responder.rs and the routing part of envelope.rs): the application      *)
(* threads, the reader, the writer and the deadline worker share one state *)
(* lock and one condition variable.  Every action below is one critical    *)
(* section of that lock, or one step a thread takes between two of them.   *)
(*                                                                         *)
(* The peer is unconstrained: any envelope may arrive at any time.         *)
(* A deadline is a moment that has passed or has not: "due" holds the      *)
(* operations whose deadline has passed, and only ever grows.              *)
(***************************************************************************)
EXTENDS Integers, Sequences, FiniteSets

CONSTANTS
  Side,           \* "Client" or "Server"
  MaxId,          \* greatest wire ID, u64::MAX in the code
  MaxOps,         \* bound on the operations (requests and replies) of a behaviour
  MaxRequests,    \* bound on the requests among them
  InboundIds,     \* wire IDs the peer's envelopes carry
  Sizes,          \* encoded envelope lengths
  Limits,         \* values the application gives set_inbound_limits
  DefaultLimits   \* DEFAULT_MAX_INBOUND_REQUESTS and DEFAULT_MAX_INBOUND_BYTES

Bounds == [requests: Nat, bytes: Nat]

ASSUME ConstantsAssumption ==
  /\ Side \in {"Client", "Server"}
  /\ MaxId \in Nat \ {0, 1}
  /\ MaxOps \in Nat
  /\ MaxRequests \in Nat
  /\ InboundIds \subseteq 0 .. MaxId
  /\ Sizes \subseteq Nat
  /\ Limits \subseteq Bounds
  /\ DefaultLimits \in Bounds

Ids == 0 .. MaxId
Keys == 1 .. MaxOps
NoKey == 0

(* next_id: Option<u64>, where None is an ID past the last one.            *)
NextIds == 0 .. MaxId + 2

(* Reasons a session closes with, Error in the code.                       *)
Reasons == {"Closed", "Malformed", "Transport",
            "InboundRequestLimitExceeded", "InboundByteLimitExceeded"}

(* What the channel of a promise has carried: nothing yet, or its result.  *)
Results == Reasons \cup {"Response", "Written", "Timeout", "Refused"}
PromiseStates == {"unused", "pending"} \cup Results

Threads == {"recv", "reader", "writer"}
Labels == {"ready", "decode", "malformed", "unknown", "autoreply", "send", "written",
           "unroute", "refused", "close", "disconnect", "abort", "done"}

Envelopes == [id: Ids, bytes: Sizes]

VARIABLES
  status,          \* "Open", or the first closing reason
  limits,          \* max_inbound_requests and max_inbound_bytes
  incoming,        \* accepted requests awaiting recv
  reserved_ids,    \* IDs of accepted requests not yet answered
  outgoing,        \* keys of queued messages; keys grow in push order
  next_id,         \* next locally allocated request ID
  outstanding,     \* wire ID -> key of the sent request, or NoKey
  operations,      \* keys whose promise has no result yet
  last_key,        \* number of operations submitted so far
  kind,            \* key -> "none", "request" or "reply"
  wire_id,         \* key -> answered ID of a reply, assigned ID of a request
  due,             \* keys whose deadline has passed
  promise,         \* key -> state of its result channel
  held,            \* keys whose promise the application still owns
  unread,          \* key -> bytes charged by an unread response
  retained_bytes,  \* the byte counter
  removed,         \* envelopes of a closed session, not yet dropped
  responders,      \* IDs whose Responder the application holds
  autoreplies,     \* IDs whose dropped Responder is between autoreply's locks
  receiving,       \* the request recv took and has not returned
  unknown,         \* the unknown request the reader is answering
  reader_error,    \* the error the reader is about to close with
  bad_waits,       \* a Promise::wait found a malformed body, close not called yet
  writing,         \* key of the message the writer took
  finishing,       \* progress of finish_close
  pc               \* where each thread is

wireVars == <<next_id, outstanding, wire_id>>
opVars == <<operations, promise, due>>
submitVars == <<last_key, kind>>
promiseVars == <<held, unread>>
holderVars == <<responders, autoreplies, receiving, unknown>>
threadVars == <<reader_error, bad_waits, writing>>
closeVars == <<removed, finishing>>
vars == <<status, limits, incoming, reserved_ids, outgoing, retained_bytes, pc,
          wireVars, opVars, submitVars, promiseVars, holderVars, threadVars, closeVars>>
----------------------------------------------------------------------------
(* Envelope routing.                                                       *)

Parity(id) == id % 2

OwnParity == IF Side = "Client" THEN 1 ELSE 0

FirstId == IF Side = "Client" THEN 1 ELSE 2

IsRequest(id) == Parity(id) # OwnParity

OwnIds == {id \in Ids : ~IsRequest(id)}
PeerIds == {id \in Ids : IsRequest(id)}

(* checked_add(2): an ID past the last one stands for None.                *)
NextId(id) == id + 2

Exhausted == next_id > MaxId
----------------------------------------------------------------------------
(* Pieces shared by several critical sections.                             *)

Open == status = "Open"

(* PendingOperation::fail: expiry takes precedence over another failure.   *)
Failure(k, error) == IF k \in due THEN "Timeout" ELSE error

(* Publishes the result of every key in S.                                 *)
Settle(S, result(_)) ==
  promise' = [k \in Keys |-> IF k \in S THEN result(k) ELSE promise[k]]

(* State::expire computes these from the current state.                    *)
LiveOperations == operations \ due
KeepExpiredMessages == outgoing
LiveOutgoing == outgoing \cap LiveOperations
Replies == {k \in Keys : kind[k] = "reply"}
KeepExpiredIds == {}
ExpiredReplyIds == {wire_id[k] : k \in (outgoing \ LiveOutgoing) \cap Replies}

ForgetExpired == UNCHANGED promise
SettleExpired == Settle(operations \cap due, LAMBDA k : "Timeout")

(* State::close fails all operations, queued or sent.                      *)
SettleClosed(reason) == Settle(operations, LAMBDA k : Failure(k, reason))

(* State::close, the part of every closing call made under the lock.       *)
CloseState(reason) ==
  IF Open
  THEN /\ status' = reason
       /\ SettleClosed(reason)
       /\ operations' = {}
       /\ outgoing' = {}
       /\ incoming' = <<>>
       /\ removed' = incoming
       /\ reserved_ids' = {}
       /\ outstanding' = [id \in Ids |-> NoKey]
       /\ finishing' = "drop"
  ELSE UNCHANGED <<status, promise, operations, outgoing, incoming, removed,
                   reserved_ids, outstanding, finishing>>

Init ==
  /\ status = "Open"
  /\ limits = DefaultLimits
  /\ incoming = <<>>
  /\ reserved_ids = {}
  /\ outgoing = {}
  /\ next_id = FirstId
  /\ outstanding = [id \in Ids |-> NoKey]
  /\ operations = {}
  /\ last_key = 0
  /\ kind = [k \in Keys |-> "none"]
  /\ wire_id = [k \in Keys |-> 0]
  /\ due = {}
  /\ promise = [k \in Keys |-> "unused"]
  /\ held = {}
  /\ unread = [k \in Keys |-> 0]
  /\ retained_bytes = 0
  /\ removed = <<>>
  /\ responders = {}
  /\ autoreplies = {}
  /\ receiving = <<>>
  /\ unknown = {}
  /\ reader_error = "none"
  /\ bad_waits = FALSE
  /\ writing = NoKey
  /\ finishing = "none"
  /\ pc = [t \in Threads |-> "ready"]
----------------------------------------------------------------------------
(* Application threads.                                                    *)

(* enqueue on an open session: the operation gets a fresh key, and an      *)
(* operation that is already late fails at once without being queued.      *)
(* "hold" says whether the caller keeps the promise.                       *)
Enqueue(body, id, late, hold) ==
  LET k == last_key + 1
  IN /\ last_key < MaxOps
     /\ last_key' = k
     /\ kind' = [kind EXCEPT ![k] = body]
     /\ wire_id' = [wire_id EXCEPT ![k] = id]
     /\ held' = IF hold THEN held \cup {k} ELSE held
     /\ IF late
        THEN /\ due' = due \cup {k}
             /\ promise' = [promise EXCEPT ![k] = "Timeout"]
             /\ reserved_ids' = IF body = "reply" THEN reserved_ids \ {id} ELSE reserved_ids
             /\ UNCHANGED <<operations, outgoing>>
        ELSE /\ promise' = [promise EXCEPT ![k] = "pending"]
             /\ operations' = operations \cup {k}
             /\ outgoing' = outgoing \cup {k}
             /\ UNCHANGED <<due, reserved_ids>>
     /\ UNCHANGED <<status, limits, incoming, next_id, outstanding, unread, retained_bytes>>

(* Requester::request on an open session; a closed one only returns its    *)
(* error.                                                                  *)
Request(late) ==
  /\ Open
  /\ Cardinality({k \in Keys : kind[k] = "request"}) < MaxRequests
  /\ Enqueue("request", 0, late, TRUE)
  /\ UNCHANGED <<pc, holderVars, threadVars, closeVars>>

(* Responder::reply and Responder::fail.  A closed session refuses the     *)
(* reply, and the responder's drop then queues nothing.                    *)
Reply(id, late) ==
  /\ id \in responders
  /\ responders' = responders \ {id}
  /\ IF Open
     THEN Enqueue("reply", id, late, TRUE)
     ELSE UNCHANGED <<status, limits, incoming, reserved_ids, outgoing, retained_bytes,
                      wireVars, opVars, submitVars, promiseVars>>
  /\ UNCHANGED <<pc, autoreplies, receiving, unknown, threadVars, closeVars>>

(* Responder::drop, up to the point where autoreply has read the timeout.  *)
DropResponder(id) ==
  /\ id \in responders
  /\ responders' = responders \ {id}
  /\ autoreplies' = IF Open THEN autoreplies \cup {id} ELSE autoreplies
  /\ UNCHANGED <<status, limits, incoming, reserved_ids, outgoing, retained_bytes, pc,
                 wireVars, opVars, submitVars, promiseVars, receiving, unknown,
                 threadVars, closeVars>>

(* The second half of autoreply for a dropped responder; nobody keeps the  *)
(* promise, and a session closed in between ignores the reply.             *)
Autoreply(id, late) ==
  /\ id \in autoreplies
  /\ autoreplies' = autoreplies \ {id}
  /\ IF Open
     THEN Enqueue("reply", id, late, FALSE)
     ELSE UNCHANGED <<status, limits, incoming, reserved_ids, outgoing, retained_bytes,
                      wireVars, opVars, submitVars, promiseVars>>
  /\ UNCHANGED <<pc, responders, receiving, unknown, threadVars, closeVars>>

(* Session::recv taking the front request under the lock.  An empty queue   *)
(* waits, and a closed session returns its error.                          *)
RecvTake ==
  /\ pc["recv"] = "ready"
  /\ Open
  /\ incoming # <<>>
  /\ receiving' = <<Head(incoming)>>
  /\ incoming' = Tail(incoming)
  /\ pc' = [pc EXCEPT !["recv"] = "decode"]
  /\ UNCHANGED <<status, limits, reserved_ids, outgoing, retained_bytes, wireVars, opVars,
                 submitVars, promiseVars, responders, autoreplies, unknown,
                 threadVars, closeVars>>

(* recv outside the lock: IncomingEnvelope::decode gives the bytes back    *)
(* before it decodes.  The responder reaches the application, or a         *)
(* malformed body goes on to close the session.                            *)
RecvDecode(valid) ==
  /\ pc["recv"] = "decode"
  /\ retained_bytes' = retained_bytes - receiving[1].bytes
  /\ IF valid
     THEN /\ responders' = responders \cup {receiving[1].id}
          /\ receiving' = <<>>
          /\ pc' = [pc EXCEPT !["recv"] = "ready"]
     ELSE /\ pc' = [pc EXCEPT !["recv"] = "malformed"]
          /\ UNCHANGED <<responders, receiving>>
  /\ UNCHANGED <<status, limits, incoming, reserved_ids, outgoing, wireVars, opVars,
                 submitVars, promiseVars, autoreplies, unknown, threadVars, closeVars>>

(* decode closes the session, then recv's error drops the responder, whose *)
(* automatic reply a closed session ignores.                               *)
RecvMalformed ==
  /\ pc["recv"] = "malformed"
  /\ CloseState("Malformed")
  /\ receiving' = <<>>
  /\ pc' = [pc EXCEPT !["recv"] = "ready"]
  /\ UNCHANGED <<limits, retained_bytes, next_id, wire_id, due, submitVars, promiseVars,
                 responders, autoreplies, unknown, threadVars>>

(* ByteCharge::drop for the unread response of k, if it holds one.         *)
LeakCharge(k) ==
  /\ unread' = [unread EXCEPT ![k] = 0]
  /\ UNCHANGED retained_bytes

ReleaseUnread(k) ==
  /\ retained_bytes' = retained_bytes - unread[k]
  /\ unread' = [unread EXCEPT ![k] = 0]

(* Dropping a promise releases an unread response.                         *)
DropPromise(k) ==
  /\ k \in held
  /\ held' = held \ {k}
  /\ ReleaseUnread(k)
  /\ UNCHANGED <<status, limits, incoming, reserved_ids, outgoing, pc, wireVars, opVars,
                 submitVars, holderVars, threadVars, closeVars>>

(* Promise::wait taking a published result.  A malformed response body     *)
(* goes on to close the session.                                           *)
TakeResult(k, valid) ==
  /\ k \in held
  /\ promise[k] \in Results
  /\ ~valid => promise[k] = "Response"
  /\ held' = held \ {k}
  /\ ReleaseUnread(k)
  /\ bad_waits' = (bad_waits \/ ~valid)
  /\ UNCHANGED <<status, limits, incoming, reserved_ids, outgoing, pc, wireVars, opVars,
                 submitVars, holderVars, reader_error, writing, closeVars>>

(* The close of a Promise::wait that found a malformed body.               *)
CloseMalformedWait ==
  /\ bad_waits
  /\ bad_waits' = FALSE
  /\ CloseState("Malformed")
  /\ UNCHANGED <<limits, retained_bytes, pc, next_id, wire_id, due, submitVars, promiseVars,
                 holderVars, reader_error, writing>>

(* SessionInner::set_inbound_limits: lowering a limit below the usage      *)
(* closes the session.                                                     *)
SetInboundLimits(l) ==
  /\ Open
  /\ limits' = l
  /\ IF Cardinality(reserved_ids) > l.requests
     THEN CloseState("InboundRequestLimitExceeded")
     ELSE IF retained_bytes > l.bytes
          THEN CloseState("InboundByteLimitExceeded")
          ELSE UNCHANGED <<status, promise, operations, outgoing, incoming, removed,
                           reserved_ids, outstanding, finishing>>
  /\ UNCHANGED <<retained_bytes, pc, next_id, wire_id, due, submitVars, promiseVars,
                 holderVars, threadVars>>

(* Session::close, Session::drop and Closer::close.                        *)
Close ==
  /\ Open
  /\ CloseState("Closed")
  /\ UNCHANGED <<limits, retained_bytes, pc, next_id, wire_id, due, submitVars, promiseVars,
                 holderVars, threadVars>>
----------------------------------------------------------------------------
(* Closing and time.                                                       *)

(* finish_close outside the lock: drop the removed envelopes one by one,   *)
(* then close the client's stream.                                         *)
FinishClose ==
  /\ finishing = "drop"
  /\ \/ /\ removed # <<>>
        /\ retained_bytes' = retained_bytes - Head(removed).bytes
        /\ removed' = Tail(removed)
        /\ UNCHANGED finishing
     \/ /\ removed = <<>>
        /\ finishing' = "done"
        /\ UNCHANGED <<removed, retained_bytes>>
  /\ UNCHANGED <<status, limits, incoming, reserved_ids, outgoing, pc, wireVars, opVars,
                 submitVars, promiseVars, holderVars, threadVars>>

(* The clock reaches the deadline of a pending operation.                  *)
DeadlinePasses(k) ==
  /\ k \in operations \ due
  /\ due' = due \cup {k}
  /\ UNCHANGED <<status, limits, incoming, reserved_ids, outgoing, retained_bytes, pc,
                 wireVars, operations, promise, submitVars, promiseVars, holderVars,
                 threadVars, closeVars>>

(* State::expire: fail expired operations, discard their queued messages   *)
(* and release the IDs of the discarded replies.                           *)
ExpireState ==
  /\ SettleExpired
  /\ operations' = LiveOperations
  /\ outgoing' = LiveOutgoing
  /\ reserved_ids' = reserved_ids \ ExpiredReplyIds

(* The deadline worker, a Promise::wait or the writer services deadlines.   *)
Expire ==
  /\ Open
  /\ operations \cap due # {}
  /\ ExpireState
  /\ UNCHANGED <<status, limits, incoming, retained_bytes, pc, wireVars, due, submitVars,
                 promiseVars, holderVars, threadVars, closeVars>>
----------------------------------------------------------------------------
(* The reader: run_reader and handle_message.                              *)

(* The reader leaves its loop with an error and goes on to close.          *)
ReaderFails(error) ==
  /\ reader_error' = error
  /\ pc' = [pc EXCEPT !["reader"] = "close"]

(* The transport fails, or the outer envelope does not decode, or a        *)
(* request carries an error.                                               *)
ReceiveError ==
  /\ pc["reader"] = "ready"
  /\ \E error \in {"Transport", "Malformed"} : ReaderFails(error)
  /\ UNCHANGED <<status, limits, incoming, reserved_ids, outgoing, retained_bytes, wireVars,
                 opVars, submitVars, promiseVars, holderVars, bad_waits, writing,
                 closeVars>>

(* ByteCharge::reserve.                                                    *)
FitsBeforeCharge(bytes) == retained_bytes <= limits.bytes
Fits(bytes) == retained_bytes + bytes <= limits.bytes

(* admit_request, and the start of the automatic reply to unknown content. *)
HandleRequest(id, bytes, known) ==
  /\ pc["reader"] = "ready"
  /\ IsRequest(id)
  /\ \/ /\ \/ ~Open /\ ReaderFails(status)
           \/ Open /\ id \in reserved_ids /\ ReaderFails("Malformed")
           \/ /\ Open
              /\ id \notin reserved_ids
              /\ Cardinality(reserved_ids) >= limits.requests
              /\ ReaderFails("InboundRequestLimitExceeded")
           \/ /\ Open
              /\ id \notin reserved_ids
              /\ Cardinality(reserved_ids) < limits.requests
              /\ known
              /\ ~Fits(bytes)
              /\ ReaderFails("InboundByteLimitExceeded")
        /\ UNCHANGED <<incoming, reserved_ids, retained_bytes, unknown>>
     \/ /\ Open
        /\ id \notin reserved_ids
        /\ Cardinality(reserved_ids) < limits.requests
        /\ known => Fits(bytes)
        /\ reserved_ids' = reserved_ids \cup {id}
        /\ IF known
           THEN /\ incoming' = Append(incoming, [id |-> id, bytes |-> bytes])
                /\ retained_bytes' = retained_bytes + bytes
                /\ UNCHANGED <<pc, unknown>>
           ELSE /\ unknown' = {id}
                /\ pc' = [pc EXCEPT !["reader"] = "unknown"]
                /\ UNCHANGED <<incoming, retained_bytes>>
        /\ UNCHANGED reader_error
  /\ UNCHANGED <<status, limits, outgoing, wireVars, opVars, submitVars, promiseVars,
                 responders, autoreplies, receiving, bad_waits, writing, closeVars>>

(* reply_unknown: autoreply reads the timeout under the lock, then queues  *)
(* the reply under it again.  A session closed before either does nothing. *)
ReadAutoreplyTimeout ==
  /\ pc["reader"] = "unknown"
  /\ pc' = [pc EXCEPT !["reader"] = IF Open THEN "autoreply" ELSE "ready"]
  /\ unknown' = IF Open THEN unknown ELSE {}
  /\ UNCHANGED <<status, limits, incoming, reserved_ids, outgoing, retained_bytes, wireVars,
                 opVars, submitVars, promiseVars, responders, autoreplies, receiving,
                 threadVars, closeVars>>

ReplyUnknown(late) ==
  /\ pc["reader"] = "autoreply"
  /\ pc' = [pc EXCEPT !["reader"] = "ready"]
  /\ unknown' = {}
  /\ IF Open
     THEN \E id \in unknown : Enqueue("reply", id, late, FALSE)
     ELSE UNCHANGED <<status, limits, incoming, reserved_ids, outgoing, retained_bytes,
                      wireVars, opVars, submitVars, promiseVars>>
  /\ UNCHANGED <<responders, autoreplies, receiving, threadVars, closeVars>>

(* A response routed by outstanding, and complete_response.  An ID without *)
(* a pending operation belongs to a request that timed out.                *)
HandleResponse(id, bytes) ==
  /\ pc["reader"] = "ready"
  /\ ~IsRequest(id)
  /\ IF ~Open
     THEN /\ ReaderFails(status)
          /\ UNCHANGED <<outstanding, operations, promise, unread, retained_bytes>>
     ELSE LET k == outstanding[id]
              pending == k \in operations
              onTime == pending /\ k \notin due
              fits == onTime /\ Fits(bytes)
          IN /\ outstanding' = [outstanding EXCEPT ![id] = NoKey]
             /\ operations' = operations \ {k}
             /\ Settle({k} \cap operations,
                       LAMBDA j : IF fits THEN "Response"
                                  ELSE Failure(j, "InboundByteLimitExceeded"))
             /\ IF fits /\ k \in held
                THEN /\ unread' = [unread EXCEPT ![k] = bytes]
                     /\ retained_bytes' = retained_bytes + bytes
                ELSE UNCHANGED <<unread, retained_bytes>>
             /\ IF onTime /\ ~fits /\ k \in held
                THEN ReaderFails("InboundByteLimitExceeded")
                ELSE UNCHANGED <<pc, reader_error>>
  /\ UNCHANGED <<status, limits, incoming, reserved_ids, outgoing, next_id, wire_id, due,
                 submitVars, held, holderVars, bad_waits, writing, closeVars>>

ReaderClose ==
  /\ pc["reader"] = "close"
  /\ CloseState(reader_error)
  /\ pc' = [pc EXCEPT !["reader"] = "done"]
  /\ UNCHANGED <<limits, retained_bytes, next_id, wire_id, due, submitVars, promiseVars,
                 holderVars, threadVars>>
----------------------------------------------------------------------------
(* The writer: next_outgoing, run_writer and record_write.                 *)

(* The front of the queue is its oldest key.                               *)
IsFront(k, queue) == k \in queue /\ \A j \in queue : k <= j

(* The route a response to id will take, recorded before the send starts.  *)
RouteAfterSend(id, k) == UNCHANGED outstanding
Route(id, k) == outstanding' = [outstanding EXCEPT ![id] = k]

(* next_outgoing takes a message: a request gets its ID and its response   *)
(* route, a reply releases its reservation.                                *)
NextOutgoing ==
  /\ pc["writer"] = "ready"
  /\ Open
  /\ \E k \in Keys :
       LET reply == kind[k] = "reply"
           assigned == ~reply /\ ~Exhausted
       IN /\ IsFront(k, LiveOutgoing)
          /\ SettleExpired
          /\ operations' = LiveOperations
          /\ outgoing' = LiveOutgoing \ {k}
          /\ writing' = k
          /\ reserved_ids' = (reserved_ids \ ExpiredReplyIds) \ (IF reply THEN {wire_id[k]} ELSE {})
          /\ IF assigned
             THEN /\ wire_id' = [wire_id EXCEPT ![k] = next_id]
                  /\ Route(next_id, k)
                  /\ next_id' = NextId(next_id)
             ELSE UNCHANGED wireVars
          /\ pc' = [pc EXCEPT !["writer"] = IF reply \/ assigned THEN "send" ELSE "abort"]
  /\ UNCHANGED <<status, limits, incoming, retained_bytes, due, submitVars, promiseVars,
                 holderVars, reader_error, bad_waits, closeVars>>

(* next_outgoing returns None once the session is closed.                  *)
WriterStops ==
  /\ pc["writer"] = "ready"
  /\ ~Open
  /\ pc' = [pc EXCEPT !["writer"] = "disconnect"]
  /\ UNCHANGED <<status, limits, incoming, reserved_ids, outgoing, retained_bytes, wireVars,
                 opVars, submitVars, promiseVars, holderVars, threadVars, closeVars>>

(* Encoding and the transport send, without the lock: the message is       *)
(* written, refused before sending, or the transport fails.                *)
WriterSend ==
  /\ pc["writer"] = "send"
  /\ \E label \in {"written", "unroute", "close"} : pc' = [pc EXCEPT !["writer"] = label]
  /\ UNCHANGED <<status, limits, incoming, reserved_ids, outgoing, retained_bytes, wireVars,
                 opVars, submitVars, promiseVars, holderVars, threadVars, closeVars>>

(* A refused request was never sent, so its ID expects no answer.          *)
WriterUnroute ==
  /\ pc["writer"] = "unroute"
  /\ pc' = [pc EXCEPT !["writer"] = "refused"]
  /\ outstanding' = IF Open /\ kind[writing] = "request"
                    THEN [outstanding EXCEPT ![wire_id[writing]] = NoKey]
                    ELSE outstanding
  /\ UNCHANGED <<status, limits, incoming, reserved_ids, outgoing, retained_bytes, next_id,
                 wire_id, opVars, submitVars, promiseVars, holderVars, threadVars, closeVars>>

(* The operation a write result settles, if it is still pending.           *)
SettleAnyway(failed) == {k \in {writing} : failed \/ kind[k] = "reply"}
SettleWritten(failed) == {writing} \cap operations
WriteSettles(failed) == {writing} \cap {k \in operations : failed \/ kind[k] = "reply"}

(* record_write: a failed or late write fails the operation, a written     *)
(* reply completes it, and a written request keeps waiting.                *)
RecordWrite ==
  /\ pc["writer"] \in {"written", "refused"}
  /\ LET failed == pc["writer"] = "refused" \/ writing \in due
         settles == WriteSettles(failed)
     IN /\ Settle(settles, LAMBDA k : IF failed THEN Failure(k, "Refused") ELSE "Written")
        /\ operations' = operations \ settles
  /\ pc' = [pc EXCEPT !["writer"] = "ready"]
  /\ writing' = NoKey
  /\ UNCHANGED <<status, limits, incoming, reserved_ids, outgoing, retained_bytes, wireVars,
                 due, submitVars, promiseVars, holderVars, reader_error, bad_waits,
                 closeVars>>

(* A transport failure closes the session before the writer leaves.        *)
WriterClose ==
  /\ pc["writer"] = "close"
  /\ CloseState("Transport")
  /\ pc' = [pc EXCEPT !["writer"] = "disconnect"]
  /\ writing' = NoKey
  /\ UNCHANGED <<limits, retained_bytes, next_id, wire_id, due, submitVars, promiseVars,
                 holderVars, reader_error, bad_waits>>

(* Sender::disconnect ends the transport session; the writer exits.        *)
WriterDisconnect ==
  /\ pc["writer"] = "disconnect"
  /\ pc' = [pc EXCEPT !["writer"] = "done"]
  /\ UNCHANGED <<status, limits, incoming, reserved_ids, outgoing, retained_bytes, wireVars,
                 opVars, submitVars, promiseVars, holderVars, threadVars, closeVars>>
----------------------------------------------------------------------------
Application ==
  \/ \E late \in BOOLEAN : Request(late)
  \/ \E id \in Ids, late \in BOOLEAN : Reply(id, late)
  \/ \E id \in Ids : DropResponder(id)
  \/ \E id \in Ids, late \in BOOLEAN : Autoreply(id, late)
  \/ RecvTake
  \/ \E valid \in BOOLEAN : RecvDecode(valid)
  \/ RecvMalformed
  \/ \E k \in Keys : DropPromise(k)
  \/ \E k \in Keys, valid \in BOOLEAN : TakeResult(k, valid)
  \/ CloseMalformedWait
  \/ \E l \in Limits : SetInboundLimits(l)
  \/ Close

Reader ==
  \/ ReceiveError
  \/ \E id \in InboundIds, bytes \in Sizes, known \in BOOLEAN : HandleRequest(id, bytes, known)
  \/ \E id \in InboundIds, bytes \in Sizes : HandleResponse(id, bytes)
  \/ ReadAutoreplyTimeout
  \/ \E late \in BOOLEAN : ReplyUnknown(late)
  \/ ReaderClose

Writer ==
  \/ NextOutgoing
  \/ WriterStops
  \/ WriterSend
  \/ WriterUnroute
  \/ RecordWrite
  \/ WriterClose
  \/ WriterDisconnect

Clock ==
  \/ \E k \in Keys : DeadlinePasses(k)
  \/ Expire

(* An exhausted ID space panics in the writer, which aborts the process.   *)
Next ==
  /\ pc["writer"] # "abort"
  /\ Application \/ Reader \/ Writer \/ Clock \/ FinishClose

Spec == Init /\ [][Next]_vars
----------------------------------------------------------------------------
(* Types of every variable.                                                *)
TypeOK ==
  /\ status \in {"Open"} \cup Reasons
  /\ limits \in Bounds
  /\ incoming \in Seq(Envelopes)
  /\ reserved_ids \in SUBSET Ids
  /\ outgoing \in SUBSET Keys
  /\ next_id \in NextIds
  /\ outstanding \in [Ids -> Keys \cup {NoKey}]
  /\ operations \in SUBSET Keys
  /\ last_key \in 0 .. MaxOps
  /\ kind \in [Keys -> {"none", "request", "reply"}]
  /\ wire_id \in [Keys -> NextIds]
  /\ due \in SUBSET Keys
  /\ promise \in [Keys -> PromiseStates]
  /\ held \in SUBSET Keys
  /\ unread \in [Keys -> Nat]
  /\ retained_bytes \in Int
  /\ removed \in Seq(Envelopes)
  /\ responders \in SUBSET Ids
  /\ autoreplies \in SUBSET Ids
  /\ receiving \in Seq(Envelopes)
  /\ unknown \in SUBSET Ids
  /\ reader_error \in {"none"} \cup Reasons
  /\ bad_waits \in BOOLEAN
  /\ writing \in Keys \cup {NoKey}
  /\ finishing \in {"none", "drop", "done"}
  /\ pc \in [Threads -> Labels]

(* run_writer, expire, close, record_write and handle_message all take an  *)
(* operation out of the map before publishing its result.  A promise       *)
(* without a result therefore always has an operation that will settle it, *)
(* and Promise::wait never finds its sender gone.                          *)
PendingHasOperation ==
  \A k \in Keys : promise[k] = "pending" <=> k \in operations

(* A promise completes once: no late response, write result, expiry or     *)
(* closure changes a published result.                                     *)
ResultIsFinal ==
  [][\A k \in Keys : promise[k] \in Results => promise'[k] = promise[k]]_vars

(* The writer only ever starts sending a message whose promise is still    *)
(* open: an operation that expired in the queue, or was failed by closing, *)
(* is not sent afterwards.                                                 *)
OnlyPendingIsSent ==
  [][writing' \notin {writing, NoKey} => promise'[writing'] = "pending"]_vars

(* handle_message routes a response by the ID next_outgoing recorded.      *)
(* Every route leads to the one request that was sent under that ID, and a *)
(* pending request the writer has taken keeps its route until answered,    *)
(* even when the answer overtakes the local write, so its answer always    *)
(* finds it.  Only a request refused before sending loses its route.       *)
RoutesMatchRequests ==
  /\ \A id \in Ids : outstanding[id] # NoKey =>
       /\ kind[outstanding[id]] = "request"
       /\ wire_id[outstanding[id]] = id
       /\ id < next_id
       /\ outstanding[id] \notin outgoing
  /\ \A k \in operations \ outgoing :
       kind[k] = "request" =>
         \/ wire_id[k] \in Ids /\ outstanding[wire_id[k]] = k
         \/ writing = k /\ pc["writer"] \in {"refused", "abort"}

Contract == INSTANCE SessionContract WITH submitted <- last_key

(* The session keeps its contract with the application: every request and  *)
(* reply gets one result of the kind its promise expects, whoever wins the *)
(* race between response, write, deadline and closure, and closing gives   *)
(* all pending ones theirs at once.                                        *)
KeepsContract == Contract!Spec

(* The places an accepted request ID can be between admission and answer.  *)
IdsOf(s) == {s[i].id : i \in DOMAIN s}
QueuedReplyIds == {wire_id[k] : k \in outgoing \cap Replies}

(* reserved_ids holds exactly the accepted requests that still owe an      *)
(* answer, and each is owed by exactly one of: the receive queue, a recv   *)
(* in progress, a responder, an automatic reply being queued, a queued     *)
(* reply.  So no request is answered twice, none loses its slot while it   *)
(* is owed, and none keeps a slot nobody will release.                     *)
OneHolderPerRequest ==
  Open =>
    /\ reserved_ids = UNION {IdsOf(incoming), IdsOf(receiving), responders, autoreplies,
                             unknown, QueuedReplyIds}
    /\ \A i, j \in DOMAIN incoming : incoming[i].id = incoming[j].id => i = j
    /\ \A j, k \in outgoing \cap Replies : wire_id[j] = wire_id[k] => j = k
    /\ IdsOf(incoming) \cap UNION {IdsOf(receiving), responders, autoreplies, unknown,
                                   QueuedReplyIds} = {}
    /\ IdsOf(receiving) \cap UNION {responders, autoreplies, unknown, QueuedReplyIds} = {}
    /\ responders \cap UNION {autoreplies, unknown, QueuedReplyIds} = {}
    /\ autoreplies \cap UNION {unknown, QueuedReplyIds} = {}
    /\ unknown \cap QueuedReplyIds = {}

(* An open session never exceeds the limits in force, also when they are   *)
(* lowered while requests and responses are being admitted.                *)
WithinLimits ==
  Open => /\ Cardinality(reserved_ids) <= limits.requests
          /\ retained_bytes <= limits.bytes

(* The sum of a sequence of numbers.                                       *)
Total(s) ==
  LET upTo[i \in 0 .. Len(s)] == IF i = 0 THEN 0 ELSE upTo[i - 1] + s[i]
  IN  upTo[Len(s)]

Charges(s) == [i \in DOMAIN s |-> s[i].bytes]

(* The counter always equals the charges of the envelopes that still exist:*)
(* queued requests, a request recv has taken and not decoded, unread       *)
(* responses, and the envelopes a closed session has yet to drop.  It      *)
(* never leaks a charge and never underflows (envelope.rs ByteCharge).     *)
RetainedBytesExact ==
  retained_bytes = Total(Charges(incoming)) + Total(Charges(removed)) + Total(unread)
                   + IF pc["recv"] = "decode" THEN receiving[1].bytes ELSE 0
============================================================================
