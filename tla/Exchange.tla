------------------------------ MODULE Exchange ------------------------------
(***************************************************************************)
(* Two sessions talking to each other: a client (host) and a server (Ark), *)
(* their applications, workers and handles, with envelopes encoded and     *)
(* decoded by Envelope between them.  The builds may know different        *)
(* contents, and a foreign implementation may slip in envelopes of its     *)
(* own making.                                                             *)
(*                                                                         *)
(* Steps are coarse: what Session does in several critical sections is one *)
(* step here.  The transport delivers in order until a session ends.  A    *)
(* write may fail at any time, and so may the notice by which a server     *)
(* tells its client that the session is over.  Byte limits are left to     *)
(* Session.                                                                *)
(*                                                                         *)
(* A SessionInner is kept alive by the application's Session and by the    *)
(* session's workers; requesters, responders and closers hold it weakly.   *)
(***************************************************************************)
EXTENDS Envelope

CONSTANTS
  Offered,        \* side -> what its application may request
  Answers,        \* side -> what its application may answer
  Foreign,        \* envelopes of a foreign implementation
  MaxMessages,    \* bound on the requests and the foreign envelopes together
  MaxForeign,     \* bound on the foreign envelopes
  MaxInbound      \* side -> its max_inbound_requests

(* Contents are numbered from FirstContentTag, and a request is a content. *)
ASSUME ExchangeAssumption ==
  /\ Schema \in [Sides -> SUBSET Nat]
  /\ \A side \in Sides :
       /\ \A tag \in Schema[side] : tag >= FirstContentTag
       /\ \A r \in Offered[side] : r.ok /\ r = Ok(r.body, r.value)
       /\ \A r \in Answers[side] : r = IF r.ok THEN Ok(r.body, r.value) ELSE Err(r.code)

VARIABLES
  session,   \* side -> its Session and SessionInner
  wire,      \* side -> what is on its way to that side
  notice,    \* "due" while the server's sealer is bound, then how it last told its client
  foreign,   \* foreign envelopes so far
  sent,      \* history: <<side, id, n>> when request n was sent as id
  answered,  \* history: <<side, id, result>> when that side answered id
  rejected   \* history: side -> the envelope it called malformed

vars == <<session, wire, notice, foreign, sent, answered, rejected>>
history == <<sent, answered, rejected>>

Workers(side) == {"writer", "deadlines"} \cup (IF side = Client THEN {"reader"} ELSE {})

Pending == [state |-> "pending"]
Ready(fields) == [state |-> "ready", fields |-> fields]
Failed(error) == [state |-> "failed", error |-> error]
Done(result) == [state |-> "done", result |-> result]

AskedAs(n, result) == [kind |-> "request", n |-> n, result |-> result]
ReplyTo(id, result) == [kind |-> "reply", id |-> id, result |-> result]

End == [kind |-> "end", fields |-> <<>>]
Envelope(fields) == [kind |-> "message", fields |-> fields]

(* connect and Session::start: the session and its workers.                *)
Started(side) ==
  [closed |-> "open", owned |-> TRUE, running |-> Workers(side),
   asked |-> <<>>, promise |-> <<>>, outgoing |-> <<>>, nextId |-> FirstId(side),
   outstanding |-> {}, incoming |-> <<>>, reserved |-> {}, held |-> {}]

Init ==
  /\ session = [side \in Sides |-> Started(side)]
  /\ wire = [side \in Sides |-> <<>>]
  /\ notice = "due"
  /\ foreign = 0
  /\ sent = {}
  /\ answered = {}
  /\ rejected = [side \in Sides |-> {}]

IsOpen(side) == session[side].closed = "open"
Freed(side) == ~session[side].owned /\ session[side].running = {}

(* A client session closes its stream when it closes.                      *)
Connected == IsOpen(Client)

(* Bound: what the applications and a foreign implementation have begun.   *)
Begun == Len(session[Client].promise) + Len(session[Server].promise) + foreign

Becomes(side, s) == session' = [session EXCEPT ![side] = s]

(* SessionInner::close: the first reason stays, and fails what is pending. *)
Closed(s, reason) ==
  IF s.closed # "open" THEN s
  ELSE [s EXCEPT !.closed = reason,
                 !.promise = [n \in DOMAIN s.promise |->
                                IF s.promise[n] = Pending THEN Failed(reason) ELSE s.promise[n]],
                 !.outgoing = <<>>, !.outstanding = {}, !.incoming = <<>>, !.reserved = {}]
----------------------------------------------------------------------------
(* The application.                                                        *)

(* Requester::request fails at once on a session that is closed or gone.   *)
Request(side, result) ==
  LET s == session[side]  n == Len(s.promise) + 1 IN
  /\ Begun < MaxMessages
  /\ Becomes(side,
       IF IsOpen(side)
       THEN [s EXCEPT !.asked = Append(@, result), !.promise = Append(@, Pending),
                      !.outgoing = Append(@, AskedAs(n, result))]
       ELSE [s EXCEPT !.asked = Append(@, result),
                      !.promise = Append(@, Failed(IF Freed(side) THEN "Closed" ELSE s.closed))])
  /\ UNCHANGED <<wire, notice, foreign, history>>

(* Session::recv decodes the next request and hands out its responder.     *)
Recv(side) ==
  LET s == session[side]  next == Head(s.incoming) IN
  /\ s.owned
  /\ s.incoming # <<>>
  /\ IF DecodeOk(side, next.fields)
     THEN /\ Becomes(side, [s EXCEPT !.incoming = Tail(@), !.held = @ \cup {next.id}])
          /\ UNCHANGED rejected
     ELSE /\ Becomes(side, Closed(s, "Malformed"))
          /\ rejected' = [rejected EXCEPT ![side] = @ \cup {<<next.fields, FALSE>>}]
  /\ UNCHANGED <<wire, notice, foreign, sent, answered>>

(* Responder::reply and fail, and the drop of an unanswered responder.     *)
Answer(side, id, result) ==
  LET s == session[side]  released == [s EXCEPT !.held = @ \ {id}] IN
  /\ id \in s.held
  /\ IF IsOpen(side)
     THEN /\ Becomes(side, [released EXCEPT !.outgoing = Append(@, ReplyTo(id, result))])
          /\ answered' = answered \cup {<<side, id, result>>}
     ELSE Becomes(side, released) /\ UNCHANGED answered
  /\ UNCHANGED <<wire, notice, foreign, sent, rejected>>

(* Promise::wait decodes the response, and expects the type it asked for.  *)
Expects(side, n, body) == body = Content(Peer(side), session[side].asked[n].body.tag)

Wait(side, n) ==
  LET s == session[side]
      fields == s.promise[n].fields
      result == Decode(side, fields)
      outcome == IF result.ok /\ ~Expects(side, n, result.body)
                 THEN Failed("UnexpectedResponse") ELSE Done(result)
  IN
  /\ s.promise[n].state = "ready"
  /\ IF DecodeOk(side, fields)
     THEN /\ Becomes(side, [s EXCEPT !.promise[n] = outcome])
          /\ UNCHANGED rejected
     ELSE /\ Becomes(side, Closed([s EXCEPT !.promise[n] = Failed("Malformed")], "Malformed"))
          /\ rejected' = [rejected EXCEPT ![side] = @ \cup {<<fields, FALSE>>}]
  /\ UNCHANGED <<wire, notice, foreign, sent, answered>>

(* Session::close and Closer::close, which upgrades its weak reference.    *)
Close(side) ==
  /\ ~Freed(side) /\ IsOpen(side)
  /\ Becomes(side, Closed(session[side], "Closed"))
  /\ UNCHANGED <<wire, notice, foreign, history>>

(* Dropping the Session closes it, whatever handles remain.                *)
Dropped(s) == [Closed(s, "Closed") EXCEPT !.owned = FALSE]

Drop(side) ==
  /\ session[side].owned
  /\ Becomes(side, Dropped(session[side]))
  /\ UNCHANGED <<wire, notice, foreign, history>>
----------------------------------------------------------------------------
(* The writer.                                                             *)

(* next_outgoing: a request gets its ID and route, a reply frees its slot. *)
Taken(s, next) ==
  IF next.kind = "request"
  THEN [s EXCEPT !.outgoing = Tail(@), !.nextId = @ + 2,
                 !.outstanding = @ \cup {<<s.nextId, next.n>>}]
  ELSE [s EXCEPT !.outgoing = Tail(@), !.reserved = @ \ {next.id}]

(* A message that cannot be encoded fails its own promise and no more.     *)
Refused(s, next, id, refusal) ==
  IF next.kind = "request"
  THEN [s EXCEPT !.outstanding = @ \ {<<id, next.n>>}, !.promise[next.n] = Failed(refusal)]
  ELSE s

(* send_dropped over what is on the wire: it reaches the client or fails,  *)
(* as it does on a stream that has ended.                                  *)
Notify(w) ==
  \/ Connected /\ wire' = [w EXCEPT ![Client] = Append(@, End)] /\ notice' = "told"
  \/ wire' = w /\ notice' = "lost"

(* Writer::send fails: the transport session ends, and a server may tell   *)
(* its client.  All of the frame may have been written by then.            *)
SendFails(side, w) ==
  IF side = Server THEN Notify(w) ELSE wire' = w /\ UNCHANGED notice

(* A write succeeds, on a stream that has ended too, or fails and closes   *)
(* the session.                                                            *)
Write(side) ==
  LET s == session[side]
      next == Head(s.outgoing)
      id == IF next.kind = "request" THEN s.nextId ELSE next.id
      refusal == Refusal(side, next.result)
      written == [wire EXCEPT ![Peer(side)] = Append(@, Envelope(Encode(side, id, next.result)))]
      known == IF next.kind = "request" THEN sent \cup {<<side, id, next.n>>} ELSE sent
  IN
  /\ "writer" \in s.running /\ s.outgoing # <<>>
  /\ \/ /\ refusal # "none"
        /\ Becomes(side, Refused(Taken(s, next), next, id, refusal))
        /\ UNCHANGED <<wire, notice, sent>>
     \/ /\ refusal = "none"
        /\ Becomes(side, Taken(s, next))
        /\ wire' = written /\ sent' = known /\ UNCHANGED notice
     \/ /\ refusal = "none"
        /\ Becomes(side, Closed(Taken(s, next), "Transport"))
        /\ \/ SendFails(side, written) /\ sent' = known
           \/ SendFails(side, wire) /\ sent' = sent
  /\ UNCHANGED <<foreign, answered, rejected>>

Stopped(s, worker) == [s EXCEPT !.running = @ \ {worker}]

(* After a close the writer disconnects: a server tells its client unless  *)
(* its sealer is gone since a failed send, while a client's stream has     *)
(* ended anyway.                                                           *)
DisconnectSilently(side) == UNCHANGED <<wire, notice>>
Disconnect(side) ==
  IF side = Server /\ notice = "due" THEN Notify(wire) ELSE UNCHANGED <<wire, notice>>

WriterStops(side) ==
  /\ ~IsOpen(side) /\ "writer" \in session[side].running
  /\ Becomes(side, Stopped(session[side], "writer"))
  /\ Disconnect(side)
  /\ UNCHANGED <<foreign, history>>
----------------------------------------------------------------------------
(* The deadline worker.                                                    *)

Queued(s) == {s.outgoing[i] : i \in DOMAIN s.outgoing}

(* The queue without the message in gone: an operation has at most one,    *)
(* so at most one leaves.                                                  *)
Without(queue, gone) ==
  LET late == {i \in DOMAIN queue : queue[i] \in gone}
      at == CHOOSE i \in late : TRUE
  IN  IF late = {} THEN queue
      ELSE [i \in 1 .. Len(queue) - 1 |-> queue[IF i < at THEN i ELSE i + 1]]

(* State::expire: a late operation leaves the queue, and fails with        *)
(* Timeout if it is a request.  Its route stays.                           *)
ExpireRequest(side, n) ==
  LET s == session[side]
      late == {m \in Queued(s) : m.kind = "request" /\ m.n = n}
  IN
  /\ s.promise[n] = Pending
  /\ Becomes(side, [s EXCEPT !.promise[n] = Failed("Timeout"),
                             !.outgoing = Without(@, late)])
  /\ UNCHANGED <<wire, notice, foreign, history>>

ExpireReply(side, id) ==
  LET s == session[side]
      late == {m \in Queued(s) : m.kind = "reply" /\ m.id = id}
  IN
  /\ late # {}
  /\ Becomes(side, [s EXCEPT !.outgoing = Without(@, late), !.reserved = @ \ {id}])
  /\ UNCHANGED <<wire, notice, foreign, history>>

DeadlinesStop(side) ==
  /\ ~IsOpen(side) /\ "deadlines" \in session[side].running
  /\ Becomes(side, Stopped(session[side], "deadlines"))
  /\ UNCHANGED <<wire, notice, foreign, history>>
----------------------------------------------------------------------------
(* The reader: run_reader of a client, and of the server that outlives its *)
(* sessions.                                                               *)

(* handle_message and admit_request: the error they return, or "none".     *)
Verdict(side, fields) ==
  LET s == session[side]  h == DecodeHeader(side, fields) IN
  CASE ~h.ok -> "Malformed"
    [] h.ok /\ IsResponse(side, h.id) -> IF IsOpen(side) THEN "none" ELSE s.closed
    [] h.ok /\ ~IsResponse(side, h.id) /\ h.failed -> "Malformed"
    [] h.ok /\ ~IsResponse(side, h.id) /\ ~h.failed ->
         CASE ~IsOpen(side) -> s.closed
           [] IsOpen(side) /\ h.id \in s.reserved -> "Malformed"
           [] IsOpen(side) /\ h.id \notin s.reserved /\ Cardinality(s.reserved) >= MaxInbound[side] ->
                "InboundRequestLimit"
           [] OTHER -> "none"

Oldest(s, id) == {r \in s.outstanding : \A q \in s.outstanding : r[1] <= q[1]}
Routed(s, id) == {r \in s.outstanding : r[1] = id}

(* A response settles its request, unless it comes too late or for none.   *)
Respond(s, id, fields) ==
  LET routes == Routed(s, id) IN
  [s EXCEPT !.outstanding = @ \ routes,
            !.promise = [n \in DOMAIN s.promise |->
              IF s.promise[n] = Pending /\ \E r \in routes : r[2] = n
              THEN Ready(fields) ELSE s.promise[n]]]

(* A request waits for recv, or is answered UNKNOWN by the session.        *)
Admit(s, h, fields) ==
  IF h.unknown
  THEN [s EXCEPT !.reserved = @ \cup {h.id},
                 !.outgoing = Append(@, ReplyTo(h.id, Err("Unknown")))]
  ELSE [s EXCEPT !.reserved = @ \cup {h.id},
                 !.incoming = Append(@, [id |-> h.id, fields |-> fields])]

HandleMessage(side, fields) ==
  LET s == session[side]
      h == DecodeHeader(side, fields)
      verdict == Verdict(side, fields)
  IN
  IF verdict = "none"
  THEN /\ Becomes(side, IF IsResponse(side, h.id) THEN Respond(s, h.id, fields)
                                                  ELSE Admit(s, h, fields))
       /\ answered' = IF ~IsResponse(side, h.id) /\ h.unknown
                      THEN answered \cup {<<side, h.id, Err("Unknown")>>} ELSE answered
       /\ UNCHANGED rejected
  ELSE /\ Becomes(side, Stopped(Closed(s, verdict), "reader"))
       /\ rejected' = IF verdict = "Malformed" /\ IsOpen(side)
                      THEN [rejected EXCEPT ![side] = @ \cup {<<fields, h.id \in s.reserved>>}]
                      ELSE rejected
       /\ UNCHANGED answered

Reads(side) ==
  IF side = Client THEN "reader" \in session[Client].running /\ Connected ELSE TRUE

(* A server's transport that has ended its session opens no more frames,   *)
(* and answers each with another notice.                                   *)
Refuses(side) == side = Server /\ notice # "due"

Read(side) ==
  LET item == Head(wire[side])
      rest == [wire EXCEPT ![side] = Tail(@)]
  IN
  /\ Reads(side) /\ wire[side] # <<>>
  /\ \/ /\ ~Refuses(side) /\ item.kind = "message"
        /\ HandleMessage(side, item.fields)
        /\ wire' = rest /\ UNCHANGED notice
     \/ /\ Refuses(side)
        /\ Becomes(side, Closed(session[side], "SessionReset"))
        /\ Notify(rest)
        /\ UNCHANGED <<answered, rejected>>
     \/ /\ ~Refuses(side) /\ item.kind = "end"
        /\ Becomes(side, Stopped(Closed(session[side], "SessionReset"), "reader"))
        /\ wire' = rest /\ UNCHANGED <<notice, answered, rejected>>
  /\ UNCHANGED <<foreign, sent>>

(* A client's reader returns when a read fails, as it does on its closed   *)
(* stream.  The server reads what the client had written, and then the end *)
(* of the stream.                                                          *)
StreamEnds(side) ==
  /\ IF side = Client THEN "reader" \in session[Client].running
                      ELSE ~Connected /\ wire[Server] = <<>> /\ IsOpen(Server)
  /\ Becomes(side, Stopped(Closed(session[side], "Transport"), "reader"))
  /\ UNCHANGED <<wire, notice, foreign, history>>

(* Another implementation of the protocol writes an envelope.              *)
ForeignSends(side, fields) ==
  /\ foreign < MaxForeign /\ Begun < MaxMessages
  /\ Connected /\ IsOpen(side)
  /\ foreign' = foreign + 1
  /\ wire' = [wire EXCEPT ![side] = Append(@, Envelope(fields))]
  /\ UNCHANGED <<session, notice, history>>
----------------------------------------------------------------------------
Next ==
  \E side \in Sides :
    \/ \E result \in Offered[side] : Request(side, result)
    \/ Recv(side)
    \/ \E id \in session[side].held, result \in Answers[side] \cup {Err("Unanswered")} :
         Answer(side, id, result)
    \/ \E n \in DOMAIN session[side].promise : Wait(side, n) \/ ExpireRequest(side, n)
    \/ \E id \in session[side].reserved : ExpireReply(side, id)
    \/ Close(side) \/ Drop(side)
    \/ Write(side) \/ WriterStops(side) \/ DeadlinesStop(side)
    \/ Read(side) \/ StreamEnds(side)
    \/ \E fields \in Foreign : ForeignSends(side, fields)

Spec == Init /\ [][Next]_vars
----------------------------------------------------------------------------
(* What the build of a side does not know is answered UNKNOWN, and what it *)
(* knows is not, unless its application says so itself.                    *)
FitsBuild(side, known, result) ==
  /\ ~known => result = Err("Unknown")
  /\ known /\ result = Err("Unknown") => result \in Answers[side]

(* A promise completes with what the peer answered to that very request:   *)
(* its application's answer, UNANSWERED if it dropped the responder, or    *)
(* UNKNOWN if its build does not know the content, and only then unless    *)
(* its application chose that answer.                                      *)
AnswersMatch ==
  foreign = 0 =>
    \A side \in Sides : \A n \in DOMAIN session[side].promise :
      LET p == session[side].promise[n] IN
      p.state = "done" =>
        /\ \E id \in {q[2] : q \in sent} :
             <<side, id, n>> \in sent /\ <<Peer(side), id, p.result>> \in answered
        /\ FitsBuild(Peer(side), session[side].asked[n].body.tag \in Schema[Peer(side)], p.result)

(* What makes an envelope acceptable, without reference to the decoder:    *)
(* every field whole and of its type, one kind of body, and no error in a  *)
(* request.                                                                *)
WellFormed(side, fields) ==
  LET tags == {fields[i].tag : i \in DOMAIN fields} IN
  /\ \A i \in DOMAIN fields :
       /\ fields[i].wire # "cut"
       /\ fields[i].tag = IdTag => fields[i].wire = "varint"
       /\ fields[i].tag \in {ErrTag} \cup Schema[side] => fields[i].wire = "bytes" /\ fields[i].sound
  /\ ErrTag \in tags <=> ~\E t \in tags : t >= FirstContentTag
  /\ ErrTag \in tags => IsResponse(side, IdOf(fields))

(* A session calls an envelope malformed only if it is, or if it is a      *)
(* response of content the build does not know, or reuses an ID in use.    *)
(* Peers built from this code do none of it but the second.                *)
MalformedIsDeserved ==
  \A side \in Sides : \A r \in rejected[side] :
    LET fields == r[1]
        unknownResponse == /\ IsResponse(side, IdOf(fields))
                           /\ \A i \in DOMAIN fields : fields[i].tag \notin Schema[side]
    IN  \/ unknownResponse
        \/ foreign > 0 /\ (~WellFormed(side, fields) \/ r[2])

(* The threads have nothing left to do until an application moves: no      *)
(* message to write or read, no close to act on, no end of the stream to   *)
(* meet.  Each of their steps consumes an item or a worker, so they get    *)
(* here.                                                                   *)
Quiet ==
  /\ \A side \in Sides :
       /\ "writer" \in session[side].running => IsOpen(side) /\ session[side].outgoing = <<>>
       /\ "deadlines" \in session[side].running => IsOpen(side)
  /\ "reader" \in session[Client].running => Connected /\ wire[Client] = <<>>
  /\ wire[Server] = <<>> /\ (IsOpen(Server) => Connected)

(* Once the threads are done a dropped session is freed, whatever handles, *)
(* requests and answers are left, and the session of its peer has ended:   *)
(* surely that of a server, and that of a client unless the notice failed  *)
(* which the server sent it last, at its end or to a later message.        *)
DropReachesPeer ==
  Quiet =>
    /\ \A side \in Sides : ~session[side].owned => Freed(side)
    /\ ~session[Client].owned => ~IsOpen(Server)
    /\ ~session[Server].owned => ~IsOpen(Client) \/ notice = "lost"
=============================================================================
