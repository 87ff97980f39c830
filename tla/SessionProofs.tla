--------------------------- MODULE SessionProofs ---------------------------
(***************************************************************************)
(* Proofs about Session, for every side, ID space, number of operations,   *)
(* envelope size and limit.                                                *)
(***************************************************************************)
EXTENDS Session, TLAPS

(* What a thread between two critical sections remembers: the reader its   *)
(* closing error, recv the request it took, the writer its message.        *)
ThreadsRemember ==
  /\ pc["reader"] = "close" => reader_error \in Reasons
  /\ pc["recv"] \in {"decode", "malformed"} => Len(receiving) = 1
  /\ pc["writer"] \in {"send", "written", "unroute", "refused"} => writing \in Keys

TypeInv == TypeOK /\ ThreadsRemember

USE DEF Reasons, Results, PromiseStates, Threads, Labels

(* State::close keeps every variable it touches in its type, whatever the  *)
(* reason.                                                                 *)
LEMMA CloseStateTyped ==
  ASSUME TypeOK, NEW reason \in Reasons, CloseState(reason)
  PROVE  /\ status' \in {"Open"} \cup Reasons
         /\ promise' \in [Keys -> PromiseStates]
         /\ operations' \in SUBSET Keys
         /\ outgoing' \in SUBSET Keys
         /\ incoming' \in Seq(Envelopes)
         /\ removed' \in Seq(Envelopes)
         /\ reserved_ids' \in SUBSET Ids
         /\ outstanding' \in [Ids -> Keys \cup {NoKey}]
         /\ finishing' \in {"none", "drop", "done"}
  <1>1. CASE Open
    <2>1. promise' = [k \in Keys |-> IF k \in operations THEN Failure(k, reason) ELSE promise[k]]
      BY <1>1 DEF CloseState, SettleClosed, Settle
    <2>2. promise' \in [Keys -> PromiseStates]
      BY <2>1 DEF TypeOK, Failure
    <2>3. QED
      BY <1>1, <2>2 DEF TypeOK, CloseState
  <1>2. CASE ~Open
    BY <1>2 DEF TypeOK, CloseState
  <1>3. QED
    BY <1>1, <1>2

(* enqueue keeps every variable it touches in its type.                    *)
EnqueuedTyped ==
  /\ last_key' \in 0 .. MaxOps
  /\ kind' \in [Keys -> {"none", "request", "reply"}]
  /\ wire_id' \in [Keys -> NextIds]
  /\ held' \in SUBSET Keys
  /\ due' \in SUBSET Keys
  /\ promise' \in [Keys -> PromiseStates]
  /\ reserved_ids' \in SUBSET Ids
  /\ operations' \in SUBSET Keys
  /\ outgoing' \in SUBSET Keys
  /\ UNCHANGED <<status, limits, incoming, next_id, outstanding, unread, retained_bytes>>

(* enqueue keeps every variable it touches in its type.                    *)
LEMMA EnqueueTyped ==
  ASSUME TypeOK, NEW body \in {"request", "reply"}, NEW id \in Ids,
         NEW late \in BOOLEAN, NEW hold \in BOOLEAN, Enqueue(body, id, late, hold)
  PROVE  EnqueuedTyped
  <1>1. last_key + 1 \in Keys /\ last_key' \in 0 .. MaxOps
    BY ConstantsAssumption DEF TypeOK, Enqueue, Keys
  <1>2. id \in NextIds
    BY ConstantsAssumption DEF Ids, NextIds
  <1>3. QED
    BY SMTT(30), <1>1, <1>2 DEF TypeOK, Enqueue, EnqueuedTyped

(* Every step keeps the types and what the threads remember.               *)
LEMMA TypeStep ==
  ASSUME TypeInv, [Next]_vars
  PROVE  TypeInv'
  <1> USE DEF wireVars, opVars, submitVars, promiseVars, holderVars, threadVars, closeVars, NoKey
  <1>1. ASSUME NEW late \in BOOLEAN, Request(late) PROVE TypeInv'
    <2>1. Enqueue("request", 0, late, TRUE)
      BY Zenon, <1>1 DEF Request
    <2>2. 0 \in Ids
      BY ConstantsAssumption DEF Ids
    <2>3. EnqueuedTyped
      BY Zenon, <2>1, <2>2, EnqueueTyped DEF TypeInv
    <2>4. UNCHANGED <<pc, holderVars, threadVars, closeVars>>
      BY <1>1 DEF Request
    <2>5. QED
      BY <2>3, <2>4 DEF TypeInv, TypeOK, ThreadsRemember, EnqueuedTyped
  <1>2. ASSUME NEW id \in Ids, NEW late \in BOOLEAN, Reply(id, late) PROVE TypeInv'
    <2>1. CASE Open
      <3>1. Enqueue("reply", id, late, TRUE)
        BY Zenon, <1>2, <2>1 DEF Reply
      <3>2. EnqueuedTyped
        BY Zenon, <3>1, EnqueueTyped DEF TypeInv
      <3>3. QED
        BY <1>2, <3>2 DEF TypeInv, TypeOK, ThreadsRemember, Reply, EnqueuedTyped
    <2>2. CASE ~Open
      BY <1>2, <2>2 DEF TypeInv, TypeOK, ThreadsRemember, Reply
    <2>3. QED
      BY Zenon, <2>1, <2>2
  <1>3. ASSUME NEW id \in Ids, DropResponder(id) PROVE TypeInv'
    BY <1>3 DEF TypeInv, TypeOK, ThreadsRemember, DropResponder
  <1>4. ASSUME NEW id \in Ids, NEW late \in BOOLEAN, Autoreply(id, late) PROVE TypeInv'
    <2>1. CASE Open
      <3>1. Enqueue("reply", id, late, FALSE)
        BY Zenon, <1>4, <2>1 DEF Autoreply
      <3>2. EnqueuedTyped
        BY Zenon, <3>1, EnqueueTyped DEF TypeInv
      <3>3. QED
        BY <1>4, <3>2 DEF TypeInv, TypeOK, ThreadsRemember, Autoreply, EnqueuedTyped
    <2>2. CASE ~Open
      BY <1>4, <2>2 DEF TypeInv, TypeOK, ThreadsRemember, Autoreply
    <2>3. QED
      BY <2>1, <2>2
  <1>5. ASSUME RecvTake PROVE TypeInv'
    BY <1>5 DEF TypeInv, TypeOK, ThreadsRemember, RecvTake
  <1>6. ASSUME NEW valid \in BOOLEAN, RecvDecode(valid) PROVE TypeInv'
    <2>1. Len(receiving) = 1 /\ receiving \in Seq(Envelopes)
      BY <1>6 DEF TypeInv, TypeOK, ThreadsRemember, RecvDecode
    <2>2. receiving[1] \in Envelopes
      BY <2>1
    <2>3. receiving[1].bytes \in Nat /\ receiving[1].id \in Ids
      BY Zenon, <2>2, ConstantsAssumption DEF Envelopes
    <2>4. retained_bytes' \in Int
      BY <1>6, <2>3 DEF TypeInv, TypeOK, RecvDecode
    <2>5. CASE valid
      <3>1. /\ responders' = responders \cup {receiving[1].id}
            /\ receiving' = <<>>
            /\ pc' = [pc EXCEPT !["recv"] = "ready"]
        BY <1>6, <2>5 DEF RecvDecode
      <3>2. QED
        BY <1>6, <2>3, <2>4, <3>1 DEF TypeInv, TypeOK, ThreadsRemember, RecvDecode
    <2>6. CASE ~valid
      <3>1. /\ pc' = [pc EXCEPT !["recv"] = "malformed"]
            /\ UNCHANGED <<responders, receiving>>
        BY <1>6, <2>6 DEF RecvDecode
      <3>2. QED
        BY <1>6, <2>1, <2>4, <3>1 DEF TypeInv, TypeOK, ThreadsRemember, RecvDecode
    <2>7. QED
      BY <2>5, <2>6
  <1>7. ASSUME RecvMalformed PROVE TypeInv'
    BY <1>7, CloseStateTyped DEF TypeInv, TypeOK, ThreadsRemember, RecvMalformed
  <1>8. ASSUME NEW k \in Keys, DropPromise(k) PROVE TypeInv'
    BY <1>8 DEF TypeInv, TypeOK, ThreadsRemember, DropPromise, ReleaseUnread
  <1>9. ASSUME NEW k \in Keys, NEW valid \in BOOLEAN, TakeResult(k, valid) PROVE TypeInv'
    BY SMTT(30), <1>9 DEF TypeInv, TypeOK, ThreadsRemember, TakeResult, ReleaseUnread
  <1>10. ASSUME CloseMalformedWait PROVE TypeInv'
    BY Zenon, <1>10, CloseStateTyped DEF TypeInv, TypeOK, ThreadsRemember, CloseMalformedWait
  <1>11. ASSUME NEW l \in Limits, SetInboundLimits(l) PROVE TypeInv'
    <2>1. limits' \in Bounds
      BY <1>11, ConstantsAssumption DEF SetInboundLimits
    <2>2. QED
      BY <1>11, <2>1, CloseStateTyped DEF TypeInv, TypeOK, ThreadsRemember, SetInboundLimits
  <1>12. ASSUME Close PROVE TypeInv'
    BY <1>12, CloseStateTyped DEF TypeInv, TypeOK, ThreadsRemember, Close
  <1>13. ASSUME ReceiveError PROVE TypeInv'
    BY <1>13 DEF TypeInv, TypeOK, ThreadsRemember, ReceiveError, ReaderFails
  <1>14. ASSUME NEW id \in InboundIds, NEW bytes \in Sizes, NEW known \in BOOLEAN, HandleRequest(id, bytes, known) PROVE TypeInv'
    <2>1. id \in Ids /\ bytes \in Nat
      BY ConstantsAssumption DEF Ids
    <2>2. Append(incoming, [id |-> id, bytes |-> bytes]) \in Seq(Envelopes)
      BY <2>1 DEF TypeInv, TypeOK, Envelopes
    <2>3. reserved_ids' \in SUBSET Ids /\ unknown' \in SUBSET Ids
      BY <1>14, <2>1 DEF TypeInv, TypeOK, HandleRequest
    <2>4. \/ incoming' = incoming /\ retained_bytes' = retained_bytes
          \/ /\ incoming' = Append(incoming, [id |-> id, bytes |-> bytes])
             /\ retained_bytes' = retained_bytes + bytes
      BY <1>14 DEF HandleRequest
    <2>5. incoming' \in Seq(Envelopes) /\ retained_bytes' \in Int
      <3>1. incoming \in Seq(Envelopes) /\ retained_bytes \in Int
        BY DEF TypeInv, TypeOK
      <3>2. incoming' \in Seq(Envelopes)
        BY Zenon, <2>2, <2>4, <3>1
      <3>3. retained_bytes' \in Int
        BY <2>1, <2>4, <3>1
      <3>4. QED
        BY Zenon, <3>2, <3>3
    <2>6. /\ reader_error' \in {"none"} \cup Reasons
          /\ pc' \in [Threads -> Labels]
          /\ ThreadsRemember'
      BY <1>14 DEF TypeInv, TypeOK, ThreadsRemember, HandleRequest, ReaderFails, Open
    <2>7. QED
      BY <1>14, <2>3, <2>5, <2>6 DEF TypeInv, TypeOK, HandleRequest
  <1>15. ASSUME NEW id \in InboundIds, NEW bytes \in Sizes, HandleResponse(id, bytes) PROVE TypeInv'
    <2>1. id \in Ids /\ bytes \in Nat
      BY ConstantsAssumption DEF Ids
    <2>2. promise' \in [Keys -> PromiseStates]
      BY <1>15, <2>1 DEF TypeInv, TypeOK, HandleResponse, Settle, Failure
    <2>3. /\ outstanding' \in [Ids -> Keys \cup {NoKey}]
          /\ operations' \in SUBSET Keys
          /\ unread' \in [Keys -> Nat]
          /\ retained_bytes' \in Int
      <3>1. CASE Open
        <4>1. outstanding' = [outstanding EXCEPT ![id] = NoKey] /\ operations' \subseteq operations
          BY ZenonT(30), <1>15, <3>1 DEF HandleResponse
        <4>2. \/ UNCHANGED <<unread, retained_bytes>>
              \/ /\ unread' = [unread EXCEPT ![outstanding[id]] = bytes]
                 /\ retained_bytes' = retained_bytes + bytes
          BY ZenonT(30), <1>15, <3>1 DEF HandleResponse
        <4>3. QED
          BY <2>1, <4>1, <4>2 DEF TypeInv, TypeOK
      <3>2. CASE ~Open
        BY ZenonT(30), <1>15, <3>2 DEF TypeInv, TypeOK, HandleResponse
      <3>3. QED
        BY Zenon, <3>1, <3>2
    <2>4. /\ reader_error' \in {"none"} \cup Reasons
          /\ pc' \in [Threads -> Labels]
          /\ ThreadsRemember'
      BY ZenonT(60), <1>15 DEF TypeInv, TypeOK, ThreadsRemember, HandleResponse, ReaderFails, Open
    <2>5. QED
      BY Zenon, <1>15, <2>2, <2>3, <2>4 DEF TypeInv, TypeOK, HandleResponse
  <1>16. ASSUME ReadAutoreplyTimeout PROVE TypeInv'
    BY <1>16 DEF TypeInv, TypeOK, ThreadsRemember, ReadAutoreplyTimeout
  <1>17. ASSUME NEW late \in BOOLEAN, ReplyUnknown(late) PROVE TypeInv'
    <2>1. CASE Open
      <3>1. PICK id \in unknown : Enqueue("reply", id, late, FALSE)
        BY Zenon, <1>17, <2>1 DEF ReplyUnknown
      <3>2. id \in Ids
        BY DEF TypeInv, TypeOK
      <3>3. EnqueuedTyped
        BY Zenon, <3>1, <3>2, EnqueueTyped DEF TypeInv
      <3>4. /\ pc' = [pc EXCEPT !["reader"] = "ready"]
            /\ unknown' = {}
            /\ UNCHANGED <<responders, autoreplies, receiving, threadVars, closeVars>>
        BY <1>17 DEF ReplyUnknown
      <3>5. QED
        BY <3>3, <3>4 DEF TypeInv, TypeOK, ThreadsRemember, EnqueuedTyped
    <2>2. CASE ~Open
      BY <1>17, <2>2 DEF TypeInv, TypeOK, ThreadsRemember, ReplyUnknown
    <2>3. QED
      BY <2>1, <2>2
  <1>18. ASSUME ReaderClose PROVE TypeInv'
    BY <1>18, CloseStateTyped DEF TypeInv, TypeOK, ThreadsRemember, ReaderClose
  <1>19. ASSUME NextOutgoing PROVE TypeInv'
    <2>1. promise' \in [Keys -> PromiseStates]
      BY <1>19 DEF TypeInv, TypeOK, NextOutgoing, SettleExpired, Settle
    <2>2. ~Exhausted => next_id + 2 \in NextIds /\ next_id \in Ids
      BY ConstantsAssumption DEF TypeInv, TypeOK, Exhausted, NextIds, Ids
    <2>3. /\ next_id' \in NextIds
          /\ outstanding' \in [Ids -> Keys \cup {NoKey}]
          /\ wire_id' \in [Keys -> NextIds]
      <3>1. PICK k \in Keys : IF kind[k] # "reply" /\ ~Exhausted
                              THEN /\ wire_id' = [wire_id EXCEPT ![k] = next_id]
                                   /\ Route(next_id, k)
                                   /\ next_id' = NextId(next_id)
                              ELSE UNCHANGED wireVars
        BY <1>19 DEF NextOutgoing
      <3>2. QED
        BY Zenon, <2>2, <3>1 DEF TypeInv, TypeOK, Route, NextId
    <2>4. /\ operations' \in SUBSET Keys
          /\ outgoing' \in SUBSET Keys
          /\ reserved_ids' \in SUBSET Ids
          /\ writing' \in Keys
          /\ pc' \in [Threads -> Labels]
          /\ pc'["reader"] = pc["reader"] /\ pc'["recv"] = pc["recv"]
      BY <1>19 DEF TypeInv, TypeOK, NextOutgoing, LiveOutgoing, LiveOperations
    <2>5. QED
      BY <1>19, <2>1, <2>3, <2>4 DEF TypeInv, TypeOK, ThreadsRemember, NextOutgoing
  <1>20. ASSUME WriterStops PROVE TypeInv'
    BY <1>20 DEF TypeInv, TypeOK, ThreadsRemember, WriterStops
  <1>21. ASSUME WriterSend PROVE TypeInv'
    BY <1>21 DEF TypeInv, TypeOK, ThreadsRemember, WriterSend
  <1>22. ASSUME WriterUnroute PROVE TypeInv'
    BY ZenonT(60), <1>22 DEF TypeInv, TypeOK, ThreadsRemember, WriterUnroute
  <1>23. ASSUME RecordWrite PROVE TypeInv'
    <2>1. promise' \in [Keys -> PromiseStates]
      BY Zenon, <1>23 DEF TypeInv, TypeOK, RecordWrite, Settle, Failure
    <2>2. QED
      BY ZenonT(60), <1>23, <2>1 DEF TypeInv, TypeOK, ThreadsRemember, RecordWrite
  <1>24. ASSUME WriterClose PROVE TypeInv'
    BY Zenon, <1>24, CloseStateTyped DEF TypeInv, TypeOK, ThreadsRemember, WriterClose
  <1>25. ASSUME WriterDisconnect PROVE TypeInv'
    BY <1>25 DEF TypeInv, TypeOK, ThreadsRemember, WriterDisconnect
  <1>26. ASSUME NEW k \in Keys, DeadlinePasses(k) PROVE TypeInv'
    BY <1>26 DEF TypeInv, TypeOK, ThreadsRemember, DeadlinePasses
  <1>27. ASSUME Expire PROVE TypeInv'
    <2>1. promise' \in [Keys -> PromiseStates]
      BY <1>27 DEF TypeInv, TypeOK, Expire, ExpireState, SettleExpired, Settle
    <2>2. QED
      BY <1>27, <2>1 DEF TypeInv, TypeOK, ThreadsRemember, Expire, ExpireState, LiveOperations,
         LiveOutgoing
  <1>28. ASSUME FinishClose PROVE TypeInv'
    <2>1. CASE removed # <<>>
      <3>1. Head(removed) \in Envelopes /\ Tail(removed) \in Seq(Envelopes)
        BY <2>1 DEF TypeInv, TypeOK
      <3>2. Head(removed).bytes \in Nat
        BY Zenon, <3>1, ConstantsAssumption DEF Envelopes
      <3>3. retained_bytes' \in Int /\ removed' \in Seq(Envelopes) /\ finishing' = finishing
        <4>1. /\ retained_bytes' = retained_bytes - Head(removed).bytes
              /\ removed' = Tail(removed)
              /\ finishing' = finishing
          BY Zenon, <1>28, <2>1 DEF FinishClose
        <4>2. QED
          BY <3>1, <3>2, <4>1 DEF TypeInv, TypeOK
      <3>4. QED
        BY SMTT(30), <1>28, <3>3 DEF TypeInv, TypeOK, ThreadsRemember, FinishClose
    <2>2. CASE removed = <<>>
      BY <1>28, <2>2 DEF TypeInv, TypeOK, ThreadsRemember, FinishClose
    <2>3. QED
      BY Zenon, <2>1, <2>2
  <1>29. CASE UNCHANGED vars
    BY <1>29 DEF TypeInv, TypeOK, ThreadsRemember, vars
  <1>30. QED
    BY SMTT(30), <1>1, <1>2, <1>3, <1>4, <1>5, <1>6, <1>7, <1>8, <1>9, <1>10, <1>11, <1>12, <1>13,
       <1>14, <1>15, <1>16, <1>17, <1>18, <1>19, <1>20, <1>21, <1>22, <1>23, <1>24, <1>25,
       <1>26, <1>27, <1>28, <1>29 DEF Next, Application, Reader, Writer, Clock

(* A session starts typed.                                                 *)
LEMMA TypeInit == Init => TypeInv
  <1>1. FirstId \in NextIds /\ 0 \in NextIds
    BY ConstantsAssumption DEF NextIds, FirstId
  <1>2. Init => limits \in Bounds /\ last_key \in 0 .. MaxOps
    BY ConstantsAssumption DEF Init
  <1>3. Init => ThreadsRemember
    BY Zenon DEF Init, ThreadsRemember
  <1>4. Init => /\ outstanding \in [Ids -> Keys \cup {NoKey}]
                /\ wire_id \in [Keys -> NextIds]
                /\ next_id \in NextIds
    BY <1>1 DEF Init
  <1>5. Init => /\ kind \in [Keys -> {"none", "request", "reply"}]
                /\ promise \in [Keys -> PromiseStates]
                /\ unread \in [Keys -> Nat]
                /\ pc \in [Threads -> Labels]
    BY DEF Init
  <1>6. Init => /\ incoming \in Seq(Envelopes)
                /\ removed \in Seq(Envelopes)
                /\ receiving \in Seq(Envelopes)
    BY DEF Init
  <1>7. Init => bad_waits \in BOOLEAN
    BY Zenon DEF Init
  <1>8. QED
    BY <1>2, <1>3, <1>4, <1>5, <1>6, <1>7 DEF Init, TypeInv, TypeOK

(* Every variable of a session keeps its type; in particular the next      *)
(* request ID never passes the last one by more than the None that stands  *)
(* for an exhausted ID space.                                              *)
THEOREM TypeCorrect == Spec => []TypeOK
  <1>1. TypeInv /\ [Next]_vars => TypeInv'
    BY TypeStep
  <1>2. TypeInv => TypeOK
    BY DEF TypeInv
  <1>3. QED
    BY <1>1, <1>2, TypeInit, PTL DEF Spec

(* A step that settles operations: it takes them out of the map and gives  *)
(* each a result, leaving the promises of the others as they are.          *)
Settling ==
  /\ UNCHANGED <<last_key, kind>>
  /\ operations' \subseteq operations
  /\ \A k \in Keys : IF k \in operations /\ k \notin operations'
                     THEN promise'[k] \in Results
                     ELSE promise'[k] = promise[k]

(* A step that submits an operation.                                       *)
Submitting ==
  \E body \in {"request", "reply"}, id \in Ids, late, hold \in BOOLEAN :
    Enqueue(body, id, late, hold)

(* State::close settles all operations.                                    *)
LEMMA CloseSettles ==
  ASSUME TypeOK, NEW reason \in Reasons, CloseState(reason), UNCHANGED <<last_key, kind>>
  PROVE  Settling
  <1>1. CASE Open
    <2>1. operations' = {} /\ \A k \in Keys : k \in operations => promise'[k] \in Results
      BY <1>1 DEF CloseState, SettleClosed, Settle, Failure
    <2>2. \A k \in Keys : k \notin operations => promise'[k] = promise[k]
      BY Zenon, <1>1 DEF CloseState, SettleClosed, Settle, Failure
    <2>3. QED
      BY <2>1, <2>2 DEF Settling
  <1>2. CASE ~Open
    BY Zenon, <1>2 DEF CloseState, Settling
  <1>3. QED
    BY Zenon, <1>1, <1>2

(* Every step submits an operation or settles some.                         *)
LEMMA OperationStep ==
  ASSUME TypeInv, [Next]_vars
  PROVE  Submitting \/ Settling
  <1> USE DEF wireVars, opVars, submitVars, promiseVars, holderVars, threadVars, closeVars
  <1>1. ASSUME NEW late \in BOOLEAN, Request(late) PROVE Submitting \/ Settling
    <2>1. Enqueue("request", 0, late, TRUE)
      BY Zenon, <1>1 DEF Request
    <2>2. 0 \in Ids
      BY ConstantsAssumption DEF Ids
    <2>3. QED
      BY Zenon, <2>1, <2>2 DEF Submitting
  <1>2. ASSUME NEW id \in Ids, NEW late \in BOOLEAN, Reply(id, late) PROVE Submitting \/ Settling
    <2>1. CASE Open
      BY Zenon, <1>2, <2>1 DEF Reply, Submitting
    <2>2. CASE ~Open
      BY Zenon, <1>2, <2>2 DEF Reply, Settling
    <2>3. QED
      BY <2>1, <2>2
  <1>3. ASSUME NEW id \in Ids, DropResponder(id) PROVE Submitting \/ Settling
    BY <1>3 DEF Settling, DropResponder
  <1>4. ASSUME NEW id \in Ids, NEW late \in BOOLEAN, Autoreply(id, late) PROVE Submitting \/ Settling
    <2>1. CASE Open
      BY Zenon, <1>4, <2>1 DEF Autoreply, Submitting
    <2>2. CASE ~Open
      BY Zenon, <1>4, <2>2 DEF Autoreply, Settling
    <2>3. QED
      BY <2>1, <2>2
  <1>5. ASSUME RecvTake PROVE Submitting \/ Settling
    BY Zenon, <1>5 DEF Settling, RecvTake
  <1>6. ASSUME NEW valid \in BOOLEAN, RecvDecode(valid) PROVE Submitting \/ Settling
    BY Zenon, <1>6 DEF Settling, RecvDecode
  <1>7. ASSUME RecvMalformed PROVE Submitting \/ Settling
    BY Zenon, <1>7, CloseSettles DEF RecvMalformed, TypeInv
  <1>8. ASSUME NEW k \in Keys, DropPromise(k) PROVE Submitting \/ Settling
    BY Zenon, <1>8 DEF Settling, DropPromise
  <1>9. ASSUME NEW k \in Keys, NEW valid \in BOOLEAN, TakeResult(k, valid) PROVE Submitting \/ Settling
    BY Zenon, <1>9 DEF Settling, TakeResult
  <1>10. ASSUME CloseMalformedWait PROVE Submitting \/ Settling
    BY Zenon, <1>10, CloseSettles DEF CloseMalformedWait, TypeInv
  <1>11. ASSUME NEW l \in Limits, SetInboundLimits(l) PROVE Submitting \/ Settling
    BY Zenon, <1>11, CloseSettles DEF SetInboundLimits, Settling, TypeInv
  <1>12. ASSUME Close PROVE Submitting \/ Settling
    BY Zenon, <1>12, CloseSettles DEF Close, TypeInv
  <1>13. ASSUME ReceiveError PROVE Submitting \/ Settling
    BY Zenon, <1>13 DEF Settling, ReceiveError
  <1>14. ASSUME NEW id \in InboundIds, NEW bytes \in Sizes, NEW known \in BOOLEAN, HandleRequest(id, bytes, known) PROVE Submitting \/ Settling
    BY Zenon, <1>14 DEF Settling, HandleRequest
  <1>15. ASSUME NEW id \in InboundIds, NEW bytes \in Sizes, HandleResponse(id, bytes) PROVE Submitting \/ Settling
    BY Zenon, <1>15 DEF HandleResponse, Settle, Failure, Settling
  <1>16. ASSUME ReadAutoreplyTimeout PROVE Submitting \/ Settling
    BY <1>16 DEF Settling, ReadAutoreplyTimeout
  <1>17. ASSUME NEW late \in BOOLEAN, ReplyUnknown(late) PROVE Submitting \/ Settling
    <2>1. CASE Open
      <3>1. PICK id \in unknown : Enqueue("reply", id, late, FALSE)
        BY Zenon, <1>17, <2>1 DEF ReplyUnknown
      <3>2. id \in Ids
        BY Zenon DEF TypeInv, TypeOK
      <3>3. QED
        BY Zenon, <3>1, <3>2 DEF Submitting
    <2>2. CASE ~Open
      BY Zenon, <1>17, <2>2 DEF ReplyUnknown, Settling
    <2>3. QED
      BY <2>1, <2>2
  <1>18. ASSUME ReaderClose PROVE Submitting \/ Settling
    BY Zenon, <1>18, CloseSettles DEF ReaderClose, ThreadsRemember, Settling, TypeInv
  <1>19. ASSUME NextOutgoing PROVE Submitting \/ Settling
    BY <1>19 DEF NextOutgoing, SettleExpired, Settle, LiveOperations, Settling
  <1>20. ASSUME WriterStops PROVE Submitting \/ Settling
    BY Zenon, <1>20 DEF Settling, WriterStops
  <1>21. ASSUME WriterSend PROVE Submitting \/ Settling
    BY Zenon, <1>21 DEF Settling, WriterSend
  <1>22. ASSUME WriterUnroute PROVE Submitting \/ Settling
    BY Zenon, <1>22 DEF Settling, WriterUnroute
  <1>23. ASSUME RecordWrite PROVE Submitting \/ Settling
    BY Zenon, <1>23 DEF RecordWrite, WriteSettles, Settle, Failure, Settling
  <1>24. ASSUME WriterClose PROVE Submitting \/ Settling
    BY Zenon, <1>24, CloseSettles DEF WriterClose, TypeInv
  <1>25. ASSUME WriterDisconnect PROVE Submitting \/ Settling
    BY Zenon, <1>25 DEF Settling, WriterDisconnect
  <1>26. ASSUME NEW k \in Keys, DeadlinePasses(k) PROVE Submitting \/ Settling
    BY Zenon, <1>26 DEF Settling, DeadlinePasses
  <1>27. ASSUME Expire PROVE Submitting \/ Settling
    BY Zenon, <1>27 DEF Expire, ExpireState, SettleExpired, Settle, LiveOperations, Settling
  <1>28. ASSUME FinishClose PROVE Submitting \/ Settling
    BY Zenon, <1>28 DEF Settling, FinishClose
  <1>29. CASE UNCHANGED vars
    BY Zenon, <1>29 DEF Settling, vars
  <1>30. QED
    BY SMTT(30), <1>1, <1>2, <1>3, <1>4, <1>5, <1>6, <1>7, <1>8, <1>9, <1>10, <1>11, <1>12, <1>13,
       <1>14, <1>15, <1>16, <1>17, <1>18, <1>19, <1>20, <1>21, <1>22, <1>23, <1>24, <1>25,
       <1>26, <1>27, <1>28, <1>29 DEF Next, Application, Reader, Writer, Clock

(* Exactly the keys up to last_key have been submitted.                    *)
SubmittedKeys ==
  \A k \in Keys : IF k <= last_key THEN promise[k] # "unused" /\ kind[k] # "none"
                                    ELSE promise[k] = "unused" /\ kind[k] = "none"

PromiseInv == TypeInv /\ SubmittedKeys /\ PendingHasOperation

(* What enqueue does to the new key and to the others.                     *)
LEMMA EnqueueFacts ==
  ASSUME TypeOK, NEW body \in {"request", "reply"}, NEW id \in Ids,
         NEW late \in BOOLEAN, NEW hold \in BOOLEAN, Enqueue(body, id, late, hold)
  PROVE  /\ last_key' = last_key + 1
         /\ last_key' \in Keys
         /\ kind' = [kind EXCEPT ![last_key'] = body]
         /\ \/ /\ promise' = [promise EXCEPT ![last_key'] = "Timeout"]
               /\ operations' = operations
               /\ outgoing' = outgoing
            \/ /\ promise' = [promise EXCEPT ![last_key'] = "pending"]
               /\ operations' = operations \cup {last_key'}
               /\ outgoing' = outgoing \cup {last_key'}
         /\ status = status'
  BY ConstantsAssumption DEF TypeOK, Enqueue, Keys

(* Every step keeps promises and operations together.                      *)
LEMMA PromiseStep ==
  ASSUME PromiseInv, [Next]_vars
  PROVE  PromiseInv'
  <1>1. TypeInv'
    BY TypeStep DEF PromiseInv
  <1>2. CASE Submitting
    <2>1. PICK body \in {"request", "reply"}, id \in Ids, late \in BOOLEAN, hold \in BOOLEAN :
            Enqueue(body, id, late, hold)
      BY Zenon, <1>2 DEF Submitting
    <2> DEFINE n == last_key + 1
    <2>2. /\ last_key' = n
          /\ n \in Keys
          /\ kind' = [kind EXCEPT ![n] = body]
          /\ \/ promise' = [promise EXCEPT ![n] = "Timeout"] /\ operations' = operations
             \/ /\ promise' = [promise EXCEPT ![n] = "pending"]
                /\ operations' = operations \cup {n}
      BY Zenon, <2>1, EnqueueFacts DEF PromiseInv, TypeInv
    <2>3. last_key \in Nat /\ promise[n] = "unused" /\ n \notin operations
      BY <2>2, ConstantsAssumption DEF PromiseInv, TypeInv, TypeOK, SubmittedKeys,
         PendingHasOperation, Keys
    <2>4. SubmittedKeys'
      <3>1. ASSUME NEW k \in Keys, k # n
            PROVE  /\ promise'[k] = promise[k] /\ kind'[k] = kind[k]
                   /\ k <= n <=> k <= last_key
        <4>1. promise'[k] = promise[k] /\ kind'[k] = kind[k]
          BY <2>2, <3>1 DEF PromiseInv, TypeInv, TypeOK
        <4>2. k <= n <=> k <= last_key
          BY <2>3, <3>1, ConstantsAssumption DEF Keys
        <4>3. QED
          BY Zenon, <4>1, <4>2
      <3>2. promise'[n] # "unused" /\ kind'[n] # "none"
        BY Zenon, <2>2 DEF PromiseInv, TypeInv, TypeOK
      <3>3. QED
        BY <2>2, <2>3, <3>1, <3>2 DEF PromiseInv, SubmittedKeys
    <2>5. PendingHasOperation'
      BY <2>2, <2>3 DEF PromiseInv, TypeInv, TypeOK, PendingHasOperation
    <2>6. QED
      BY <1>1, <2>4, <2>5 DEF PromiseInv
  <1>3. CASE Settling
    <2>1. SubmittedKeys'
      BY Zenon, <1>3 DEF Settling, PromiseInv, TypeInv, TypeOK, SubmittedKeys, PendingHasOperation
    <2>2. PendingHasOperation'
      BY Zenon, <1>3 DEF Settling, PromiseInv, TypeInv, TypeOK, PendingHasOperation
    <2>3. QED
      BY <1>1, <2>1, <2>2 DEF PromiseInv
  <1>4. QED
    BY <1>2, <1>3, OperationStep DEF PromiseInv

(* They start together.                                                    *)
LEMMA PromiseInit == Init => PromiseInv
  <1>1. Init => SubmittedKeys /\ PendingHasOperation
    BY DEF Init, SubmittedKeys, PendingHasOperation, Keys
  <1>2. QED
    BY Zenon, <1>1, TypeInit DEF PromiseInv

(* Every promise without a result has an operation that will settle it:    *)
(* none of response, write, deadline and closure removes an operation      *)
(* without publishing its result (session.rs, operation.rs).               *)
THEOREM PendingPromisesAreTracked == Spec => []PendingHasOperation
  <1>1. PromiseInv /\ [Next]_vars => PromiseInv'
    BY PromiseStep
  <1>2. PromiseInv => PendingHasOperation
    BY DEF PromiseInv
  <1>3. QED
    BY <1>1, <1>2, PromiseInit, PTL DEF Spec

(* A published result never changes: promises complete once.               *)
THEOREM PromisesCompleteOnce == Spec => ResultIsFinal
  <1>1. PromiseInv /\ [Next]_vars => PromiseInv'
    BY PromiseStep
  <1>2. ASSUME PromiseInv, [Next]_vars
        PROVE  \A k \in Keys : promise[k] \in Results => promise'[k] = promise[k]
    <2>1. CASE Submitting
      <3>1. PICK body \in {"request", "reply"}, id \in Ids, late \in BOOLEAN, hold \in BOOLEAN :
              Enqueue(body, id, late, hold)
        BY Zenon, <2>1 DEF Submitting
      <3>2. PICK r \in PromiseStates : promise' = [promise EXCEPT ![last_key + 1] = r]
        BY SMTT(30), <1>2, <3>1, EnqueueFacts DEF PromiseInv, TypeInv
      <3>3. last_key + 1 \in Keys /\ last_key \in Nat
        BY <1>2, <3>1, EnqueueFacts DEF PromiseInv, TypeInv, TypeOK
      <3>4. promise[last_key + 1] = "unused"
        BY <1>2, <3>3 DEF PromiseInv, SubmittedKeys
      <3>5. QED
        BY Zenon, <1>2, <3>2, <3>4 DEF PromiseInv, TypeInv, TypeOK
    <2>2. CASE Settling
      BY Zenon, <1>2, <2>2 DEF Settling, PromiseInv, PendingHasOperation
    <2>3. QED
      BY Zenon, <1>2, <2>1, <2>2, OperationStep DEF PromiseInv
  <1>3. PromiseInv /\ [Next]_vars =>
          [\A k \in Keys : promise[k] \in Results => promise'[k] = promise[k]]_vars
    BY <1>2
  <1>4. QED
    BY <1>1, <1>3, PromiseInit, PTL DEF Spec, ResultIsFinal

(* The writer starts sending only messages whose promise is still pending. *)
THEOREM ExpiredIsNeverSent == Spec => OnlyPendingIsSent
  <1>1. PromiseInv /\ [Next]_vars => PromiseInv'
    BY PromiseStep
  <1>2. ASSUME PromiseInv, [Next]_vars, writing' \notin {writing, NoKey}
        PROVE  promise'[writing'] = "pending"
    <2>1. NextOutgoing
      <3> USE DEF threadVars
      <3>1. QED
        BY ZenonT(30), <1>2 DEF vars, Next, Application, Reader, Writer, Clock, Request, Reply,
           DropResponder,
           Autoreply, RecvTake, RecvDecode, RecvMalformed, DropPromise, TakeResult,
           CloseMalformedWait, SetInboundLimits, Close, ReceiveError, HandleRequest,
           HandleResponse, ReadAutoreplyTimeout, ReplyUnknown, ReaderClose, WriterStops,
           WriterSend, WriterUnroute, RecordWrite, WriterClose, WriterDisconnect,
           DeadlinePasses, Expire, FinishClose
    <2>2. writing' \in operations' /\ writing' \in Keys
      BY <2>1 DEF NextOutgoing, IsFront, LiveOutgoing
    <2>3. QED
      BY Zenon, <1>1, <1>2, <2>2 DEF PromiseInv, PendingHasOperation
  <1>3. PromiseInv /\ [Next]_vars =>
          [writing' \notin {writing, NoKey} => promise'[writing'] = "pending"]_vars
    BY Zenon, <1>2
  <1>4. QED
    BY <1>1, <1>3, PromiseInit, PTL DEF Spec, OnlyPendingIsSent
----------------------------------------------------------------------------
(* Who owes an answer.                                                     *)

(* The reader and recv hold nothing while they are elsewhere, and only     *)
(* submitted messages are queued.                                          *)
HolderThreads ==
  /\ pc["recv"] = "ready" => receiving = <<>>
  /\ pc["reader"] \notin {"unknown", "autoreply"} => unknown = {}
  /\ \A i, j \in unknown : i = j
  /\ \A k \in outgoing : kind[k] # "none"

HolderInv == HolderThreads /\ OneHolderPerRequest

(* The IDs in a sequence of envelopes, all different.                      *)
DistinctIds(s) == \A i, j \in DOMAIN s : s[i].id = s[j].id => i = j

(* The IDs of a queue with one more envelope.                              *)
LEMMA IdsOfAppend ==
  ASSUME NEW s \in Seq(Envelopes), NEW e \in Envelopes
  PROVE  /\ IdsOf(Append(s, e)) = IdsOf(s) \cup {e.id}
         /\ DistinctIds(s) /\ e.id \notin IdsOf(s) => DistinctIds(Append(s, e))
  <1>1. /\ Append(s, e) \in Seq(Envelopes)
        /\ Len(Append(s, e)) = Len(s) + 1
        /\ \A i \in 1 .. Len(s) : Append(s, e)[i] = s[i]
        /\ Append(s, e)[Len(s) + 1] = e
        /\ Len(s) \in Nat
    OBVIOUS
  <1>2. DOMAIN s = 1 .. Len(s) /\ DOMAIN Append(s, e) = 1 .. Len(s) + 1
    BY <1>1
  <1>3. 1 .. Len(s) + 1 = (1 .. Len(s)) \cup {Len(s) + 1} /\ Len(s) + 1 \notin 1 .. Len(s)
    BY SMTT(30), <1>1
  <1> DEFINE t == Append(s, e)  n == Len(s) + 1
  <1> HIDE DEF t, n
  <1>4. /\ DOMAIN t = DOMAIN s \cup {n} /\ n \notin DOMAIN s
        /\ \A i \in DOMAIN s : t[i] = s[i]
        /\ t[n] = e
    BY Zenon, <1>1, <1>2, <1>3 DEF t, n
  <1>5. IdsOf(t) = IdsOf(s) \cup {e.id}
    BY <1>4 DEF IdsOf
  <1>6. DistinctIds(s) /\ e.id \notin IdsOf(s) => DistinctIds(t)
    BY <1>4 DEF DistinctIds, IdsOf
  <1>7. QED
    BY <1>5, <1>6 DEF t

(* The IDs of a queue with its first envelope taken.                       *)
LEMMA IdsOfTail ==
  ASSUME NEW s \in Seq(Envelopes), s # <<>>
  PROVE  /\ IdsOf(s) = IdsOf(Tail(s)) \cup {Head(s).id}
         /\ DistinctIds(s) => DistinctIds(Tail(s)) /\ Head(s).id \notin IdsOf(Tail(s))
  <1>1. /\ Tail(s) \in Seq(Envelopes) /\ Len(Tail(s)) = Len(s) - 1
        /\ Len(s) \in Nat /\ Len(s) > 0
        /\ \A i \in 1 .. Len(s) - 1 : Tail(s)[i] = s[i + 1]
        /\ Head(s) = s[1]
    OBVIOUS
  <1>2. DOMAIN s = 1 .. Len(s) /\ DOMAIN Tail(s) = 1 .. Len(s) - 1
    BY <1>1
  <1>3. \A i \in DOMAIN s : i = 1 \/ (i - 1 \in DOMAIN Tail(s) /\ Tail(s)[i - 1] = s[i])
    BY <1>1, <1>2
  <1>4. \A i \in DOMAIN Tail(s) : i + 1 \in DOMAIN s /\ i + 1 # 1 /\ Tail(s)[i] = s[i + 1] /\ i \in Nat
    BY <1>1, <1>2
  <1>5. 1 \in DOMAIN s
    BY <1>1, <1>2
  <1>6. IdsOf(s) = IdsOf(Tail(s)) \cup {Head(s).id}
    <2>1. \A x \in IdsOf(s) : x \in IdsOf(Tail(s)) \cup {s[1].id}
      BY Zenon, <1>3 DEF IdsOf
    <2>2. \A x \in IdsOf(Tail(s)) \cup {s[1].id} : x \in IdsOf(s)
      BY <1>4, <1>5 DEF IdsOf
    <2>3. QED
      BY <1>1, <2>1, <2>2
  <1>7. ASSUME DistinctIds(s) PROVE DistinctIds(Tail(s))
    BY <1>4, <1>7 DEF DistinctIds
  <1>8. ASSUME DistinctIds(s) PROVE Head(s).id \notin IdsOf(Tail(s))
    BY <1>1, <1>4, <1>5, <1>8 DEF DistinctIds, IdsOf
  <1>9. QED
    BY <1>6, <1>7, <1>8

(* What the envelope in recv's hands contributes.                          *)
LEMMA IdsOfOne ==
  ASSUME NEW s \in Seq(Envelopes), Len(s) = 1
  PROVE  IdsOf(s) = {s[1].id}
  BY DEF IdsOf

(* An empty queue has none.                                                *)
LEMMA IdsOfNone == IdsOf(<<>>) = {}
  BY DEF IdsOf

(* The same property as a partition of the reserved IDs.                   *)
Shared(reserved, queue, taken, answering, dropped, odd, replies) ==
  /\ reserved = UNION {queue, taken, answering, dropped, odd, replies}
  /\ queue \cap UNION {taken, answering, dropped, odd, replies} = {}
  /\ taken \cap UNION {answering, dropped, odd, replies} = {}
  /\ answering \cap UNION {dropped, odd, replies} = {}
  /\ dropped \cap UNION {odd, replies} = {}
  /\ odd \cap replies = {}

Shares ==
  Shared(reserved_ids, IdsOf(incoming), IdsOf(receiving), responders, autoreplies, unknown,
         QueuedReplyIds)

DistinctReplies == \A j, k \in outgoing \cap Replies : wire_id[j] = wire_id[k] => j = k

(* One holder for each request, in three parts.                            *)
LEMMA HolderParts ==
  OneHolderPerRequest <=> (Open => Shares /\ DistinctIds(incoming) /\ DistinctReplies)
  BY DEF OneHolderPerRequest, Shares, Shared, DistinctIds, DistinctReplies

(* The three parts give the invariant of the next state.                   *)
LEMMA HoldersNext ==
  ASSUME HolderThreads', Open' => Shares' /\ DistinctIds(incoming)' /\ DistinctReplies'
  PROVE  HolderInv'
  BY HolderParts, PTL DEF HolderInv

(* Steps that leave the queue alone keep the queued replies.               *)
LEMMA RepliesKept ==
  ASSUME DistinctReplies, UNCHANGED <<outgoing, kind, wire_id>>
  PROVE  UNCHANGED QueuedReplyIds /\ DistinctReplies'
  BY Zenon DEF QueuedReplyIds, DistinctReplies, Replies

(* A queued reply adds its ID to the queued ones, a late one releases it,  *)
(* and a request changes nothing.                                          *)
LEMMA HoldersEnqueue ==
  ASSUME PromiseInv, HolderThreads, DistinctReplies,
         NEW body \in {"request", "reply"}, NEW id \in Ids, NEW late \in BOOLEAN,
         NEW hold \in BOOLEAN, Enqueue(body, id, late, hold),
         body = "reply" => id \notin QueuedReplyIds
  PROVE  /\ DistinctReplies'
         /\ \A k \in outgoing' : kind'[k] # "none"
         /\ UNCHANGED <<status, incoming>>
         /\ \/ body = "reply" /\ reserved_ids' = reserved_ids /\ QueuedReplyIds' = QueuedReplyIds \cup {id}
            \/ body = "reply" /\ reserved_ids' = reserved_ids \ {id} /\ QueuedReplyIds' = QueuedReplyIds
            \/ body = "request" /\ reserved_ids' = reserved_ids /\ QueuedReplyIds' = QueuedReplyIds
  <1> DEFINE n == last_key + 1
  <1>1. n \in Keys
    BY EnqueueFacts DEF PromiseInv, TypeInv
  <1>2. /\ kind' = [kind EXCEPT ![n] = body]
        /\ wire_id' = [wire_id EXCEPT ![n] = id]
        /\ \/ /\ outgoing' = outgoing
              /\ reserved_ids' = IF body = "reply" THEN reserved_ids \ {id} ELSE reserved_ids
           \/ outgoing' = outgoing \cup {n} /\ reserved_ids' = reserved_ids
        /\ UNCHANGED <<status, incoming>>
    BY SMTT(30), <1>1 DEF Enqueue
  <1>3. kind[n] = "none" /\ outgoing \subseteq Keys
    BY <1>1, ConstantsAssumption DEF PromiseInv, TypeInv, TypeOK, SubmittedKeys, Keys
  <1>4. /\ kind \in [Keys -> {"none", "request", "reply"}]
        /\ wire_id \in [Keys -> NextIds]
    BY DEF PromiseInv, TypeInv, TypeOK
  <1> HIDE DEF n
  <1>5. n \notin outgoing
    BY Zenon, <1>3 DEF HolderThreads
  <1>6. /\ \A k \in outgoing : kind'[k] = kind[k] /\ wire_id'[k] = wire_id[k] /\ k # n
        /\ kind'[n] = body /\ wire_id'[n] = id
    BY Zenon, <1>1, <1>2, <1>3, <1>4, <1>5
  <1>7. \A k \in outgoing' : kind'[k] # "none"
    BY Zenon, <1>2, <1>6 DEF HolderThreads
  <1>8. CASE outgoing' = outgoing
    <2>1. outgoing' \cap Replies' = outgoing \cap Replies
      BY SMTT(30), <1>3, <1>6, <1>8 DEF Replies
    <2>2. QueuedReplyIds' = QueuedReplyIds /\ DistinctReplies'
      BY <1>6, <2>1 DEF QueuedReplyIds, DistinctReplies
    <2>3. QED
      BY Zenon, <1>2, <1>5, <1>7, <1>8, <2>2
  <1>9. CASE outgoing' = outgoing \cup {n} /\ reserved_ids' = reserved_ids
    <2>1. CASE body = "request"
      <3>1. outgoing' \cap Replies' = outgoing \cap Replies
        BY SMTT(30), <1>1, <1>3, <1>6, <1>9, <2>1 DEF Replies
      <3>2. QueuedReplyIds' = QueuedReplyIds /\ DistinctReplies'
        BY <1>6, <3>1 DEF QueuedReplyIds, DistinctReplies
      <3>3. QED
        BY Zenon, <1>2, <1>7, <1>9, <2>1, <3>2
    <2>2. CASE body = "reply"
      <3>1. outgoing' \cap Replies' = (outgoing \cap Replies) \cup {n}
        BY <1>1, <1>3, <1>6, <1>9, <2>2 DEF Replies
      <3>2. QueuedReplyIds' = QueuedReplyIds \cup {id}
        BY SMTT(30), <1>6, <3>1 DEF QueuedReplyIds
      <3>3. DistinctReplies'
        BY <1>6, <2>2, <3>1 DEF QueuedReplyIds, DistinctReplies
      <3>4. QED
        BY SMTT(30), <1>2, <1>7, <1>9, <2>2, <3>2, <3>3
    <2>3. QED
      BY Zenon, <2>1, <2>2
  <1>10. QED
    BY Zenon, <1>2, <1>8, <1>9

(* Messages that leave the queue take their IDs with them, and no others.  *)
LEMMA HoldersDequeue ==
  ASSUME TypeOK, DistinctReplies, NEW gone \in SUBSET outgoing, outgoing' = outgoing \ gone,
         kind' = kind, \A k \in outgoing' \cap Replies : wire_id'[k] = wire_id[k]
  PROVE  /\ QueuedReplyIds' = QueuedReplyIds \ {wire_id[k] : k \in gone \cap Replies}
         /\ DistinctReplies'
  <1>1. Replies' = Replies
    BY Zenon DEF Replies
  <1>2. DistinctReplies'
    BY <1>1 DEF DistinctReplies
  <1>3. \A x : x \in QueuedReplyIds' <=> x \in QueuedReplyIds \ {wire_id[k] : k \in gone \cap Replies}
    BY <1>1 DEF QueuedReplyIds, DistinctReplies
  <1>4. QED
    BY Zenon, <1>2, <1>3

(* A step that moves no ID.                                                *)
LEMMA HoldersKept ==
  ASSUME HolderInv,
         UNCHANGED <<status, incoming, receiving, responders, autoreplies, unknown, outgoing,
                     reserved_ids, kind, wire_id>>,
         pc'["recv"] = pc["recv"] \/ pc'["recv"] # "ready",
         pc'["reader"] = pc["reader"] \/ pc["reader"] \notin {"unknown", "autoreply"}
  PROVE  HolderInv'
  <1>1. HolderThreads'
    BY SMTT(30) DEF HolderInv, HolderThreads
  <1>2. OneHolderPerRequest'
    BY SMTT(30) DEF HolderInv, OneHolderPerRequest, Open, IdsOf, QueuedReplyIds, Replies
  <1>3. QED
    BY Zenon, <1>1, <1>2 DEF HolderInv

(* A closed session owes nothing.                                          *)
LEMMA HoldersClosed ==
  ASSUME HolderInv, status' \in Reasons, outgoing' \subseteq outgoing, kind' = kind,
         unknown' = unknown, receiving' \in {receiving, <<>>},
         pc'["recv"] = pc["recv"] \/ receiving' = <<>>,
         pc'["reader"] = pc["reader"] \/ pc["reader"] \notin {"unknown", "autoreply"}
  PROVE  HolderInv'
  <1>1. HolderThreads'
    BY DEF HolderInv, HolderThreads
  <1>2. ~Open'
    BY SMTT(30) DEF Open
  <1>3. QED
    BY Zenon, <1>1, <1>2, HolderParts DEF HolderInv, OneHolderPerRequest

(* Every step hands each ID on to one holder, or releases it.              *)
LEMMA HolderStep ==
  ASSUME PromiseInv, HolderInv, [Next]_vars
  PROVE  HolderInv'
  <1> USE DEF wireVars, opVars, submitVars, promiseVars, holderVars, threadVars, closeVars
  <1>0. /\ TypeInv /\ TypeOK /\ HolderThreads
        /\ Open => Shares /\ DistinctIds(incoming) /\ DistinctReplies
        /\ pc \in [Threads -> Labels]
    BY HolderParts DEF PromiseInv, TypeInv, TypeOK, HolderInv
  <1>1. ASSUME NEW late \in BOOLEAN, Request(late) PROVE HolderInv'
    <2>1. Open /\ Enqueue("request", 0, late, TRUE) /\ UNCHANGED <<pc, holderVars>>
      BY Zenon, <1>1 DEF Request
    <2>2. 0 \in Ids
      BY ConstantsAssumption DEF Ids
    <2>3. /\ DistinctReplies' /\ \A k \in outgoing' : kind'[k] # "none"
          /\ UNCHANGED <<status, incoming, reserved_ids, QueuedReplyIds>>
      BY Zenon, <1>0, <2>1, <2>2, HoldersEnqueue
    <2>4. Shares' /\ DistinctIds(incoming)'
      BY Zenon, <1>0, <2>1, <2>3 DEF Shares, DistinctIds, IdsOf
    <2>5. HolderThreads'
      BY <1>0, <2>1, <2>3 DEF HolderThreads
    <2>6. QED
      BY <2>3, <2>4, <2>5, HoldersNext
  <1>2. ASSUME NEW id \in Ids, NEW late \in BOOLEAN, Reply(id, late) PROVE HolderInv'
    <2>1. /\ id \in responders /\ responders' = responders \ {id}
          /\ UNCHANGED <<pc, autoreplies, receiving, unknown>>
      BY Zenon, <1>2 DEF Reply
    <2>2. CASE Open
      <3>1. PICK hold \in BOOLEAN : Enqueue("reply", id, late, hold)
        BY Zenon, <1>2, <2>2 DEF Reply
      <3>2. id \notin QueuedReplyIds
        BY Zenon, <1>0, <2>1, <2>2 DEF Shares, Shared
      <3>3. /\ DistinctReplies' /\ \A k \in outgoing' : kind'[k] # "none"
            /\ UNCHANGED <<status, incoming>>
            /\ \/ reserved_ids' = reserved_ids /\ QueuedReplyIds' = QueuedReplyIds \cup {id}
               \/ reserved_ids' = reserved_ids \ {id} /\ QueuedReplyIds' = QueuedReplyIds
        BY Zenon, <1>0, <2>2, <3>1, <3>2, HoldersEnqueue
      <3>4. IdsOf(incoming)' = IdsOf(incoming) /\ IdsOf(receiving)' = IdsOf(receiving)
        BY Zenon, <2>1, <3>3 DEF IdsOf
      <3>5. Shares'
        BY <1>0, <2>1, <2>2, <3>3, <3>4 DEF Shares, Shared
      <3>6. DistinctIds(incoming)' /\ HolderThreads'
        BY Zenon, <1>0, <2>1, <2>2, <3>3 DEF DistinctIds, HolderThreads
      <3>7. QED
        BY <3>3, <3>5, <3>6, HoldersNext
    <2>3. CASE ~Open
      <3>1. UNCHANGED <<status, outgoing, kind>> /\ status \in Reasons
        BY Zenon, <1>2, <1>0, <2>3 DEF Reply, Open, TypeOK
      <3>2. QED
        BY SMTT(30), <2>1, <3>1, HoldersClosed
    <2>4. QED
      BY <2>2, <2>3
  <1>3. ASSUME NEW id \in Ids, NEW late \in BOOLEAN, Autoreply(id, late) PROVE HolderInv'
    <2>1. /\ id \in autoreplies /\ autoreplies' = autoreplies \ {id}
          /\ UNCHANGED <<pc, responders, receiving, unknown>>
      BY Zenon, <1>3 DEF Autoreply
    <2>2. CASE Open
      <3>1. PICK hold \in BOOLEAN : Enqueue("reply", id, late, hold)
        BY Zenon, <1>3, <2>2 DEF Autoreply
      <3>2. id \notin QueuedReplyIds
        BY SMTT(30), <1>0, <2>1, <2>2 DEF Shares, Shared
      <3>3. /\ DistinctReplies' /\ \A k \in outgoing' : kind'[k] # "none"
            /\ UNCHANGED <<status, incoming>>
            /\ \/ reserved_ids' = reserved_ids /\ QueuedReplyIds' = QueuedReplyIds \cup {id}
               \/ reserved_ids' = reserved_ids \ {id} /\ QueuedReplyIds' = QueuedReplyIds
        BY <1>0, <2>2, <3>1, <3>2, HoldersEnqueue
      <3>4. IdsOf(incoming)' = IdsOf(incoming) /\ IdsOf(receiving)' = IdsOf(receiving)
        BY <2>1, <3>3 DEF IdsOf
      <3>5. Shares'
        BY SMTT(30), <1>0, <2>1, <2>2, <3>3, <3>4 DEF Shares, Shared
      <3>6. DistinctIds(incoming)' /\ HolderThreads'
        BY SMTT(30), <1>0, <2>1, <2>2, <3>3 DEF DistinctIds, HolderThreads
      <3>7. QED
        BY <3>3, <3>5, <3>6, HoldersNext
    <2>3. CASE ~Open
      <3>1. UNCHANGED <<status, outgoing, kind>> /\ status \in Reasons
        BY <1>3, <1>0, <2>3 DEF Autoreply, Open, TypeOK
      <3>2. QED
        BY <2>1, <3>1, HoldersClosed
    <2>4. QED
      BY <2>2, <2>3
  <1>4. ASSUME NEW id \in Ids, DropResponder(id) PROVE HolderInv'
    <2>1. /\ id \in responders /\ responders' = responders \ {id}
          /\ autoreplies' = IF Open THEN autoreplies \cup {id} ELSE autoreplies
          /\ UNCHANGED <<status, incoming, receiving, unknown, outgoing, reserved_ids, kind, wire_id, pc>>
      BY Zenon, <1>4 DEF DropResponder
    <2>2. CASE Open
      <3>1. UNCHANGED <<IdsOf(incoming), IdsOf(receiving), QueuedReplyIds>>
        BY SMTT(30), <2>1 DEF IdsOf, QueuedReplyIds, Replies
      <3>2. Shares'
        BY SMTT(30), <1>0, <2>1, <2>2, <3>1 DEF Shares, Shared
      <3>3. DistinctIds(incoming)' /\ DistinctReplies' /\ HolderThreads'
        BY ZenonT(30), <1>0, <2>1, <2>2 DEF DistinctIds, DistinctReplies, Replies, HolderThreads
      <3>4. QED
        BY SMTT(30), <3>2, <3>3, HoldersNext
    <2>3. CASE ~Open
      <3>1. status \in Reasons
        BY Zenon, <1>0, <2>3 DEF Open, TypeOK
      <3>2. QED
        BY SMTT(30), <2>1, <3>1, HoldersClosed
    <2>4. QED
      BY Zenon, <2>2, <2>3
  <1>5. ASSUME RecvTake PROVE HolderInv'
    <2>1. /\ Open /\ receiving = <<>> /\ incoming # <<>>
          /\ receiving' = <<Head(incoming)>> /\ incoming' = Tail(incoming)
          /\ pc'["recv"] = "decode" /\ pc'["reader"] = pc["reader"]
          /\ UNCHANGED <<status, responders, autoreplies, unknown, outgoing, reserved_ids, kind, wire_id>>
      BY Zenon, <1>5, <1>0 DEF RecvTake, HolderThreads
    <2>2. incoming \in Seq(Envelopes)
      BY <1>0 DEF TypeOK
    <2>3. /\ IdsOf(incoming) = IdsOf(incoming)' \cup {Head(incoming).id}
          /\ DistinctIds(incoming)' /\ Head(incoming).id \notin IdsOf(incoming)'
      <3>1. /\ IdsOf(incoming) = IdsOf(Tail(incoming)) \cup {Head(incoming).id}
            /\ DistinctIds(Tail(incoming)) /\ Head(incoming).id \notin IdsOf(Tail(incoming))
        BY SMTT(30), <1>0, <2>1, <2>2, IdsOfTail
      <3>2. QED
        BY Zenon, <2>1, <3>1 DEF IdsOf, DistinctIds
    <2>4. IdsOf(receiving) = {} /\ IdsOf(receiving)' = {Head(incoming).id}
      BY SMTT(30), <2>1 DEF IdsOf
    <2>5. UNCHANGED QueuedReplyIds /\ DistinctReplies'
      BY SMTT(30), <1>0, <2>1 DEF QueuedReplyIds, DistinctReplies, Replies
    <2>6. Shares'
      BY <1>0, <2>1, <2>3, <2>4, <2>5 DEF Shares, Shared
    <2>7. HolderThreads'
      BY Zenon, <1>0, <2>1 DEF HolderThreads
    <2>8. QED
      BY SMTT(30), <2>3, <2>5, <2>6, <2>7, HoldersNext
  <1>6. ASSUME NEW valid \in BOOLEAN, RecvDecode(valid) PROVE HolderInv'
    <2>1. CASE valid
      <3>1. /\ responders' = responders \cup {receiving[1].id} /\ receiving' = <<>>
            /\ pc'["reader"] = pc["reader"]
            /\ UNCHANGED <<status, incoming, autoreplies, unknown, outgoing, reserved_ids, kind, wire_id>>
        BY Zenon, <1>6, <1>0, <2>1 DEF RecvDecode
      <3>2. IdsOf(receiving) = {receiving[1].id}
        BY Zenon, <1>6, <1>0, IdsOfOne DEF RecvDecode, TypeInv, ThreadsRemember, TypeOK
      <3>3. IdsOf(receiving)' = {}
        BY SMTT(30), <3>1 DEF IdsOf
      <3>4. /\ UNCHANGED <<IdsOf(incoming), QueuedReplyIds>>
            /\ Open => DistinctReplies' /\ DistinctIds(incoming)'
        BY SMTT(30), <1>0, <3>1 DEF IdsOf, QueuedReplyIds, DistinctReplies, DistinctIds, Replies
      <3>5. Open => Shares'
        BY SMTT(30), <1>0, <3>1, <3>2, <3>3, <3>4 DEF Shares, Shared
      <3>6. HolderThreads' /\ (Open' => Open)
        BY SMTT(30), <1>0, <3>1 DEF HolderThreads, Open
      <3>7. QED
        BY Zenon, <3>4, <3>5, <3>6, HoldersNext
    <2>2. CASE ~valid
      BY Zenon, <1>6, <1>0, <2>2, HoldersKept DEF RecvDecode
    <2>3. QED
      BY Zenon, <2>1, <2>2
  <1>7. ASSUME NEW k \in Keys, DropPromise(k) PROVE HolderInv'
    <2>1. UNCHANGED <<status, incoming, receiving, responders, autoreplies, unknown, outgoing,
                      reserved_ids, kind, wire_id>>
      BY Zenon, <1>7 DEF DropPromise
    <2>2. pc'["recv"] = pc["recv"] /\ (pc'["reader"] = pc["reader"] \/ pc["reader"] = "ready")
      BY Zenon, <1>7, <1>0 DEF DropPromise
    <2>3. QED
      BY Zenon, <2>1, <2>2, HoldersKept DEF HolderInv
  <1>8. ASSUME NEW k \in Keys, NEW valid \in BOOLEAN, TakeResult(k, valid) PROVE HolderInv'
    <2>1. UNCHANGED <<status, incoming, receiving, responders, autoreplies, unknown, outgoing,
                      reserved_ids, kind, wire_id>>
      BY Zenon, <1>8 DEF TakeResult
    <2>2. pc'["recv"] = pc["recv"] /\ (pc'["reader"] = pc["reader"] \/ pc["reader"] = "ready")
      BY Zenon, <1>8, <1>0 DEF TakeResult
    <2>3. QED
      BY Zenon, <2>1, <2>2, HoldersKept DEF HolderInv
  <1>9. ASSUME ReceiveError PROVE HolderInv'
    <2>1. UNCHANGED <<status, incoming, receiving, responders, autoreplies, unknown, outgoing,
                      reserved_ids, kind, wire_id>>
      BY Zenon, <1>9 DEF ReceiveError
    <2>2. pc'["recv"] = pc["recv"] /\ (pc'["reader"] = pc["reader"] \/ pc["reader"] = "ready")
      BY Zenon, <1>9, <1>0 DEF ReceiveError, ReaderFails
    <2>3. QED
      BY Zenon, <2>1, <2>2, HoldersKept DEF HolderInv
  <1>10. ASSUME NEW id \in InboundIds, NEW bytes \in Sizes, HandleResponse(id, bytes) PROVE HolderInv'
    <2>1. UNCHANGED <<status, incoming, receiving, responders, autoreplies, unknown, outgoing,
                      reserved_ids, kind, wire_id>>
      BY ZenonT(30), <1>10 DEF HandleResponse
    <2>2. pc'["recv"] = pc["recv"] /\ (pc'["reader"] = pc["reader"] \/ pc["reader"] = "ready")
      BY Zenon, <1>10, <1>0 DEF HandleResponse, ReaderFails
    <2>3. QED
      BY <2>1, <2>2, HoldersKept DEF HolderInv
  <1>11. ASSUME NEW k \in Keys, DeadlinePasses(k) PROVE HolderInv'
    <2>1. UNCHANGED <<status, incoming, receiving, responders, autoreplies, unknown, outgoing,
                      reserved_ids, kind, wire_id>>
      BY <1>11 DEF DeadlinePasses
    <2>2. pc'["recv"] = pc["recv"] /\ (pc'["reader"] = pc["reader"] \/ pc["reader"] = "ready")
      BY SMTT(30), <1>11, <1>0 DEF DeadlinePasses
    <2>3. QED
      BY <2>1, <2>2, HoldersKept DEF HolderInv
  <1>12. ASSUME FinishClose PROVE HolderInv'
    <2>1. UNCHANGED <<status, incoming, receiving, responders, autoreplies, unknown, outgoing,
                      reserved_ids, kind, wire_id>>
      BY <1>12 DEF FinishClose
    <2>2. pc'["recv"] = pc["recv"] /\ (pc'["reader"] = pc["reader"] \/ pc["reader"] = "ready")
      BY SMTT(30), <1>12, <1>0 DEF FinishClose
    <2>3. QED
      BY <2>1, <2>2, HoldersKept DEF HolderInv
  <1>13. ASSUME WriterStops PROVE HolderInv'
    <2>1. UNCHANGED <<status, incoming, receiving, responders, autoreplies, unknown, outgoing,
                      reserved_ids, kind, wire_id>>
      BY Zenon, <1>13 DEF WriterStops
    <2>2. pc'["recv"] = pc["recv"] /\ (pc'["reader"] = pc["reader"] \/ pc["reader"] = "ready")
      BY SMTT(30), <1>13, <1>0 DEF WriterStops
    <2>3. QED
      BY <2>1, <2>2, HoldersKept DEF HolderInv
  <1>14. ASSUME WriterSend PROVE HolderInv'
    <2>1. UNCHANGED <<status, incoming, receiving, responders, autoreplies, unknown, outgoing,
                      reserved_ids, kind, wire_id>>
      BY Zenon, <1>14 DEF WriterSend
    <2>2. pc'["recv"] = pc["recv"] /\ (pc'["reader"] = pc["reader"] \/ pc["reader"] = "ready")
      BY SMTT(30), <1>14, <1>0 DEF WriterSend
    <2>3. QED
      BY <2>1, <2>2, HoldersKept DEF HolderInv
  <1>15. ASSUME WriterUnroute PROVE HolderInv'
    <2>1. UNCHANGED <<status, incoming, receiving, responders, autoreplies, unknown, outgoing,
                      reserved_ids, kind, wire_id>>
      BY Zenon, <1>15 DEF WriterUnroute
    <2>2. pc'["recv"] = pc["recv"] /\ (pc'["reader"] = pc["reader"] \/ pc["reader"] = "ready")
      BY <1>15, <1>0 DEF WriterUnroute
    <2>3. QED
      BY <2>1, <2>2, HoldersKept DEF HolderInv
  <1>16. ASSUME RecordWrite PROVE HolderInv'
    <2>1. UNCHANGED <<status, incoming, receiving, responders, autoreplies, unknown, outgoing,
                      reserved_ids, kind, wire_id>>
      BY ZenonT(30), <1>16 DEF RecordWrite
    <2>2. pc'["recv"] = pc["recv"] /\ (pc'["reader"] = pc["reader"] \/ pc["reader"] = "ready")
      BY Zenon, <1>16, <1>0 DEF RecordWrite
    <2>3. QED
      BY <2>1, <2>2, HoldersKept DEF HolderInv
  <1>17. ASSUME WriterDisconnect PROVE HolderInv'
    <2>1. UNCHANGED <<status, incoming, receiving, responders, autoreplies, unknown, outgoing,
                      reserved_ids, kind, wire_id>>
      BY Zenon, <1>17 DEF WriterDisconnect
    <2>2. pc'["recv"] = pc["recv"] /\ (pc'["reader"] = pc["reader"] \/ pc["reader"] = "ready")
      BY Zenon, <1>17, <1>0 DEF WriterDisconnect
    <2>3. QED
      BY <2>1, <2>2, HoldersKept DEF HolderInv
  <1>18. ASSUME RecvMalformed PROVE HolderInv'
    <2>1. \E reason \in Reasons : CloseState(reason)
      BY SMTT(30), <1>18, <1>0 DEF RecvMalformed
    <2>2. status' \in Reasons /\ outgoing' \subseteq outgoing
      BY Zenon, <1>0, <2>1 DEF CloseState, Open, TypeOK
    <2>3. QED
      BY <1>18, <1>0, <2>2, HoldersClosed DEF RecvMalformed
  <1>19. ASSUME CloseMalformedWait PROVE HolderInv'
    <2>1. \E reason \in Reasons : CloseState(reason)
      BY Zenon, <1>19, <1>0 DEF CloseMalformedWait
    <2>2. status' \in Reasons /\ outgoing' \subseteq outgoing
      BY <1>0, <2>1 DEF CloseState, Open, TypeOK
    <2>3. QED
      BY Zenon, <1>19, <1>0, <2>2, HoldersClosed DEF CloseMalformedWait
  <1>20. ASSUME Close PROVE HolderInv'
    <2>1. \E reason \in Reasons : CloseState(reason)
      BY Zenon, <1>20, <1>0 DEF Close
    <2>2. status' \in Reasons /\ outgoing' \subseteq outgoing
      BY <1>0, <2>1 DEF CloseState, Open, TypeOK
    <2>3. QED
      BY Zenon, <1>20, <1>0, <2>2, HoldersClosed DEF Close
  <1>21. ASSUME WriterClose PROVE HolderInv'
    <2>1. \E reason \in Reasons : CloseState(reason)
      BY SMTT(30), <1>21, <1>0 DEF WriterClose
    <2>2. status' \in Reasons /\ outgoing' \subseteq outgoing
      BY <1>0, <2>1 DEF CloseState, Open, TypeOK
    <2>3. QED
      BY Zenon, <1>21, <1>0, <2>2, HoldersClosed DEF WriterClose
  <1>22. ASSUME ReaderClose PROVE HolderInv'
    <2>1. \E reason \in Reasons : CloseState(reason)
      BY SMTT(30), <1>22, <1>0 DEF ReaderClose, TypeInv, ThreadsRemember
    <2>2. status' \in Reasons /\ outgoing' \subseteq outgoing
      BY <1>0, <2>1 DEF CloseState, Open, TypeOK
    <2>3. QED
      BY <1>22, <1>0, <2>2, HoldersClosed DEF ReaderClose
  <1>23. ASSUME NEW l \in Limits, SetInboundLimits(l) PROVE HolderInv'
    <2>1. UNCHANGED <<kind, wire_id, pc, holderVars>>
      BY Zenon, <1>23 DEF SetInboundLimits
    <2>2. CASE \E reason \in Reasons : CloseState(reason)
      <3>1. status' \in Reasons /\ outgoing' \subseteq outgoing
        BY Zenon, <1>0, <2>2 DEF CloseState, Open, TypeOK
      <3>2. QED
        BY SMTT(30), <2>1, <3>1, HoldersClosed
    <2>3. CASE UNCHANGED <<status, outgoing, incoming, reserved_ids>>
      BY SMTT(30), <2>1, <2>3, HoldersKept
    <2>4. QED
      BY Zenon, <1>23, <2>2, <2>3 DEF SetInboundLimits
  <1>24. ASSUME NEW id \in InboundIds, NEW bytes \in Sizes, NEW known \in BOOLEAN, HandleRequest(id, bytes, known) PROVE HolderInv'
    <2>1. /\ pc["reader"] = "ready" /\ unknown = {}
          /\ UNCHANGED <<status, outgoing, kind, wire_id, responders, autoreplies, receiving>>
      BY Zenon, <1>24, <1>0 DEF HandleRequest, HolderThreads
    <2>2. CASE UNCHANGED <<incoming, reserved_ids, unknown>>
      <3>1. pc'["recv"] = pc["recv"]
        BY Zenon, <1>24, <1>0 DEF HandleRequest, ReaderFails
      <3>2. QED
        BY SMTT(30), <2>1, <2>2, <3>1, HoldersKept
    <2>3. CASE /\ Open /\ id \notin reserved_ids
               /\ reserved_ids' = reserved_ids \cup {id}
               /\ incoming' = Append(incoming, [id |-> id, bytes |-> bytes])
               /\ UNCHANGED <<pc, unknown>>
      <3> DEFINE e == [id |-> id, bytes |-> bytes]
      <3>1. e \in Envelopes /\ e.id = id /\ incoming \in Seq(Envelopes)
        BY SMTT(30), <1>0, ConstantsAssumption DEF Envelopes, Ids, TypeOK
      <3>2. id \notin IdsOf(incoming)
        BY SMTT(30), <1>0, <2>3 DEF Shares, Shared
      <3> HIDE DEF e
      <3>3. /\ IdsOf(Append(incoming, e)) = IdsOf(incoming) \cup {id}
            /\ DistinctIds(Append(incoming, e))
        BY Zenon, <1>0, <2>3, <3>1, <3>2, IdsOfAppend
      <3>4. /\ IdsOf(incoming)' = IdsOf(incoming) \cup {id}
            /\ DistinctIds(incoming)'
        BY Zenon, <2>3, <3>3 DEF IdsOf, DistinctIds, e
      <3>5. UNCHANGED <<IdsOf(receiving), QueuedReplyIds>> /\ DistinctReplies'
        <4>1. UNCHANGED IdsOf(receiving)
          BY Zenon, <2>1 DEF IdsOf
        <4>2. UNCHANGED QueuedReplyIds /\ DistinctReplies'
          BY ZenonT(30), <1>0, <2>1, <2>3, RepliesKept
        <4>3. QED
          BY Zenon, <4>1, <4>2
      <3>6. Shares'
        BY <1>0, <2>1, <2>3, <3>4, <3>5 DEF Shares, Shared
      <3>7. HolderThreads'
        BY Zenon, <1>0, <2>1, <2>3 DEF HolderThreads
      <3>8. QED
        BY Zenon, <3>4, <3>5, <3>6, <3>7, HoldersNext
    <2>4. CASE /\ Open /\ id \notin reserved_ids
               /\ reserved_ids' = reserved_ids \cup {id}
               /\ unknown' = {id}
               /\ pc' = [pc EXCEPT !["reader"] = "unknown"]
               /\ UNCHANGED incoming
      <3>1. /\ UNCHANGED <<IdsOf(incoming), IdsOf(receiving), QueuedReplyIds>>
            /\ DistinctReplies' /\ DistinctIds(incoming)'
        <4>1. UNCHANGED <<IdsOf(incoming), IdsOf(receiving)>>
          BY Zenon, <2>1, <2>4 DEF IdsOf
        <4>2. DistinctIds(incoming)'
          BY Zenon, <1>0, <2>4 DEF DistinctIds
        <4>3. UNCHANGED QueuedReplyIds /\ DistinctReplies'
          BY Zenon, <1>0, <2>1, <2>4, RepliesKept
        <4>4. QED
          BY Zenon, <4>1, <4>2, <4>3
      <3>2. Shares'
        BY <1>0, <2>1, <2>4, <3>1 DEF Shares, Shared
      <3>3. HolderThreads'
        BY Zenon, <1>0, <2>1, <2>4 DEF HolderThreads
      <3>4. QED
        BY SMTT(30), <3>1, <3>2, <3>3, HoldersNext
    <2>5. QED
      BY SMTT(30), <1>24, <2>2, <2>3, <2>4 DEF HandleRequest
  <1>25. ASSUME ReadAutoreplyTimeout PROVE HolderInv'
    <2>1. /\ pc["reader"] = "unknown" /\ pc'["recv"] = pc["recv"]
          /\ pc'["reader"] = IF Open THEN "autoreply" ELSE "ready"
          /\ unknown' = IF Open THEN unknown ELSE {}
          /\ UNCHANGED <<status, incoming, receiving, responders, autoreplies, outgoing,
                         reserved_ids, kind, wire_id>>
      BY Zenon, <1>25, <1>0 DEF ReadAutoreplyTimeout
    <2>2. HolderThreads'
      BY SMTT(30), <1>0, <2>1 DEF HolderThreads
    <2>3. Open' => Shares' /\ DistinctIds(incoming)' /\ DistinctReplies'
      <3>1. UNCHANGED <<Open, IdsOf(incoming), IdsOf(receiving), QueuedReplyIds>>
        BY Zenon, <2>1 DEF Open, IdsOf, QueuedReplyIds, Replies
      <3>2. Open => Shares'
        BY SMTT(30), <1>0, <2>1, <3>1 DEF Shares
      <3>3. Open => DistinctIds(incoming)' /\ DistinctReplies'
        BY <1>0, <2>1 DEF DistinctIds, DistinctReplies, Replies
      <3>4. QED
        BY SMTT(30), <3>1, <3>2, <3>3
    <2>4. QED
      BY Zenon, <2>2, <2>3, HoldersNext
  <1>26. ASSUME NEW late \in BOOLEAN, ReplyUnknown(late) PROVE HolderInv'
    <2>1. /\ unknown' = {} /\ pc'["recv"] = pc["recv"]
          /\ UNCHANGED <<responders, autoreplies, receiving>>
      BY Zenon, <1>26, <1>0 DEF ReplyUnknown
    <2>2. CASE Open
      <3>1. PICK id \in unknown : Enqueue("reply", id, late, FALSE)
        BY ZenonT(30), <1>26, <2>2 DEF ReplyUnknown
      <3>2. id \notin QueuedReplyIds /\ unknown = {id} /\ id \in Ids
        BY <1>0, <2>2 DEF Shares, Shared, HolderThreads, TypeOK
      <3>3. /\ DistinctReplies' /\ \A k \in outgoing' : kind'[k] # "none"
            /\ UNCHANGED <<status, incoming>>
            /\ \/ reserved_ids' = reserved_ids /\ QueuedReplyIds' = QueuedReplyIds \cup {id}
               \/ reserved_ids' = reserved_ids \ {id} /\ QueuedReplyIds' = QueuedReplyIds
        BY Zenon, <1>0, <2>2, <3>1, <3>2, HoldersEnqueue
      <3>4. IdsOf(incoming)' = IdsOf(incoming) /\ IdsOf(receiving)' = IdsOf(receiving)
        BY Zenon, <2>1, <3>3 DEF IdsOf
      <3>5. Shares'
        BY SMTT(30), <1>0, <2>1, <2>2, <3>2, <3>3, <3>4 DEF Shares, Shared
      <3>6. DistinctIds(incoming)' /\ HolderThreads'
        BY Zenon, <1>0, <2>1, <2>2, <3>3 DEF DistinctIds, HolderThreads
      <3>7. QED
        BY Zenon, <3>3, <3>5, <3>6, HoldersNext
    <2>3. CASE ~Open
      <3>1. UNCHANGED <<status, outgoing, kind>> /\ ~Open'
        BY Zenon, <1>26, <2>3 DEF ReplyUnknown, Open
      <3>2. HolderThreads'
        BY Zenon, <1>0, <2>1, <3>1 DEF HolderThreads
      <3>3. QED
        BY Zenon, <3>1, <3>2, HoldersNext
    <2>4. QED
      BY <2>2, <2>3
  <1>27. ASSUME Expire PROVE HolderInv'
    <2>1. PICK gone \in SUBSET outgoing :
            /\ outgoing' = outgoing \ gone
            /\ reserved_ids' = reserved_ids \ {wire_id[k] : k \in gone \cap Replies}
            /\ \A k \in outgoing' \cap Replies : wire_id'[k] = wire_id[k]
      <3>1. /\ outgoing' = LiveOutgoing /\ reserved_ids' = reserved_ids \ ExpiredReplyIds
            /\ UNCHANGED wire_id
        BY <1>27 DEF Expire, ExpireState
      <3>2. LiveOutgoing = outgoing \ (outgoing \ LiveOutgoing)
        BY Zenon DEF LiveOutgoing
      <3>3. QED
        BY Zenon, <3>1, <3>2 DEF ExpiredReplyIds
    <2>2. /\ Open /\ pc'["recv"] = pc["recv"] /\ pc'["reader"] = pc["reader"]
          /\ UNCHANGED <<status, incoming, kind, holderVars>>
      BY SMTT(30), <1>27, <1>0 DEF Expire
    <2> DEFINE ids == {wire_id[k] : k \in gone \cap Replies}
    <2>3. QueuedReplyIds' = QueuedReplyIds \ ids /\ DistinctReplies'
      BY SMTT(30), <1>0, <2>1, <2>2, HoldersDequeue
    <2>4. ids \subseteq QueuedReplyIds
      BY SMTT(30), <2>1 DEF QueuedReplyIds
    <2>5. reserved_ids' = reserved_ids \ ids
      BY SMTT(30), <2>1
    <2> HIDE DEF ids
    <2>6. UNCHANGED <<IdsOf(incoming), IdsOf(receiving)>> /\ DistinctIds(incoming)'
      BY SMTT(30), <1>0, <2>2 DEF IdsOf, DistinctIds
    <2>7. Shares'
      BY SMTT(30), <1>0, <2>2, <2>3, <2>4, <2>5, <2>6 DEF Shares, Shared
    <2>8. HolderThreads'
      BY SMTT(30), <1>0, <2>1, <2>2 DEF HolderThreads
    <2>9. QED
      BY <2>3, <2>6, <2>7, <2>8, HoldersNext
  <1>28. ASSUME NextOutgoing PROVE HolderInv'
    <2>1. PICK gone \in SUBSET outgoing :
            /\ outgoing' = outgoing \ gone
            /\ reserved_ids' = reserved_ids \ {wire_id[k] : k \in gone \cap Replies}
            /\ \A k \in outgoing' \cap Replies : wire_id'[k] = wire_id[k]
      <3>1. PICK k \in Keys :
              /\ k \in LiveOutgoing
              /\ outgoing' = LiveOutgoing \ {k}
              /\ reserved_ids' = (reserved_ids \ ExpiredReplyIds)
                                   \ (IF kind[k] = "reply" THEN {wire_id[k]} ELSE {})
              /\ wire_id' = wire_id \/ (kind[k] # "reply" /\ wire_id' = [wire_id EXCEPT ![k] = next_id])
        BY <1>28 DEF NextOutgoing, IsFront
      <3> DEFINE gone == (outgoing \ LiveOutgoing) \cup {k}
      <3>2. gone \in SUBSET outgoing /\ outgoing' = outgoing \ gone
        BY SMTT(30), <3>1 DEF LiveOutgoing
      <3>3. \A j \in outgoing' \cap Replies : wire_id'[j] = wire_id[j]
        BY Zenon, <1>0, <3>1 DEF Replies, TypeOK
      <3>4. gone \cap Replies = ((outgoing \ LiveOutgoing) \cap Replies)
                                  \cup (IF kind[k] = "reply" THEN {k} ELSE {})
        BY SMTT(30), <3>1 DEF Replies
      <3>5. reserved_ids' = reserved_ids \ {wire_id[j] : j \in gone \cap Replies}
        BY SMTT(30), <3>1, <3>4 DEF ExpiredReplyIds
      <3>6. QED
        BY Zenon, <3>2, <3>3, <3>5
    <2>2. /\ Open /\ pc'["recv"] = pc["recv"] /\ pc'["reader"] = pc["reader"]
          /\ UNCHANGED <<status, incoming, kind, holderVars>>
      BY SMTT(30), <1>28, <1>0 DEF NextOutgoing
    <2> DEFINE ids == {wire_id[k] : k \in gone \cap Replies}
    <2>3. QueuedReplyIds' = QueuedReplyIds \ ids /\ DistinctReplies'
      BY <1>0, <2>1, <2>2, HoldersDequeue
    <2>4. ids \subseteq QueuedReplyIds
      BY <2>1 DEF QueuedReplyIds
    <2>5. reserved_ids' = reserved_ids \ ids
      BY <2>1
    <2> HIDE DEF ids
    <2>6. UNCHANGED <<IdsOf(incoming), IdsOf(receiving)>> /\ DistinctIds(incoming)'
      BY <1>0, <2>2 DEF IdsOf, DistinctIds
    <2>7. Shares'
      BY <1>0, <2>2, <2>3, <2>4, <2>5, <2>6 DEF Shares, Shared
    <2>8. HolderThreads'
      BY <1>0, <2>1, <2>2 DEF HolderThreads
    <2>9. QED
      BY <2>3, <2>6, <2>7, <2>8, HoldersNext
  <1>29. CASE UNCHANGED vars
    BY <1>29, HoldersKept DEF vars
  <1>30. QED
    BY Zenon, <1>1, <1>2, <1>3, <1>4, <1>5, <1>6, <1>7, <1>8, <1>9, <1>10, <1>11, <1>12,
       <1>13, <1>14, <1>15, <1>16, <1>17, <1>18, <1>19, <1>20, <1>21, <1>22, <1>23, <1>24,
       <1>25, <1>26, <1>27, <1>28, <1>29
       DEF Next, Application, Reader, Writer, Clock

(* A session starts with no holders.                                       *)
LEMMA HolderInit == Init => HolderInv
  <1>1. Init => HolderThreads
    BY SMTT(30) DEF Init, HolderThreads
  <1>2. Init => Shares
    <2>1. Init => IdsOf(incoming) = {} /\ IdsOf(receiving) = {} /\ QueuedReplyIds = {}
      BY ZenonT(30), IdsOfNone DEF Init, QueuedReplyIds
    <2>2. QED
      BY <2>1 DEF Init, Shares, Shared
  <1>3. Init => DistinctIds(incoming) /\ DistinctReplies
    BY DEF Init, DistinctIds, DistinctReplies
  <1>4. QED
    BY Zenon, <1>1, <1>2, <1>3, HolderParts DEF HolderInv

(* While a session is open, every accepted request that still owes an      *)
(* answer is owed by exactly one party, and its ID is reserved for exactly *)
(* that long: no sequence of recv, reply, drop, automatic reply, expiry    *)
(* and write answers a request twice or leaks its slot.                    *)
THEOREM RequestsAreOwedOnce == Spec => []OneHolderPerRequest
  <1>1. (PromiseInv /\ HolderInv) /\ [Next]_vars => (PromiseInv /\ HolderInv)'
    BY PromiseStep, HolderStep
  <1>2. HolderInv => OneHolderPerRequest
    BY DEF HolderInv
  <1>3. QED
    BY <1>1, <1>2, PromiseInit, HolderInit, PTL DEF Spec
----------------------------------------------------------------------------
(* What is charged is released: sums first, then the ledger.               *)

LOCAL INSTANCE WellFoundedInduction

(* Every non-empty set of numbers has a least element.                     *)
LEMMA LeastNumber ==
  ASSUME NEW T \in SUBSET Nat, T # {}
  PROVE  \E m \in T : \A k \in T : m <= k
  <1>1. PICK m \in T : \A k \in T : ~(<<k, m>> \in OpToRel(<, Nat))
    BY Zenon, NatLessThanWellFounded, WFMin
  <1>2. \A k \in T : ~(k < m)
    BY Zenon, <1>1 DEF OpToRel
  <1>3. QED
    BY <1>2

(* Induction over the numbers, for a property given as a set.              *)
LEMMA SetInduction ==
  ASSUME NEW T, 0 \in T, \A n \in Nat : n \in T => n + 1 \in T
  PROVE  Nat \subseteq T
  <1>1. SUFFICES ASSUME Nat \ T # {} PROVE FALSE
    OBVIOUS
  <1>2. PICK m \in Nat \ T : \A k \in Nat \ T : m <= k
    BY Zenon, <1>1, LeastNumber
  <1>3. m - 1 \in Nat /\ m - 1 \in T
    BY <1>2
  <1>4. QED
    BY <1>2, <1>3

(* t holds the sum of each prefix of s.                                    *)
PrefixSums(s, t) ==
  /\ t \in [0 .. Len(s) -> Nat]
  /\ t[0] = 0
  /\ \A i \in 1 .. Len(s) : t[i] = t[i - 1] + s[i]

(* The recursion of Total is well founded: a sequence has prefix sums, and *)
(* Total is the last of them.                                              *)
LEMMA TotalSums ==
  ASSUME NEW s \in Seq(Nat)
  PROVE  \E t : PrefixSums(s, t) /\ Total(s) = t[Len(s)]
  <1> DEFINE n == Len(s)
             IsRun(t, m) == /\ t \in [0 .. m -> Nat]
                            /\ t[0] = 0
                            /\ \A i \in 1 .. m : t[i] = t[i - 1] + s[i]
             T == {m \in Nat : m <= n => \E t : IsRun(t, m)}
  <1> HIDE DEF IsRun
  <1>1. n \in Nat /\ \A i \in 1 .. n : s[i] \in Nat
    OBVIOUS
  <1>2. 0 \in T
    <2>1. IsRun([i \in 0 .. 0 |-> 0], 0)
      BY DEF IsRun
    <2>2. QED
      BY <2>1
  <1>3. ASSUME NEW m \in Nat, m \in T PROVE m + 1 \in T
    <2>1. SUFFICES ASSUME m + 1 <= n PROVE \E t : IsRun(t, m + 1)
      OBVIOUS
    <2>2. PICK t : IsRun(t, m)
      BY <1>1, <1>3, <2>1
    <2> DEFINE u == [i \in 0 .. m + 1 |-> IF i = m + 1 THEN t[m] + s[m + 1] ELSE t[i]]
    <2>3. /\ m + 1 \in 0 .. m + 1 /\ \A i \in 0 .. m : i \in 0 .. m + 1 /\ i # m + 1
          /\ s[m + 1] \in Nat /\ t[m] \in Nat
      BY <1>1, <2>1, <2>2 DEF IsRun
    <2>4. u[m + 1] = t[m] + s[m + 1] /\ \A i \in 0 .. m : u[i] = t[i]
      BY <2>3
    <2>5. u \in [0 .. m + 1 -> Nat]
      BY <2>2, <2>3 DEF IsRun
    <2> HIDE DEF u
    <2>6. \A i \in 1 .. m + 1 : u[i] = u[i - 1] + s[i]
      <3>1. ASSUME NEW i \in 1 .. m PROVE u[i] = u[i - 1] + s[i]
        <4>1. i \in 0 .. m /\ i - 1 \in 0 .. m
          OBVIOUS
        <4>2. u[i] = t[i] /\ u[i - 1] = t[i - 1]
          BY Zenon, <2>4, <4>1
        <4>3. t[i] = t[i - 1] + s[i]
          BY <2>2 DEF IsRun
        <4>4. QED
          BY <4>2, <4>3
      <3>2. u[m + 1] = u[m + 1 - 1] + s[m + 1]
        BY <2>4
      <3>3. SUFFICES ASSUME NEW i \in 1 .. m + 1 PROVE u[i] = u[i - 1] + s[i]
        OBVIOUS
      <3>4. CASE i \in 1 .. m
        BY Zenon, <3>1, <3>4
      <3>5. CASE i = m + 1
        BY <3>2, <3>5
      <3>6. QED
        BY <3>4, <3>5
    <2>7. u[0] = 0
      BY <2>2, <2>4 DEF IsRun
    <2>8. IsRun(u, m + 1)
      BY <2>5, <2>6, <2>7 DEF IsRun
    <2>9. QED
      BY <2>8
  <1>4. n \in T
    <2> HIDE DEF T
    <2>1. QED
      BY Zenon, <1>1, <1>2, <1>3, SetInduction
  <1>5. PICK t : IsRun(t, n)
    BY <1>1, <1>4
  <1> DEFINE Step(g) == [i \in 0 .. Len(s) |-> IF i = 0 THEN 0 ELSE g[i - 1] + s[i]]
             upTo == CHOOSE g : g = Step(g)
  <1>6. t = Step(t)
    BY <1>1, <1>5 DEF IsRun
  <1>7. upTo = Step(upTo)
    <2> HIDE DEF Step
    <2>1. QED
      BY Zenon, <1>6
  <1>8. Total(s) = upTo[Len(s)]
    BY DEF Total
  <1> HIDE DEF upTo
  <1> DEFINE A == {i \in Nat : i <= n => upTo[i] = t[i]}
  <1>9. 0 \in A
    BY <1>1, <1>5, <1>7 DEF IsRun
  <1>10. ASSUME NEW i \in Nat, i \in A PROVE i + 1 \in A
    <2>1. SUFFICES ASSUME i + 1 <= n PROVE upTo[i + 1] = t[i + 1]
      OBVIOUS
    <2>2. i + 1 \in 1 .. n /\ i + 1 \in 0 .. Len(s) /\ i + 1 # 0 /\ i + 1 - 1 = i
      BY <1>1, <2>1
    <2>3. upTo[i + 1] = upTo[i + 1 - 1] + s[i + 1]
      BY <1>7, <2>2
    <2>4. t[i + 1] = t[i + 1 - 1] + s[i + 1]
      BY <1>5, <2>2 DEF IsRun
    <2>5. upTo[i] = t[i]
      BY <1>1, <1>10, <2>2
    <2>6. QED
      BY <2>2, <2>3, <2>4, <2>5
  <1>11. n \in A
    <2> HIDE DEF A
    <2>1. QED
      BY Zenon, <1>1, <1>9, <1>10, SetInduction
  <1>12. PrefixSums(s, t)
    BY <1>5 DEF PrefixSums, IsRun
  <1>13. Total(s) = t[Len(s)]
    BY <1>1, <1>8, <1>11
  <1>14. QED
    BY Zenon, <1>12, <1>13

(* The prefix sums of a sequence of numbers.                               *)
Sums(s) == CHOOSE t : PrefixSums(s, t) /\ Total(s) = t[Len(s)]

(* What prefix sums are, in the form the provers use.                      *)
LEMMA SumsFacts ==
  ASSUME NEW s \in Seq(Nat)
  PROVE  /\ Sums(s)[0] = 0
         /\ Total(s) = Sums(s)[Len(s)]
         /\ \A i \in 0 .. Len(s) : Sums(s)[i] \in Nat
         /\ \A i \in 1 .. Len(s) : Sums(s)[i] = Sums(s)[i - 1] + s[i]
  <1>1. PICK t : PrefixSums(s, t) /\ Total(s) = t[Len(s)]
    BY Zenon, TotalSums
  <1>2. PrefixSums(s, Sums(s))
    BY Zenon, <1>1 DEF Sums
  <1>3. Total(s) = Sums(s)[Len(s)]
    BY Zenon, <1>1 DEF Sums
  <1> DEFINE u == Sums(s)
  <1> HIDE DEF u
  <1>4. /\ u[0] = 0
        /\ \A i \in 0 .. Len(s) : u[i] \in Nat
        /\ \A i \in 1 .. Len(s) : u[i] = u[i - 1] + s[i]
    <2>1. PrefixSums(s, u)
      BY Zenon, <1>2 DEF u
    <2>2. QED
      BY SMTT(30), <2>1 DEF PrefixSums
  <1>5. QED
    BY Zenon, <1>3, <1>4 DEF u

(* What the elements after place k add up to at place n.                   *)
Grown(s, k, n) == Sums(s)[n] - Sums(s)[k]

(* From k to n, r runs e places ahead of s.                                *)
Ahead(r, s, e, k, n) ==
  /\ e \in Nat /\ k \in Nat /\ n \in Nat
  /\ k <= n /\ n + e <= Len(r) /\ n <= Len(s)
  /\ \A i \in k + 1 .. n : r[i + e] = s[i]

(* Where two sequences agree, their prefix sums grow alike.                *)
LEMMA SumsGrowAlike ==
  ASSUME NEW r \in Seq(Nat), NEW s \in Seq(Nat),
         NEW e \in Nat, NEW k \in Nat, NEW n \in Nat, Ahead(r, s, e, k, n)
  PROVE  Grown(r, k + e, n + e) = Grown(s, k, n)
  <1> DEFINE D(j) == Sums(r)[j + e] - Sums(s)[j]
             T == {j \in Nat : k <= j /\ j <= n => D(j) = D(k)}
  <1>1. k <= n /\ n + e <= Len(r) /\ n <= Len(s)
    BY DEF Ahead
  <1>2. \A i \in k .. n : Sums(r)[i + e] \in Nat /\ Sums(s)[i] \in Nat
    <2>1. \A i \in k .. n : i + e \in 0 .. Len(r) /\ i \in 0 .. Len(s)
      BY <1>1
    <2>2. QED
      BY <2>1, SumsFacts
  <1>3. ASSUME NEW j \in Nat, k <= j, j + 1 <= n PROVE D(j + 1) = D(j)
    <2>1. j + 1 + e \in 1 .. Len(r) /\ j + 1 \in 1 .. Len(s) /\ j + 1 \in k + 1 .. n /\ j \in k .. n
      BY <1>1, <1>3
    <2>2. j + 1 + e - 1 = j + e /\ j + 1 - 1 = j
      OBVIOUS
    <2>3. Sums(r)[j + 1 + e] = Sums(r)[j + e] + r[j + 1 + e]
      BY SMTT(30), <2>1, <2>2, SumsFacts
    <2>4. Sums(s)[j + 1] = Sums(s)[j] + s[j + 1]
      BY <2>1, <2>2, SumsFacts
    <2>5. r[j + 1 + e] = s[j + 1]
      BY Zenon, <2>1 DEF Ahead
    <2>6. s[j + 1] \in Nat /\ Sums(r)[j + e] \in Nat /\ Sums(s)[j] \in Nat
      BY SMTT(30), <1>2, <2>1
    <2>7. PICK x \in Nat, y \in Nat, z \in Nat :
            x = Sums(r)[j + e] /\ y = Sums(s)[j] /\ z = s[j + 1]
      BY Zenon, <2>6
    <2>8. Sums(r)[j + 1 + e] = x + z /\ Sums(s)[j + 1] = y + z
      BY <2>3, <2>4, <2>5, <2>7
    <2>9. (x + z) - (y + z) = x - y
      OBVIOUS
    <2>10. QED
      BY <2>7, <2>8, <2>9
  <1> HIDE DEF D
  <1>4. 0 \in T
    OBVIOUS
  <1>5. ASSUME NEW j \in Nat, j \in T PROVE j + 1 \in T
    <2>1. SUFFICES ASSUME k <= j + 1, j + 1 <= n PROVE D(j + 1) = D(k)
      OBVIOUS
    <2>2. CASE k = j + 1
      BY <2>2
    <2>3. CASE k <= j
      BY <1>3, <1>5, <2>1, <2>3
    <2>4. QED
      BY <2>1, <2>2, <2>3
  <1> HIDE DEF T
  <1>6. n \in T
    BY Zenon, <1>4, <1>5, SetInduction
  <1>7. D(n) = D(k)
    BY <1>1, <1>6 DEF T
  <1>8. k \in k .. n /\ n \in k .. n
    BY <1>1
  <1>9. /\ Sums(r)[n + e] \in Nat /\ Sums(s)[n] \in Nat
        /\ Sums(r)[k + e] \in Nat /\ Sums(s)[k] \in Nat
    BY Zenon, <1>2, <1>8
  <1>10. PICK rn \in Nat, rk \in Nat, sn \in Nat, sk \in Nat :
           /\ rn = Sums(r)[n + e] /\ sn = Sums(s)[n]
           /\ rk = Sums(r)[k + e] /\ sk = Sums(s)[k]
    BY Zenon, <1>9
  <1>11. rn - sn = rk - sk
    BY <1>7, <1>10 DEF D
  <1>12. rn - rk = sn - sk
    BY <1>11
  <1>13. QED
    BY <1>10, <1>12 DEF Grown

(* A sum of numbers is a number.                                           *)
LEMMA TotalNat ==
  ASSUME NEW s \in Seq(Nat)
  PROVE  Total(s) \in Nat
  <1>1. Len(s) \in 0 .. Len(s)
    OBVIOUS
  <1>2. QED
    BY Zenon, <1>1, SumsFacts

(* The sum of nothing.                                                     *)
LEMMA TotalEmpty == Total(<<>>) = 0
  <1>1. <<>> \in Seq(Nat) /\ Len(<<>>) = 0
    OBVIOUS
  <1>2. QED
    BY Zenon, <1>1, SumsFacts

(* An element at the end adds to the sum.                                  *)
LEMMA TotalLonger ==
  ASSUME NEW s \in Seq(Nat), NEW r \in Seq(Nat), NEW n \in Nat, n = Len(s), Len(r) = n + 1,
         \A i \in 1 .. n : r[i] = s[i]
  PROVE  Total(r) = Total(s) + r[n + 1]
  <1>1. Ahead(r, s, 0, 0, n) /\ 0 \in Nat
    BY DEF Ahead
  <1>2. Grown(r, 0, n) = Grown(s, 0, n)
    BY SMTT(30), <1>1, SumsGrowAlike
  <1>3. /\ n + 1 \in 1 .. Len(r) /\ n + 1 - 1 = n
        /\ n \in 0 .. Len(r) /\ n \in 0 .. Len(s)
    OBVIOUS
  <1>4. Sums(r)[n + 1] = Sums(r)[n] + r[n + 1]
    <2>1. \A i \in 1 .. Len(r) : Sums(r)[i] = Sums(r)[i - 1] + r[i]
      BY Zenon, SumsFacts
    <2>2. QED
      BY <1>3, <2>1
  <1>5. Sums(r)[n] \in Nat /\ Sums(s)[n] \in Nat /\ Sums(r)[0] = 0 /\ Sums(s)[0] = 0
    BY Zenon, <1>3, SumsFacts
  <1>6. Total(r) = Sums(r)[n + 1] /\ Total(s) = Sums(s)[n]
    BY SMTT(30), SumsFacts
  <1>7. QED
    BY <1>2, <1>4, <1>5, <1>6 DEF Grown

(* So does one at the front.                                               *)
LEMMA TotalEarlier ==
  ASSUME NEW s \in Seq(Nat), NEW r \in Seq(Nat), NEW n \in Nat, n = Len(s), Len(r) = n + 1,
         \A i \in 1 .. n : r[i + 1] = s[i]
  PROVE  Total(r) = r[1] + Total(s)
  <1>1. Ahead(r, s, 1, 0, n) /\ 0 \in Nat /\ 1 \in Nat
    BY DEF Ahead
  <1>2. Grown(r, 0 + 1, n + 1) = Grown(s, 0, n)
    BY <1>1, SumsGrowAlike
  <1>3. /\ 1 \in 1 .. Len(r) /\ 1 - 1 = 0 /\ 0 + 1 = 1 /\ r[1] \in Nat
        /\ n + 1 \in 0 .. Len(r) /\ n \in 0 .. Len(s)
    OBVIOUS
  <1>4. Sums(r)[1] = Sums(r)[1 - 1] + r[1]
    BY Zenon, <1>3, SumsFacts
  <1>5. Sums(r)[n + 1] \in Nat /\ Sums(s)[n] \in Nat /\ Sums(r)[0] = 0 /\ Sums(s)[0] = 0
    BY Zenon, <1>3, SumsFacts
  <1>6. Total(r) = Sums(r)[n + 1] /\ Total(s) = Sums(s)[n]
    BY SMTT(30), SumsFacts
  <1>7. QED
    BY SMTT(30), <1>2, <1>3, <1>4, <1>5, <1>6 DEF Grown

(* Replacing an element replaces what it adds to the sum.                  *)
LEMMA TotalUpdate ==
  ASSUME NEW s \in Seq(Nat), NEW k \in 1 .. Len(s), NEW x \in Nat
  PROVE  Total([s EXCEPT ![k] = x]) = Total(s) - s[k] + x
  <1>1. PICK n \in Nat : n = Len(s)
    OBVIOUS
  <1>2. [s EXCEPT ![k] = x] \in Seq(Nat)
    OBVIOUS
  <1>3. PICK r \in Seq(Nat) : r = [s EXCEPT ![k] = x]
    BY Zenon, <1>2
  <1>4. PICK m \in Nat : m = k - 1
    OBVIOUS
  <1>5. /\ Len(r) = n /\ r[k] = x /\ s[k] \in Nat
        /\ \A i \in 1 .. n : i # k => r[i] = s[i]
    BY <1>1, <1>3
  <1>6. Ahead(r, s, 0, 0, m) /\ Ahead(r, s, 0, k, n) /\ 0 \in Nat /\ k \in Nat
    BY <1>1, <1>4, <1>5 DEF Ahead
  <1>7. Grown(r, 0, m) = Grown(s, 0, m)
    BY <1>6, SumsGrowAlike
  <1>8. Grown(r, k, n) = Grown(s, k, n)
    BY <1>6, SumsGrowAlike
  <1>9. /\ k \in 1 .. Len(r) /\ m + 0 = m /\ n + 0 = n /\ k + 0 = k /\ 0 + 0 = 0
        /\ m \in 0 .. Len(s) /\ n \in 0 .. Len(s) /\ Len(r) = Len(s)
    BY SMTT(30), <1>1, <1>4, <1>5
  <1>10. Sums(r)[k] = Sums(r)[m] + x /\ Sums(s)[k] = Sums(s)[m] + s[k]
    BY SMTT(30), <1>4, <1>5, <1>9, SumsFacts
  <1>11. /\ Sums(r)[m] \in Nat /\ Sums(s)[m] \in Nat /\ Sums(r)[n] \in Nat /\ Sums(s)[n] \in Nat
         /\ Sums(r)[0] = 0 /\ Sums(s)[0] = 0
    BY Zenon, <1>9, SumsFacts
  <1>12. Total(r) = Sums(r)[n] /\ Total(s) = Sums(s)[n]
    BY <1>1, <1>5, SumsFacts
  <1>13. PICK rm \in Nat, rn \in Nat, sm \in Nat, sn \in Nat, y \in Nat :
           /\ rm = Sums(r)[m] /\ sm = Sums(s)[m]
           /\ rn = Sums(r)[n] /\ sn = Sums(s)[n] /\ y = s[k]
    BY Zenon, <1>5, <1>11
  <1>14. rm = sm
    BY SMTT(30), <1>7, <1>11, <1>13 DEF Grown
  <1>15. rn - (rm + x) = sn - (sm + y)
    BY <1>8, <1>10, <1>13 DEF Grown
  <1>16. rn = sn - y + x
    BY <1>14, <1>15
  <1>17. QED
    BY <1>3, <1>12, <1>13, <1>16

(* Zeros add up to zero.                                                   *)
LEMMA TotalZero ==
  ASSUME NEW s \in Seq(Nat), \A i \in 1 .. Len(s) : s[i] = 0
  PROVE  Total(s) = 0
  <1> DEFINE T == {i \in Nat : i <= Len(s) => Sums(s)[i] = 0}
  <1>1. 0 \in T
    BY SumsFacts
  <1>2. ASSUME NEW i \in Nat, i \in T PROVE i + 1 \in T
    <2>1. SUFFICES ASSUME i + 1 <= Len(s) PROVE Sums(s)[i + 1] = 0
      OBVIOUS
    <2>2. i + 1 \in 1 .. Len(s) /\ i + 1 - 1 = i
      BY <2>1
    <2>3. Sums(s)[i + 1] = Sums(s)[i] + s[i + 1] /\ s[i + 1] = 0
      BY <2>2, SumsFacts
    <2>4. Sums(s)[i] = 0
      BY <1>2, <2>1
    <2>5. QED
      BY <2>2, <2>3, <2>4
  <1>3. Len(s) \in Nat
    OBVIOUS
  <1> HIDE DEF T
  <1>4. Len(s) \in T
    BY Zenon, <1>1, <1>2, <1>3, SetInduction
  <1>5. Sums(s)[Len(s)] = 0
    BY <1>3, <1>4 DEF T
  <1>6. QED
    BY <1>5, SumsFacts

(* A function on 1 .. n, such as the bytes of each promise, is a           *)
(* sequence.                                                               *)
LEMMA FunctionIsSeq ==
  ASSUME NEW n \in Nat, NEW f \in [1 .. n -> Nat]
  PROVE  f \in Seq(Nat) /\ Len(f) = n
  OBVIOUS

(* No envelopes, no charge.                                                *)
LEMMA ChargesNone == Total(Charges(<<>>)) = 0
  <1>1. Charges(<<>>) = <<>>
    BY DEF Charges
  <1>2. QED
    BY <1>1, TotalEmpty

(* The charges of a sequence of envelopes are numbers, one for each.       *)
LEMMA ChargesTyped ==
  ASSUME NEW s \in Seq(Envelopes)
  PROVE  /\ Charges(s) \in Seq(Nat) /\ Len(Charges(s)) = Len(s) /\ Len(s) \in Nat
         /\ \A i \in 1 .. Len(s) : Charges(s)[i] = s[i].bytes
         /\ Total(Charges(s)) \in Nat
  <1>1. \A i \in 1 .. Len(s) : s[i].bytes \in Nat
    <2>1. \A i \in 1 .. Len(s) : s[i] \in Envelopes
      OBVIOUS
    <2>2. QED
      BY Zenon, <2>1, ConstantsAssumption DEF Envelopes
  <1>2. DOMAIN s = 1 .. Len(s) /\ Len(s) \in Nat
    OBVIOUS
  <1>3. Charges(s) = [i \in 1 .. Len(s) |-> s[i].bytes]
    BY Zenon, <1>2 DEF Charges
  <1>4. Charges(s) \in [1 .. Len(s) -> Nat] /\ \A i \in 1 .. Len(s) : Charges(s)[i] = s[i].bytes
    BY Zenon, <1>1, <1>3
  <1>5. QED
    BY Zenon, <1>2, <1>4, FunctionIsSeq, TotalNat

(* A request that joins the queue adds its bytes.                          *)
LEMMA ChargesAppend ==
  ASSUME NEW s \in Seq(Envelopes), NEW e \in Envelopes
  PROVE  Total(Charges(Append(s, e))) = Total(Charges(s)) + e.bytes
  <1>1. PICK t \in Seq(Envelopes) : t = Append(s, e)
    <2>1. Append(s, e) \in Seq(Envelopes)
      OBVIOUS
    <2>2. QED
      BY Zenon, <2>1
  <1>2. /\ Len(s) \in Nat /\ Len(t) = Len(s) + 1
        /\ \A i \in 1 .. Len(s) : t[i] = s[i] /\ i \in 1 .. Len(t)
        /\ t[Len(s) + 1] = e /\ Len(s) + 1 \in 1 .. Len(t)
    BY SMTT(30), <1>1
  <1>3. Charges(t)[Len(s) + 1] = e.bytes
    BY <1>2, ChargesTyped
  <1>4. \A i \in 1 .. Len(s) : Charges(t)[i] = Charges(s)[i]
    BY ZenonT(30), <1>2, ChargesTyped
  <1>5. Total(Charges(t)) = Total(Charges(s)) + Charges(t)[Len(s) + 1]
    BY <1>2, <1>4, ChargesTyped, TotalLonger
  <1>6. QED
    BY Zenon, <1>1, <1>3, <1>5

(* A request that leaves its front takes its bytes along.                  *)
LEMMA ChargesTail ==
  ASSUME NEW s \in Seq(Envelopes), s # <<>>
  PROVE  \E b, rest \in Nat :
           /\ b = Head(s).bytes /\ rest = Total(Charges(Tail(s)))
           /\ Total(Charges(s)) = b + rest
  <1>1. PICK t \in Seq(Envelopes) : t = Tail(s)
    <2>1. Tail(s) \in Seq(Envelopes)
      OBVIOUS
    <2>2. QED
      BY Zenon, <2>1
  <1>2. /\ Len(t) \in Nat /\ Len(s) = Len(t) + 1 /\ Head(s) = s[1] /\ 1 \in 1 .. Len(s)
        /\ \A i \in 1 .. Len(t) : s[i + 1] = t[i] /\ i + 1 \in 1 .. Len(s)
    BY <1>1
  <1>3. Charges(s)[1] = Head(s).bytes
    BY SMTT(30), <1>2, ChargesTyped
  <1>4. ASSUME NEW i \in 1 .. Len(t) PROVE Charges(s)[i + 1] = Charges(t)[i]
    <2>1. Charges(s)[i + 1] = s[i + 1].bytes
      BY Zenon, <1>2, ChargesTyped
    <2>2. Charges(t)[i] = t[i].bytes
      BY SMTT(30), ChargesTyped
    <2>3. QED
      BY <1>2, <2>1, <2>2
  <1>5. Total(Charges(s)) = Charges(s)[1] + Total(Charges(t))
    BY <1>2, <1>4, ChargesTyped, TotalEarlier
  <1>6. Head(s).bytes \in Nat
    <2>1. Head(s) \in Envelopes
      OBVIOUS
    <2>2. QED
      BY Zenon, <2>1, ConstantsAssumption DEF Envelopes
  <1>7. Total(Charges(Tail(s))) \in Nat
    BY Zenon, <1>1, ChargesTyped
  <1>8. QED
    BY Zenon, <1>1, <1>3, <1>5, <1>6, <1>7

(* The four places a charge can be.                                        *)
Queued == Total(Charges(incoming))
Dropping == Total(Charges(removed))
Unread == Total(unread)
Taken == IF pc["recv"] = "decode" THEN receiving[1].bytes ELSE 0

(* The counter is exact, and only a closed session has envelopes to drop.  *)
Ledger ==
  /\ Open => removed = <<>>
  /\ RetainedBytesExact

(* A response is charged only when it is published.                        *)
ChargedIsSettled == \A k \in Keys : unread[k] # 0 => promise[k] \in Results

(* A step that charges no response but one it publishes.                   *)
ChargesPublished ==
  \A k \in Keys : unread'[k] # 0 => unread[k] # 0 \/ promise'[k] = "Response"

(* A step that keeps the ledger.                                           *)
Booked == Ledger' /\ ChargesPublished

(* The unread responses form a sequence with a place for every promise.    *)
LEMMA UnreadIsSeq ==
  ASSUME TypeOK
  PROVE  unread \in Seq(Nat) /\ Len(unread) = MaxOps /\ MaxOps \in Nat
  <1>1. unread \in [1 .. MaxOps -> Nat] /\ MaxOps \in Nat
    BY Zenon, ConstantsAssumption DEF TypeOK, Keys
  <1>2. QED
    BY Zenon, <1>1, FunctionIsSeq

(* What the ledger adds up are numbers.                                    *)
LEMMA LedgerTyped ==
  ASSUME TypeInv
  PROVE  /\ Queued \in Nat /\ Dropping \in Nat /\ Unread \in Nat /\ Taken \in Nat
         /\ retained_bytes \in Int
  <1>1. Queued \in Nat /\ Dropping \in Nat
    BY Zenon, ChargesTyped DEF TypeInv, TypeOK, Queued, Dropping
  <1>2. Unread \in Nat
    BY Zenon, UnreadIsSeq, TotalNat DEF TypeInv, Unread
  <1>3. Taken \in Nat
    <2>1. CASE pc["recv"] = "decode"
      <3>1. Len(receiving) = 1 /\ receiving \in Seq(Envelopes)
        BY <2>1 DEF TypeInv, TypeOK, ThreadsRemember
      <3>2. receiving[1] \in Envelopes
        BY <3>1
      <3>3. receiving[1].bytes \in Nat
        BY Zenon, <3>2, ConstantsAssumption DEF Envelopes
      <3>4. QED
        BY Zenon, <2>1, <3>3 DEF Taken
    <2>2. QED
      BY <2>1 DEF Taken
  <1>4. QED
    BY Zenon, <1>1, <1>2, <1>3 DEF TypeInv, TypeOK

(* RetainedBytesExact in terms of the four places, in this state and the   *)
(* next.                                                                   *)
LEMMA LedgerParts ==
  RetainedBytesExact <=> retained_bytes = Queued + Dropping + Unread + Taken
  BY SMTT(30) DEF RetainedBytesExact, Queued, Dropping, Unread, Taken

(* The same of the next state.                                             *)
LEMMA LedgerPartsNext ==
  RetainedBytesExact' <=> retained_bytes' = Queued' + Dropping' + Unread' + Taken'
  BY DEF RetainedBytesExact, Queued, Dropping, Unread, Taken

(* A step that moves no charge.                                            *)
Idle == /\ UNCHANGED <<status, incoming, removed, receiving, unread, retained_bytes>>
        /\ pc'["recv"] = pc["recv"]

(* Such a step keeps the ledger.                                           *)
LEMMA IdleKeeps ==
  ASSUME Ledger, Idle
  PROVE  Booked
  <1>1. Queued' = Queued /\ Dropping' = Dropping /\ Unread' = Unread
    BY Zenon DEF Idle, Queued, Dropping, Unread
  <1>2. Taken' = Taken
    BY DEF Idle, Taken
  <1>3. RetainedBytesExact'
    BY <1>1, <1>2, LedgerParts, LedgerPartsNext DEF Ledger, Idle
  <1>4. QED
    BY Zenon, <1>3 DEF Ledger, Idle, Open, Booked, ChargesPublished

(* State::close moves the queue to the removed envelopes.                  *)
LEMMA CloseKeeps ==
  ASSUME TypeInv, Ledger, NEW reason \in Reasons, CloseState(reason),
         UNCHANGED <<unread, retained_bytes>>, Taken' = Taken
  PROVE  Booked
  <1>1. CASE Open
    <2>1. removed = <<>> /\ incoming' = <<>> /\ removed' = incoming /\ ~Open'
      BY <1>1 DEF CloseState, Ledger, Open
    <2>2. Queued' = 0 /\ Dropping' = Queued /\ Dropping = 0 /\ Unread' = Unread
      BY Zenon, <2>1, ChargesNone DEF Queued, Dropping, Unread
    <2>3. RetainedBytesExact'
      BY <2>2, LedgerParts, LedgerPartsNext, LedgerTyped DEF Ledger
    <2>4. QED
      BY Zenon, <2>1, <2>3 DEF Ledger, Booked, ChargesPublished
  <1>2. CASE ~Open
    <2>1. UNCHANGED <<status, incoming, removed>>
      BY Zenon, <1>2 DEF CloseState
    <2>2. Queued' = Queued /\ Dropping' = Dropping /\ Unread' = Unread
      BY Zenon, <2>1 DEF Queued, Dropping, Unread
    <2>3. RetainedBytesExact'
      BY <2>2, LedgerParts, LedgerPartsNext DEF Ledger
    <2>4. QED
      BY Zenon, <2>1, <2>3 DEF Ledger, Open, Booked, ChargesPublished
  <1>3. QED
    BY Zenon, <1>1, <1>2

(* Dropping the unread response of a promise gives its bytes back.         *)
LEMMA ReleaseKeeps ==
  ASSUME TypeInv, Ledger, NEW k \in Keys, ReleaseUnread(k),
         UNCHANGED <<status, incoming, removed>>, Taken' = Taken
  PROVE  Booked
  <1>1. k \in 1 .. Len(unread) /\ unread \in Seq(Nat)
    BY Zenon, UnreadIsSeq DEF TypeInv, Keys
  <1>2. Unread' = Unread - unread[k] + 0
    BY Zenon, <1>1, TotalUpdate DEF ReleaseUnread, Unread
  <1>3. Queued' = Queued /\ Dropping' = Dropping
    BY Zenon DEF Queued, Dropping
  <1>4. PICK b \in Nat : b = unread[k]
    BY Zenon DEF TypeInv, TypeOK
  <1>5. retained_bytes' = retained_bytes - b /\ Unread' = Unread - b + 0
    BY Zenon, <1>2, <1>4 DEF ReleaseUnread
  <1>6. RetainedBytesExact'
    BY SMTT(30), <1>3, <1>5, LedgerParts, LedgerPartsNext, LedgerTyped DEF Ledger
  <1>7. ChargesPublished
    BY DEF ReleaseUnread, ChargesPublished, TypeInv, TypeOK
  <1>8. QED
    BY Zenon, <1>6, <1>7 DEF Ledger, Booked, Open

(* enqueue moves no charge.                                                *)
LEMMA EnqueueIdle ==
  ASSUME NEW body, NEW id, NEW late, NEW hold, Enqueue(body, id, late, hold),
         UNCHANGED <<removed, receiving>>, pc'["recv"] = pc["recv"]
  PROVE  Idle
  BY Zenon DEF Enqueue, Idle

(* While recv stays where it is, it keeps the charge it took.              *)
LEMMA TakenKept ==
  ASSUME pc'["recv"] = pc["recv"], receiving' = receiving
  PROVE  Taken' = Taken
  BY SMTT(30) DEF Taken

(* Every step keeps the ledger, and charges no response but one it         *)
(* publishes.                                                              *)
LEMMA LedgerStep ==
  ASSUME TypeInv, PendingHasOperation, ChargedIsSettled, Ledger, [Next]_vars
  PROVE  Booked
  <1> USE DEF wireVars, opVars, submitVars, promiseVars, holderVars, threadVars, closeVars
  <1>0. pc \in [Threads -> Labels]
    BY Zenon DEF TypeInv, TypeOK
  <1>1. ASSUME NEW late \in BOOLEAN, Request(late) PROVE Booked
    <2>1. pc'["recv"] = pc["recv"] /\ UNCHANGED <<removed, receiving>>
      BY Zenon, <1>0, <1>1 DEF Request
    <2>2. CASE Open
      BY Zenon, <1>1, <2>1, <2>2, EnqueueIdle, IdleKeeps DEF Request
    <2>3. CASE ~Open
      BY Zenon, <1>1, <2>1, <2>3, IdleKeeps DEF Request, Idle
    <2>4. QED
      BY Zenon, <2>2, <2>3
  <1>2. ASSUME NEW id \in Ids, NEW late \in BOOLEAN, Reply(id, late) PROVE Booked
    <2>1. pc'["recv"] = pc["recv"] /\ UNCHANGED <<removed, receiving>>
      BY Zenon, <1>0, <1>2 DEF Reply
    <2>2. CASE Open
      BY Zenon, <1>2, <2>1, <2>2, EnqueueIdle, IdleKeeps DEF Reply
    <2>3. CASE ~Open
      BY Zenon, <1>2, <2>1, <2>3, IdleKeeps DEF Reply, Idle
    <2>4. QED
      BY Zenon, <2>2, <2>3
  <1>3. ASSUME NEW id \in Ids, DropResponder(id) PROVE Booked
    BY Zenon, <1>0, <1>3, IdleKeeps DEF DropResponder, Idle
  <1>4. ASSUME NEW id \in Ids, NEW late \in BOOLEAN, Autoreply(id, late) PROVE Booked
    <2>1. pc'["recv"] = pc["recv"] /\ UNCHANGED <<removed, receiving>>
      BY Zenon, <1>0, <1>4 DEF Autoreply
    <2>2. CASE Open
      BY Zenon, <1>4, <2>1, <2>2, EnqueueIdle, IdleKeeps DEF Autoreply
    <2>3. CASE ~Open
      BY Zenon, <1>4, <2>1, <2>3, IdleKeeps DEF Autoreply, Idle
    <2>4. QED
      BY Zenon, <2>2, <2>3
  <1>5. ASSUME RecvTake PROVE Booked
    <2>1. /\ incoming # <<>> /\ incoming \in Seq(Envelopes)
          /\ receiving' = <<Head(incoming)>> /\ incoming' = Tail(incoming)
          /\ pc["recv"] = "ready" /\ pc'["recv"] = "decode"
          /\ UNCHANGED <<status, removed, unread, retained_bytes>>
      BY <1>0, <1>5 DEF RecvTake, TypeInv, TypeOK
    <2>2. PICK b \in Nat, rest \in Nat : b = Head(incoming).bytes /\ rest = Queued' /\ Queued = b + rest
      BY ZenonT(30), <2>1, ChargesTail DEF Queued
    <2>3. Taken = 0 /\ Taken' = Head(incoming).bytes
      BY <2>1 DEF Taken
    <2>4. Dropping' = Dropping /\ Unread' = Unread
      BY Zenon, <2>1 DEF Dropping, Unread
    <2>5. /\ Queued = b + rest /\ Queued' = rest /\ Taken = 0 /\ Taken' = b
          /\ retained_bytes' = retained_bytes
      BY Zenon, <2>1, <2>2, <2>3
    <2>6. RetainedBytesExact'
      BY <2>4, <2>5, LedgerParts, LedgerPartsNext, LedgerTyped DEF Ledger
    <2>7. QED
      BY ZenonT(30), <2>1, <2>6 DEF Ledger, Booked, Open, ChargesPublished
  <1>6. ASSUME NEW valid \in BOOLEAN, RecvDecode(valid) PROVE Booked
    <2>1. /\ pc["recv"] = "decode" /\ pc'["recv"] # "decode"
          /\ retained_bytes' = retained_bytes - receiving[1].bytes
          /\ UNCHANGED <<status, incoming, removed, unread>>
      BY SMTT(30), <1>0, <1>6 DEF RecvDecode
    <2>2. Taken = receiving[1].bytes /\ Taken' = 0
      BY <2>1 DEF Taken
    <2>3. Queued' = Queued /\ Dropping' = Dropping /\ Unread' = Unread
      BY Zenon, <2>1 DEF Queued, Dropping, Unread
    <2>4. RetainedBytesExact'
      BY <2>1, <2>2, <2>3, LedgerParts, LedgerPartsNext, LedgerTyped DEF Ledger
    <2>5. QED
      BY ZenonT(30), <2>1, <2>4 DEF Ledger, Booked, Open, ChargesPublished
  <1>7. ASSUME RecvMalformed PROVE Booked
    <2>1. pc["recv"] = "malformed" /\ pc'["recv"] = "ready"
      BY <1>0, <1>7 DEF RecvMalformed
    <2>2. Taken' = Taken
      BY <2>1 DEF Taken
    <2>3. QED
      BY Zenon, <1>7, <2>2, CloseKeeps DEF RecvMalformed
  <1>8. ASSUME NEW k \in Keys, DropPromise(k) PROVE Booked
    <2>1. Taken' = Taken
      BY Zenon, <1>0, <1>8, TakenKept DEF DropPromise
    <2>2. QED
      BY Zenon, <1>8, <2>1, ReleaseKeeps DEF DropPromise
  <1>9. ASSUME NEW k \in Keys, NEW valid \in BOOLEAN, TakeResult(k, valid) PROVE Booked
    <2>1. Taken' = Taken
      BY Zenon, <1>0, <1>9, TakenKept DEF TakeResult
    <2>2. QED
      BY Zenon, <1>9, <2>1, ReleaseKeeps DEF TakeResult
  <1>10. ASSUME CloseMalformedWait PROVE Booked
    <2>1. Taken' = Taken
      BY Zenon, <1>0, <1>10, TakenKept DEF CloseMalformedWait
    <2>2. QED
      BY Zenon, <1>10, <2>1, CloseKeeps DEF CloseMalformedWait
  <1>11. ASSUME NEW l \in Limits, SetInboundLimits(l) PROVE Booked
    <2>0. pc'["recv"] = pc["recv"] /\ receiving' = receiving
      BY Zenon, <1>0, <1>11 DEF SetInboundLimits
    <2>1. Taken' = Taken
      BY Zenon, <2>0, TakenKept
    <2>2. CASE CloseState("InboundRequestLimitExceeded") \/ CloseState("InboundByteLimitExceeded")
      BY Zenon, <1>11, <2>1, <2>2, CloseKeeps DEF SetInboundLimits
    <2>3. CASE UNCHANGED <<status, incoming, removed>>
      BY Zenon, <1>11, <2>0, <2>3, IdleKeeps DEF SetInboundLimits, Idle
    <2>4. QED
      BY Zenon, <1>11, <2>2, <2>3 DEF SetInboundLimits
  <1>12. ASSUME Close PROVE Booked
    <2>1. Taken' = Taken
      BY Zenon, <1>0, <1>12, TakenKept DEF Close
    <2>2. QED
      BY Zenon, <1>12, <2>1, CloseKeeps DEF Close
  <1>13. ASSUME ReceiveError PROVE Booked
    BY Zenon, <1>0, <1>13, IdleKeeps DEF ReceiveError, ReaderFails, Idle
  <1>14. ASSUME NEW id \in InboundIds, NEW bytes \in Sizes, NEW known \in BOOLEAN,
               HandleRequest(id, bytes, known)
         PROVE Booked
    <2>0. pc'["recv"] = pc["recv"] /\ receiving' = receiving
      BY Zenon, <1>0, <1>14 DEF HandleRequest, ReaderFails
    <2>1. Taken' = Taken
      BY Zenon, <2>0, TakenKept
    <2>2. UNCHANGED <<status, removed, unread>>
      BY Zenon, <1>14 DEF HandleRequest
    <2>3. CASE UNCHANGED <<incoming, retained_bytes>>
      BY Zenon, <2>0, <2>2, <2>3, IdleKeeps DEF Idle
    <2>4. CASE /\ incoming' = Append(incoming, [id |-> id, bytes |-> bytes])
               /\ retained_bytes' = retained_bytes + bytes
      <3>1. [id |-> id, bytes |-> bytes] \in Envelopes /\ bytes \in Nat
        BY ConstantsAssumption DEF Envelopes, Ids
      <3>2. incoming \in Seq(Envelopes)
        BY Zenon DEF TypeInv, TypeOK
      <3>3. Queued' = Queued + [id |-> id, bytes |-> bytes].bytes
        BY Zenon, <2>4, <3>1, <3>2, ChargesAppend DEF Queued
      <3>4. Queued' = Queued + bytes
        BY <3>3
      <3>5. Dropping' = Dropping /\ Unread' = Unread
        BY Zenon, <2>2 DEF Dropping, Unread
      <3>6. RetainedBytesExact'
        BY SMTT(30), <2>1, <2>4, <3>1, <3>4, <3>5, LedgerParts, LedgerPartsNext, LedgerTyped
           DEF Ledger
      <3>7. QED
        BY Zenon, <2>2, <3>6 DEF Ledger, Booked, Open, ChargesPublished
    <2>5. QED
      BY Zenon, <1>14, <2>3, <2>4 DEF HandleRequest
  <1>15. ASSUME NEW id \in InboundIds, NEW bytes \in Sizes, HandleResponse(id, bytes)
         PROVE Booked
    <2>0. pc'["recv"] = pc["recv"] /\ receiving' = receiving
      BY Zenon, <1>0, <1>15 DEF HandleResponse, ReaderFails
    <2>1. Taken' = Taken
      BY Zenon, <2>0, TakenKept
    <2>2. UNCHANGED <<status, incoming, removed>>
      BY Zenon, <1>15 DEF HandleResponse
    <2>3. CASE UNCHANGED <<unread, retained_bytes>>
      BY Zenon, <2>0, <2>2, <2>3, IdleKeeps DEF Idle
    <2>4. ASSUME NEW k \in operations,
                 promise'[k] = "Response",
                 unread' = [unread EXCEPT ![k] = bytes],
                 retained_bytes' = retained_bytes + bytes
          PROVE  Booked
      <3>1. k \in Keys /\ bytes \in Nat
        BY ConstantsAssumption DEF TypeInv, TypeOK
      <3>2. unread[k] = 0
        BY Zenon, <3>1 DEF PendingHasOperation, ChargedIsSettled
      <3>3. k \in 1 .. Len(unread) /\ unread \in Seq(Nat)
        BY Zenon, <3>1, UnreadIsSeq DEF TypeInv, Keys
      <3>4. Unread' = Unread - unread[k] + bytes
        BY Zenon, <2>4, <3>1, <3>3, TotalUpdate DEF Unread
      <3>5. Queued' = Queued /\ Dropping' = Dropping
        BY Zenon, <2>2 DEF Queued, Dropping
      <3>6. RetainedBytesExact'
        BY SMTT(30), <2>1, <2>4, <3>1, <3>2, <3>4, <3>5, LedgerParts, LedgerPartsNext,
           LedgerTyped DEF Ledger
      <3>7. ChargesPublished
        BY <2>4 DEF ChargesPublished, TypeInv, TypeOK
      <3>8. QED
        BY ZenonT(30), <2>2, <3>6, <3>7 DEF Ledger, Booked, Open
    <2>5. QED
      <3>1. CASE ~Open
        BY Zenon, <1>15, <2>3, <3>1 DEF HandleResponse
      <3>2. CASE Open
        <4> DEFINE k == outstanding[id]
                   fits == k \in operations /\ k \notin due /\ Fits(bytes)
        <4>1. CASE ~(fits /\ k \in held)
          BY Zenon, <1>15, <2>3, <3>2, <4>1 DEF HandleResponse
        <4>2. CASE fits /\ k \in held
          <5>1. /\ k \in operations
                /\ unread' = [unread EXCEPT ![k] = bytes]
                /\ retained_bytes' = retained_bytes + bytes
            BY ZenonT(30), <1>15, <3>2, <4>2 DEF HandleResponse
          <5>2. promise' = [j \in Keys |-> IF j \in {k} \cap operations THEN "Response" ELSE promise[j]]
            BY <1>15, <3>2, <4>2 DEF HandleResponse, Settle
          <5>3. k \in Keys
            BY Zenon, <5>1 DEF TypeInv, TypeOK
          <5>4. promise'[k] = "Response"
            BY <5>1, <5>2, <5>3
          <5>5. QED
            BY Zenon, <2>4, <5>1, <5>4
        <4>3. QED
          BY Zenon, <4>1, <4>2
      <3>3. QED
        BY Zenon, <3>1, <3>2
  <1>16. ASSUME ReadAutoreplyTimeout PROVE Booked
    BY Zenon, <1>0, <1>16, IdleKeeps DEF ReadAutoreplyTimeout, Idle
  <1>17. ASSUME NEW late \in BOOLEAN, ReplyUnknown(late) PROVE Booked
    <2>1. pc'["recv"] = pc["recv"] /\ UNCHANGED <<removed, receiving>>
      BY Zenon, <1>0, <1>17 DEF ReplyUnknown
    <2>2. CASE Open
      BY Zenon, <1>17, <2>1, <2>2, EnqueueIdle, IdleKeeps DEF ReplyUnknown
    <2>3. CASE ~Open
      BY Zenon, <1>17, <2>1, <2>3, IdleKeeps DEF ReplyUnknown, Idle
    <2>4. QED
      BY Zenon, <2>2, <2>3
  <1>18. ASSUME ReaderClose PROVE Booked
    <2>1. Taken' = Taken
      BY Zenon, <1>0, <1>18, TakenKept DEF ReaderClose
    <2>2. reader_error \in Reasons
      BY Zenon, <1>18 DEF ReaderClose, TypeInv, ThreadsRemember
    <2>3. QED
      BY Zenon, <1>18, <2>1, <2>2, CloseKeeps DEF ReaderClose
  <1>19. ASSUME NextOutgoing PROVE Booked
    BY Zenon, <1>0, <1>19, IdleKeeps DEF NextOutgoing, Idle
  <1>20. ASSUME WriterStops PROVE Booked
    BY Zenon, <1>0, <1>20, IdleKeeps DEF WriterStops, Idle
  <1>21. ASSUME WriterSend PROVE Booked
    BY Zenon, <1>0, <1>21, IdleKeeps DEF WriterSend, Idle
  <1>22. ASSUME WriterUnroute PROVE Booked
    BY Zenon, <1>0, <1>22, IdleKeeps DEF WriterUnroute, Idle
  <1>23. ASSUME RecordWrite PROVE Booked
    BY Zenon, <1>0, <1>23, IdleKeeps DEF RecordWrite, Idle
  <1>24. ASSUME WriterClose PROVE Booked
    <2>1. Taken' = Taken
      BY Zenon, <1>0, <1>24, TakenKept DEF WriterClose
    <2>2. QED
      BY Zenon, <1>24, <2>1, CloseKeeps DEF WriterClose
  <1>25. ASSUME WriterDisconnect PROVE Booked
    BY Zenon, <1>0, <1>25, IdleKeeps DEF WriterDisconnect, Idle
  <1>26. ASSUME NEW k \in Keys, DeadlinePasses(k) PROVE Booked
    BY Zenon, <1>0, <1>26, IdleKeeps DEF DeadlinePasses, Idle
  <1>27. ASSUME Expire PROVE Booked
    BY Zenon, <1>0, <1>27, IdleKeeps DEF Expire, Idle
  <1>28. ASSUME FinishClose PROVE Booked
    <2>0. UNCHANGED <<status, incoming, unread, pc, receiving>>
      BY Zenon, <1>28 DEF FinishClose
    <2>1. Taken' = Taken
      BY Zenon, <2>0, TakenKept
    <2>2. CASE removed # <<>> /\ removed' = Tail(removed) /\ retained_bytes' = retained_bytes - Head(removed).bytes
      <3>1. removed \in Seq(Envelopes)
        BY Zenon DEF TypeInv, TypeOK
      <3>2. PICK b \in Nat, rest \in Nat : b = Head(removed).bytes /\ rest = Dropping' /\ Dropping = b + rest
        BY Zenon, <2>2, <3>1, ChargesTail DEF Dropping
      <3>3. Queued' = Queued /\ Unread' = Unread
        BY Zenon, <2>0 DEF Queued, Unread
      <3>4. Dropping = b + rest /\ Dropping' = rest /\ retained_bytes' = retained_bytes - b
        BY Zenon, <2>2, <3>2
      <3>5. RetainedBytesExact'
        BY SMTT(30), <2>1, <3>3, <3>4, LedgerParts, LedgerPartsNext, LedgerTyped DEF Ledger
      <3>6. ~Open
        BY Zenon, <2>2 DEF Ledger
      <3>7. QED
        BY Zenon, <2>0, <3>5, <3>6 DEF Ledger, Booked, Open, ChargesPublished
    <2>3. CASE UNCHANGED <<removed, retained_bytes>>
      BY Zenon, <2>0, <2>3, IdleKeeps DEF Idle
    <2>4. QED
      BY Zenon, <1>28, <2>2, <2>3 DEF FinishClose
  <1>29. CASE UNCHANGED vars
    BY Zenon, <1>29, IdleKeeps DEF Idle, vars
  <1>30. QED
    BY SMTT(30), <1>1, <1>2, <1>3, <1>4, <1>5, <1>6, <1>7, <1>8, <1>9, <1>10, <1>11, <1>12, <1>13,
       <1>14, <1>15, <1>16, <1>17, <1>18, <1>19, <1>20, <1>21, <1>22, <1>23, <1>24, <1>25,
       <1>26, <1>27, <1>28, <1>29 DEF Next, Application, Reader, Writer, Clock

(* A result, once published, stays.                                        *)
LEMMA ChargedStep ==
  ASSUME PromiseInv, ChargedIsSettled, ChargesPublished, [Next]_vars
  PROVE  ChargedIsSettled'
  <1>1. SUFFICES ASSUME NEW k \in Keys, unread[k] # 0 PROVE promise'[k] \in Results
    BY Zenon DEF ChargesPublished, ChargedIsSettled
  <1>2. promise[k] \in Results /\ k \notin operations
    BY <1>1 DEF ChargedIsSettled, PromiseInv, PendingHasOperation
  <1>3. CASE Settling
    BY ZenonT(30), <1>2, <1>3 DEF Settling
  <1>4. CASE Submitting
    <2>1. PICK body \in {"request", "reply"}, id \in Ids, late \in BOOLEAN, hold \in BOOLEAN :
            Enqueue(body, id, late, hold)
      BY Zenon, <1>4 DEF Submitting
    <2>2. /\ last_key' = last_key + 1 /\ last_key' \in Keys
          /\ \/ promise' = [promise EXCEPT ![last_key'] = "Timeout"]
             \/ promise' = [promise EXCEPT ![last_key'] = "pending"]
      BY ZenonT(30), <2>1, EnqueueFacts DEF PromiseInv, TypeInv
    <2>3. promise[last_key'] = "unused"
      BY <2>2 DEF PromiseInv, TypeInv, TypeOK, SubmittedKeys
    <2>4. k # last_key'
      BY <1>2, <2>3
    <2>5. QED
      BY <1>2, <2>2, <2>4 DEF PromiseInv, TypeInv, TypeOK
  <1>5. QED
    BY Zenon, <1>3, <1>4, OperationStep DEF PromiseInv

(* The byte counter equals the charges of the envelopes that still exist,  *)
(* whoever takes, drops, publishes or closes in between.                   *)
THEOREM BytesAreAccountedFor == Spec => []RetainedBytesExact
  <1> DEFINE Inv == PromiseInv /\ ChargedIsSettled /\ Ledger
  <1>1. Init => Inv
    <2> SUFFICES ASSUME Init PROVE Ledger /\ ChargedIsSettled
      BY PromiseInit
    <2>1. Queued = 0 /\ Dropping = 0
      BY Zenon, ChargesNone DEF Init, Queued, Dropping
    <2>2. Unread = 0
      <3>1. unread \in Seq(Nat)
        BY Zenon, TypeInit, UnreadIsSeq DEF TypeInv
      <3>2. \A i \in 1 .. Len(unread) : unread[i] = 0
        BY SMTT(30), TypeInit, UnreadIsSeq DEF Init, TypeInv, Keys
      <3>3. QED
        BY Zenon, <3>1, <3>2, TotalZero DEF Unread
    <2>3. Taken = 0 /\ retained_bytes = 0
      BY DEF Init, Taken
    <2>4. RetainedBytesExact
      BY <2>1, <2>2, <2>3, LedgerParts
    <2>5. removed = <<>> /\ \A k \in Keys : unread[k] = 0
      BY Zenon DEF Init
    <2>6. QED
      BY Zenon, <2>4, <2>5 DEF Ledger, ChargedIsSettled
  <1>2. Inv /\ [Next]_vars => Inv'
    <2> SUFFICES ASSUME Inv, [Next]_vars PROVE Inv'
      OBVIOUS
    <2>1. PromiseInv'
      BY Zenon, PromiseStep
    <2>2. Booked
      BY Zenon, LedgerStep DEF PromiseInv
    <2>3. QED
      BY Zenon, <2>1, <2>2, ChargedStep DEF Booked
  <1>3. Inv => RetainedBytesExact
    BY DEF Ledger
  <1>4. QED
    BY <1>1, <1>2, <1>3, PTL DEF Spec
=============================================================================
