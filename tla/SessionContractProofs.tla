----------------------- MODULE SessionContractProofs -----------------------
(***************************************************************************)
(* That responses find their request, that a session keeps its contract    *)
(* with the application, and that it stays within its inbound limits, for  *)
(* every side, ID space, number of operations, envelope size and limit.    *)
(***************************************************************************)
EXTENDS SessionProofs

USE DEF Reasons, Results, PromiseStates, Threads, Labels

(* Routes of responses.                                                    *)

(* Requests that next_outgoing has given an ID; 0 is never one.            *)
Assigned == {k \in Keys : kind[k] = "request" /\ wire_id[k] # 0}

(* Assigned IDs lie behind next_id and are all different, and what the     *)
(* writer has in hand has one if it is a request.                          *)
AssignedIds ==
  /\ next_id > 0
  /\ outstanding[0] = NoKey
  /\ writing <= last_key
  /\ \A k \in Assigned : wire_id[k] < next_id /\ k \notin outgoing
  /\ \A j, k \in Assigned : wire_id[j] = wire_id[k] => j = k
  /\ pc["writer"] \in {"send", "written", "unroute", "refused"} /\ kind[writing] = "request"
       => writing \in Assigned

RouteInv == AssignedIds /\ RoutesMatchRequests

(* A step that leaves operations, routes and the writer alone.             *)
RoutesUntouched ==
  /\ UNCHANGED <<outstanding, operations, outgoing, kind, wire_id, next_id, writing, last_key>>
  /\ pc'["writer"] = pc["writer"]

(* Steps that leave the routes alone keep their invariant.                 *)
LEMMA RoutesKept ==
  ASSUME TypeInv, RouteInv, RoutesUntouched
  PROVE  RouteInv'
  BY DEF RoutesUntouched, RouteInv, AssignedIds, Assigned, RoutesMatchRequests

(* State::close drops all routes together with the operations.             *)
LEMMA RoutesClosed ==
  ASSUME PromiseInv, RouteInv, NEW reason \in Reasons, CloseState(reason),
         UNCHANGED <<kind, wire_id, next_id, last_key>>,
         \/ writing' = writing /\ pc'["writer"] = pc["writer"]
         \/ writing' = NoKey /\ pc["writer"] = "close" /\ pc'["writer"] = "disconnect"
  PROVE  RouteInv'
  <1>1. CASE Open
    <2>1. operations' = {} /\ outgoing' = {} /\ outstanding' = [id \in Ids |-> NoKey]
      BY <1>1 DEF CloseState
    <2>2. 0 \in Ids /\ last_key \in Nat
      BY ConstantsAssumption DEF Ids, PromiseInv, TypeInv, TypeOK
    <2>3. AssignedIds'
      BY <2>1, <2>2 DEF RouteInv, AssignedIds, Assigned, NoKey
    <2>4. RoutesMatchRequests'
      BY Zenon, <2>1 DEF RoutesMatchRequests
    <2>5. QED
      BY <2>3, <2>4 DEF RouteInv
  <1>2. CASE ~Open
    <2>1. UNCHANGED <<operations, outgoing, outstanding>>
      BY <1>2 DEF CloseState
    <2>2. last_key \in Nat
      BY ConstantsAssumption DEF PromiseInv, TypeInv, TypeOK
    <2>3. AssignedIds'
      BY <2>1, <2>2 DEF RouteInv, AssignedIds, Assigned, NoKey
    <2>4. RoutesMatchRequests'
      BY <2>1 DEF RouteInv, RoutesMatchRequests
    <2>5. QED
      BY <2>3, <2>4 DEF RouteInv
  <1>3. QED
    BY Zenon, <1>1, <1>2

(* A new operation has no route and no assigned ID.                        *)
LEMMA RoutesEnqueue ==
  ASSUME PromiseInv, RouteInv,
         NEW body \in {"request", "reply"}, NEW id \in Ids, NEW late \in BOOLEAN,
         NEW hold \in BOOLEAN, Enqueue(body, id, late, hold), body = "request" => id = 0,
         writing' = writing, pc'["writer"] = pc["writer"]
  PROVE  RouteInv'
  <1> DEFINE n == last_key + 1
  <1>1. /\ last_key' = n
        /\ n \in Keys
        /\ kind' = [kind EXCEPT ![n] = body]
        /\ wire_id' = [wire_id EXCEPT ![n] = id]
        /\ \/ operations' = operations /\ outgoing' = outgoing
           \/ operations' = operations \cup {n} /\ outgoing' = outgoing \cup {n}
        /\ UNCHANGED <<next_id, outstanding>>
    <2>1. n \in Keys
      BY Zenon, EnqueueFacts DEF PromiseInv, TypeInv
    <2>2. QED
      BY <2>1 DEF Enqueue
  <1>2. /\ last_key \in Nat /\ n > last_key
        /\ kind[n] = "none" /\ n \notin operations
    BY <1>1, ConstantsAssumption DEF PromiseInv, TypeInv, TypeOK, SubmittedKeys,
       PendingHasOperation, Keys
  <1>3. /\ kind \in [Keys -> {"none", "request", "reply"}]
        /\ wire_id \in [Keys -> NextIds]
        /\ outstanding \in [Ids -> Keys \cup {NoKey}]
        /\ writing \in Keys \cup {NoKey}
    BY Zenon DEF PromiseInv, TypeInv, TypeOK
  <1> HIDE DEF n
  <1>4. /\ \A k \in Keys : k # n => kind'[k] = kind[k] /\ wire_id'[k] = wire_id[k]
        /\ kind'[n] = body /\ wire_id'[n] = id
    BY Zenon, <1>1, <1>3
  <1>5. Assigned' = Assigned /\ n \notin Assigned
    BY Zenon, <1>1, <1>2, <1>4 DEF Assigned
  <1>6. AssignedIds'
    <2>1. writing # n
      BY <1>2, <1>3, ConstantsAssumption DEF RouteInv, AssignedIds, Keys, NoKey
    <2>2. writing' <= last_key'
      BY <1>1, <1>2, <1>3, ConstantsAssumption DEF RouteInv, AssignedIds, Keys, NoKey, n
    <2>3. kind'[writing] = "request" /\ writing \in Keys => kind[writing] = "request"
      BY Zenon, <1>4, <2>1
    <2>4. pc["writer"] \in {"send", "written", "unroute", "refused"} => writing \in Keys
      BY DEF PromiseInv, TypeInv, ThreadsRemember
    <2>5. \A k \in Assigned : k \in Keys /\ k # n
      BY Zenon, <1>5 DEF Assigned
    <2>6. QED
      BY <1>1, <1>4, <1>5, <2>2, <2>3, <2>4, <2>5 DEF RouteInv, AssignedIds
  <1>7. RoutesMatchRequests'
    <2>1. ASSUME NEW i \in Ids, outstanding[i] # NoKey
          PROVE  outstanding[i] \in Keys /\ outstanding[i] # n
      BY <1>2, <1>3, <2>1 DEF RouteInv, RoutesMatchRequests
    <2>2. operations' \ outgoing' \subseteq operations \ outgoing
      BY Zenon, <1>1
    <2>3. \A k \in operations : k \in Keys /\ k # n
      BY <1>2 DEF PromiseInv, TypeInv, TypeOK
    <2>4. QED
      BY <1>1, <1>4, <2>1, <2>2, <2>3 DEF RouteInv, RoutesMatchRequests
  <1>8. QED
    BY <1>6, <1>7 DEF RouteInv

(* Every step keeps the routes and the assigned IDs.                       *)
LEMMA RouteStep ==
  ASSUME PromiseInv, RouteInv, [Next]_vars
  PROVE  RouteInv'
  <1> USE DEF wireVars, opVars, submitVars, promiseVars, holderVars, threadVars, closeVars
  <1>0. TypeInv /\ pc \in [Threads -> Labels]
    BY Zenon DEF PromiseInv, TypeInv, TypeOK
  <1>1. ASSUME NEW late \in BOOLEAN, Request(late) PROVE RouteInv'
    <2>1. Enqueue("request", 0, late, TRUE) /\ UNCHANGED <<writing, pc>>
      BY Zenon, <1>1 DEF Request
    <2>2. 0 \in Ids
      BY ConstantsAssumption DEF Ids
    <2>3. QED
      BY Zenon, <2>1, <2>2, RoutesEnqueue
  <1>2. ASSUME NEW id \in Ids, NEW late \in BOOLEAN, Reply(id, late) PROVE RouteInv'
    <2>1. CASE Open
      <3>1. PICK hold \in BOOLEAN : Enqueue("reply", id, late, hold)
        BY Zenon, <1>2, <2>1 DEF Reply
      <3>2. UNCHANGED <<writing, pc>>
        BY Zenon, <1>2 DEF Reply
      <3>3. QED
        BY Zenon, <3>1, <3>2, RoutesEnqueue
    <2>2. CASE ~Open
      BY Zenon, <1>2, <1>0, <2>2, RoutesKept DEF Reply, RoutesUntouched
    <2>3. QED
      BY Zenon, <2>1, <2>2
  <1>3. ASSUME NEW id \in Ids, NEW late \in BOOLEAN, Autoreply(id, late) PROVE RouteInv'
    <2>1. CASE Open
      <3>1. PICK hold \in BOOLEAN : Enqueue("reply", id, late, hold)
        BY Zenon, <1>3, <2>1 DEF Autoreply
      <3>2. UNCHANGED <<writing, pc>>
        BY <1>3 DEF Autoreply
      <3>3. QED
        BY <3>1, <3>2, RoutesEnqueue
    <2>2. CASE ~Open
      BY <1>3, <1>0, <2>2, RoutesKept DEF Autoreply, RoutesUntouched
    <2>3. QED
      BY <2>1, <2>2
  <1>4. ASSUME NEW late \in BOOLEAN, ReplyUnknown(late) PROVE RouteInv'
    <2>1. writing' = writing /\ pc'["writer"] = pc["writer"]
      BY <1>4, <1>0 DEF ReplyUnknown
    <2>2. CASE Open
      <3>1. PICK id \in unknown : Enqueue("reply", id, late, FALSE)
        BY Zenon, <1>4, <2>2 DEF ReplyUnknown
      <3>2. id \in Ids
        BY <1>0 DEF TypeInv, TypeOK
      <3>3. QED
        BY Zenon, <2>1, <3>1, <3>2, RoutesEnqueue
    <2>3. CASE ~Open
      BY <1>4, <1>0, <2>1, <2>3, RoutesKept DEF ReplyUnknown, RoutesUntouched
    <2>4. QED
      BY <2>2, <2>3
  <1>5. ASSUME NEW id \in Ids, DropResponder(id) PROVE RouteInv'
    <2>1. RoutesUntouched
      BY <1>5, <1>0 DEF DropResponder, RoutesUntouched
    <2>2. QED
      BY <1>0, <2>1, RoutesKept
  <1>6. ASSUME RecvTake PROVE RouteInv'
    <2>1. RoutesUntouched
      BY <1>6, <1>0 DEF RecvTake, RoutesUntouched
    <2>2. QED
      BY <1>0, <2>1, RoutesKept
  <1>7. ASSUME NEW valid \in BOOLEAN, RecvDecode(valid) PROVE RouteInv'
    <2>1. RoutesUntouched
      BY <1>7, <1>0 DEF RecvDecode, RoutesUntouched
    <2>2. QED
      BY <1>0, <2>1, RoutesKept
  <1>8. ASSUME NEW k \in Keys, DropPromise(k) PROVE RouteInv'
    <2>1. RoutesUntouched
      BY <1>8, <1>0 DEF DropPromise, RoutesUntouched
    <2>2. QED
      BY <1>0, <2>1, RoutesKept
  <1>9. ASSUME NEW k \in Keys, NEW valid \in BOOLEAN, TakeResult(k, valid) PROVE RouteInv'
    <2>1. RoutesUntouched
      BY <1>9, <1>0 DEF TakeResult, RoutesUntouched
    <2>2. QED
      BY <1>0, <2>1, RoutesKept
  <1>10. ASSUME ReceiveError PROVE RouteInv'
    <2>1. RoutesUntouched
      BY <1>10, <1>0 DEF ReceiveError, ReaderFails, RoutesUntouched
    <2>2. QED
      BY <1>0, <2>1, RoutesKept
  <1>11. ASSUME NEW id \in InboundIds, NEW bytes \in Sizes, NEW known \in BOOLEAN, HandleRequest(id, bytes, known) PROVE RouteInv'
    <2>1. RoutesUntouched
      BY <1>11, <1>0 DEF HandleRequest, ReaderFails, RoutesUntouched
    <2>2. QED
      BY <1>0, <2>1, RoutesKept
  <1>12. ASSUME ReadAutoreplyTimeout PROVE RouteInv'
    <2>1. RoutesUntouched
      BY <1>12, <1>0 DEF ReadAutoreplyTimeout, RoutesUntouched
    <2>2. QED
      BY <1>0, <2>1, RoutesKept
  <1>13. ASSUME NEW k \in Keys, DeadlinePasses(k) PROVE RouteInv'
    <2>1. RoutesUntouched
      BY <1>13, <1>0 DEF DeadlinePasses, RoutesUntouched
    <2>2. QED
      BY <1>0, <2>1, RoutesKept
  <1>14. ASSUME FinishClose PROVE RouteInv'
    <2>1. RoutesUntouched
      BY <1>14, <1>0 DEF FinishClose, RoutesUntouched
    <2>2. QED
      BY <1>0, <2>1, RoutesKept
  <1>15. ASSUME RecvMalformed PROVE RouteInv'
    BY <1>15, <1>0, RoutesClosed DEF RecvMalformed
  <1>16. ASSUME CloseMalformedWait PROVE RouteInv'
    BY <1>16, <1>0, RoutesClosed DEF CloseMalformedWait
  <1>17. ASSUME NEW l \in Limits, SetInboundLimits(l) PROVE RouteInv'
    <2>1. UNCHANGED <<kind, wire_id, next_id, last_key, writing, pc>>
      BY <1>17 DEF SetInboundLimits
    <2>2. \/ \E reason \in Reasons : CloseState(reason)
          \/ UNCHANGED <<operations, outgoing, outstanding>>
      BY <1>17 DEF SetInboundLimits
    <2>3. QED
      BY <1>0, <2>1, <2>2, RoutesClosed, RoutesKept DEF RoutesUntouched
  <1>18. ASSUME Close PROVE RouteInv'
    BY <1>18, <1>0, RoutesClosed DEF Close
  <1>19. ASSUME ReaderClose PROVE RouteInv'
    <2>1. reader_error \in Reasons /\ CloseState(reader_error)
      BY <1>19, <1>0 DEF ReaderClose, TypeInv, ThreadsRemember
    <2>2. UNCHANGED <<kind, wire_id, next_id, last_key, writing>> /\ pc'["writer"] = pc["writer"]
      BY <1>19, <1>0 DEF ReaderClose
    <2>3. QED
      BY <2>1, <2>2, RoutesClosed
  <1>20. ASSUME WriterClose PROVE RouteInv'
    BY <1>20, <1>0, RoutesClosed DEF WriterClose
  <1>21. ASSUME NEW id \in InboundIds, NEW bytes \in Sizes, HandleResponse(id, bytes) PROVE RouteInv'
    <2>1. /\ UNCHANGED <<outgoing, kind, wire_id, next_id, writing, last_key>>
          /\ pc'["writer"] = pc["writer"]
      BY Zenon, <1>21, <1>0 DEF HandleResponse, ReaderFails
    <2>2. CASE Open
      <3>1. /\ outstanding' = [outstanding EXCEPT ![id] = NoKey]
            /\ operations' = operations \ {outstanding[id]}
        BY Zenon, <1>21, <2>2 DEF HandleResponse
      <3>2. id \in Ids /\ outstanding \in [Ids -> Keys \cup {NoKey}]
        BY Zenon, <1>0, ConstantsAssumption DEF TypeInv, TypeOK, Ids
      <3>3. AssignedIds'
        BY <2>1, <3>1, <3>2 DEF RouteInv, AssignedIds, Assigned
      <3>4. RoutesMatchRequests'
        BY <2>1, <3>1, <3>2 DEF RouteInv, RoutesMatchRequests
      <3>5. QED
        BY <3>3, <3>4 DEF RouteInv
    <2>3. CASE ~Open
      BY Zenon, <1>21, <1>0, <2>1, <2>3, RoutesKept DEF HandleResponse, RoutesUntouched
    <2>4. QED
      BY <2>2, <2>3
  <1>22. ASSUME NextOutgoing PROVE RouteInv'
    <2>1. PICK k \in Keys :
            /\ k \in LiveOutgoing
            /\ operations' = LiveOperations
            /\ outgoing' = LiveOutgoing \ {k}
            /\ writing' = k
            /\ LET assigned == kind[k] # "reply" /\ ~Exhausted IN
               /\ IF assigned
                  THEN /\ wire_id' = [wire_id EXCEPT ![k] = next_id]
                       /\ Route(next_id, k)
                       /\ next_id' = NextId(next_id)
                  ELSE UNCHANGED wireVars
               /\ pc' = [pc EXCEPT !["writer"] =
                           IF kind[k] = "reply" \/ assigned THEN "send" ELSE "abort"]
      BY Zenon, <1>22 DEF NextOutgoing, IsFront
    <2>2. UNCHANGED <<kind, last_key>> /\ pc["writer"] = "ready"
      BY Zenon, <1>22 DEF NextOutgoing
    <2>3. k \in outgoing /\ k \in operations /\ k <= last_key /\ kind[k] # "none"
      BY <2>1 DEF LiveOutgoing, LiveOperations, PromiseInv, PendingHasOperation, SubmittedKeys
    <2>4. outgoing' \subseteq outgoing /\ operations' \ outgoing' \subseteq (operations \ outgoing) \cup {k}
      BY Zenon, <2>1 DEF LiveOutgoing, LiveOperations
    <2>5. /\ kind \in [Keys -> {"none", "request", "reply"}]
          /\ wire_id \in [Keys -> NextIds]
          /\ outstanding \in [Ids -> Keys \cup {NoKey}]
          /\ next_id \in Nat /\ operations \subseteq Keys
          /\ k \notin outgoing'
      BY <1>0, <2>1, ConstantsAssumption DEF TypeInv, TypeOK, NextIds
    <2>6. CASE kind[k] = "request" /\ ~Exhausted
      <3>1. /\ wire_id' = [wire_id EXCEPT ![k] = next_id]
            /\ outstanding' = [outstanding EXCEPT ![next_id] = k]
            /\ next_id' = next_id + 2
            /\ pc'["writer"] = "send"
        BY Zenon, <1>0, <2>1, <2>6 DEF Route, NextId
      <3>2. next_id \in Ids /\ next_id > 0 /\ k # NoKey
        BY <2>5, <2>6, ConstantsAssumption DEF Exhausted, Ids, RouteInv, AssignedIds, Keys, NoKey
      <3>3. Assigned' = Assigned \cup {k} /\ k \notin Assigned
        BY SMTT(30), <2>2, <2>3, <2>5, <2>6, <3>1, <3>2 DEF Assigned, RouteInv, AssignedIds
      <3>4. \A j \in Assigned : j # k /\ j \in Keys /\ wire_id'[j] = wire_id[j] /\ wire_id[j] < next_id
        BY <2>5, <3>1, <3>3 DEF Assigned, RouteInv, AssignedIds
      <3>5. wire_id'[k] = next_id /\ outstanding'[next_id] = k
        BY <2>5, <3>1, <3>2
      <3>6. AssignedIds'
        <4>1. next_id' > 0 /\ outstanding'[0] = NoKey /\ writing' <= last_key'
          BY <2>1, <2>2, <2>3, <2>5, <3>1, <3>2 DEF RouteInv, AssignedIds
        <4>2. \A j \in Assigned' : wire_id'[j] < next_id' /\ j \notin outgoing'
          <5>1. \A j \in Assigned : j \notin outgoing'
            BY Zenon, <2>4 DEF RouteInv, AssignedIds
          <5>2. \A j \in Assigned' : wire_id'[j] < next_id'
            <6>1. \A j \in Assigned : wire_id[j] \in Nat
              BY <2>5, <3>4, ConstantsAssumption DEF NextIds
            <6>2. QED
              BY SMTT(30), <2>5, <3>1, <3>3, <3>4, <3>5, <6>1
          <5>3. QED
            BY Zenon, <2>5, <3>3, <5>1, <5>2
        <4>3. \A i, j \in Assigned' : wire_id'[i] = wire_id'[j] => i = j
          BY <2>5, <3>3, <3>4, <3>5 DEF RouteInv, AssignedIds
        <4>4. writing' \in Assigned'
          BY Zenon, <2>1, <3>3
        <4>5. QED
          BY <4>1, <4>2, <4>3, <4>4 DEF AssignedIds
      <3>7. RoutesMatchRequests'
        <4>1. ASSUME NEW i \in Ids, outstanding'[i] # NoKey
              PROVE  /\ kind'[outstanding'[i]] = "request"
                     /\ wire_id'[outstanding'[i]] = i
                     /\ i < next_id'
                     /\ outstanding'[i] \notin outgoing'
          <5>1. CASE i = next_id
            BY SMTT(30), <2>2, <2>5, <2>6, <3>1, <3>5, <5>1
          <5>2. CASE i # next_id
            <6>1. outstanding'[i] = outstanding[i] /\ outstanding[i] # k /\ outstanding[i] \in Keys
              BY <2>3, <2>5, <3>1, <4>1, <5>2 DEF RouteInv, RoutesMatchRequests
            <6>2. kind[outstanding[i]] = "request" /\ wire_id[outstanding[i]] = i /\ i < next_id /\ outstanding[i] \notin outgoing
              BY Zenon, <4>1, <6>1 DEF RouteInv, RoutesMatchRequests
            <6>3. QED
              BY SMTT(30), <2>2, <2>4, <2>5, <3>1, <6>1, <6>2, ConstantsAssumption DEF Ids
          <5>3. QED
            BY <5>1, <5>2
        <4>2. ASSUME NEW j \in operations' \ outgoing', kind'[j] = "request"
              PROVE  wire_id'[j] \in Ids /\ outstanding'[wire_id'[j]] = j
          <5>1. CASE j = k
            BY <3>2, <3>5, <5>1
          <5>2. CASE j # k
            <6>1. j \in operations \ outgoing /\ j \in Keys
              BY Zenon, <2>4, <2>5, <5>2
            <6>2. wire_id[j] \in Ids /\ outstanding[wire_id[j]] = j
              BY Zenon, <2>2, <4>2, <6>1 DEF RouteInv, RoutesMatchRequests
            <6>3. wire_id[j] < next_id /\ wire_id[j] \in Nat
              BY <6>1, <6>2, ConstantsAssumption DEF RouteInv, RoutesMatchRequests, Ids, Keys, NoKey
            <6>4. QED
              BY SMTT(30), <2>5, <3>1, <3>2, <5>2, <6>1, <6>2, <6>3
          <5>3. QED
            BY Zenon, <5>1, <5>2
        <4>3. QED
          BY Zenon, <4>1, <4>2 DEF RoutesMatchRequests
      <3>8. QED
        BY Zenon, <3>6, <3>7 DEF RouteInv
    <2>7. CASE kind[k] = "reply" \/ Exhausted
      <3>1. UNCHANGED <<wire_id, outstanding, next_id>>
        BY Zenon, <2>1, <2>7
      <3>2. kind[k] = "reply" \/ pc'["writer"] = "abort"
        BY Zenon, <1>0, <2>1, <2>7
      <3>3. pc'["writer"] \in {"send", "abort"}
        BY Zenon, <1>0, <2>1
      <3>4. AssignedIds'
        BY ZenonT(30), <2>1, <2>2, <2>3, <2>4, <3>1, <3>2, <3>3 DEF RouteInv, AssignedIds, Assigned
      <3>5. RoutesMatchRequests'
        BY <2>1, <2>2, <2>4, <3>1, <3>2, <3>3 DEF RouteInv, RoutesMatchRequests
      <3>6. QED
        BY <3>4, <3>5 DEF RouteInv
    <2>8. QED
      BY <2>3, <2>5, <2>6, <2>7
  <1>23. ASSUME WriterStops \/ WriterDisconnect \/ WriterSend PROVE RouteInv'
    <2>1. /\ UNCHANGED <<outstanding, operations, outgoing, kind, wire_id, next_id, writing, last_key>>
          /\ \/ pc["writer"] = "send" /\ pc'["writer"] \in {"written", "unroute", "close"}
             \/ pc["writer"] \in {"ready", "disconnect"} /\ pc'["writer"] \in {"disconnect", "done"}
      BY Zenon, <1>23, <1>0 DEF WriterStops, WriterDisconnect, WriterSend
    <2>2. AssignedIds'
      BY Zenon, <2>1 DEF RouteInv, AssignedIds, Assigned
    <2>3. RoutesMatchRequests'
      BY Zenon, <2>1 DEF RouteInv, RoutesMatchRequests
    <2>4. QED
      BY Zenon, <2>2, <2>3 DEF RouteInv
  <1>24. ASSUME WriterUnroute PROVE RouteInv'
    <2>1. /\ UNCHANGED <<operations, outgoing, kind, wire_id, next_id, writing, last_key>>
          /\ pc["writer"] = "unroute" /\ pc'["writer"] = "refused"
          /\ writing \in Keys
      BY Zenon, <1>24, <1>0 DEF WriterUnroute, TypeInv, ThreadsRemember
    <2>2. /\ outstanding \in [Ids -> Keys \cup {NoKey}] /\ wire_id \in [Keys -> NextIds]
          /\ operations \subseteq Keys
      BY Zenon, <1>0 DEF TypeInv, TypeOK
    <2>3. \/ outstanding' = outstanding
          \/ /\ kind[writing] = "request"
             /\ outstanding' = [outstanding EXCEPT ![wire_id[writing]] = NoKey]
      BY <1>24 DEF WriterUnroute
    <2>4. \A i \in Ids : outstanding'[i] \in {outstanding[i], NoKey}
      BY Zenon, <2>2, <2>3
    <2>5. AssignedIds'
      <3>1. outstanding'[0] = NoKey
        BY <2>4, ConstantsAssumption DEF RouteInv, AssignedIds, Ids
      <3>2. QED
        BY Zenon, <2>1, <3>1 DEF RouteInv, AssignedIds, Assigned
    <2>6. RoutesMatchRequests'
      <3>1. \A i \in Ids : outstanding'[i] # NoKey => outstanding'[i] = outstanding[i]
        BY Zenon, <2>4
      <3>2. ASSUME NEW k \in operations \ outgoing, kind[k] = "request", k # writing
            PROVE  wire_id[k] \in Ids /\ outstanding'[wire_id[k]] = k
        <4>1. wire_id[k] \in Ids /\ outstanding[wire_id[k]] = k /\ k \in Keys
          BY Zenon, <2>1, <2>2, <3>2 DEF RouteInv, RoutesMatchRequests
        <4>2. wire_id[k] # 0
          BY <4>1, ConstantsAssumption DEF RouteInv, AssignedIds, Keys, NoKey
        <4>3. k \in Assigned
          BY Zenon, <3>2, <4>1, <4>2 DEF Assigned
        <4>4. kind[writing] = "request" => wire_id[k] # wire_id[writing]
          BY Zenon, <2>1, <3>2, <4>3 DEF RouteInv, AssignedIds
        <4>5. QED
          BY Zenon, <2>2, <2>3, <4>1, <4>4
      <3>3. QED
        BY Zenon, <2>1, <3>1, <3>2 DEF RouteInv, RoutesMatchRequests
    <2>7. QED
      BY <2>5, <2>6 DEF RouteInv
  <1>25. ASSUME RecordWrite PROVE RouteInv'
    <2>1. /\ UNCHANGED <<outstanding, outgoing, kind, wire_id, next_id, last_key>>
          /\ pc["writer"] \in {"written", "refused"} /\ pc'["writer"] = "ready"
          /\ writing' = NoKey
          /\ operations' \subseteq operations
          /\ pc["writer"] = "refused" => writing \notin operations'
      BY Zenon, <1>25, <1>0 DEF RecordWrite, WriteSettles
    <2>2. last_key \in Nat
      BY <1>0, ConstantsAssumption DEF TypeInv, TypeOK
    <2>3. AssignedIds'
      BY <2>1, <2>2 DEF RouteInv, AssignedIds, Assigned, NoKey
    <2>4. RoutesMatchRequests'
      BY <2>1 DEF RouteInv, RoutesMatchRequests
    <2>5. QED
      BY <2>3, <2>4 DEF RouteInv
  <1>26. ASSUME Expire PROVE RouteInv'
    <2>1. /\ UNCHANGED <<outstanding, kind, wire_id, next_id, last_key, writing, pc>>
          /\ outgoing' \subseteq outgoing
          /\ operations' \ outgoing' \subseteq operations \ outgoing
      BY Zenon, <1>26 DEF Expire, ExpireState, LiveOperations, LiveOutgoing
    <2>2. AssignedIds'
      BY Zenon, <2>1 DEF RouteInv, AssignedIds, Assigned
    <2>3. RoutesMatchRequests'
      BY Zenon, <2>1 DEF RouteInv, RoutesMatchRequests
    <2>4. QED
      BY <2>2, <2>3 DEF RouteInv
  <1>27. CASE UNCHANGED vars
    BY <1>27, <1>0, RoutesKept DEF RoutesUntouched, vars
  <1>28. QED
    BY SMTT(30), <1>1, <1>2, <1>3, <1>4, <1>5, <1>6, <1>7, <1>8, <1>9, <1>10, <1>11, <1>12,
       <1>13, <1>14, <1>15, <1>16, <1>17, <1>18, <1>19, <1>20, <1>21, <1>22, <1>23, <1>24,
       <1>25, <1>26, <1>27
       DEF Next, Application, Reader, Writer, Clock

(* A session starts with no routes.                                        *)
LEMMA RouteInit == Init => RouteInv
  <1>1. FirstId > 0 /\ 0 \in Ids
    BY ConstantsAssumption DEF FirstId, Ids
  <1>2. Init => AssignedIds
    BY <1>1 DEF Init, AssignedIds, Assigned, NoKey
  <1>3. Init => RoutesMatchRequests
    BY DEF Init, RoutesMatchRequests
  <1>4. QED
    BY <1>2, <1>3 DEF RouteInv

(* A response goes to the request that was sent under its ID and to no     *)
(* other, and a sent request that is still pending never loses its route   *)
(* (next_outgoing, handle_message and run_writer in session.rs).           *)
THEOREM ResponsesFindTheirRequest == Spec => []RoutesMatchRequests
  <1>1. (PromiseInv /\ RouteInv) /\ [Next]_vars => (PromiseInv /\ RouteInv)'
    BY PromiseStep, RouteStep
  <1>2. RouteInv => RoutesMatchRequests
    BY Zenon DEF RouteInv
  <1>3. QED
    BY <1>1, <1>2, PromiseInit, RouteInit, PTL DEF Spec
----------------------------------------------------------------------------
(* The contract with the application.                                      *)

(* Closing leaves no operation behind.                                     *)
ClosedIsEmpty == ~Open => operations = {}

SessionInv == PromiseInv /\ RouteInv /\ ClosedIsEmpty

(* The four kinds of steps the contract tells apart.  A submission...      *)
Accepting == Open /\ Submitting

(* ...a step that gives some operations a result they can get while the    *)
(* session is open...                                                      *)
Completing ==
  /\ Open
  /\ UNCHANGED <<status, last_key, kind>>
  /\ \A k \in Keys \ operations : promise'[k] = promise[k]
  /\ \A k \in operations :
       promise'[k] \in {"pending", "Timeout", "Refused"}
         \cup IF kind[k] = "request" THEN {"Response", "InboundByteLimitExceeded"} ELSE {"Written"}

(* ...a closure...                                                         *)
Closing ==
  /\ Open
  /\ UNCHANGED <<last_key, kind, due>>
  /\ \E reason \in Reasons : CloseState(reason)

(* ...and a step the application does not see.                             *)
Unseen == UNCHANGED <<status, last_key, kind, promise, operations>>

StepKinds == Accepting \/ Completing \/ Closing \/ Unseen

(* Expired operations get Timeout.                                         *)
LEMMA ExpiryCompletes ==
  ASSUME TypeOK, PendingHasOperation, Open, SettleExpired, UNCHANGED <<status, last_key, kind>>
  PROVE  Completing
  <1>1. \A k \in Keys : promise'[k] = IF k \in operations \cap due THEN "Timeout" ELSE promise[k]
    BY Zenon DEF SettleExpired, Settle
  <1>2. \A k \in operations : k \in Keys /\ promise[k] = "pending"
    BY Zenon DEF TypeOK, PendingHasOperation
  <1>3. QED
    BY <1>1, <1>2 DEF Completing

(* Every step does to the promises what one of the kinds of step does.     *)
LEMMA StepIsOfAKind ==
  ASSUME SessionInv, [Next]_vars
  PROVE  StepKinds
  <1> USE DEF wireVars, opVars, submitVars, promiseVars, holderVars, threadVars, closeVars
  <1>0. /\ TypeInv /\ TypeOK /\ PendingHasOperation /\ RoutesMatchRequests
        /\ \A k \in operations : k \in Keys /\ promise[k] = "pending"
    BY Zenon DEF SessionInv, PromiseInv, RouteInv, TypeInv, TypeOK, PendingHasOperation
  <1>1. ASSUME NEW late \in BOOLEAN, Request(late) PROVE StepKinds
    <2>1. Open /\ Enqueue("request", 0, late, TRUE)
      BY Zenon, <1>1 DEF Request
    <2>2. 0 \in Ids
      BY ConstantsAssumption DEF Ids
    <2>3. QED
      BY Zenon, <2>1, <2>2 DEF StepKinds, Accepting, Submitting
  <1>2. ASSUME NEW id \in Ids, NEW late \in BOOLEAN, Reply(id, late) PROVE StepKinds
    <2>1. CASE Open
      BY Zenon, <1>2, <2>1 DEF Reply, StepKinds, Accepting, Submitting
    <2>2. CASE ~Open
      BY Zenon, <1>2, <2>2 DEF Reply, StepKinds, Unseen
    <2>3. QED
      BY Zenon, <2>1, <2>2
  <1>3. ASSUME NEW id \in Ids, NEW late \in BOOLEAN, Autoreply(id, late) PROVE StepKinds
    <2>1. CASE Open
      BY Zenon, <1>3, <2>1 DEF Autoreply, StepKinds, Accepting, Submitting
    <2>2. CASE ~Open
      BY <1>3, <2>2 DEF Autoreply, StepKinds, Unseen
    <2>3. QED
      BY <2>1, <2>2
  <1>4. ASSUME NEW late \in BOOLEAN, ReplyUnknown(late) PROVE StepKinds
    <2>1. CASE Open
      <3>1. PICK id \in unknown : Enqueue("reply", id, late, FALSE)
        BY Zenon, <1>4, <2>1 DEF ReplyUnknown
      <3>2. id \in Ids
        BY Zenon, <1>0 DEF TypeOK
      <3>3. QED
        BY Zenon, <2>1, <3>1, <3>2 DEF StepKinds, Accepting, Submitting
    <2>2. CASE ~Open
      BY <1>4, <2>2 DEF ReplyUnknown, StepKinds, Unseen
    <2>3. QED
      BY <2>1, <2>2
  <1>5. ASSUME NEW id \in Ids, DropResponder(id) PROVE StepKinds
    BY Zenon, <1>5 DEF DropResponder, StepKinds, Unseen
  <1>6. ASSUME RecvTake PROVE StepKinds
    BY Zenon, <1>6 DEF RecvTake, StepKinds, Unseen
  <1>7. ASSUME NEW valid \in BOOLEAN, RecvDecode(valid) PROVE StepKinds
    BY <1>7 DEF RecvDecode, StepKinds, Unseen
  <1>8. ASSUME NEW k \in Keys, DropPromise(k) PROVE StepKinds
    BY Zenon, <1>8 DEF DropPromise, StepKinds, Unseen
  <1>9. ASSUME NEW k \in Keys, NEW valid \in BOOLEAN, TakeResult(k, valid) PROVE StepKinds
    BY <1>9 DEF TakeResult, StepKinds, Unseen
  <1>10. ASSUME ReceiveError PROVE StepKinds
    BY Zenon, <1>10 DEF ReceiveError, StepKinds, Unseen
  <1>11. ASSUME NEW id \in InboundIds, NEW bytes \in Sizes, NEW known \in BOOLEAN, HandleRequest(id, bytes, known) PROVE StepKinds
    BY <1>11 DEF HandleRequest, StepKinds, Unseen
  <1>12. ASSUME ReadAutoreplyTimeout PROVE StepKinds
    BY <1>12 DEF ReadAutoreplyTimeout, StepKinds, Unseen
  <1>13. ASSUME NEW k \in Keys, DeadlinePasses(k) PROVE StepKinds
    BY Zenon, <1>13 DEF DeadlinePasses, StepKinds, Unseen
  <1>14. ASSUME FinishClose PROVE StepKinds
    BY <1>14 DEF FinishClose, StepKinds, Unseen
  <1>15. ASSUME WriterStops PROVE StepKinds
    BY <1>15 DEF WriterStops, StepKinds, Unseen
  <1>16. ASSUME WriterSend PROVE StepKinds
    BY Zenon, <1>16 DEF WriterSend, StepKinds, Unseen
  <1>17. ASSUME WriterUnroute PROVE StepKinds
    BY <1>17 DEF WriterUnroute, StepKinds, Unseen
  <1>18. ASSUME WriterDisconnect PROVE StepKinds
    BY <1>18 DEF WriterDisconnect, StepKinds, Unseen
  <1>19. ASSUME RecvMalformed PROVE StepKinds
    <2>1. (\E reason \in Reasons : CloseState(reason)) /\ UNCHANGED <<last_key, kind, due>>
      BY <1>19, <1>0 DEF RecvMalformed
    <2>2. CASE Open
      BY <2>1, <2>2 DEF StepKinds, Closing
    <2>3. CASE ~Open
      BY <2>1, <2>3 DEF CloseState, StepKinds, Unseen
    <2>4. QED
      BY <2>2, <2>3
  <1>20. ASSUME CloseMalformedWait PROVE StepKinds
    <2>1. (\E reason \in Reasons : CloseState(reason)) /\ UNCHANGED <<last_key, kind, due>>
      BY Zenon, <1>20, <1>0 DEF CloseMalformedWait
    <2>2. CASE Open
      BY <2>1, <2>2 DEF StepKinds, Closing
    <2>3. CASE ~Open
      BY <2>1, <2>3 DEF CloseState, StepKinds, Unseen
    <2>4. QED
      BY <2>2, <2>3
  <1>21. ASSUME NEW l \in Limits, SetInboundLimits(l) PROVE StepKinds
    <2>1. Open /\ UNCHANGED <<last_key, kind, due>>
      BY Zenon, <1>21 DEF SetInboundLimits
    <2>2. \/ \E reason \in Reasons : CloseState(reason)
          \/ UNCHANGED <<status, promise, operations>>
      BY <1>21 DEF SetInboundLimits
    <2>3. QED
      BY <2>1, <2>2 DEF StepKinds, Closing, Unseen
  <1>22. ASSUME Close PROVE StepKinds
    <2>1. (\E reason \in Reasons : CloseState(reason)) /\ UNCHANGED <<last_key, kind, due>>
      BY SMTT(30), <1>22, <1>0 DEF Close
    <2>2. CASE Open
      BY <2>1, <2>2 DEF StepKinds, Closing
    <2>3. CASE ~Open
      BY <2>1, <2>3 DEF CloseState, StepKinds, Unseen
    <2>4. QED
      BY <2>2, <2>3
  <1>23. ASSUME WriterClose PROVE StepKinds
    <2>1. (\E reason \in Reasons : CloseState(reason)) /\ UNCHANGED <<last_key, kind, due>>
      BY SMTT(30), <1>23, <1>0 DEF WriterClose
    <2>2. CASE Open
      BY <2>1, <2>2 DEF StepKinds, Closing
    <2>3. CASE ~Open
      BY <2>1, <2>3 DEF CloseState, StepKinds, Unseen
    <2>4. QED
      BY <2>2, <2>3
  <1>24. ASSUME ReaderClose PROVE StepKinds
    <2>1. (\E reason \in Reasons : CloseState(reason)) /\ UNCHANGED <<last_key, kind, due>>
      BY <1>24, <1>0 DEF ReaderClose, TypeInv, ThreadsRemember
    <2>2. CASE Open
      BY <2>1, <2>2 DEF StepKinds, Closing
    <2>3. CASE ~Open
      BY <2>1, <2>3 DEF CloseState, StepKinds, Unseen
    <2>4. QED
      BY <2>2, <2>3
  <1>25. ASSUME NEW id \in InboundIds, NEW bytes \in Sizes, HandleResponse(id, bytes) PROVE StepKinds
    <2>1. CASE Open
      <3> DEFINE j == outstanding[id]
      <3>1. /\ UNCHANGED <<status, last_key, kind>>
            /\ \E fits \in BOOLEAN :
                 promise' = [k \in Keys |-> IF k \in {j} \cap operations
                                            THEN IF fits THEN "Response"
                                                 ELSE Failure(k, "InboundByteLimitExceeded")
                                            ELSE promise[k]]
        <4>1. UNCHANGED <<status, last_key, kind>>
          BY Zenon, <1>25 DEF HandleResponse
        <4>2. Settle({j} \cap operations,
                     LAMBDA k : IF (j \in operations /\ j \notin due) /\ Fits(bytes) THEN "Response"
                                ELSE Failure(k, "InboundByteLimitExceeded"))
          BY Zenon, <1>25, <2>1 DEF HandleResponse
        <4>3. QED
          BY Zenon, <4>1, <4>2 DEF Settle
      <3>2. id \in Ids /\ j \in Keys \cup {NoKey}
        BY <1>0, ConstantsAssumption DEF TypeOK, Ids
      <3>3. j \in operations => kind[j] = "request"
        BY <1>0, <3>2, ConstantsAssumption DEF RoutesMatchRequests, Keys, NoKey
      <3> HIDE DEF j
      <3>4. QED
        BY <1>0, <2>1, <3>1, <3>3 DEF StepKinds, Completing, Failure
    <2>2. CASE ~Open
      BY Zenon, <1>25, <2>2 DEF HandleResponse, StepKinds, Unseen
    <2>3. QED
      BY <2>1, <2>2
  <1>26. ASSUME NextOutgoing \/ Expire PROVE StepKinds
    <2>1. Open /\ SettleExpired /\ UNCHANGED <<status, last_key, kind>>
      BY Zenon, <1>26 DEF NextOutgoing, Expire, ExpireState
    <2>2. QED
      BY Zenon, <1>0, <2>1, ExpiryCompletes DEF StepKinds
  <1>27. ASSUME RecordWrite PROVE StepKinds
    <2>1. UNCHANGED <<status, last_key, kind>>
      BY ZenonT(30), <1>27 DEF RecordWrite
    <2>2. PICK failed \in BOOLEAN :
            /\ promise' = [k \in Keys |-> IF k \in WriteSettles(failed)
                                          THEN IF failed THEN Failure(k, "Refused") ELSE "Written"
                                          ELSE promise[k]]
            /\ operations' = operations \ WriteSettles(failed)
      BY Zenon, <1>27 DEF RecordWrite, Settle
    <2>3. /\ WriteSettles(failed) \subseteq operations
          /\ ~failed => \A k \in WriteSettles(failed) : kind[k] = "reply"
      BY Zenon DEF WriteSettles
    <2>4. CASE Open
      BY <1>0, <2>1, <2>2, <2>3, <2>4 DEF StepKinds, Completing, Failure
    <2>5. CASE ~Open
      <3>1. operations = {}
        BY Zenon, <2>5 DEF SessionInv, ClosedIsEmpty
      <3>2. promise' = promise /\ operations' = operations
        BY SMTT(30), <1>0, <2>2, <2>3, <3>1 DEF TypeOK
      <3>3. QED
        BY <2>1, <3>2 DEF StepKinds, Unseen
    <2>6. QED
      BY <2>4, <2>5
  <1>28. CASE UNCHANGED vars
    BY <1>28 DEF StepKinds, Unseen, vars
  <1>29. QED
    BY SMTT(30), <1>1, <1>2, <1>3, <1>4, <1>5, <1>6, <1>7, <1>8, <1>9, <1>10, <1>11, <1>12,
       <1>13, <1>14, <1>15, <1>16, <1>17, <1>18, <1>19, <1>20, <1>21, <1>22, <1>23, <1>24,
       <1>25, <1>26, <1>27, <1>28
       DEF Next, Application, Reader, Writer, Clock

(* Every step keeps the invariant of a session.                            *)
LEMMA SessionStep ==
  ASSUME SessionInv, [Next]_vars
  PROVE  SessionInv'
  <1>1. PromiseInv' /\ RouteInv'
    BY PromiseStep, RouteStep DEF SessionInv
  <1>2. ClosedIsEmpty'
    <2>1. CASE Accepting
      BY Zenon, <2>1 DEF Accepting, Submitting, Enqueue, Open, ClosedIsEmpty
    <2>2. CASE Completing
      BY <2>2 DEF Completing, Open, ClosedIsEmpty
    <2>3. CASE Closing
      BY <2>3 DEF Closing, CloseState, ClosedIsEmpty
    <2>4. CASE Unseen
      BY <2>4 DEF Unseen, Open, SessionInv, ClosedIsEmpty
    <2>5. QED
      BY <2>1, <2>2, <2>3, <2>4, StepIsOfAKind DEF StepKinds
  <1>3. QED
    BY <1>1, <1>2 DEF SessionInv

(* The detailed session implements the contract: each of its steps is a    *)
(* submission, a completion, a closure, or nothing the application sees.   *)
LEMMA ContractStep ==
  ASSUME SessionInv, SessionInv', [Next]_vars
  PROVE  [Contract!Next]_(Contract!vars)
  <1>0. /\ Contract!Operations = Keys
        /\ Contract!Pending = operations
        /\ operations \subseteq Keys
        /\ promise \in [Keys -> PromiseStates] /\ promise' \in [Keys -> PromiseStates]
    BY Zenon DEF SessionInv, PromiseInv, TypeInv, TypeOK, PendingHasOperation, Contract!Operations,
       Contract!Pending, Keys
  <1>1. CASE Accepting
    <2>1. PICK body \in {"request", "reply"}, id \in Ids, late \in BOOLEAN, hold \in BOOLEAN :
            Enqueue(body, id, late, hold)
      BY Zenon, <1>1 DEF Accepting, Submitting
    <2>2. PICK result \in {"pending", "Timeout"} :
            /\ last_key' = last_key + 1
            /\ last_key' \in Keys
            /\ kind' = [kind EXCEPT ![last_key'] = body]
            /\ promise' = [promise EXCEPT ![last_key'] = result]
            /\ status' = status
      BY SMTT(30), <2>1, EnqueueFacts DEF SessionInv, PromiseInv, TypeInv
    <2>3. status = "Open"
      BY Zenon, <1>1 DEF Accepting, Open
    <2>4. Contract!Submit(body, result)
      BY <1>0, <2>2, <2>3 DEF Contract!Submit
    <2>5. QED
      BY <2>4 DEF Contract!Next
  <1>2. CASE Completing
    <2> DEFINE result == [k \in operations |-> promise'[k]]
    <2>1. result \in [Contract!Pending -> Contract!Results]
      BY Zenon, <1>0, <1>2 DEF Completing, Contract!Results
    <2>2. \A k \in operations : result[k] \in Contract!Outcomes(k) \cup {"pending"}
      BY Zenon, <1>2 DEF Completing, Contract!Outcomes
    <2>3. promise' = [k \in Keys |-> IF k \in operations THEN result[k] ELSE promise[k]]
      BY Zenon, <1>0, <1>2 DEF Completing
    <2>4. status = "Open" /\ UNCHANGED <<status, last_key, kind>>
      BY Zenon, <1>2 DEF Completing, Open
    <2> HIDE DEF result
    <2>5. Contract!Complete(result)
      BY <1>0, <2>2, <2>3, <2>4 DEF Contract!Complete
    <2>6. QED
      BY Zenon, <2>1, <2>5 DEF Contract!Next
  <1>3. CASE Closing
    <2>1. PICK reason \in Reasons : CloseState(reason)
      BY Zenon, <1>3 DEF Closing
    <2> DEFINE late == operations \cap due
    <2>2. /\ status = "Open" /\ status' = reason
          /\ UNCHANGED <<last_key, kind>>
          /\ promise' = [k \in Keys |-> IF k \in operations THEN Failure(k, reason) ELSE promise[k]]
      BY <1>3, <2>1 DEF Closing, CloseState, SettleClosed, Settle, Open
    <2>3. promise' = [k \in Keys |-> IF k \in late THEN "Timeout"
                                     ELSE IF k \in operations THEN reason ELSE promise[k]]
      BY Zenon, <2>2 DEF Failure
    <2>4. late \in SUBSET Contract!Pending
      BY Zenon, <1>0
    <2> HIDE DEF late
    <2>5. Contract!Close(reason, late)
      BY <1>0, <2>2, <2>3 DEF Contract!Close
    <2>6. QED
      BY <2>4, <2>5 DEF Contract!Next
  <1>4. CASE Unseen
    BY <1>4 DEF Unseen, Contract!vars
  <1>5. QED
    BY <1>1, <1>2, <1>3, <1>4, StepIsOfAKind DEF StepKinds

(* The session implements SessionContract for every number of operations,  *)
(* ID space and limit: each operation gets one result of a kind its caller *)
(* expects, a reply never Response and a request never Written, and        *)
(* closing settles everything that is pending at once.                     *)
THEOREM SessionKeepsContract == Spec => KeepsContract
  <1>1. Init => SessionInv
    BY PromiseInit, RouteInit DEF SessionInv, ClosedIsEmpty, Init
  <1>2. Init => Contract!Init
    BY DEF Init, Contract!Init, Contract!Operations, Keys
  <1>3. SessionInv /\ [Next]_vars => SessionInv'
    BY SessionStep
  <1>4. SessionInv /\ SessionInv' /\ [Next]_vars => [Contract!Next]_(Contract!vars)
    BY ContractStep
  <1>5. QED
    BY <1>1, <1>2, <1>3, <1>4, PTL DEF Spec, KeepsContract, Contract!Spec
----------------------------------------------------------------------------
(* The inbound limits.                                                     *)

LOCAL Sets == INSTANCE FiniteSetTheorems

(* The library counts as FiniteSets does.                                  *)
LEMMA SameCounting ==
  /\ \A S : Sets!IsFiniteSet(S) <=> IsFiniteSet(S)
  /\ \A S : Sets!Cardinality(S) = Cardinality(S)
  <1>1. \A S : Sets!IsFiniteSet(S) <=> IsFiniteSet(S)
    BY Zenon DEF Sets!IsFiniteSet, IsFiniteSet
  <1>2. \A S : Sets!Cardinality(S) = Cardinality(S)
    BY Zenon DEF Sets!Cardinality, Cardinality
  <1>3. QED
    BY Zenon, <1>1, <1>2

(* What is used of it.                                                     *)
LEMMA Counting ==
  /\ \A m, n \in Int : IsFiniteSet(m .. n)
  /\ \A S : IsFiniteSet(S) => Cardinality(S) \in Nat
  /\ \A S : IsFiniteSet(S) =>
       \A T \in SUBSET S : IsFiniteSet(T) /\ Cardinality(T) <= Cardinality(S)
  /\ \A S : IsFiniteSet(S) =>
       \A x : /\ IsFiniteSet(S \cup {x})
              /\ Cardinality(S \cup {x}) = IF x \in S THEN Cardinality(S) ELSE Cardinality(S) + 1
  /\ Cardinality({}) = 0
  <1>1. \A m, n \in Int : IsFiniteSet(m .. n)
    BY Zenon, SameCounting, Sets!FS_Interval
  <1>2. \A S : IsFiniteSet(S) => Cardinality(S) \in Nat
    BY Zenon, SameCounting, Sets!FS_CardinalityType
  <1>3. \A S : IsFiniteSet(S) =>
          \A T \in SUBSET S : IsFiniteSet(T) /\ Cardinality(T) <= Cardinality(S)
    BY Zenon, SameCounting, Sets!FS_Subset
  <1>4. \A S : IsFiniteSet(S) =>
          \A x : /\ IsFiniteSet(S \cup {x})
                 /\ Cardinality(S \cup {x})
                      = IF x \in S THEN Cardinality(S) ELSE Cardinality(S) + 1
    BY Zenon, SameCounting, Sets!FS_AddElement
  <1>5. Cardinality({}) = 0
    BY Zenon, SameCounting, Sets!FS_EmptySet
  <1>6. QED
    BY ZenonT(30), <1>1, <1>2, <1>3, <1>4, <1>5

(* A step that admits nothing: it only releases IDs and bytes.             *)
Shrinking ==
  /\ reserved_ids' \subseteq reserved_ids
  /\ retained_bytes' <= retained_bytes
  /\ retained_bytes' \in Int
  /\ UNCHANGED <<status, limits>>

(* The reserved IDs can be counted.                                        *)
LEMMA ReservedIdsFinite ==
  ASSUME TypeOK
  PROVE  IsFiniteSet(reserved_ids) /\ Cardinality(reserved_ids) \in Nat
  <1>1. IsFiniteSet(Ids)
    BY ConstantsAssumption, Counting DEF Ids
  <1>2. IsFiniteSet(reserved_ids)
    BY Zenon, <1>1, Counting DEF TypeOK
  <1>3. QED
    BY Zenon, <1>2, Counting

(* A step that admits nothing keeps the limits.                            *)
LEMMA ShrinkingKeepsLimits ==
  ASSUME TypeInv, WithinLimits, Shrinking
  PROVE  WithinLimits'
  <1>1. Cardinality(reserved_ids') <= Cardinality(reserved_ids)
    BY Zenon, ReservedIdsFinite, Counting DEF Shrinking, TypeInv
  <1>2. Cardinality(reserved_ids') \in Nat /\ Cardinality(reserved_ids) \in Nat
    BY Zenon, ReservedIdsFinite, Counting DEF Shrinking, TypeInv
  <1>3. limits.requests \in Nat /\ limits.bytes \in Nat /\ retained_bytes \in Int
    BY DEF TypeInv, TypeOK, Bounds
  <1>4. QED
    BY <1>1, <1>2, <1>3 DEF Shrinking, WithinLimits, Open

(* A released byte charge leaves the limits kept.                          *)
LEMMA ReleaseKeepsLimits ==
  ASSUME TypeInv, WithinLimits, NEW bytes \in Nat,
         retained_bytes' = retained_bytes - bytes,
         UNCHANGED <<status, limits, reserved_ids>>
  PROVE  WithinLimits'
  <1>1. retained_bytes \in Int
    BY ZenonT(30) DEF TypeInv, TypeOK
  <1>2. QED
    BY <1>1, ShrinkingKeepsLimits DEF Shrinking

(* enqueue admits nothing.                                                 *)
LEMMA EnqueueShrinks ==
  ASSUME TypeInv, NEW body, NEW id, NEW late, NEW hold, Enqueue(body, id, late, hold)
  PROVE  Shrinking
  BY DEF Enqueue, Shrinking, TypeInv, TypeOK

(* A session is closed after State::close.                                 *)
LEMMA CloseEnds ==
  ASSUME NEW reason \in Reasons, CloseState(reason)
  PROVE  status' # "Open"
  BY Zenon DEF CloseState, Open

(* Every step keeps an open session within its limits.                     *)
LEMMA LimitStep ==
  ASSUME TypeInv, WithinLimits, [Next]_vars
  PROVE  WithinLimits'
  <1> USE DEF wireVars, opVars, submitVars, promiseVars, holderVars, threadVars, closeVars
  <1>1. ASSUME NEW late \in BOOLEAN, Request(late) PROVE WithinLimits'
    <2>1. Enqueue("request", 0, late, TRUE)
      BY Zenon, <1>1 DEF Request
    <2>2. QED
      BY Zenon, <2>1, EnqueueShrinks, ShrinkingKeepsLimits
  <1>2. ASSUME NEW id \in Ids, NEW late \in BOOLEAN, Reply(id, late) PROVE WithinLimits'
    <2>1. CASE Open
      <3>1. Enqueue("reply", id, late, TRUE)
        BY Zenon, <1>2, <2>1 DEF Reply
      <3>2. QED
        BY Zenon, <3>1, EnqueueShrinks, ShrinkingKeepsLimits
    <2>2. CASE ~Open
      BY Zenon, <1>2, <2>2 DEF Reply, WithinLimits, Open
    <2>3. QED
      BY <2>1, <2>2
  <1>3. ASSUME NEW id \in Ids, DropResponder(id) PROVE WithinLimits'
    BY SMTT(30), <1>3 DEF DropResponder, WithinLimits, Open
  <1>4. ASSUME NEW id \in Ids, NEW late \in BOOLEAN, Autoreply(id, late) PROVE WithinLimits'
    <2>1. CASE Open
      <3>1. Enqueue("reply", id, late, FALSE)
        BY Zenon, <1>4, <2>1 DEF Autoreply
      <3>2. QED
        BY ZenonT(30), <3>1, EnqueueShrinks, ShrinkingKeepsLimits
    <2>2. CASE ~Open
      BY Zenon, <1>4, <2>2 DEF Autoreply, WithinLimits, Open
    <2>3. QED
      BY <2>1, <2>2
  <1>5. ASSUME RecvTake PROVE WithinLimits'
    BY <1>5 DEF RecvTake, WithinLimits, Open
  <1>6. ASSUME NEW valid \in BOOLEAN, RecvDecode(valid) PROVE WithinLimits'
    <2>1. Len(receiving) = 1 /\ receiving \in Seq(Envelopes)
      BY <1>6 DEF TypeInv, TypeOK, ThreadsRemember, RecvDecode
    <2>2. receiving[1] \in Envelopes
      BY <2>1
    <2>3. receiving[1].bytes \in Nat
      BY Zenon, <2>2, ConstantsAssumption DEF Envelopes
    <2>4. /\ retained_bytes' = retained_bytes - receiving[1].bytes
          /\ UNCHANGED <<status, limits, reserved_ids>>
      BY Zenon, <1>6 DEF RecvDecode
    <2>5. QED
      BY SMTT(30), <2>3, <2>4, ReleaseKeepsLimits
  <1>7. ASSUME RecvMalformed PROVE WithinLimits'
    BY Zenon, <1>7, CloseEnds DEF RecvMalformed, WithinLimits, Open
  <1>8. ASSUME NEW k \in Keys, DropPromise(k) PROVE WithinLimits'
    <2>1. unread[k] \in Nat
      BY SMTT(30) DEF TypeInv, TypeOK
    <2>2. /\ retained_bytes' = retained_bytes - unread[k]
          /\ UNCHANGED <<status, limits, reserved_ids>>
      BY <1>8 DEF DropPromise, ReleaseUnread
    <2>3. QED
      BY SMTT(30), <2>1, <2>2, ReleaseKeepsLimits
  <1>9. ASSUME NEW k \in Keys, NEW valid \in BOOLEAN, TakeResult(k, valid) PROVE WithinLimits'
    <2>1. unread[k] \in Nat
      BY Zenon DEF TypeInv, TypeOK
    <2>2. /\ retained_bytes' = retained_bytes - unread[k]
          /\ UNCHANGED <<status, limits, reserved_ids>>
      BY <1>9 DEF TakeResult, ReleaseUnread
    <2>3. QED
      BY ZenonT(30), <2>1, <2>2, ReleaseKeepsLimits
  <1>10. ASSUME CloseMalformedWait PROVE WithinLimits'
    BY SMTT(30), <1>10, CloseEnds DEF CloseMalformedWait, WithinLimits, Open
  <1>11. ASSUME NEW l \in Limits, SetInboundLimits(l) PROVE WithinLimits'
    <2>1. CASE Cardinality(reserved_ids) > l.requests \/ retained_bytes > l.bytes
      BY SMTT(30), <1>11, <2>1, CloseEnds DEF SetInboundLimits, WithinLimits, Open
    <2>2. CASE ~(Cardinality(reserved_ids) > l.requests) /\ ~(retained_bytes > l.bytes)
      <3>1. /\ limits' = l
            /\ UNCHANGED <<reserved_ids, retained_bytes, status>>
        BY SMTT(30), <1>11, <2>2 DEF SetInboundLimits
      <3>2. /\ l.requests \in Nat /\ l.bytes \in Nat
            /\ Cardinality(reserved_ids) \in Nat /\ retained_bytes \in Int
        BY SMTT(30), ConstantsAssumption, ReservedIdsFinite DEF Bounds, TypeInv, TypeOK
      <3>3. QED
        BY SMTT(30), <2>2, <3>1, <3>2 DEF WithinLimits, Open
    <2>3. QED
      BY SMTT(30), <2>1, <2>2
  <1>12. ASSUME Close PROVE WithinLimits'
    BY SMTT(30), <1>12, CloseEnds DEF Close, WithinLimits, Open
  <1>13. ASSUME ReceiveError PROVE WithinLimits'
    BY SMTT(30), <1>13 DEF ReceiveError, WithinLimits, Open
  <1>14. ASSUME NEW id \in InboundIds, NEW bytes \in Sizes, NEW known \in BOOLEAN, HandleRequest(id, bytes, known) PROVE WithinLimits'
    <2>1. id \in Ids /\ bytes \in Nat
      BY SMTT(30), ConstantsAssumption DEF Ids
    <2>2. CASE UNCHANGED <<reserved_ids, retained_bytes>>
      <3>1. UNCHANGED <<status, limits>>
        BY SMTT(30), <1>14 DEF HandleRequest
      <3>2. QED
        BY SMTT(30), <2>2, <3>1 DEF WithinLimits, Open
    <2>3. CASE /\ Cardinality(reserved_ids) < limits.requests
               /\ reserved_ids' = reserved_ids \cup {id}
               /\ \/ retained_bytes' = retained_bytes
                  \/ retained_bytes' = retained_bytes + bytes /\ Fits(bytes)
      <3>1. Cardinality(reserved_ids) \in Nat /\ Cardinality(reserved_ids') <= Cardinality(reserved_ids) + 1
        <4>1. IsFiniteSet(reserved_ids) /\ Cardinality(reserved_ids) \in Nat
          BY ReservedIdsFinite DEF TypeInv
        <4>2. Cardinality(reserved_ids \cup {id}) = IF id \in reserved_ids THEN Cardinality(reserved_ids)
                                                   ELSE Cardinality(reserved_ids) + 1
          BY ZenonT(30), <4>1, Counting
        <4>3. QED
          BY SMTT(30), <2>3, <4>1, <4>2
      <3>2. limits.requests \in Nat /\ limits.bytes \in Nat /\ retained_bytes \in Int
        BY ZenonT(30) DEF TypeInv, TypeOK, Bounds
      <3>3. Cardinality(reserved_ids') \in Nat
        BY ZenonT(30), <2>3, ReservedIdsFinite, Counting DEF TypeInv
      <3>4. UNCHANGED <<status, limits>>
        BY <1>14 DEF HandleRequest
      <3>5. QED
        BY SMTT(30), <2>1, <2>3, <3>1, <3>2, <3>3, <3>4 DEF WithinLimits, Fits, Open
    <2>4. QED
      BY SMTT(30), <1>14, <2>2, <2>3 DEF HandleRequest
  <1>15. ASSUME NEW id \in InboundIds, NEW bytes \in Sizes, HandleResponse(id, bytes) PROVE WithinLimits'
    <2>1. id \in Ids /\ bytes \in Nat
      BY ConstantsAssumption DEF Ids
    <2>2. UNCHANGED <<status, limits, reserved_ids>>
      BY ZenonT(30), <1>15 DEF HandleResponse
    <2>3. CASE UNCHANGED retained_bytes
      BY SMTT(30), <2>2, <2>3 DEF WithinLimits, Open
    <2>4. CASE retained_bytes' = retained_bytes + bytes /\ Fits(bytes)
      BY ZenonT(30), <2>2, <2>4 DEF WithinLimits, Open, Fits
    <2>5. QED
      BY ZenonT(30), <1>15, <2>3, <2>4 DEF HandleResponse
  <1>16. ASSUME ReadAutoreplyTimeout PROVE WithinLimits'
    BY <1>16 DEF ReadAutoreplyTimeout, WithinLimits, Open
  <1>17. ASSUME NEW late \in BOOLEAN, ReplyUnknown(late) PROVE WithinLimits'
    <2>1. CASE Open
      <3>1. PICK id \in unknown : Enqueue("reply", id, late, FALSE)
        BY Zenon, <1>17, <2>1 DEF ReplyUnknown
      <3>2. QED
        BY ZenonT(30), <3>1, EnqueueShrinks, ShrinkingKeepsLimits
    <2>2. CASE ~Open
      BY ZenonT(30), <1>17, <2>2 DEF ReplyUnknown, WithinLimits, Open
    <2>3. QED
      BY SMTT(30), <2>1, <2>2
  <1>18. ASSUME ReaderClose PROVE WithinLimits'
    BY SMTT(30), <1>18, CloseEnds DEF ReaderClose, TypeInv, ThreadsRemember, WithinLimits, Open
  <1>19. ASSUME NextOutgoing PROVE WithinLimits'
    <2>1. /\ reserved_ids' \subseteq reserved_ids
          /\ UNCHANGED <<status, limits, retained_bytes>>
      BY Zenon, <1>19 DEF NextOutgoing
    <2>2. retained_bytes \in Int
      BY Zenon DEF TypeInv, TypeOK
    <2>3. QED
      BY SMTT(30), <2>1, <2>2, ShrinkingKeepsLimits DEF Shrinking
  <1>20. ASSUME WriterStops PROVE WithinLimits'
    BY Zenon, <1>20 DEF WriterStops, WithinLimits, Open
  <1>21. ASSUME WriterSend PROVE WithinLimits'
    BY SMTT(30), <1>21 DEF WriterSend, WithinLimits, Open
  <1>22. ASSUME WriterUnroute PROVE WithinLimits'
    BY <1>22 DEF WriterUnroute, WithinLimits, Open
  <1>23. ASSUME RecordWrite PROVE WithinLimits'
    <2>1. UNCHANGED <<status, limits, reserved_ids, retained_bytes>>
      BY Zenon, <1>23 DEF RecordWrite
    <2>2. QED
      BY <2>1 DEF WithinLimits, Open
  <1>24. ASSUME WriterClose PROVE WithinLimits'
    BY Zenon, <1>24, CloseEnds DEF WriterClose, WithinLimits, Open
  <1>25. ASSUME WriterDisconnect PROVE WithinLimits'
    BY Zenon, <1>25 DEF WriterDisconnect, WithinLimits, Open
  <1>26. ASSUME NEW k \in Keys, DeadlinePasses(k) PROVE WithinLimits'
    BY ZenonT(30), <1>26 DEF DeadlinePasses, WithinLimits, Open
  <1>27. ASSUME Expire PROVE WithinLimits'
    <2>1. /\ reserved_ids' \subseteq reserved_ids
          /\ UNCHANGED <<status, limits, retained_bytes>>
      BY SMTT(30), <1>27 DEF Expire, ExpireState
    <2>2. retained_bytes \in Int
      BY DEF TypeInv, TypeOK
    <2>3. QED
      BY <2>1, <2>2, ShrinkingKeepsLimits DEF Shrinking
  <1>28. ASSUME FinishClose PROVE WithinLimits'
    <2>1. CASE removed # <<>>
      <3>1. Head(removed) \in Envelopes
        BY <2>1 DEF TypeInv, TypeOK
      <3>2. Head(removed).bytes \in Nat
        BY Zenon, <3>1, ConstantsAssumption DEF Envelopes
      <3>3. /\ retained_bytes' = retained_bytes - Head(removed).bytes
            /\ UNCHANGED <<status, limits, reserved_ids>>
        BY ZenonT(30), <1>28, <2>1 DEF FinishClose
      <3>4. QED
        BY ZenonT(30), <3>2, <3>3, ReleaseKeepsLimits
    <2>2. CASE removed = <<>>
      BY SMTT(30), <1>28, <2>2 DEF FinishClose, WithinLimits, Open
    <2>3. QED
      BY <2>1, <2>2
  <1>29. CASE UNCHANGED vars
    BY <1>29 DEF WithinLimits, Open, vars
  <1>30. QED
    BY SMTT(30), <1>1, <1>2, <1>3, <1>4, <1>5, <1>6, <1>7, <1>8, <1>9, <1>10, <1>11, <1>12, <1>13,
       <1>14, <1>15, <1>16, <1>17, <1>18, <1>19, <1>20, <1>21, <1>22, <1>23, <1>24, <1>25,
       <1>26, <1>27, <1>28, <1>29 DEF Next, Application, Reader, Writer, Clock

(* An open session never holds more unanswered requests or retained bytes  *)
(* than the limits in force, whatever the order of admission, release and  *)
(* set_inbound_limits.                                                     *)
THEOREM LimitsHold == Spec => []WithinLimits
  <1>1. Init => WithinLimits
    BY SMTT(30), ConstantsAssumption, Counting DEF Init, WithinLimits, Bounds
  <1>2. TypeInv /\ [Next]_vars => TypeInv'
    BY TypeStep
  <1>3. TypeInv /\ WithinLimits /\ [Next]_vars => WithinLimits'
    BY LimitStep
  <1>4. QED
    BY <1>1, <1>2, <1>3, TypeInit, PTL DEF Spec
============================================================================
