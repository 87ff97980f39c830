--------------------------- MODULE ExchangeSteps ---------------------------
(***************************************************************************)
(* That recv, wait and the writer keep the invariant of two connected      *)
(* sessions.                                                               *)
(***************************************************************************)
EXTENDS ExchangeInvariant
----------------------------------------------------------------------------
(* recv and wait.                                                          *)

(* A session that closes over a malformed envelope.                        *)
LEMMA RejectStep ==
  ASSUME Inv, NEW side \in Sides, NEW t \in SessionRecord, Becomes(side, t),
         Shrinks(session[side], t), UNCHANGED <<sent, answered, foreign>>, EndKept,
         wire' \in [Sides -> Seq(Items)], \A p \in Sides : WireKept(p),
         NEW fields \in Envelopes, NEW used \in BOOLEAN,
         rejected' = [rejected EXCEPT ![side] = @ \cup {<<fields, used>>}],
         \/ UnknownResponse(side, fields)
         \/ foreign > 0 /\ (~WellFormed(side, fields) \/ used)
  PROVE  Inv'
  <1>1. MalformedIsDeserved'
    BY Zenon, DeservedRejects DEF Inv
  <1>2. rejected \in [Sides -> SUBSET (Envelopes \X BOOLEAN)]
    BY DEF Inv, TypeOK
  <1>3. rejected[side] \cup {<<fields, used>>} \in SUBSET (Envelopes \X BOOLEAN)
    BY <1>2
  <1>4. rejected' \in [Sides -> SUBSET (Envelopes \X BOOLEAN)]
    BY <1>2, <1>3
  <1>5. QED
    BY Zenon, <1>1, <1>4, ShrinkingStep

(* recv hands out the oldest request, or closes over what does not decode. *)
LEMMA RecvStep ==
  ASSUME Inv, NEW side \in Sides, Recv(side)
  PROVE  Inv'
  <1>1. PICK s : s = session[side] /\ s \in SessionRecord
    BY DEF Inv, TypeOK
  <1>2. s.incoming \in Seq([id : Ids, fields : Envelopes]) /\ s.held \subseteq Ids /\ s.incoming # <<>>
    BY Zenon, <1>1, Fields DEF Recv
  <1>3. PICK next : next = Head(s.incoming)
    OBVIOUS
  <1>4. /\ 1 \in DOMAIN s.incoming /\ next = s.incoming[1]
        /\ next \in [id : Ids, fields : Envelopes] /\ next.id \in Ids /\ next.fields \in Envelopes
    <2>1. /\ 1 \in DOMAIN s.incoming /\ next = s.incoming[1]
          /\ next \in [id : Ids, fields : Envelopes]
      BY Zenon, <1>2, <1>3, Heads
    <2>2. QED
      BY <2>1
  <1>5. foreign = 0 => \E q \in sent : q[1] = Peer(side) /\ q[2] = next.id /\ IsKnown(q)
                                       /\ CarriesRequest(next.fields, q)
    BY <1>1, <1>4 DEF Inv, Shared, IncomingOK
  <1>6. CASE ~DecodeOk(side, next.fields)
    <2>1. PICK t : t = Closed(s, "Malformed")
      OBVIOUS
    <2>2. /\ Shrinks(s, t) /\ t.closed # "open" /\ t.running = s.running /\ t.owned = s.owned
          /\ t \in SessionRecord
      <3>1. "Malformed" \in Errors
        BY Reasons
      <3>2. QED
        BY <1>1, <2>1, <3>1, ClosedShrinks
    <2>3. /\ Becomes(side, t) /\ UNCHANGED <<wire, notice, sent, answered, foreign>>
          /\ rejected' = [rejected EXCEPT ![side] = @ \cup {<<next.fields, FALSE>>}]
      BY Zenon, <1>1, <1>3, <1>6, <2>1 DEF Recv
    <2>4. LET h == DecodeHeader(side, next.fields) IN h.ok /\ ~h.failed /\ ~h.unknown
      BY <1>1, <1>4 DEF Inv, Own, AdmittedOK
    <2>5. ~WellFormed(side, next.fields)
      BY <1>6, <2>4, IllFormedBody
    <2>6. foreign # 0
      <3>1. SUFFICES ASSUME foreign = 0 PROVE FALSE
        OBVIOUS
      <3>2. PICK q \in sent : q[1] = Peer(side) /\ IsKnown(q) /\ CarriesRequest(next.fields, q)
        BY <1>5, <3>1
      <3>3. /\ q[1] \in Sides /\ Question(q[1], q[3]) \in Sendable(q[1]) /\ Peer(q[1]) = side
            /\ next.fields = Encode(q[1], q[2], Question(q[1], q[3]))
        BY Zenon, <3>2, RequestFacts, Peers DEF CarriesRequest
      <3>4. DecodeOk(side, next.fields)
        BY <3>2, <3>3, EncodedDecodes DEF IsKnown
      <3>5. QED
        BY <1>6, <3>4
    <2>7. foreign > 0
      BY <2>6 DEF Inv, TypeOK
    <2>8. EndKept
      BY Zenon, <1>1, <2>2, <2>3, WorkersKeepEnd DEF Inv
    <2>9. wire' \in [Sides -> Seq(Items)] /\ \A p \in Sides : WireKept(p)
      BY Zenon, <2>3, SameWire DEF Inv
    <2>10. QED
      BY Zenon, <1>1, <1>4, <2>2, <2>3, <2>5, <2>7, <2>8, <2>9, RejectStep
  <1>7. CASE DecodeOk(side, next.fields)
    <2>1. /\ Tail(s.incoming) \in Seq([id : Ids, fields : Envelopes])
          /\ From(Tail(s.incoming), s.incoming) /\ s.held \cup {next.id} \subseteq Ids
      BY <1>2, <1>4 DEF From
    <2>2. PICK t : t = [s EXCEPT !.incoming = Tail(s.incoming), !.held = s.held \cup {next.id}]
      OBVIOUS
    <2>3. t \in SessionRecord
      BY Zenon, <1>1, <2>1, <2>2 DEF SessionRecord
    <2>4. /\ t.asked = s.asked /\ t.nextId = s.nextId /\ t.held = s.held \cup {next.id}
          /\ t.promise = s.promise /\ t.outgoing = s.outgoing /\ t.incoming = Tail(s.incoming)
          /\ t.outstanding = s.outstanding /\ t.reserved = s.reserved /\ t.closed = s.closed
          /\ t.running = s.running /\ t.owned = s.owned
      BY <1>1, <2>2 DEF SessionRecord
    <2>5. Becomes(side, t) /\ UNCHANGED <<wire, notice, sent, answered, foreign, rejected>>
      BY <1>1, <1>3, <1>7, <2>2 DEF Recv
    <2>6. session'[side] = t
      BY <2>3, <2>5, SessionUpdate DEF Inv
    <2>7. EndKept
      BY <1>1, <2>3, <2>4, <2>5, WorkersKeepEnd DEF Inv
    <2>8. wire' \in [Sides -> Seq(Items)] /\ \A p \in Sides : WireKept(p)
      BY <2>5, SameWire DEF Inv
    <2>9. /\ QueueKept(side) /\ RoutesKept(side) /\ IncomingKept(side) /\ PromisesKept(side)
          /\ ReservedKept(side)
      <3>1. IncomingKept(side)
        BY <1>1, <2>1, <2>4, <2>6 DEF IncomingKept
      <3>2. QED
        BY Zenon, <1>1, <2>4, <2>6, <3>1 DEF QueueKept, RoutesKept, PromisesKept, ReservedKept, From
    <2>10. ASSUME TypeOK', Grow PROVE Own(side)'
      BY <2>9, <2>10, QueueKeeps, RoutesKeep, AdmittedKeeps, RespondedKeeps DEF Inv, Own
    <2>11. ASSUME TypeOK', Grow, foreign = 0 PROVE AnswersOK' /\ Shared(side)'
      <3>1. ASSUME NEW id \in t.held
            PROVE  \E q \in sent' : q[1] = Peer(side) /\ q[2] = id /\ IsKnown(q)'
        <4>1. CASE id \in s.held
          BY Zenon, <1>1, <2>11, <4>1, RequestsKeep DEF Inv, Shared, HeldOK
        <4>2. CASE id = next.id
          BY <1>5, <2>11, <4>2, RequestsKeep DEF Inv
        <4>3. QED
          BY Zenon, <2>4, <4>1, <4>2
      <3>2. HeldOK(side)'
        BY <2>6, <3>1 DEF HeldOK
      <3>3. AnswersOK'
        BY <2>5, <2>11, AnswersKeep DEF Inv
      <3>4. QED
        BY SMTT(30), <2>8, <2>9, <2>11, <3>2, <3>3, WireKeeps, IncomingKeeps, ReadyKeeps,
           DoneKeeps, OrderKeeps
           DEF Inv, Shared
    <2>12. answered' \subseteq Sides \X Ids \X Results
      BY <2>5 DEF Inv, TypeOK
    <2>13. QED
      BY Zenon, <1>1, <2>3, <2>4, <2>5, <2>7, <2>8, <2>10, <2>11, <2>12, SteadyStep DEF Steady
  <1>8. QED
    BY <1>6, <1>7

(* A promise that is ready holds what the peer answered, so wait returns   *)
(* it.                                                                     *)
LEMMA WaitStep ==
  ASSUME Inv, NEW side \in Sides, NEW n \in DOMAIN session[side].promise, Wait(side, n)
  PROVE  Inv'
  <1>1. PICK s : s = session[side] /\ s \in SessionRecord
    BY Zenon DEF Inv, TypeOK
  <1>2. s.promise \in Seq(Outcomes) /\ n \in DOMAIN s.promise
    BY <1>1, Fields
  <1>3. PICK fields : fields = s.promise[n].fields
    BY Zenon
  <1>4. s.promise[n].state = "ready" /\ fields \in Envelopes
    BY <1>1, <1>2, <1>3, OutcomeStates DEF Wait
  <1>5. DecodeHeader(side, fields).ok /\ IsResponse(side, IdOf(fields))
    BY Zenon, <1>1, <1>2, <1>3, <1>4 DEF Inv, Own, RespondedOK
  <1>6. foreign = 0 => \E q \in sent, a \in answered :
          /\ q[1] = side /\ q[3] = n /\ a[1] = Peer(side) /\ q[2] = a[2]
          /\ CarriesReply(fields, a)
    BY <1>1, <1>2, <1>3, <1>4 DEF Inv, Shared, ReadyOK
  <1>7. Peer(side) \in Sides /\ Peer(Peer(side)) = side
    BY Zenon, Peers
  <1>8. CASE ~DecodeOk(side, fields)
    <2>1. PICK f : f = [s EXCEPT !.promise[n] = Failed("Malformed")]
      BY Zenon
    <2>2. /\ Shrinks(s, f) /\ f.owned = s.owned /\ f.running = s.running /\ f \in SessionRecord
      BY <1>1, <1>2, <2>1, FailedShrinks, Reasons
    <2>3. PICK t : t = Closed(f, "Malformed")
      OBVIOUS
    <2>4. /\ Shrinks(f, t) /\ t.closed # "open" /\ t.running = f.running /\ t.owned = f.owned
          /\ t \in SessionRecord
      <3>1. "Malformed" \in Errors
        BY Zenon, Reasons
      <3>2. QED
        BY <2>2, <2>3, <3>1, ClosedShrinks
    <2>5. Shrinks(s, t)
      BY Zenon, <1>1, <2>2, <2>4, ShrinksTwice
    <2>6. /\ Becomes(side, t) /\ UNCHANGED <<wire, notice, sent, answered, foreign>>
          /\ rejected' = [rejected EXCEPT ![side] = @ \cup {<<fields, FALSE>>}]
      BY Zenon, <1>1, <1>3, <1>8, <2>1, <2>3 DEF Wait
    <2>7. UnknownResponse(side, fields) \/ (foreign > 0 /\ ~WellFormed(side, fields))
      <3>1. ~WellFormed(side, fields) \/ UnknownResponse(side, fields)
        BY <1>5, <1>8, IllFormedBody DEF UnknownResponse
      <3>2. ASSUME foreign = 0 PROVE UnknownResponse(side, fields)
        <4>1. PICK a \in answered : a[1] = Peer(side) /\ CarriesReply(fields, a)
          BY Zenon, <1>6, <3>2
        <4>2. a[3] \in Sendable(Peer(side)) /\ fields = Encode(Peer(side), a[2], a[3])
          BY Zenon, <4>1, ReplyFacts
        <4>3. \A i \in DOMAIN fields : fields[i].tag \notin Schema[side]
          BY <1>7, <1>8, <4>2, EncodedDecodes
        <4>4. QED
          BY <1>5, <4>3 DEF UnknownResponse
      <3>3. foreign = 0 \/ foreign > 0
        BY DEF Inv, TypeOK
      <3>4. CASE foreign > 0
        BY Zenon, <3>1, <3>4
      <3>5. QED
        BY <3>2, <3>3, <3>4
    <2>8. EndKept
      BY Zenon, <1>1, <2>2, <2>4, <2>6, WorkersKeepEnd DEF Inv
    <2>9. wire' \in [Sides -> Seq(Items)] /\ \A p \in Sides : WireKept(p)
      BY Zenon, <2>6, SameWire DEF Inv
    <2>10. QED
      BY Zenon, <1>1, <1>4, <2>4, <2>5, <2>6, <2>7, <2>8, <2>9, RejectStep
  <1>9. CASE DecodeOk(side, fields)
    <2>1. PICK result : result = Decode(side, fields)
      BY Zenon
    <2>2. UNCHANGED <<wire, notice, sent, answered, foreign, rejected>>
      BY Zenon, <1>1, <1>3, <1>9 DEF Wait
    <2>3. \/ Becomes(side, [s EXCEPT !.promise[n] = Failed("UnexpectedResponse")])
          \/ Becomes(side, [s EXCEPT !.promise[n] = Done(result)])
      BY Zenon, <1>1, <1>3, <1>9, <2>1 DEF Wait
    <2>4. CASE Becomes(side, [s EXCEPT !.promise[n] = Failed("UnexpectedResponse")])
      <3>1. PICK f : f = [s EXCEPT !.promise[n] = Failed("UnexpectedResponse")]
        BY Zenon
      <3>2. /\ Shrinks(s, f) /\ f.closed = s.closed /\ f.owned = s.owned /\ f.running = s.running
            /\ f \in SessionRecord
        BY <1>1, <1>2, <3>1, FailedShrinks, Reasons
      <3>3. QED
        BY Zenon, <1>1, <2>2, <2>4, <3>1, <3>2, LocalStep
    <2>5. CASE Becomes(side, [s EXCEPT !.promise[n] = Done(result)])
      <3>1. PICK promise : promise = [s.promise EXCEPT ![n] = Done(result)]
        BY Zenon
      <3>2. Done(result) \in Outcomes
        BY <1>4, <2>1, OutcomeTypes
      <3>3. /\ promise \in Seq(Outcomes) /\ Len(promise) = Len(s.promise) /\ promise[n] = Done(result)
            /\ \A k \in DOMAIN promise : k # n => k \in DOMAIN s.promise /\ promise[k] = s.promise[k]
        BY <1>2, <3>1, <3>2
      <3>4. PICK t : t = [s EXCEPT !.promise = promise]
        BY Zenon
      <3>5. t \in SessionRecord
        BY Zenon, <1>1, <3>3, <3>4 DEF SessionRecord
      <3>6. /\ t.asked = s.asked /\ t.nextId = s.nextId /\ t.held = s.held /\ t.promise = promise
            /\ t.outgoing = s.outgoing /\ t.incoming = s.incoming /\ t.outstanding = s.outstanding
            /\ t.reserved = s.reserved /\ t.closed = s.closed /\ t.owned = s.owned
            /\ t.running = s.running
        BY <1>1, <3>4 DEF SessionRecord
      <3>7. Becomes(side, t)
        BY <1>1, <2>5, <3>1, <3>4
      <3>8. session'[side] = t
        BY <3>5, <3>7, SessionUpdate DEF Inv
      <3>9. EndKept
        BY <1>1, <2>2, <3>5, <3>6, <3>7, WorkersKeepEnd DEF Inv
      <3>10. wire' \in [Sides -> Seq(Items)] /\ \A p \in Sides : WireKept(p)
        BY <2>2, SameWire DEF Inv
      <3>11. /\ QueueKept(side) /\ RoutesKept(side) /\ IncomingKept(side) /\ HeldKept(side)
             /\ ReservedKept(side)
        BY <1>1, <3>6, <3>8
           DEF QueueKept, RoutesKept, IncomingKept, HeldKept, ReservedKept, From
      <3>12. Done(result).state = "done" /\ Done(result).result = result
        BY DEF Done
      <3>13. ASSUME TypeOK', Grow PROVE Own(side)'
        <4>1. RespondedOK(side)'
          BY <1>1, <3>3, <3>6, <3>8, <3>12 DEF Inv, Own, RespondedOK
        <4>2. QED
          BY ZenonT(30), <3>11, <3>13, <4>1, QueueKeeps, RoutesKeep, AdmittedKeeps DEF Inv, Own
      <3>14. ASSUME TypeOK', Grow, foreign = 0 PROVE AnswersOK' /\ Shared(side)'
        <4>1. ReadyOK(side)'
          <5>1. \A k \in DOMAIN promise : promise[k].state = "ready" =>
                  k \in DOMAIN s.promise /\ promise[k] = s.promise[k]
            BY <3>3, <3>12
          <5>2. ReadyOK(side)
            BY Zenon, <3>14 DEF Inv, Shared
          <5>3. QED
            BY <1>1, <2>2, <3>6, <3>8, <5>1, <5>2 DEF ReadyOK, CarriesReply
        <4>2. PICK q \in sent, a \in answered :
                /\ q[1] = side /\ q[3] = n /\ a[1] = Peer(side) /\ q[2] = a[2]
                /\ CarriesReply(fields, a)
          BY <1>6, <3>14
        <4>3. result = a[3]
          BY SMTT(30), <1>7, <1>9, <2>1, <4>2, ReplyFacts, EncodedDecodes
        <4>4. DoneOK(side)'
          BY SMTT(30), <1>1, <2>2, <3>3, <3>6, <3>8, <3>12, <3>14, <4>2, <4>3
             DEF Inv, Shared, DoneOK
        <4>5. AnswersOK'
          BY <2>2, <3>14, AnswersKeep DEF Inv
        <4>6. QED
          BY ZenonT(30), <3>10, <3>11, <3>14, <4>1, <4>4, <4>5, WireKeeps, IncomingKeeps, HeldKeeps,
             OrderKeeps
             DEF Inv, Shared
      <3>15. answered' \subseteq Sides \X Ids \X Results
        BY Zenon, <2>2 DEF Inv, TypeOK
      <3>16. QED
        BY SMTT(30), <1>1, <2>2, <3>3, <3>5, <3>6, <3>7, <3>9, <3>10, <3>13, <3>14, <3>15,
           SteadyStep
           DEF Steady
    <2>6. QED
      BY <2>3, <2>4, <2>5
  <1>10. QED
    BY <1>8, <1>9

----------------------------------------------------------------------------
(* The writer.                                                             *)

(* What the writer may do to the notice.                                   *)
NoticeKept == notice' = notice \/ notice' = "lost" \/ (notice' = "told" /\ EndComes')

(* The writer keeps the order of ends.                                     *)
LEMMA WriteEnd ==
  ASSUME TypeOK, NEW side \in Sides, NEW t \in SessionRecord, Becomes(side, t),
         session[side].closed # "open" => t.closed # "open",
         t.running = session[side].running, t.owned = session[side].owned,
         "writer" \in session[side].running, wire'[side] = wire[side],
         WireGrown(Peer(side)), NoticeKept
  PROVE  EndKept
  <1>1. /\ session'[side] = t /\ session'[Peer(side)] = session[Peer(side)]
        /\ \A p \in Sides : p = side \/ p = Peer(side)
    BY SessionUpdate, Peers
  <1>2. \A p \in Sides :
          /\ ~IsOpen(p) => ~IsOpen(p)'
          /\ session'[p].running = session[p].running
          /\ session'[p].owned = session[p].owned
    BY <1>1 DEF IsOpen
  <1>3. Client \in Sides /\ Server \in Sides /\ (side = Client \/ side = Server)
    BY DEF Sides
  <1>4. WireGrown(Client)
    BY Zenon, <1>1, <1>3 DEF WireGrown
  <1>5. QED
    BY <1>2, <1>3, <1>4 DEF EndKept, NoticeKept

(* A step of the writer, given what it does to the routes and the wire.    *)
LEMMA WroteStep ==
  ASSUME Inv, NEW side \in Sides, NEW t \in SessionRecord, Becomes(side, t),
         t.asked = session[side].asked, Len(t.promise) = Len(session[side].promise),
         t.nextId = session[side].nextId \/ t.nextId = session[side].nextId + 2,
         QueueKept(side), IncomingKept(side), PromisesKept(side), HeldKept(side), ReservedKept(side),
         session[side].closed # "open" => t.closed # "open",
         t.running = session[side].running, t.owned = session[side].owned,
         "writer" \in session[side].running,
         UNCHANGED <<answered, foreign, rejected>>,
         sent \subseteq sent', sent' \subseteq Sides \X Nat \X Nat, Sending', RoutesOK(side)',
         wire' \in [Sides -> Seq(Items)], wire'[side] = wire[side],
         WireGrown(Peer(side)), NoticeKept,
         TypeOK' /\ Grow /\ foreign = 0 => WireOK(Peer(side))' /\ OrderOK(Peer(side))'
  PROVE  Inv'
  <1>1. /\ session' \in [Sides -> SessionRecord]
        /\ session'[side] = t /\ session'[Peer(side)] = session[Peer(side)]
        /\ session[side] \in SessionRecord /\ session[Peer(side)] \in SessionRecord
    BY Zenon, SessionUpdate DEF Inv
  <1>2. TypeOK'
    BY Zenon, <1>1 DEF Inv, TypeOK
  <1>3. Peer(side) \in Sides /\ \A p \in Sides : p = side \/ p = Peer(side)
    BY Peers
  <1>4. session[side].nextId \in Nat /\ session[Peer(side)].nextId \in Nat
    BY Zenon, <1>1, Fields
  <1>5. Grow
    <2>1. \A p \in Sides : session[p].nextId <= session'[p].nextId
      <3>1. session[side].nextId <= t.nextId
        BY <1>4
      <3>2. session[Peer(side)].nextId <= session[Peer(side)].nextId
        BY <1>4
      <3>3. QED
        BY Zenon, <1>1, <1>3, <3>1, <3>2
    <2>2. \A p \in Sides : session'[p].asked = session[p].asked
      BY Zenon, <1>1, <1>3
    <2>3. QED
      BY <2>1, <2>2 DEF Grow
  <1>6. Asking'
    <2>1. Parity(t.nextId) = Parity(session[side].nextId)
      BY SMTT(30), <1>4 DEF Parity
    <2>2. QED
      BY Zenon, <1>1, <1>3, <2>1 DEF Inv, Asking, Question
  <1>7. Own(side)'
    BY SMTT(30), <1>5, QueueKeeps, AdmittedKeeps, RespondedKeeps DEF Inv, Own
  <1>8. Own(Peer(side))' /\ Kept(Peer(side))
    BY <1>1, <1>3, <1>5, Untouched, KeepsOwn
  <1>9. ASSUME foreign = 0 PROVE AnswersOK' /\ Shared(side)' /\ Shared(Peer(side))'
    <2>1. AnswersOK'
      BY <1>5, <1>9, AnswersKeep DEF Inv
    <2>2. WireKept(side)
      BY Zenon DEF WireKept
    <2>3. Shared(side)'
      BY Zenon, <1>2, <1>5, <1>9, <2>2, WireKeeps, IncomingKeeps, HeldKeeps, ReadyKeeps,
         DoneKeeps, OrderKeeps
         DEF Inv, Shared
    <2>4. Shared(Peer(side))'
      BY ZenonT(30), <1>2, <1>3, <1>5, <1>8, <1>9, IncomingKeeps, HeldKeeps, ReadyKeeps, DoneKeeps
         DEF Inv, Shared, Kept
    <2>5. QED
      BY <2>1, <2>3, <2>4
  <1>10. MalformedIsDeserved'
    BY DeservedKeeps DEF Inv, TypeOK
  <1>11. Ending'
    BY WriteEnd, EndingKeeps DEF Inv
  <1>12. \A p \in Sides : Own(p)'
    BY Zenon, <1>3, <1>7, <1>8
  <1>13. foreign' = 0 => AnswersOK' /\ \A p \in Sides : Shared(p)'
    BY <1>3, <1>9
  <1>14. QED
    BY <1>2, <1>6, <1>10, <1>11, <1>12, <1>13 DEF Inv

(* An envelope goes on the wire to p, and perhaps an end after it.         *)
Puts(p, fields) ==
  /\ wire' \in [Sides -> Seq(Items)]
  /\ \A b \in Sides : b # p => wire'[b] = wire[b]
  /\ \/ wire'[p] = Append(wire[p], Envelope(fields))
     \/ wire'[p] = Append(Append(wire[p], Envelope(fields)), End)

(* The items of a wire that was written to.                                *)
LEMMA WireGrows ==
  ASSUME Inv, NEW p \in Sides, NEW fields \in Envelopes, Puts(p, fields)
  PROVE  /\ wire[p] \in Seq(Items)
         /\ Len(wire[p]) + 1 \in DOMAIN wire'[p]
         /\ wire'[p][Len(wire[p]) + 1].kind = "message" /\ wire'[p][Len(wire[p]) + 1].fields = fields
         /\ \A i \in DOMAIN wire'[p] :
              \/ i = Len(wire[p]) + 1 \/ (i \in DOMAIN wire[p] /\ wire'[p][i] = wire[p][i])
              \/ wire'[p][i].kind # "message"
         /\ WireGrown(p)
  <1>1. wire[p] \in Seq(Items) /\ Envelope(fields) \in Items /\ End \in Items /\ End.kind # "message"
    BY DEF Inv, TypeOK, Items, End
  <1>2. PICK m : m = Envelope(fields)
    OBVIOUS
  <1>3. m.kind = "message" /\ m.fields = fields /\ m \in Items
    BY <1>1, <1>2 DEF Envelope
  <1>4. PICK w : w = Append(wire[p], m)
    BY Zenon
  <1>5. /\ w \in Seq(Items) /\ Len(wire[p]) + 1 \in DOMAIN w /\ w[Len(wire[p]) + 1] = m
        /\ \A i \in DOMAIN wire[p] : i \in DOMAIN w /\ w[i] = wire[p][i]
        /\ \A i \in DOMAIN w : i = Len(wire[p]) + 1 \/ (i \in DOMAIN wire[p] /\ w[i] = wire[p][i])
    BY <1>1, <1>3, <1>4, Appends
  <1>6. /\ \A i \in DOMAIN w : i \in DOMAIN wire'[p] /\ wire'[p][i] = w[i]
        /\ \A i \in DOMAIN wire'[p] :
             (i \in DOMAIN w /\ wire'[p][i] = w[i]) \/ wire'[p][i].kind # "message"
    <2>1. CASE wire'[p] = w
      BY <2>1
    <2>2. CASE wire'[p] = Append(w, End)
      BY <1>1, <1>5, <2>2, Appends
    <2>3. QED
      BY Zenon, <1>2, <1>4, <2>1, <2>2 DEF Puts
  <1>7. QED
    BY <1>1, <1>3, <1>5, <1>6 DEF WireGrown

(* What a write may come to: the message is refused, it is on the wire, or *)
(* it is lost.                                                             *)
LEMMA WriteOutcomes ==
  ASSUME Inv, NEW side \in Sides, Write(side), NEW next, next = Head(session[side].outgoing),
         NEW id \in Ids, id = IF next.kind = "request" THEN session[side].nextId ELSE next.id,
         NEW result \in Results, result = next.result, NEW k, k = Taken(session[side], next)
  PROVE  \/ /\ Refusal(side, result) # "none" /\ UNCHANGED <<wire, notice, sent>>
            /\ Becomes(side, Refused(k, next, id, Refusal(side, result)))
         \/ /\ Refusal(side, result) = "none" /\ Puts(Peer(side), Encode(side, id, result)) /\ NoticeKept
            /\ sent' = IF next.kind = "request" THEN sent \cup {<<side, id, next.n>>} ELSE sent
            /\ Becomes(side, k) \/ Becomes(side, Closed(k, "Transport"))
         \/ /\ Refusal(side, result) = "none" /\ NoticeKept /\ sent' = sent
            /\ wire' \in [Sides -> Seq(Items)] /\ \A p \in Sides : WireKept(p) /\ WireGrown(p)
            /\ wire'[side] = wire[side]
            /\ Becomes(side, Closed(k, "Transport"))
  <1>1. PICK fields : fields = Encode(side, id, result)
    OBVIOUS
  <1>2. PICK w : w = [wire EXCEPT ![Peer(side)] = Append(@, Envelope(fields))]
    OBVIOUS
  <1>3. /\ Peer(side) \in Sides /\ Peer(side) # side /\ \A p \in Sides : p = side \/ p = Peer(side)
        /\ wire \in [Sides -> Seq(Items)] /\ wire[Peer(side)] \in Seq(Items)
    BY Peers DEF Inv, TypeOK
  <1>4. ASSUME Refusal(side, result) = "none"
        PROVE  /\ w \in [Sides -> Seq(Items)] /\ w[side] = wire[side]
               /\ w[Peer(side)] = Append(wire[Peer(side)], Envelope(fields))
    <2>1. Envelope(fields) \in Items
      BY <1>1, <1>4 DEF Items, Envelopes, Encoded, Sendable
    <2>2. PICK u : u = Append(wire[Peer(side)], Envelope(fields))
      OBVIOUS
    <2>3. u \in Seq(Items)
      BY <1>3, <2>1, <2>2, Appends
    <2>4. w = [wire EXCEPT ![Peer(side)] = u]
      BY <1>2, <2>2
    <2>5. QED
      BY <1>3, <2>2, <2>3, <2>4
  (* A send that fails over what is on the wire.                           *)
  <1>5. ASSUME NEW v \in [Sides -> Seq(Items)], SendFails(side, v)
        PROVE  /\ NoticeKept /\ wire' \in [Sides -> Seq(Items)] /\ wire'[side] = v[side]
               /\ \/ wire'[Peer(side)] = v[Peer(side)]
                  \/ wire'[Peer(side)] = Append(v[Peer(side)], End)
    <2>1. CASE side = Server
      BY Zenon, <1>5, <2>1, Notified DEF SendFails, NoticeKept, Peer, Client, Server
    <2>2. CASE side # Server
      BY <1>5, <2>2 DEF SendFails, NoticeKept
    <2>3. QED
      BY <2>1, <2>2
  <1>6. CASE /\ Refusal(side, result) # "none"
             /\ Becomes(side, Refused(k, next, id, Refusal(side, result)))
             /\ UNCHANGED <<wire, notice, sent>>
    BY <1>6
  <1>7. CASE /\ Refusal(side, result) = "none" /\ Becomes(side, k)
             /\ wire' = w /\ UNCHANGED notice
             /\ sent' = IF next.kind = "request" THEN sent \cup {<<side, id, next.n>>} ELSE sent
    <2>1. Puts(Peer(side), fields)
      BY Zenon, <1>3, <1>4, <1>7 DEF Puts
    <2>2. QED
      BY Zenon, <1>1, <1>7, <2>1 DEF NoticeKept
  <1>8. CASE /\ Refusal(side, result) = "none" /\ Becomes(side, Closed(k, "Transport"))
             /\ SendFails(side, w)
             /\ sent' = IF next.kind = "request" THEN sent \cup {<<side, id, next.n>>} ELSE sent
    <2>1. Puts(Peer(side), fields) /\ NoticeKept
      BY Zenon, <1>3, <1>4, <1>5, <1>8 DEF Puts
    <2>2. QED
      BY Zenon, <1>1, <1>8, <2>1
  <1>9. CASE /\ Refusal(side, result) = "none" /\ Becomes(side, Closed(k, "Transport"))
             /\ SendFails(side, wire) /\ sent' = sent
    <2>1. /\ NoticeKept /\ wire' \in [Sides -> Seq(Items)] /\ wire'[side] = wire[side]
          /\ \/ wire'[Peer(side)] = wire[Peer(side)]
             \/ wire'[Peer(side)] = Append(wire[Peer(side)], End)
      BY Zenon, <1>3, <1>5, <1>9
    <2>2. \A p \in Sides : WireKept(p)
      BY Zenon, <1>3, <2>1 DEF WireKept
    <2>3. WireGrown(Peer(side))
      <3>1. End \in Items
        BY DEF Items
      <3>2. QED
        BY <1>3, <2>1, <3>1, Appends DEF WireGrown
    <2>4. WireGrown(side)
      BY Zenon, <2>1 DEF WireGrown
    <2>5. QED
      BY Zenon, <1>3, <1>9, <2>1, <2>2, <2>3, <2>4
  <1>10. QED
    BY Zenon, <1>1, <1>2, <1>6, <1>7, <1>8, <1>9 DEF Write

(* An envelope is allowed on the wire.                                     *)
Carried(p, fields) ==
  \/ \E q \in sent : q[1] = Peer(p) /\ CarriesRequest(fields, q)
  \/ \E a \in answered : a[1] = Peer(p) /\ CarriesReply(fields, a)

(* It stays allowed.                                                       *)
LEMMA CarriedKeeps ==
  ASSUME Inv, Grow, NEW p \in Sides, NEW fields, Carried(p, fields)
  PROVE  Carried(p, fields)'
  <1>1. CASE \E q \in sent : q[1] = Peer(p) /\ CarriesRequest(fields, q)
    BY <1>1, RequestsKeep DEF Inv, Carried
  <1>2. CASE \E a \in answered : a[1] = Peer(p) /\ CarriesReply(fields, a)
    BY <1>2 DEF Grow, Carried, CarriesReply
  <1>3. QED
    BY <1>1, <1>2 DEF Carried

(* Then the wire stays as it should be.                                    *)
LEMMA WroteWireOK ==
  ASSUME Inv, Grow, foreign = 0, NEW p \in Sides, NEW fields \in Envelopes,
         Puts(p, fields), Carried(p, fields)'
  PROVE  WireOK(p)'
  <1>1. ASSUME NEW i \in DOMAIN wire'[p], wire'[p][i].kind = "message", NEW f, f = wire'[p][i].fields
        PROVE  Carried(p, f)'
    <2>1. CASE i = Len(wire[p]) + 1
      BY ZenonT(30), <1>1, <2>1, WireGrows
    <2>2. CASE i \in DOMAIN wire[p] /\ wire'[p][i] = wire[p][i]
      <3>1. Carried(p, f)
        BY <1>1, <2>2 DEF Inv, Shared, WireOK, Carried
      <3>2. QED
        BY <3>1, CarriedKeeps
    <2>3. QED
      BY <1>1, <2>1, <2>2, WireGrows
  <1>2. QED
    BY Zenon, <1>1 DEF WireOK, Carried

(* And the order of IDs, if the envelope is a response or has the newest   *)
(* ID.                                                                     *)
LEMMA WroteOrderOK ==
  ASSUME Inv, TypeOK', Grow, foreign = 0, NEW p \in Sides, NEW fields \in Envelopes,
         Puts(p, fields), ReservedKept(p),
         IsResponse(p, IdOf(fields)) \/ IdOf(fields) = session[Peer(p)].nextId
  PROVE  OrderOK(p)'
  <1> DEFINE next == session[Peer(p)].nextId
  <1>1. next \in Nat /\ wire[p] \in Seq(Items) /\ next <= session'[Peer(p)].nextId
        /\ session'[Peer(p)].nextId \in Nat
    <2>1. /\ Peer(p) \in Sides /\ session[Peer(p)] \in SessionRecord /\ session'[Peer(p)] \in SessionRecord
      BY Peers DEF Inv, TypeOK
    <2>2. next \in Nat /\ session'[Peer(p)].nextId \in Nat
      BY <2>1, Fields
    <2>3. wire[p] \in Seq(Items)
      BY DEF Inv, TypeOK
    <2>4. next <= session'[Peer(p)].nextId
      BY Zenon, <2>1 DEF Grow
    <2>5. QED
      BY <2>2, <2>3, <2>4
  <1>2. ASSUME NEW i \in UnderWay(p)
        PROVE  /\ i \in DOMAIN wire[p] /\ IdOf(wire[p][i].fields) \in Nat
               /\ IdOf(wire[p][i].fields) < next
    BY SMTT(30), UnderWayIds, RequestFacts DEF UnderWay
  <1>3. ASSUME NEW i \in UnderWay(p)'
        PROVE  \/ i = Len(wire[p]) + 1 /\ IdOf(wire'[p][i].fields) = next
               \/ i \in UnderWay(p) /\ wire'[p][i] = wire[p][i]
    <2>1. /\ i \in DOMAIN wire'[p] /\ wire'[p][i].kind = "message"
          /\ ~IsResponse(p, IdOf(wire'[p][i].fields))
      BY Zenon DEF UnderWay
    <2>2. CASE i = Len(wire[p]) + 1
      <3>1. wire'[p][i].fields = fields
        BY Zenon, <2>2, WireGrows
      <3>2. QED
        BY Zenon, <2>1, <2>2, <3>1
    <2>3. CASE i \in DOMAIN wire[p] /\ wire'[p][i] = wire[p][i]
      BY <2>1, <2>3 DEF UnderWay
    <2>4. QED
      BY <2>1, <2>2, <2>3, WireGrows
  <1> HIDE DEF next
  <1>4. ASSUME NEW i \in UnderWay(p)', NEW j \in UnderWay(p)', i < j
        PROVE  IdOf(wire'[p][i].fields) < IdOf(wire'[p][j].fields)
    <2>1. i \in UnderWay(p) /\ wire'[p][i] = wire[p][i]
      BY <1>1, <1>2, <1>3, <1>4
    <2>2. CASE j = Len(wire[p]) + 1 /\ IdOf(wire'[p][j].fields) = next
      BY Zenon, <1>2, <2>1, <2>2
    <2>3. CASE j \in UnderWay(p) /\ wire'[p][j] = wire[p][j]
      BY Zenon, <1>4, <2>1, <2>3 DEF Inv, Shared, OrderOK
    <2>4. QED
      BY Zenon, <1>3, <2>2, <2>3
  <1>5. ASSUME NEW id \in session'[p].reserved
        PROVE  /\ id \in Nat /\ id < session'[Peer(p)].nextId
               /\ \A i \in UnderWay(p)' : id < IdOf(wire'[p][i].fields)
    <2>1. /\ id \in Nat /\ id < next /\ \A i \in UnderWay(p) : id < IdOf(wire[p][i].fields)
      BY DEF Inv, Shared, OrderOK, ReservedKept, next
    <2>2. id < session'[Peer(p)].nextId
      BY <1>1, <2>1 DEF next
    <2>3. QED
      BY Zenon, <1>3, <2>1, <2>2
  <1>6. QED
    BY Zenon, <1>4, <1>5 DEF OrderOK

(* Writing a reply frees its ID.                                           *)
LEMMA WriteReplyStep ==
  ASSUME Inv, NEW side \in Sides, Write(side),
         NEW a \in answered, a[1] = side, Head(session[side].outgoing) = ReplyTo(a[2], a[3])
  PROVE  Inv'
  <1>1. PICK s : s = session[side] /\ s \in SessionRecord
    BY ZenonT(30) DEF Inv, TypeOK
  <1>2. s.outgoing \in Seq(Operations) /\ s.outgoing # <<>> /\ "writer" \in s.running
        /\ s.reserved \subseteq Ids
    BY <1>1, Fields DEF Write
  <1>3. a[2] \in Ids /\ a[3] \in Results
    BY DEF Inv, TypeOK
  <1>4. PICK next : next = ReplyTo(a[2], a[3])
    OBVIOUS
  <1>5. /\ next = Head(s.outgoing) /\ next.kind = "reply" /\ next.id = a[2] /\ next.result = a[3]
    BY <1>1, <1>4 DEF ReplyTo
  <1>6. Tail(s.outgoing) \in Seq(Operations) /\ From(Tail(s.outgoing), s.outgoing)
    BY <1>2, Tails
  <1>7. PICK k : k = [s EXCEPT !.outgoing = Tail(s.outgoing), !.reserved = s.reserved \ {a[2]}]
    OBVIOUS
  <1>8. k = Taken(s, next)
    BY Zenon, <1>5, <1>7 DEF Taken
  <1>9. k \in SessionRecord
    BY Zenon, <1>1, <1>2, <1>6, <1>7 DEF SessionRecord
  <1>10. /\ k.asked = s.asked /\ k.nextId = s.nextId /\ k.held = s.held /\ k.promise = s.promise
         /\ k.outgoing = Tail(s.outgoing) /\ k.incoming = s.incoming
         /\ k.outstanding = s.outstanding /\ k.reserved = s.reserved \ {a[2]} /\ k.closed = s.closed
         /\ k.running = s.running /\ k.owned = s.owned
    BY <1>1, <1>7 DEF SessionRecord
  <1>11. Shrinks(s, k)
    BY <1>6, <1>10 DEF Shrinks, From
  <1>12. UNCHANGED <<foreign, answered, rejected>>
    BY Zenon DEF Write
  <1>13. \/ Becomes(side, k) /\ UNCHANGED <<wire, notice, sent>>
         \/ /\ Refusal(side, a[3]) = "none" /\ Puts(Peer(side), Encode(side, a[2], a[3])) /\ NoticeKept
            /\ sent' = sent
            /\ Becomes(side, k) \/ Becomes(side, Closed(k, "Transport"))
         \/ /\ NoticeKept /\ sent' = sent
            /\ wire' \in [Sides -> Seq(Items)] /\ \A p \in Sides : WireKept(p) /\ WireGrown(p)
            /\ wire'[side] = wire[side]
            /\ Becomes(side, Closed(k, "Transport"))
    <2>1. next.kind # "request"
      BY <1>5
    <2>2. Refused(k, next, a[2], Refusal(side, a[3])) = k
      BY Zenon, <2>1 DEF Refused
    <2>3. a[2] = IF next.kind = "request" THEN session[side].nextId ELSE next.id
      BY Zenon, <1>5, <2>1
    <2>4. next = Head(session[side].outgoing) /\ k = Taken(session[side], next)
      BY Zenon, <1>1, <1>5, <1>8
    <2>5. PICK id \in Ids : id = a[2]
      BY Zenon, <1>3
    <2>6. PICK result \in Results : result = a[3]
      BY Zenon, <1>3
    <2>7. id = (IF next.kind = "request" THEN session[side].nextId ELSE next.id) /\ result = next.result
      BY Zenon, <1>5, <2>3, <2>5, <2>6
    <2>8. \/ /\ Refusal(side, result) # "none" /\ UNCHANGED <<wire, notice, sent>>
             /\ Becomes(side, Refused(k, next, id, Refusal(side, result)))
          \/ /\ Refusal(side, result) = "none" /\ Puts(Peer(side), Encode(side, id, result)) /\ NoticeKept
             /\ sent' = IF next.kind = "request" THEN sent \cup {<<side, id, next.n>>} ELSE sent
             /\ Becomes(side, k) \/ Becomes(side, Closed(k, "Transport"))
          \/ /\ Refusal(side, result) = "none" /\ NoticeKept /\ sent' = sent
             /\ wire' \in [Sides -> Seq(Items)] /\ \A p \in Sides : WireKept(p) /\ WireGrown(p)
             /\ wire'[side] = wire[side]
             /\ Becomes(side, Closed(k, "Transport"))
      BY ZenonT(30), <2>4, <2>7, WriteOutcomes
    <2>9. QED
      BY ZenonT(30), <2>1, <2>2, <2>5, <2>6, <2>8
  <1>14. CASE Becomes(side, k) /\ UNCHANGED <<wire, notice, sent>>
    BY SMTT(30), <1>1, <1>9, <1>10, <1>11, <1>12, <1>14, LocalStep
  <1>c. PICK c : c = Closed(k, "Transport")
    OBVIOUS
  <1>d. /\ Shrinks(s, c) /\ c.closed # "open" /\ c.running = s.running /\ c.owned = s.owned
        /\ c \in SessionRecord
    <2>1. /\ Shrinks(k, c) /\ c.closed # "open" /\ c.running = k.running /\ c.owned = k.owned
          /\ c \in SessionRecord
      BY <1>9, <1>c, Reasons, ClosedShrinks
    <2>2. Shrinks(s, c)
      BY <1>1, <1>9, <1>11, <2>1, ShrinksTwice
    <2>3. QED
      BY Zenon, <1>10, <2>1, <2>2
  <1>15. CASE /\ NoticeKept /\ sent' = sent
              /\ wire' \in [Sides -> Seq(Items)] /\ \A p \in Sides : WireKept(p) /\ WireGrown(p)
              /\ wire'[side] = wire[side]
              /\ Becomes(side, Closed(k, "Transport"))
    <2>1. Becomes(side, c)
      BY Zenon, <1>15, <1>c
    <2>2. EndKept
      BY Zenon, <1>1, <1>2, <1>15, <1>d, <2>1, Peers, WriteEnd DEF Inv
    <2>3. MalformedIsDeserved' /\ rejected' \in [Sides -> SUBSET (Envelopes \X BOOLEAN)]
      BY <1>12, DeservedKeeps DEF Inv, TypeOK
    <2>4. QED
      BY Zenon, <1>1, <1>12, <1>15, <1>d, <2>1, <2>2, <2>3, ShrinkingStep
  <1>16. CASE /\ Refusal(side, a[3]) = "none" /\ Puts(Peer(side), Encode(side, a[2], a[3])) /\ NoticeKept
              /\ sent' = sent
              /\ Becomes(side, k) \/ Becomes(side, Closed(k, "Transport"))
    <2>1. PICK fields : fields = Encode(side, a[2], a[3])
      OBVIOUS
    <2>2. a[3] \in Sendable(side) /\ Peer(side) \in Sides /\ Peer(Peer(side)) = side /\ Peer(side) # side
      BY <1>3, <1>16, Peers DEF Sendable
    <2>3. fields \in Envelopes /\ IdOf(fields) = a[2]
      BY <1>3, <2>1, <2>2, EnvelopeIds, EncodedId
    <2>4. Puts(Peer(side), fields)
      BY Zenon, <1>16, <2>1
    <2>5. /\ wire' \in [Sides -> Seq(Items)] /\ wire'[side] = wire[side]
          /\ WireGrown(Peer(side))
      BY Zenon, <2>2, <2>3, <2>4, WireGrows DEF Puts
    <2>t. PICK t \in SessionRecord : Becomes(side, t) /\ Shrinks(s, t) /\ t.running = s.running
                                     /\ t.owned = s.owned
      BY Zenon, <1>9, <1>10, <1>11, <1>16, <1>c, <1>d
    <2>6. /\ session'[side] = t /\ session'[Peer(side)] = session[Peer(side)]
      BY Zenon, <2>t, SessionUpdate DEF Inv
    <2>7. Kept(side)
      BY SMTT(30), <1>1, <2>t, <2>6, ShrunkKept
    <2>8. Grow /\ Sending'
      <3>1. s.nextId \in Nat /\ session[Peer(side)].nextId \in Nat
        BY <1>1, <2>2, Fields DEF Inv, TypeOK
      <3>2. Steady(s, t)
        BY <2>t DEF Steady, Shrinks
      <3>3. QED
        BY Zenon, <1>1, <1>12, <1>16, <2>6, <3>1, <3>2, SteadyGrows
    <2>9. RoutesOK(side)'
      BY Zenon, <2>7, <2>8, RoutesKeep DEF Inv, Own, Kept
    <2>10. ASSUME TypeOK', foreign = 0 PROVE WireOK(Peer(side))' /\ OrderOK(Peer(side))'
      <3>1. Carried(Peer(side), fields)
        BY <1>16, <2>1, <2>2 DEF Carried, CarriesReply
      <3>2. WireOK(Peer(side))'
        BY ZenonT(30), <2>2, <2>3, <2>4, <2>8, <2>10, <3>1, CarriedKeeps, WroteWireOK
      <3>3. PICK q \in sent : q[1] = Peer(side) /\ q[2] = a[2]
        BY SMTT(30), <2>10 DEF Inv, AnswersOK
      <3>4. IsResponse(Peer(side), IdOf(fields))
        BY <2>3, <3>3 DEF Inv, Sending, IsResponse
      <3>5. ReservedKept(Peer(side))
        BY <2>6 DEF ReservedKept
      <3>6. QED
        BY ZenonT(30), <2>2, <2>3, <2>4, <2>8, <2>10, <3>2, <3>4, <3>5, WroteOrderOK
    <2>11. sent' \subseteq Sides \X Nat \X Nat
      BY Zenon, <1>16 DEF Inv, TypeOK
    <2>12. /\ t.asked = s.asked /\ Len(t.promise) = Len(s.promise) /\ t.nextId = s.nextId
           /\ s.closed # "open" => t.closed # "open"
      BY <2>t DEF Shrinks
    <2>13. /\ QueueKept(side) /\ IncomingKept(side) /\ PromisesKept(side) /\ HeldKept(side)
           /\ ReservedKept(side)
      BY Zenon, <2>7 DEF Kept
    <2>14. sent \subseteq sent' /\ UNCHANGED <<answered, foreign, rejected>>
      BY <1>12, <1>16
    <2>15. /\ t.asked = session[side].asked /\ Len(t.promise) = Len(session[side].promise)
           /\ t.nextId = session[side].nextId /\ t.running = session[side].running
           /\ t.owned = session[side].owned /\ "writer" \in session[side].running
           /\ session[side].closed # "open" => t.closed # "open"
      BY Zenon, <1>1, <1>2, <2>t, <2>12
    <2>16. QED
      BY ZenonT(30), <1>16, <2>t, <2>5, <2>8, <2>9, <2>10, <2>11, <2>13, <2>14, <2>15, WroteStep
  <1>17. QED
    BY Zenon, <1>13, <1>14, <1>15, <1>16

(* Writing a request takes the next ID and routes its response.            *)
LEMMA WriteRequestStep ==
  ASSUME Inv, NEW side \in Sides, Write(side), NEW n \in DOMAIN session[side].asked,
         Head(session[side].outgoing) = AskedAs(n, Question(side, n))
  PROVE  Inv'
  <1>1. PICK s : s = session[side] /\ s \in SessionRecord
    BY Zenon DEF Inv, TypeOK
  <1>2. /\ s.outgoing \in Seq(Operations) /\ s.outgoing # <<>> /\ "writer" \in s.running
        /\ s.outstanding \subseteq Nat \X Nat /\ s.nextId \in Nat /\ s.nextId \in Ids
        /\ s.promise \in Seq(Outcomes) /\ s.asked \in Seq(Results)
    BY Zenon, <1>1, Fields DEF Write, Ids
  <1>3. PICK result : result = Question(side, n)
    BY Zenon
  <1>4. /\ n \in Nat /\ n \in DOMAIN s.promise /\ result \in Results /\ result = s.asked[n]
        /\ Parity(s.nextId) = OwnParity(side)
    BY <1>1, <1>2, <1>3 DEF Inv, Asking, Question
  <1>5. PICK next : next = AskedAs(n, result)
    BY Zenon
  <1>6. next = Head(s.outgoing) /\ next.kind = "request" /\ next.n = n /\ next.result = result
    BY Zenon, <1>1, <1>3, <1>5 DEF AskedAs
  <1>7. /\ Tail(s.outgoing) \in Seq(Operations) /\ From(Tail(s.outgoing), s.outgoing)
        /\ s.nextId + 2 \in Nat /\ s.outstanding \cup {<<s.nextId, n>>} \subseteq Nat \X Nat
    BY <1>2, <1>4, Tails
  <1>8. PICK k : k = [s EXCEPT !.outgoing = Tail(s.outgoing), !.nextId = s.nextId + 2,
                               !.outstanding = s.outstanding \cup {<<s.nextId, n>>}]
    OBVIOUS
  <1>9. k = Taken(s, next)
    BY Zenon, <1>6, <1>8 DEF Taken
  <1>10. k \in SessionRecord
    BY Zenon, <1>1, <1>7, <1>8 DEF SessionRecord
  <1>11. /\ k.asked = s.asked /\ k.nextId = s.nextId + 2 /\ k.held = s.held /\ k.promise = s.promise
         /\ k.outgoing = Tail(s.outgoing) /\ k.incoming = s.incoming
         /\ k.outstanding = s.outstanding \cup {<<s.nextId, n>>} /\ k.reserved = s.reserved
         /\ k.closed = s.closed /\ k.running = s.running /\ k.owned = s.owned
    BY <1>1, <1>8 DEF SessionRecord
  <1>12. UNCHANGED <<foreign, answered, rejected>>
    BY ZenonT(30) DEF Write
  <1>13. \/ /\ Refusal(side, result) # "none" /\ UNCHANGED <<wire, notice, sent>>
            /\ Becomes(side, Refused(k, next, s.nextId, Refusal(side, result)))
         \/ /\ Refusal(side, result) = "none" /\ Puts(Peer(side), Encode(side, s.nextId, result)) /\ NoticeKept
            /\ sent' = sent \cup {<<side, s.nextId, n>>}
            /\ Becomes(side, k) \/ Becomes(side, Closed(k, "Transport"))
         \/ /\ NoticeKept /\ sent' = sent
            /\ wire' \in [Sides -> Seq(Items)] /\ \A p \in Sides : WireKept(p) /\ WireGrown(p)
            /\ wire'[side] = wire[side]
            /\ Becomes(side, Closed(k, "Transport"))
    BY Zenon, <1>1, <1>2, <1>4, <1>6, <1>9, WriteOutcomes
  <1>14. Peer(side) \in Sides /\ Peer(Peer(side)) = side /\ Peer(side) # side
         /\ session[Peer(side)].nextId \in Nat /\ \A p \in Sides : p = side \/ p = Peer(side)
    <2>1. Peer(side) \in Sides /\ session[Peer(side)] \in SessionRecord
      BY Zenon, Peers DEF Inv, TypeOK
    <2>2. QED
      BY <2>1, Peers, Fields
  (* The request took its ID, whether it is sent or not.                   *)
  <1>15. ASSUME NEW t \in SessionRecord, Becomes(side, t), sent \subseteq sent',
                Shrinks(k, t) \/ (/\ t.asked = k.asked /\ t.nextId = k.nextId
                                  /\ t.outgoing = k.outgoing)
         PROVE  /\ session'[side] = t /\ session'[Peer(side)] = session[Peer(side)]
                /\ Grow
                /\ sent' = sent => Sending'
    <2>1. /\ session'[side] = t /\ session'[Peer(side)] = session[Peer(side)]
      BY ZenonT(30), <1>15, SessionUpdate DEF Inv
    <2>2. t.asked = s.asked /\ t.nextId = s.nextId + 2 /\ s.nextId <= s.nextId + 2
      BY <1>2, <1>11, <1>15 DEF Shrinks
    <2>3. \A p \in Sides : session'[p].asked = session[p].asked
      BY Zenon, <1>1, <1>14, <2>1, <2>2
    <2>4. \A p \in Sides : session[p].nextId <= session'[p].nextId
      <3>1. session[Peer(side)].nextId <= session[Peer(side)].nextId
        BY <1>14
      <3>2. QED
        BY ZenonT(30), <1>1, <1>14, <2>1, <2>2, <3>1
    <2>5. Grow
      BY Zenon, <1>12, <1>15, <2>3, <2>4 DEF Grow
    <2>6. ASSUME sent' = sent PROVE Sending'
      <3>1. ASSUME NEW q \in sent
            PROVE  /\ q[2] < session'[q[1]].nextId /\ q[1] \in Sides
                   /\ Parity(q[2]) = OwnParity(q[1]) /\ q[3] \in DOMAIN session[q[1]].asked
                   /\ Refusal(q[1], session[q[1]].asked[q[3]]) = "none"
        <4>1. /\ q[1] \in Sides /\ q[2] \in Nat /\ q[2] < session[q[1]].nextId
          BY Zenon, RequestFacts DEF Inv, Sending
        <4>2. q[2] < session'[q[1]].nextId
          <5>1. CASE q[1] = side
            BY <1>1, <1>2, <2>1, <2>2, <4>1, <5>1
          <5>2. CASE q[1] = Peer(side)
            BY Zenon, <2>1, <4>1, <5>2
          <5>3. QED
            BY ZenonT(30), <1>14, <4>1, <5>1, <5>2
        <4>3. QED
          BY <4>1, <4>2 DEF Inv, Sending, Question
      <3>2. QED
        BY ZenonT(30), <2>3, <2>6, <3>1 DEF Inv, Sending, Question
    <2>7. QED
      BY Zenon, <2>1, <2>5, <2>6
  <1>a. ASSUME NEW t \in SessionRecord, session'[side] = t, Shrinks(k, t)
        PROVE  /\ QueueKept(side) /\ IncomingKept(side) /\ PromisesKept(side)
               /\ HeldKept(side) /\ ReservedKept(side)
    <2>1. QueueKept(side)
      BY <1>1, <1>7, <1>11, <1>a DEF QueueKept, Shrinks, From
    <2>2. PromisesKept(side)
      <3>1. t.promise \in Seq(Outcomes)
        BY ZenonT(30), <1>a, Fields
      <3>2. \A i \in DOMAIN t.promise : i \in DOMAIN s.promise
        BY <1>2, <1>11, <1>a, <3>1 DEF Shrinks
      <3>3. QED
        BY Zenon, <1>1, <1>11, <1>a, <3>2 DEF PromisesKept, Shrinks
    <2>3. QED
      BY SMTT(30), <1>1, <1>11, <1>a, <2>1, <2>2
         DEF IncomingKept, HeldKept, ReservedKept, Shrinks
  (* Not sent.                                                             *)
  <1>16. ASSUME NEW t \in SessionRecord, Becomes(side, t), sent' = sent, NoticeKept,
                wire' \in [Sides -> Seq(Items)], \A p \in Sides : WireKept(p) /\ WireGrown(p),
                wire'[side] = wire[side],
                Shrinks(k, t), t.closed # "open" \/ (t.closed = k.closed /\ t.outstanding \subseteq s.outstanding),
                t.running = k.running, t.owned = k.owned
         PROVE  Inv'
    <2>1. /\ session'[side] = t /\ session'[Peer(side)] = session[Peer(side)] /\ Grow /\ Sending'
      BY ZenonT(30), <1>15, <1>16
    <2>2. /\ QueueKept(side) /\ IncomingKept(side) /\ PromisesKept(side)
          /\ HeldKept(side) /\ ReservedKept(side)
      BY Zenon, <1>a, <1>16, <2>1
    <2>3. RoutesOK(side)'
      BY Zenon, <1>1, <1>11, <1>16, <2>1 DEF Inv, Own, RoutesOK, IsOpen
    <2>5. ASSUME TypeOK', foreign = 0 PROVE WireOK(Peer(side))' /\ OrderOK(Peer(side))'
      <3>1. ReservedKept(Peer(side))
        BY Zenon, <2>1 DEF ReservedKept
      <3>2. QED
        BY ZenonT(30), <1>14, <1>16, <2>1, <2>5, <3>1, WireKeeps, OrderKeeps DEF Inv, Shared
    <2>6. sent' \subseteq Sides \X Nat \X Nat
      BY Zenon, <1>16 DEF Inv, TypeOK
    <2>7. /\ t.asked = s.asked /\ Len(t.promise) = Len(s.promise) /\ t.nextId = s.nextId + 2
          /\ s.closed # "open" => t.closed # "open"
      BY ZenonT(30), <1>11, <1>16 DEF Shrinks
    <2>8. QED
      BY ZenonT(30), <1>1, <1>2, <1>11, <1>12, <1>14, <1>16, <2>1, <2>2, <2>3, <2>5, <2>6, <2>7,
         WroteStep
  <1>17. CASE /\ Refusal(side, result) # "none" /\ UNCHANGED <<wire, notice, sent>>
              /\ Becomes(side, Refused(k, next, s.nextId, Refusal(side, result)))
    <2>1. PICK e : e = Refusal(side, result)
      OBVIOUS
    <2>2. e \in Errors
      BY <1>17, <2>1, Reasons DEF Refusal
    <2>3. PICK f : f = [k EXCEPT !.promise[n] = Failed(e)]
      BY Zenon
    <2>4. /\ Shrinks(k, f) /\ f.closed = k.closed /\ f.owned = k.owned /\ f.running = k.running
          /\ f \in SessionRecord
      BY <1>4, <1>10, <1>11, <2>2, <2>3, FailedShrinks
    <2>5. PICK t : t = [f EXCEPT !.outstanding = k.outstanding \ {<<s.nextId, n>>}]
      BY Zenon
    <2>6. k.outstanding \ {<<s.nextId, n>>} \subseteq Nat \X Nat
      BY <1>7, <1>11
    <2>7. t \in SessionRecord
      BY Zenon, <2>4, <2>5, <2>6 DEF SessionRecord
    <2>8. /\ t.asked = f.asked /\ t.nextId = f.nextId /\ t.held = f.held /\ t.promise = f.promise
          /\ t.outgoing = f.outgoing /\ t.incoming = f.incoming
          /\ t.outstanding = k.outstanding \ {<<s.nextId, n>>} /\ t.reserved = f.reserved
          /\ t.closed = f.closed /\ t.running = f.running /\ t.owned = f.owned
      BY SMTT(30), <2>4, <2>5 DEF SessionRecord
    <2>9. Shrinks(k, t)
      BY <2>4, <2>8 DEF Shrinks
    <2>10. t = Refused(k, next, s.nextId, e)
      BY Zenon, <1>6, <1>10, <2>3, <2>5 DEF Refused, SessionRecord
    <2>11. /\ wire' \in [Sides -> Seq(Items)] /\ (\A p \in Sides : WireKept(p) /\ WireGrown(p))
           /\ wire'[side] = wire[side] /\ NoticeKept
      BY Zenon, <1>17, SameWire DEF Inv, WireGrown, NoticeKept
    <2>12. t.outstanding \subseteq s.outstanding
      BY <1>11, <2>8
    <2>13. QED
      BY Zenon, <1>11, <1>16, <1>17, <2>1, <2>4, <2>7, <2>8, <2>9, <2>10, <2>11, <2>12
  <1>c. PICK c : c = Closed(k, "Transport")
    OBVIOUS
  <1>d. /\ Shrinks(k, c) /\ c.closed # "open" /\ c.running = k.running /\ c.owned = k.owned
        /\ c \in SessionRecord
    BY Zenon, <1>10, <1>c, Reasons, ClosedShrinks
  <1>18. CASE /\ NoticeKept /\ sent' = sent
              /\ wire' \in [Sides -> Seq(Items)] /\ \A p \in Sides : WireKept(p) /\ WireGrown(p)
              /\ wire'[side] = wire[side]
              /\ Becomes(side, Closed(k, "Transport"))
    BY Zenon, <1>16, <1>18, <1>c, <1>d
  (* Sent.                                                                 *)
  <1>19. CASE /\ Refusal(side, result) = "none" /\ Puts(Peer(side), Encode(side, s.nextId, result)) /\ NoticeKept
              /\ sent' = sent \cup {<<side, s.nextId, n>>}
              /\ Becomes(side, k) \/ Becomes(side, Closed(k, "Transport"))
    <2>s. PICK t \in SessionRecord : /\ Becomes(side, t) /\ Shrinks(k, t) /\ t.running = k.running
                                     /\ t.owned = k.owned /\ (t.closed # "open" \/ t = k)
      <3>1. Shrinks(k, k)
        BY DEF Shrinks, From
      <3>2. QED
        BY Zenon, <1>10, <1>19, <1>c, <1>d, <3>1
    <2>t. /\ t.asked = s.asked /\ t.nextId = s.nextId + 2 /\ Len(t.promise) = Len(s.promise)
          /\ s.closed # "open" => t.closed # "open"
      BY <1>11, <2>s DEF Shrinks
    <2>1. PICK x : x = <<side, s.nextId, n>>
      BY Zenon
    <2>2. /\ x \in sent' /\ sent' = sent \cup {x} /\ x[1] = side /\ x[2] = s.nextId /\ x[3] = n
          /\ sent' \subseteq Sides \X Nat \X Nat
      BY <1>2, <1>4, <1>19, <2>1 DEF Inv, TypeOK
    <2>3. /\ session'[side] = t /\ session'[Peer(side)] = session[Peer(side)] /\ Grow
      BY Zenon, <1>15, <2>s, <2>2
    <2>4. Sending'
      <3>1. ASSUME NEW q \in sent'
            PROVE  /\ q[2] < session'[q[1]].nextId /\ Parity(q[2]) = OwnParity(q[1])
                   /\ q[3] \in DOMAIN session'[q[1]].asked
                   /\ Refusal(q[1], session'[q[1]].asked[q[3]]) = "none"
        <4>1. CASE q \in sent
          <5>1. /\ q[1] \in Sides /\ q[2] \in Nat /\ q[2] < session[q[1]].nextId
                /\ Parity(q[2]) = OwnParity(q[1]) /\ q[3] \in DOMAIN session[q[1]].asked
                /\ Refusal(q[1], session[q[1]].asked[q[3]]) = "none"
            BY ZenonT(30), <4>1, RequestFacts DEF Inv, Sending, Question
          <5>2. CASE q[1] = side
            BY <1>1, <1>2, <2>t, <2>3, <5>1, <5>2
          <5>3. CASE q[1] = Peer(side)
            BY ZenonT(30), <2>3, <5>1, <5>3
          <5>4. QED
            BY Zenon, <1>14, <5>1, <5>2, <5>3
        <4>2. CASE q = x
          BY SMTT(30), <1>1, <1>2, <1>4, <2>t, <1>19, <2>2, <2>3, <4>2
        <4>3. QED
          BY Zenon, <2>2, <4>1, <4>2
      <3>2. ASSUME NEW q \in sent', NEW p \in sent', q[1] = p[1], q[2] = p[2] PROVE q = p
        <4>1. ASSUME NEW r \in sent, r[1] = side PROVE r[2] # s.nextId
          BY SMTT(30), <1>1, <1>2, <4>1, RequestFacts DEF Inv, Sending
        <4>2. CASE q \in sent /\ p \in sent
          BY Zenon, <3>2, <4>2 DEF Inv, Sending
        <4>3. QED
          BY ZenonT(30), <2>2, <3>2, <4>1, <4>2
      <3>3. QED
        BY Zenon, <3>1, <3>2 DEF Sending, Question
    <2>5. /\ QueueKept(side) /\ IncomingKept(side) /\ PromisesKept(side)
          /\ HeldKept(side) /\ ReservedKept(side)
      BY Zenon, <1>a, <2>s, <2>3
    <2>6. RoutesOK(side)'
      <3>1. ASSUME s.closed = "open", NEW r \in k.outstanding PROVE <<side, r[1], r[2]>> \in sent'
        <4>1. CASE r \in s.outstanding
          BY ZenonT(30), <1>1, <2>2, <3>1, <4>1 DEF Inv, Own, RoutesOK, IsOpen
        <4>2. CASE r = <<s.nextId, n>>
          BY <2>1, <2>2, <4>2
        <4>3. QED
          BY Zenon, <1>11, <4>1, <4>2
      <3>2. QED
        BY Zenon, <1>11, <2>s, <2>3, <3>1 DEF RoutesOK, IsOpen
    <2>7. PICK fields : fields = Encode(side, s.nextId, result)
      BY Zenon
    <2>8. result \in Sendable(side)
      BY Zenon, <1>4, <1>19 DEF Sendable
    <2>9. fields \in Envelopes /\ IdOf(fields) = s.nextId
      BY Zenon, <1>2, <2>7, <2>8, EnvelopeIds, EncodedId
    <2>10. Puts(Peer(side), fields)
      BY Zenon, <1>19, <2>7
    <2>11. /\ wire' \in [Sides -> Seq(Items)] /\ wire'[side] = wire[side]
           /\ WireGrown(Peer(side))
      BY Zenon, <1>14, <2>9, <2>10, WireGrows DEF Puts
    <2>12. ASSUME TypeOK', foreign = 0 PROVE WireOK(Peer(side))' /\ OrderOK(Peer(side))'
      <3>1. Carried(Peer(side), fields)'
        <4>1. session'[side].asked[n] = result
          BY Zenon, <1>4, <2>t, <2>3
        <4>2. QED
          BY <1>14, <2>2, <2>7, <4>1 DEF Carried, CarriesRequest, Question
      <3>2. WireOK(Peer(side))'
        BY ZenonT(30), <1>14, <2>3, <2>9, <2>10, <2>12, <3>1, WroteWireOK
      <3>3. ReservedKept(Peer(side))
        BY <2>3 DEF ReservedKept
      <3>4. QED
        BY ZenonT(30), <1>1, <1>14, <2>3, <2>9, <2>10, <2>12, <3>2, <3>3, WroteOrderOK
    <2>13. QED
      BY ZenonT(30), <1>1, <1>2, <1>11, <1>12, <1>19, <2>s, <2>t, <2>2, <2>4, <2>5, <2>6, <2>11, <2>12,
         WroteStep
  <1>20. QED
    BY Zenon, <1>13, <1>17, <1>18, <1>19

(* The writer.                                                             *)
LEMMA WriteStep ==
  ASSUME Inv, NEW side \in Sides, Write(side)
  PROVE  Inv'
  <1>1. session[side].outgoing \in Seq(Operations) /\ session[side].outgoing # <<>>
    BY Fields DEF Inv, TypeOK, Write
  <1>2. /\ 1 \in DOMAIN session[side].outgoing
        /\ Head(session[side].outgoing) = session[side].outgoing[1]
    BY ZenonT(30), <1>1, Heads
  <1>3. \/ \E n \in DOMAIN session[side].asked :
             Head(session[side].outgoing) = AskedAs(n, Question(side, n))
        \/ \E a \in answered : a[1] = side /\ Head(session[side].outgoing) = ReplyTo(a[2], a[3])
    BY <1>2 DEF Inv, Own, QueueOK
  <1>4. QED
    BY SMTT(30), <1>3, WriteRequestStep, WriteReplyStep
=============================================================================
