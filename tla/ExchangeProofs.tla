-------------------------- MODULE ExchangeProofs ---------------------------
(***************************************************************************)
(* Two sessions of this code understand each other, and end together: the  *)
(* reader keeps the invariant, the invariant holds, and what it says of    *)
(* promises, rejected envelopes and dropped sessions.                      *)
(***************************************************************************)
EXTENDS ExchangeSteps
----------------------------------------------------------------------------
(* The reader.                                                             *)

(* Taking the first item from the wire of a side.                          *)
LEMMA WireTaken ==
  ASSUME Inv, NEW side \in Sides, wire[side] # <<>>, wire' = [wire EXCEPT ![side] = Tail(@)]
  PROVE  /\ wire' \in [Sides -> Seq(Items)] /\ \A p \in Sides : WireKept(p)
         /\ \A p \in Sides : p # side => wire'[p] = wire[p]
         /\ 1 \in DOMAIN wire[side] /\ Head(wire[side]) = wire[side][1] /\ wire[side][1] \in Items
         /\ wire[side] \in Seq(Items) /\ wire'[side] = Tail(wire[side])
  <1>1. wire \in [Sides -> Seq(Items)] /\ wire[side] \in Seq(Items)
    BY DEF Inv, TypeOK
  <1>2. PICK w : w = Tail(wire[side])
    BY Zenon
  <1>3. /\ w \in Seq(Items) /\ Len(wire[side]) > 0 /\ 1 \in DOMAIN wire[side]
        /\ Head(wire[side]) = wire[side][1] /\ Head(wire[side]) \in Items
    BY <1>1, <1>2, Heads
  <1>4. wire' = [wire EXCEPT ![side] = w]
    BY <1>2
  <1>5. /\ wire' \in [Sides -> Seq(Items)] /\ wire'[side] = w
        /\ \A p \in Sides : p # side => wire'[p] = wire[p]
    BY <1>1, <1>3, <1>4
  <1>6. \A p \in Sides : WireKept(p)
    BY <1>2, <1>3, <1>5 DEF WireKept
  <1>7. QED
    BY <1>1, <1>2, <1>3, <1>5, <1>6

(* A reader that goes with its session, and one that goes on.              *)
LEMMA ReadEnd ==
  ASSUME Inv, NEW side \in Sides, NEW t \in SessionRecord, Becomes(side, t),
         wire[side] # <<>>, wire' = [wire EXCEPT ![side] = Tail(@)], notice' = notice,
         session[side].closed # "open" => t.closed # "open", t.owned = session[side].owned,
         \/ t.closed # "open" /\ t.running = session[side].running \ {"reader"}
         \/ t.running = session[side].running /\ wire[side][1].kind # "end"
  PROVE  EndKept
  <1>1. /\ session'[side] = t /\ session'[Peer(side)] = session[Peer(side)]
        /\ \A p \in Sides : p = side \/ p = Peer(side)
    BY SessionUpdate, Peers DEF Inv
  <1>2. \A p \in Sides :
          /\ ~IsOpen(p) => ~IsOpen(p)'
          /\ session'[p].running \subseteq session[p].running
          /\ "writer" \in session[p].running => "writer" \in session'[p].running
          /\ "reader" \notin session'[p].running => "reader" \notin session[p].running \/ ~IsOpen(p)'
          /\ session'[p].owned = session[p].owned
    BY <1>1 DEF IsOpen
  <1>3. Client \in Sides /\ Server \in Sides /\ (side = Client \/ side = Server) /\ Client # Server
    BY DEF Sides, Client, Server
  <1>4. wire'[Client] = wire[Client] \/ ~IsOpen(Client)' \/ (WireKept(Client) /\ wire[Client][1].kind # "end")
    BY Zenon, <1>1, <1>3, WireTaken DEF IsOpen
  <1>5. WireGrown(Client) \/ ~IsOpen(Client)' \/ (WireKept(Client) /\ wire[Client][1].kind # "end")
    BY Zenon, <1>4 DEF WireGrown
  <1>6. QED
    BY <1>2, <1>3, <1>5 DEF EndKept

(* A reader that closes its session.                                       *)
LEMMA ReadEndStep ==
  ASSUME Inv, NEW side \in Sides, wire[side] # <<>>, wire' = [wire EXCEPT ![side] = Tail(@)],
         NEW reason \in Errors,
         Becomes(side, Stopped(Closed(session[side], reason), "reader")),
         UNCHANGED <<sent, answered, foreign, notice>>,
         \/ UNCHANGED rejected
         \/ \E fields \in Envelopes, used \in BOOLEAN :
              /\ rejected' = [rejected EXCEPT ![side] = @ \cup {<<fields, used>>}]
              /\ \/ UnknownResponse(side, fields)
                 \/ foreign > 0 /\ (~WellFormed(side, fields) \/ used)
  PROVE  Inv'
  <1>1. PICK s : s = session[side] /\ s \in SessionRecord
    BY DEF Inv, TypeOK
  <1>2. PICK c : c = Closed(s, reason)
    OBVIOUS
  <1>3. /\ Shrinks(s, c) /\ c.closed # "open" /\ c.running = s.running /\ c.owned = s.owned
        /\ c \in SessionRecord
    BY <1>1, <1>2, ClosedShrinks
  <1>4. PICK t : t = Stopped(c, "reader")
    OBVIOUS
  <1>5. /\ Shrinks(c, t) /\ t.closed = c.closed /\ t.running = c.running \ {"reader"}
        /\ t.owned = c.owned /\ t \in SessionRecord
    BY <1>3, <1>4, StoppedShrinks
  <1>6. Shrinks(s, t)
    BY <1>1, <1>3, <1>5, ShrinksTwice
  <1>7. Becomes(side, t)
    BY <1>1, <1>2, <1>4
  <1>8. EndKept
    BY Zenon, <1>1, <1>3, <1>5, <1>7, ReadEnd
  <1>9. wire' \in [Sides -> Seq(Items)] /\ \A p \in Sides : WireKept(p)
    BY Zenon, WireTaken
  <1>10. CASE UNCHANGED rejected
    <2>1. MalformedIsDeserved' /\ rejected' \in [Sides -> SUBSET (Envelopes \X BOOLEAN)]
      BY <1>10, DeservedKeeps DEF Inv, TypeOK
    <2>2. QED
      BY SMTT(30), <1>1, <1>5, <1>6, <1>7, <1>8, <1>9, <2>1, ShrinkingStep
  <1>11. CASE \E fields \in Envelopes, used \in BOOLEAN :
                /\ rejected' = [rejected EXCEPT ![side] = @ \cup {<<fields, used>>}]
                /\ \/ UnknownResponse(side, fields)
                   \/ foreign > 0 /\ (~WellFormed(side, fields) \/ used)
    BY ZenonT(30), <1>1, <1>5, <1>6, <1>7, <1>8, <1>9, <1>11, RejectStep
  <1>12. QED
    BY <1>10, <1>11

(* What a peer of this code has put at the head of the wire.               *)
LEMMA ReadHeader ==
  ASSUME Inv, foreign = 0, NEW side \in Sides, 1 \in DOMAIN wire[side],
         wire[side][1].kind = "message", NEW fields, fields = wire[side][1].fields
  PROVE  LET h == DecodeHeader(side, fields) IN
         /\ h.ok
         /\ IsResponse(side, h.id) =>
              \E a \in answered : a[1] = Peer(side) /\ a[2] = h.id /\ CarriesReply(fields, a)
         /\ ~IsResponse(side, h.id) =>
              /\ ~h.failed /\ h.id \notin session[side].reserved
              /\ \E q \in sent : /\ q[1] = Peer(side) /\ q[2] = h.id /\ CarriesRequest(fields, q)
                                 /\ h.unknown <=> ~IsKnown(q)
  <1> DEFINE h == DecodeHeader(side, fields)
  <1>1. Peer(side) \in Sides /\ Peer(Peer(side)) = side
    BY Peers
  <1>2. h.id = IdOf(fields)
    BY DEF DecodeHeader
  <1>3. CASE \E q \in sent : q[1] = Peer(side) /\ CarriesRequest(fields, q)
    <2>1. PICK q \in sent : q[1] = Peer(side) /\ CarriesRequest(fields, q)
      BY <1>3
    <2>2. /\ Question(q[1], q[3]) \in Sendable(Peer(side)) /\ Question(q[1], q[3]).ok
          /\ fields = Encode(Peer(side), q[2], Question(q[1], q[3]))
          /\ q[2] \in Nat
      BY <2>1, RequestFacts DEF CarriesRequest
    <2>3. /\ h.ok /\ h.id = q[2] /\ ~h.failed
          /\ h.unknown <=> Question(q[1], q[3]).body.tag \notin Schema[side]
      BY <1>1, <2>2, EncodedHeader
    <2>4. h.unknown <=> ~IsKnown(q)
      BY Zenon, <1>1, <2>1, <2>3 DEF IsKnown
    <2>5. ~IsResponse(side, h.id)
      BY Zenon, <2>1, <2>3, Parities DEF Inv, Sending
    <2>6. 1 \in UnderWay(side)
      BY Zenon, <1>2, <2>5 DEF UnderWay
    <2>7. h.id \notin session[side].reserved
      <3>1. \A id \in session[side].reserved : id \in Nat /\ id < IdOf(fields)
        BY <2>6 DEF Inv, Shared, OrderOK
      <3>2. QED
        BY <1>2, <2>2, <2>3, <3>1
    <2>8. QED
      BY <2>1, <2>3, <2>4, <2>5, <2>7
  <1>4. CASE \E a \in answered : a[1] = Peer(side) /\ CarriesReply(fields, a)
    <2>1. PICK a \in answered : a[1] = Peer(side) /\ CarriesReply(fields, a)
      BY <1>4
    <2>2. a[3] \in Sendable(Peer(side)) /\ fields = Encode(Peer(side), a[2], a[3])
      BY <2>1, ReplyFacts
    <2>3. h.ok /\ h.id = a[2]
      BY <1>1, <2>2, EncodedHeader
    <2>4. PICK q \in sent : q[1] = Peer(a[1]) /\ q[2] = a[2]
      BY Zenon DEF Inv, AnswersOK
    <2>5. IsResponse(side, h.id)
      BY Zenon, <1>1, <2>1, <2>3, <2>4 DEF Inv, Sending, IsResponse
    <2>6. QED
      BY <2>1, <2>3, <2>5
  <1>5. QED
    BY <1>3, <1>4 DEF Inv, Shared, WireOK

(* Which errors the reader closes with.                                    *)
LEMMA Verdicts ==
  ASSUME Inv, NEW side \in Sides, NEW fields
  PROVE  LET h == DecodeHeader(side, fields)
             v == Verdict(side, fields)
         IN  /\ v = "none" => IsOpen(side) /\ h.ok /\ (~IsResponse(side, h.id) => ~h.failed)
             /\ v # "none" => v \in Errors
             /\ v = "Malformed" /\ IsOpen(side) =>
                  ~h.ok \/ (~IsResponse(side, h.id) /\ (h.failed \/ h.id \in session[side].reserved))
  <1> DEFINE h == DecodeHeader(side, fields)
             v == Verdict(side, fields)
  <1>1. session[side].closed \in Errors \cup {"open"} /\ "none" \notin Errors
    BY Zenon, Fields DEF Inv, TypeOK, Errors
  <1>2. CASE ~h.ok
    BY Zenon, <1>2, Reasons DEF Verdict
  <1>3. CASE h.ok /\ IsResponse(side, h.id)
    <2>1. v = IF IsOpen(side) THEN "none" ELSE session[side].closed
      BY Zenon, <1>3 DEF Verdict
    <2>2. QED
      BY <1>1, <1>3, <2>1 DEF IsOpen
  <1>4. CASE h.ok /\ ~IsResponse(side, h.id) /\ h.failed
    <2>1. v = "Malformed"
      BY Zenon, <1>4 DEF Verdict
    <2>2. QED
      BY <1>4, <2>1, Reasons
  <1>5. CASE h.ok /\ ~IsResponse(side, h.id) /\ ~h.failed
    <2>1. CASE ~IsOpen(side)
      <3>1. v = session[side].closed
        BY Zenon, <1>5, <2>1 DEF Verdict
      <3>2. QED
        BY <1>1, <2>1, <3>1 DEF IsOpen
    <2>2. CASE IsOpen(side) /\ h.id \in session[side].reserved
      <3>1. v = "Malformed"
        BY Zenon, <1>5, <2>2 DEF Verdict
      <3>2. QED
        BY <1>5, <2>2, <3>1, Reasons
    <2>3. CASE IsOpen(side) /\ h.id \notin session[side].reserved
      <3>1. v = "InboundRequestLimit" \/ v = "none"
        BY Zenon, <1>5, <2>3 DEF Verdict
      <3>2. QED
        BY <1>5, <2>3, <3>1, Reasons
    <2>4. QED
      BY <2>1, <2>2, <2>3
  <1>6. QED
    BY Zenon, <1>2, <1>3, <1>4, <1>5

(* A function over the positions of a sequence is a sequence as long.      *)
LEMMA Rewritten ==
  ASSUME NEW S, NEW q \in Seq(S), NEW p \in [DOMAIN q -> S]
  PROVE  p \in Seq(S) /\ Len(p) = Len(q) /\ DOMAIN p = DOMAIN q
  OBVIOUS

(* A response settles the promise it is routed to.                         *)
LEMMA RespondStep ==
  ASSUME Inv, NEW side \in Sides, wire[side] # <<>>, wire' = [wire EXCEPT ![side] = Tail(@)],
         wire[side][1].kind = "message", NEW fields \in Envelopes, fields = wire[side][1].fields,
         NEW id, id = IdOf(fields), DecodeHeader(side, fields).ok, IsResponse(side, id), IsOpen(side),
         Becomes(side, Respond(session[side], id, fields)),
         UNCHANGED <<sent, answered, foreign, rejected, notice>>
  PROVE  Inv'
  <1>1. PICK s : s = session[side] /\ s \in SessionRecord
    BY Zenon DEF Inv, TypeOK
  <1>2. s.promise \in Seq(Outcomes) /\ s.outstanding \subseteq Nat \X Nat
    BY Zenon, <1>1, Fields
  <1>3. PICK routes : routes = Routed(s, id)
    BY Zenon
  <1>4. \A r \in routes : r \in s.outstanding /\ r[1] = id /\ <<side, id, r[2]>> \in sent
    BY Zenon, <1>1, <1>3 DEF Routed, Inv, Own, RoutesOK
  <1>5. PICK promise : promise = [n \in DOMAIN s.promise |->
                                    IF s.promise[n] = Pending /\ \E r \in routes : r[2] = n
                                    THEN Ready(fields) ELSE s.promise[n]]
    BY Zenon
  <1>6. Ready(fields) \in Outcomes /\ Ready(fields).state = "ready" /\ Ready(fields).fields = fields
    <2>1. Ready(fields) \in Outcomes
      BY OutcomeTypes
    <2>2. QED
      BY <2>1 DEF Ready
  <1>7. /\ promise \in Seq(Outcomes) /\ Len(promise) = Len(s.promise)
        /\ \A n \in DOMAIN promise :
             /\ n \in DOMAIN s.promise
             /\ promise[n] = s.promise[n] \/ (promise[n] = Ready(fields) /\ \E r \in routes : r[2] = n)
    <2>1. PICK settled : settled = {n \in DOMAIN s.promise :
                                      s.promise[n] = Pending /\ \E r \in routes : r[2] = n}
      BY Zenon
    <2>2. promise = [n \in DOMAIN s.promise |->
                       IF n \in settled THEN Ready(fields) ELSE s.promise[n]]
      BY <1>5, <2>1
    <2>3. \A n \in settled : \E r \in routes : r[2] = n
      BY <2>1
    <2>4. promise \in Seq(Outcomes) /\ Len(promise) = Len(s.promise) /\ DOMAIN promise = DOMAIN s.promise
      <3>1. PICK q \in Seq(Outcomes) : q = s.promise
        BY Zenon, <1>2
      <3>2. PICK v \in Outcomes : v = Ready(fields)
        BY Zenon, <1>6
      <3>3. promise = [n \in DOMAIN q |-> IF n \in settled THEN v ELSE q[n]]
        BY <2>2, <3>1, <3>2
      <3>4. \A n \in DOMAIN q : q[n] \in Outcomes
        BY <3>1
      <3>5. promise \in [DOMAIN q -> Outcomes]
        BY Zenon, <3>2, <3>3, <3>4
      <3>6. promise \in Seq(Outcomes) /\ Len(promise) = Len(q) /\ DOMAIN promise = DOMAIN q
        BY Zenon, <3>5, Rewritten
      <3>7. QED
        BY Zenon, <3>1, <3>6
    <2>5. \A n \in DOMAIN s.promise : promise[n] = IF n \in settled THEN Ready(fields) ELSE s.promise[n]
      BY Zenon, <2>2
    <2>6. QED
      BY ZenonT(30), <2>3, <2>4, <2>5
  <1>8. PICK t : t = [s EXCEPT !.outstanding = s.outstanding \ routes, !.promise = promise]
    BY Zenon
  <1>9. t \in SessionRecord
    <2>1. s.outstanding \ routes \subseteq Nat \X Nat
      BY <1>2
    <2>2. QED
      BY Zenon, <1>1, <1>7, <1>8, <2>1 DEF SessionRecord
  <1>10. /\ t.asked = s.asked /\ t.nextId = s.nextId /\ t.held = s.held /\ t.promise = promise
         /\ t.outgoing = s.outgoing /\ t.incoming = s.incoming
         /\ t.outstanding = s.outstanding \ routes /\ t.reserved = s.reserved
         /\ t.closed = s.closed /\ t.owned = s.owned /\ t.running = s.running
    BY SMTT(30), <1>1, <1>8 DEF SessionRecord
  <1>11. Becomes(side, t)
    BY <1>1, <1>3, <1>5, <1>8 DEF Respond
  <1>12. session'[side] = t
    BY Zenon, <1>9, <1>11, SessionUpdate DEF Inv
  <1>13. EndKept
    BY Zenon, <1>1, <1>9, <1>10, <1>11, ReadEnd
  <1>14. wire' \in [Sides -> Seq(Items)] /\ (\A p \in Sides : WireKept(p)) /\ 1 \in DOMAIN wire[side]
    BY Zenon, WireTaken
  <1>15. /\ QueueKept(side) /\ RoutesKept(side) /\ IncomingKept(side) /\ HeldKept(side)
         /\ ReservedKept(side)
    BY <1>1, <1>10, <1>12
       DEF QueueKept, RoutesKept, IncomingKept, HeldKept, ReservedKept, From
  <1>16. ASSUME TypeOK', Grow PROVE Own(side)'
    <2>1. RespondedOK(side)'
      BY SMTT(30), <1>1, <1>6, <1>7, <1>10, <1>12 DEF Inv, Own, RespondedOK
    <2>2. QED
      BY ZenonT(30), <1>15, <1>16, <2>1, QueueKeeps, RoutesKeep, AdmittedKeeps DEF Inv, Own
  <1>17. ASSUME TypeOK', Grow, foreign = 0 PROVE AnswersOK' /\ Shared(side)'
    <2>1. PICK a \in answered : a[1] = Peer(side) /\ a[2] = id /\ CarriesReply(fields, a)
      <3>1. DecodeHeader(side, fields).id = id
        BY Zenon DEF DecodeHeader
      <3>2. QED
        BY Zenon, <1>14, <1>17, <3>1, ReadHeader
    <2>2. ASSUME NEW n \in DOMAIN promise, promise[n].state = "ready"
          PROVE  \E q \in sent, b \in answered :
                   /\ q[1] = side /\ q[3] = n /\ b[1] = Peer(side) /\ q[2] = b[2]
                   /\ CarriesReply(promise[n].fields, b)
      <3>1. CASE promise[n] = s.promise[n]
        BY SMTT(30), <1>1, <1>7, <1>17, <2>2, <3>1 DEF Inv, Shared, ReadyOK
      <3>2. CASE promise[n] = Ready(fields) /\ \E r \in routes : r[2] = n
        <4>1. <<side, id, n>> \in sent
          BY Zenon, <1>4, <3>2
        <4>2. PICK q \in sent : q[1] = side /\ q[2] = id /\ q[3] = n
          BY Zenon, <4>1
        <4>3. QED
          BY Zenon, <1>6, <2>1, <3>2, <4>2
      <3>3. QED
        BY ZenonT(30), <1>7, <3>1, <3>2
    <2>3. ReadyOK(side)'
      BY SMTT(30), <1>10, <1>12, <2>2 DEF ReadyOK, CarriesReply
    <2>4. DoneOK(side)'
      BY SMTT(30), <1>1, <1>6, <1>7, <1>10, <1>12, <1>17 DEF Inv, Shared, DoneOK
    <2>5. AnswersOK'
      BY Zenon, <1>17, AnswersKeep DEF Inv
    <2>6. QED
      BY ZenonT(30), <1>14, <1>15, <1>17, <2>3, <2>4, <2>5, WireKeeps, IncomingKeeps, HeldKeeps,
         OrderKeeps
         DEF Inv, Shared
  <1>18. answered' \subseteq Sides \X Ids \X Results
    BY Zenon DEF Inv, TypeOK
  <1>19. QED
    BY SMTT(30), <1>1, <1>7, <1>9, <1>10, <1>11, <1>13, <1>14, <1>16, <1>17, <1>18, SteadyStep
       DEF Steady

(* An admitted request comes before those still under way.                 *)
LEMMA AdmitOrder ==
  ASSUME Inv, foreign = 0, NEW side \in Sides, wire[side] # <<>>, Grow,
         wire' = [wire EXCEPT ![side] = Tail(@)], 1 \in UnderWay(side),
         NEW id, id = IdOf(wire[side][1].fields),
         session'[side].reserved = session[side].reserved \cup {id},
         session[Peer(side)].nextId \in Nat, session'[Peer(side)].nextId = session[Peer(side)].nextId
  PROVE  OrderOK(side)'
  <1>1. wire[side] \in Seq(Items) /\ wire'[side] = Tail(wire[side])
    BY Zenon, WireTaken
  <1>2. ASSUME NEW i \in UnderWay(side)'
        PROVE  i \in Nat /\ i > 0 /\ i + 1 \in UnderWay(side) /\ wire'[side][i] = wire[side][i + 1]
    <2>1. /\ i \in DOMAIN wire'[side] /\ wire'[side][i].kind = "message"
          /\ ~IsResponse(side, IdOf(wire'[side][i].fields))
      BY Zenon DEF UnderWay
    <2>2. i \in Nat /\ i > 0 /\ i + 1 \in DOMAIN wire[side] /\ wire'[side][i] = wire[side][i + 1]
      <3>1. /\ Tail(wire[side]) \in Seq(Items)
            /\ \A k \in DOMAIN Tail(wire[side]) :
                 k + 1 \in DOMAIN wire[side] /\ Tail(wire[side])[k] = wire[side][k + 1]
        BY <1>1, Heads
      <3>2. i \in Nat /\ i > 0
        BY <1>1, <2>1, <3>1
      <3>3. QED
        BY Zenon, <1>1, <2>1, <3>1, <3>2
    <2>3. QED
      BY <2>1, <2>2 DEF UnderWay
  <1>3. ASSUME NEW i \in UnderWay(side)', NEW j \in UnderWay(side)', i < j
        PROVE  IdOf(wire'[side][i].fields) < IdOf(wire'[side][j].fields)
    <2>1. /\ i + 1 \in UnderWay(side) /\ j + 1 \in UnderWay(side) /\ i \in Nat /\ j \in Nat
          /\ wire'[side][i] = wire[side][i + 1] /\ wire'[side][j] = wire[side][j + 1]
      BY Zenon, <1>2
    <2>2. i + 1 < j + 1
      BY <1>3, <2>1
    <2>3. QED
      BY Zenon, <2>1, <2>2 DEF Inv, Shared, OrderOK
  <1>4. id \in Nat /\ id < session[Peer(side)].nextId
    BY UnderWayIds, RequestFacts
  <1>5. ASSUME NEW k \in session'[side].reserved
        PROVE  /\ k \in Nat /\ k < session'[Peer(side)].nextId
               /\ \A i \in UnderWay(side)' : k < IdOf(wire'[side][i].fields)
    <2>1. CASE k \in session[side].reserved
      BY Zenon, <1>2, <2>1 DEF Inv, Shared, OrderOK
    <2>2. CASE k = id
      <3>1. ASSUME NEW i \in UnderWay(side)' PROVE id < IdOf(wire'[side][i].fields)
        <4>1. /\ i \in Nat /\ i > 0 /\ i + 1 \in UnderWay(side)
              /\ wire'[side][i] = wire[side][i + 1]
          BY Zenon, <1>2
        <4>2. 1 < i + 1
          BY SMTT(30), <4>1
        <4>3. QED
          BY Zenon, <4>1, <4>2 DEF Inv, Shared, OrderOK
      <3>2. QED
        BY Zenon, <1>4, <2>2, <3>1
    <2>3. QED
      BY Zenon, <2>1, <2>2
  <1>6. QED
    BY Zenon, <1>3, <1>5 DEF OrderOK

(* A request is admitted, or answered UNKNOWN.                             *)
LEMMA AdmitStep ==
  ASSUME Inv, NEW side \in Sides, wire[side] # <<>>, wire' = [wire EXCEPT ![side] = Tail(@)],
         wire[side][1].kind = "message", NEW fields \in Envelopes, fields = wire[side][1].fields,
         NEW h, h = DecodeHeader(side, fields), h.ok, ~IsResponse(side, h.id), ~h.failed,
         Becomes(side, Admit(session[side], h, fields)),
         answered' = IF h.unknown THEN answered \cup {<<side, h.id, Err("Unknown")>>} ELSE answered,
         UNCHANGED <<sent, foreign, rejected, notice>>
  PROVE  Inv'
  <1>1. PICK s : s = session[side] /\ s \in SessionRecord
    BY Zenon DEF Inv, TypeOK
  <1>2. /\ s.outgoing \in Seq(Operations) /\ s.incoming \in Seq([id : Ids, fields : Envelopes])
        /\ s.reserved \subseteq Ids
    BY Zenon, <1>1, Fields
  <1>3. PICK id : id = h.id
    BY SMTT(30)
  <1>4. id = IdOf(fields) /\ id \in Ids /\ s.reserved \cup {id} \subseteq Ids /\ h.unknown \in BOOLEAN
    <2>1. id = IdOf(fields) /\ h.unknown \in BOOLEAN
      BY Zenon, <1>3 DEF DecodeHeader, Unknown
    <2>2. QED
      BY <1>2, <2>1, EnvelopeIds
  <1>5. wire' \in [Sides -> Seq(Items)] /\ (\A p \in Sides : WireKept(p)) /\ 1 \in DOMAIN wire[side]
    BY ZenonT(30), WireTaken
  <1>6. foreign = 0 =>
          \E q \in sent : /\ q[1] = Peer(side) /\ q[2] = id /\ CarriesRequest(fields, q)
                          /\ h.unknown <=> ~IsKnown(q)
    BY SMTT(30), <1>3, <1>5, ReadHeader
  <1>7. 1 \in UnderWay(side)
    BY <1>3, <1>4, <1>5 DEF UnderWay
  <1>8. session[Peer(side)].nextId \in Nat
    <2>1. session[Peer(side)] \in SessionRecord
      BY ZenonT(30), Peers DEF Inv, TypeOK
    <2>2. QED
      BY Zenon, <2>1, Fields
  <1>9. CASE h.unknown
    <2>1. PICK result : result = Err("Unknown")
      BY Zenon
    <2>2. PICK m : m = ReplyTo(id, result)
      OBVIOUS
    <2>3. result \in Results /\ m \in Operations
      BY <1>4, <2>1, <2>2 DEF Results, Operations
    <2>4. PICK o : o = Append(s.outgoing, m)
      BY Zenon
    <2>5. /\ o \in Seq(Operations)
          /\ \A i \in DOMAIN o : o[i] = m \/ (i \in DOMAIN s.outgoing /\ o[i] = s.outgoing[i])
      BY SMTT(30), <1>2, <2>3, <2>4, Appends
    <2>6. PICK t : t = [s EXCEPT !.reserved = s.reserved \cup {id}, !.outgoing = o]
      OBVIOUS
    <2>7. t \in SessionRecord
      BY Zenon, <1>1, <1>4, <2>5, <2>6 DEF SessionRecord
    <2>8. /\ t.asked = s.asked /\ t.nextId = s.nextId /\ t.held = s.held /\ t.promise = s.promise
          /\ t.outgoing = o /\ t.incoming = s.incoming /\ t.outstanding = s.outstanding
          /\ t.reserved = s.reserved \cup {id} /\ t.closed = s.closed /\ t.running = s.running
          /\ t.owned = s.owned
      BY SMTT(30), <1>1, <2>6 DEF SessionRecord
    <2>9. Becomes(side, t) /\ answered' = answered \cup {<<side, id, result>>}
      BY SMTT(30), <1>1, <1>3, <1>9, <2>1, <2>2, <2>4, <2>6 DEF Admit
    <2>10. session'[side] = t /\ session'[Peer(side)] = session[Peer(side)]
      BY Zenon, <2>7, <2>9, SessionUpdate DEF Inv
    <2>11. EndKept
      BY ZenonT(30), <1>1, <2>7, <2>8, <2>9, ReadEnd
    <2>12. /\ answered \subseteq answered' /\ answered' \subseteq Sides \X Ids \X Results
           /\ <<side, id, result>> \in answered'
      BY SMTT(30), <1>4, <2>3, <2>9 DEF Inv, TypeOK
    <2>13. RoutesKept(side) /\ IncomingKept(side) /\ PromisesKept(side) /\ HeldKept(side)
      BY <1>1, <2>8, <2>10 DEF RoutesKept, IncomingKept, PromisesKept, HeldKept, From
    <2>14. ASSUME TypeOK', Grow PROVE Own(side)'
      <3>1. ASSUME NEW i \in DOMAIN o
            PROVE  \/ \E n \in DOMAIN s.asked : o[i] = AskedAs(n, s.asked[n])
                   \/ \E a \in answered' : a[1] = side /\ o[i] = ReplyTo(a[2], a[3])
        <4>1. CASE o[i] = m
          BY ZenonT(30), <2>2, <2>12, <4>1
        <4>2. CASE i \in DOMAIN s.outgoing /\ o[i] = s.outgoing[i]
          BY SMTT(30), <1>1, <2>12, <4>2 DEF Inv, Own, QueueOK, Question
        <4>3. QED
          BY Zenon, <2>5, <4>1, <4>2
      <3>2. QueueOK(side)'
        <4>1. session'[side].outgoing = o /\ session'[side].asked = s.asked
          BY Zenon, <2>8, <2>10
        <4>2. QED
          BY <3>1, <4>1 DEF QueueOK, Question
      <3>3. QED
        BY Zenon, <2>13, <2>14, <3>2, RoutesKeep, AdmittedKeeps, RespondedKeeps DEF Inv, Own
    <2>15. ASSUME TypeOK', Grow, foreign = 0 PROVE AnswersOK' /\ Shared(side)'
      <3>1. PICK k \in sent : k[1] = Peer(side) /\ k[2] = id /\ ~IsKnown(k)
        BY Zenon, <1>6, <1>9, <2>15
      <3>2. ASSUME NEW a \in answered'
            PROVE  \E q \in sent' : q[1] = Peer(a[1]) /\ q[2] = a[2]
                                    /\ FitsBuild(a[1], IsKnown(q)', a[3])
        <4>1. CASE a \in answered
          <5>1. PICK q \in sent : q[1] = Peer(a[1]) /\ q[2] = a[2] /\ FitsBuild(a[1], IsKnown(q), a[3])
            BY Zenon, <2>15, <4>1 DEF Inv, AnswersOK
          <5>2. q \in sent' /\ IsKnown(q)' = IsKnown(q)
            BY Zenon, <2>15, RequestsKeep DEF Inv
          <5>3. QED
            BY <5>1, <5>2 DEF FitsBuild
        <4>2. CASE a = <<side, id, result>>
          BY Zenon, <2>1, <2>15, <3>1, <4>2, RequestsKeep DEF Inv, FitsBuild
        <4>3. QED
          BY ZenonT(30), <2>9, <4>1, <4>2
      <3>3. AnswersOK'
        BY Zenon, <3>2 DEF AnswersOK
      <3>4. OrderOK(side)'
        BY ZenonT(30), <1>1, <1>4, <1>7, <1>8, <2>8, <2>10, <2>15, AdmitOrder
      <3>5. QED
        BY ZenonT(30), <1>5, <2>13, <2>15, <3>3, <3>4, WireKeeps, IncomingKeeps, HeldKeeps,
           ReadyKeeps, DoneKeeps
           DEF Inv, Shared
    <2>16. QED
      BY SMTT(30), <1>1, <1>5, <2>7, <2>8, <2>9, <2>11, <2>12, <2>14, <2>15, SteadyStep DEF Steady
  <1>10. CASE ~h.unknown
    <2>1. PICK m : m = [id |-> id, fields |-> fields]
      BY Zenon
    <2>2. m \in [id : Ids, fields : Envelopes] /\ m.id = id /\ m.fields = fields
      BY <1>4, <2>1
    <2>3. PICK o : o = Append(s.incoming, m)
      BY Zenon
    <2>4. /\ o \in Seq([id : Ids, fields : Envelopes])
          /\ \A i \in DOMAIN o : o[i] = m \/ (i \in DOMAIN s.incoming /\ o[i] = s.incoming[i])
      BY SMTT(30), <1>2, <2>2, <2>3, Appends
    <2>5. PICK t : t = [s EXCEPT !.reserved = s.reserved \cup {id}, !.incoming = o]
      OBVIOUS
    <2>6. t \in SessionRecord
      BY Zenon, <1>1, <1>4, <2>4, <2>5 DEF SessionRecord
    <2>7. /\ t.asked = s.asked /\ t.nextId = s.nextId /\ t.held = s.held /\ t.promise = s.promise
          /\ t.outgoing = s.outgoing /\ t.incoming = o /\ t.outstanding = s.outstanding
          /\ t.reserved = s.reserved \cup {id} /\ t.closed = s.closed /\ t.running = s.running
          /\ t.owned = s.owned
      BY SMTT(30), <1>1, <2>5 DEF SessionRecord
    <2>8. Becomes(side, t) /\ answered' = answered
      BY SMTT(30), <1>1, <1>3, <1>10, <2>1, <2>3, <2>5 DEF Admit
    <2>9. session'[side] = t /\ session'[Peer(side)] = session[Peer(side)]
      BY Zenon, <2>6, <2>8, SessionUpdate DEF Inv
    <2>10. EndKept
      BY ZenonT(30), <1>1, <2>6, <2>7, <2>8, ReadEnd
    <2>11. QueueKept(side) /\ RoutesKept(side) /\ PromisesKept(side) /\ HeldKept(side)
      BY SMTT(30), <1>1, <2>7, <2>9 DEF QueueKept, RoutesKept, PromisesKept, HeldKept, From
    <2>12. ASSUME TypeOK', Grow PROVE Own(side)'
      <3>1. ASSUME NEW i \in DOMAIN o
            PROVE  LET g == DecodeHeader(side, o[i].fields) IN g.ok /\ ~g.failed /\ ~g.unknown
        <4>1. CASE o[i] = m
          BY Zenon, <1>10, <2>2, <4>1
        <4>2. CASE i \in DOMAIN s.incoming /\ o[i] = s.incoming[i]
          BY Zenon, <1>1, <4>2 DEF Inv, Own, AdmittedOK
        <4>3. QED
          BY Zenon, <2>4, <4>1, <4>2
      <3>2. AdmittedOK(side)'
        BY Zenon, <2>7, <2>9, <3>1 DEF AdmittedOK
      <3>3. QED
        BY SMTT(30), <2>11, <2>12, <3>2, QueueKeeps, RoutesKeep, RespondedKeeps DEF Inv, Own
    <2>13. ASSUME TypeOK', Grow, foreign = 0 PROVE AnswersOK' /\ Shared(side)'
      <3>1. PICK k \in sent : k[1] = Peer(side) /\ k[2] = id /\ IsKnown(k) /\ CarriesRequest(fields, k)
        BY Zenon, <1>6, <1>10, <2>13
      <3>2. ASSUME NEW i \in DOMAIN o
            PROVE  \E q \in sent' : /\ q[1] = Peer(side) /\ q[2] = o[i].id /\ IsKnown(q)'
                                    /\ o[i].fields = Encode(q[1], q[2], Question(q[1], q[3])')
        <4>1. CASE o[i] = m
          BY SMTT(30), <2>2, <2>13, <3>1, <4>1, RequestsKeep DEF Inv, CarriesRequest
        <4>2. CASE i \in DOMAIN s.incoming /\ o[i] = s.incoming[i]
          <5>1. PICK q \in sent : /\ q[1] = Peer(side) /\ q[2] = o[i].id /\ IsKnown(q)
                                  /\ CarriesRequest(o[i].fields, q)
            BY Zenon, <1>1, <2>13, <4>2 DEF Inv, Shared, IncomingOK
          <5>2. QED
            BY Zenon, <2>13, <5>1, RequestsKeep DEF Inv, CarriesRequest
        <4>3. QED
          BY ZenonT(30), <2>4, <4>1, <4>2
      <3>3. IncomingOK(side)'
        BY Zenon, <2>7, <2>9, <3>2 DEF IncomingOK, CarriesRequest
      <3>4. OrderOK(side)'
        BY Zenon, <1>1, <1>4, <1>7, <1>8, <2>7, <2>9, <2>13, AdmitOrder
      <3>5. AnswersOK'
        BY Zenon, <2>8, <2>13, AnswersKeep DEF Inv
      <3>6. QED
        BY ZenonT(30), <1>5, <2>11, <2>13, <3>3, <3>4, <3>5, WireKeeps, HeldKeeps, ReadyKeeps,
           DoneKeeps
           DEF Inv, Shared
    <2>14. answered' \subseteq Sides \X Ids \X Results
      BY <2>8 DEF Inv, TypeOK
    <2>15. QED
      BY ZenonT(30), <1>1, <1>5, <2>6, <2>7, <2>8, <2>10, <2>12, <2>13, <2>14, SteadyStep DEF Steady
  <1>11. QED
    BY <1>9, <1>10

(* The reader.                                                             *)
LEMMA ReadStep ==
  ASSUME Inv, NEW side \in Sides, Read(side)
  PROVE  Inv'
  <1>1. wire[side] # <<>> /\ UNCHANGED <<foreign, sent>>
    BY Zenon DEF Read
  <1>2. 1 \in DOMAIN wire[side] /\ Head(wire[side]) = wire[side][1] /\ wire[side][1] \in Items
    BY <1>1, Heads DEF Inv, TypeOK
  <1>3. CASE /\ wire[side][1].kind = "end" /\ UNCHANGED <<notice, answered, rejected>>
             /\ wire' = [wire EXCEPT ![side] = Tail(@)]
             /\ Becomes(side, Stopped(Closed(session[side], "SessionReset"), "reader"))
    BY Zenon, <1>1, <1>3, Reasons, ReadEndStep
  <1>4. CASE /\ wire[side][1].kind = "message" /\ HandleMessage(side, wire[side][1].fields)
             /\ wire' = [wire EXCEPT ![side] = Tail(@)] /\ UNCHANGED notice
    <2>1. PICK fields : fields = wire[side][1].fields
      BY Zenon
    <2>2. fields \in Envelopes
      BY <1>2, <1>4, <2>1 DEF Items, End, Envelope
    <2>3. PICK h : h = DecodeHeader(side, fields)
      BY Zenon
    <2>4. h.id = IdOf(fields)
      BY Zenon, <2>3 DEF DecodeHeader
    <2>5. PICK v : v = Verdict(side, fields)
      BY Zenon
    <2>6. /\ v = "none" => IsOpen(side) /\ h.ok /\ (~IsResponse(side, h.id) => ~h.failed)
          /\ v # "none" => v \in Errors
          /\ v = "Malformed" /\ IsOpen(side) =>
               ~h.ok \/ (~IsResponse(side, h.id) /\ (h.failed \/ h.id \in session[side].reserved))
      BY <2>3, <2>5, Verdicts
    <2>7. CASE v = "none"
      <3>1. UNCHANGED rejected
        BY Zenon, <1>4, <2>1, <2>5, <2>7 DEF HandleMessage
      <3>2. CASE IsResponse(side, h.id)
        <4>1. Becomes(side, Respond(session[side], h.id, fields)) /\ answered' = answered
          BY Zenon, <1>4, <2>1, <2>3, <2>5, <2>7, <3>2 DEF HandleMessage
        <4>2. QED
          BY Zenon, <1>1, <1>4, <2>1, <2>2, <2>3, <2>4, <2>6, <2>7, <3>1, <3>2, <4>1, RespondStep
      <3>3. CASE ~IsResponse(side, h.id)
        <4>1. /\ Becomes(side, Admit(session[side], h, fields))
              /\ answered' = IF h.unknown THEN answered \cup {<<side, h.id, Err("Unknown")>>} ELSE answered
          BY SMTT(30), <1>4, <2>1, <2>3, <2>5, <2>7, <3>3 DEF HandleMessage
        <4>2. QED
          BY ZenonT(30), <1>1, <1>4, <2>1, <2>2, <2>3, <2>6, <2>7, <3>1, <3>3, <4>1, AdmitStep
      <3>4. QED
        BY Zenon, <3>2, <3>3
    <2>8. CASE v # "none"
      <3>1. /\ Becomes(side, Stopped(Closed(session[side], v), "reader")) /\ answered' = answered
            /\ rejected' = IF v = "Malformed" /\ IsOpen(side)
                           THEN [rejected EXCEPT ![side] = @ \cup {<<fields, h.id \in session[side].reserved>>}]
                           ELSE rejected
        BY Zenon, <1>4, <2>1, <2>3, <2>5, <2>8 DEF HandleMessage
      <3>2. CASE ~(v = "Malformed" /\ IsOpen(side))
        BY Zenon, <1>1, <1>4, <2>6, <2>8, <3>1, <3>2, ReadEndStep
      <3>3. CASE v = "Malformed" /\ IsOpen(side)
        <4> DEFINE used == h.id \in session[side].reserved
        <4>1. used \in BOOLEAN
          OBVIOUS
        <4>2. foreign > 0
          <5>1. foreign # 0
            BY Zenon, <1>2, <1>4, <2>1, <2>3, <2>6, <3>3, ReadHeader
          <5>2. QED
            BY <5>1 DEF Inv, TypeOK
        <4>3. ~WellFormed(side, fields) \/ used
          BY Zenon, <2>3, <2>6, <3>3, IllFormedHeader
        <4>4. rejected' = [rejected EXCEPT ![side] = @ \cup {<<fields, used>>}]
          BY <3>1, <3>3
        <4> HIDE DEF used
        <4>5. QED
          BY ZenonT(30), <1>1, <1>4, <2>2, <2>6, <2>8, <3>1, <4>1, <4>2, <4>3, <4>4, ReadEndStep
      <3>4. QED
        BY Zenon, <3>2, <3>3
    <2>9. QED
      BY <2>7, <2>8
  (* The transport refuses what it reads.                                  *)
  <1>5. CASE /\ Refuses(side) /\ Becomes(side, Closed(session[side], "SessionReset"))
             /\ Notify([wire EXCEPT ![side] = Tail(@)]) /\ UNCHANGED <<answered, rejected>>
    <2>1. side = Server
      BY Zenon, <1>5 DEF Refuses
    <2>2. PICK w : w = [wire EXCEPT ![side] = Tail(@)]
      BY Zenon
    <2>3. /\ w \in [Sides -> Seq(Items)] /\ w[Client] = wire[Client]
          /\ Len(wire[Server]) > 0 /\ w[Server] = Tail(wire[Server])
      <3>1. wire \in [Sides -> Seq(Items)] /\ wire[side] \in Seq(Items)
        BY Zenon DEF Inv, TypeOK
      <3>2. PICK u : u = Tail(wire[side])
        BY Zenon
      <3>3. u \in Seq(Items) /\ Len(wire[side]) > 0
        BY <1>1, <3>1, <3>2, Heads
      <3>4. w = [wire EXCEPT ![side] = u]
        BY <2>2, <3>2
      <3>5. Client \in Sides /\ Client # side
        BY <2>1 DEF Sides, Client, Server
      <3>6. QED
        BY <2>1, <3>1, <3>2, <3>3, <3>4, <3>5
    <2>4. PICK c : c = Closed(session[side], "SessionReset")
      BY Zenon
    <2>5. session[side] \in SessionRecord
      BY Zenon DEF Inv, TypeOK
    <2>6. /\ Shrinks(session[side], c) /\ c.running = session[side].running
          /\ c.owned = session[side].owned /\ c \in SessionRecord
      <3>1. "SessionReset" \in Errors
        BY Zenon, Reasons
      <3>2. PICK s \in SessionRecord : s = session[side] /\ c = Closed(s, "SessionReset")
        BY Zenon, <2>4, <2>5
      <3>3. /\ Shrinks(s, c) /\ c.running = s.running /\ c.owned = s.owned /\ c \in SessionRecord
        BY Zenon, <3>1, <3>2, ClosedShrinks
      <3>4. QED
        BY Zenon, <3>2, <3>3
    <2>7. Becomes(Server, c) /\ Notify(w) /\ UNCHANGED <<sent, answered, foreign, rejected>>
      BY Zenon, <1>1, <1>5, <2>1, <2>2, <2>4
    <2>8. /\ c.running \subseteq session[Server].running /\ c.owned = session[Server].owned
          /\ Shrinks(session[Server], c) /\ c \in SessionRecord
      BY Zenon, <2>1, <2>6
    <2>9. QED
      BY ZenonT(30), <2>3, <2>7, <2>8, NotifyStep
  <1>6. QED
    BY <1>2, <1>3, <1>4, <1>5 DEF Read

(* An envelope of another implementation.                                  *)
LEMMA ForeignStep ==
  ASSUME Inv, NEW side \in Sides, NEW fields \in Foreign, ForeignSends(side, fields)
  PROVE  Inv'
  <1>1. /\ foreign' = foreign + 1 /\ wire' = [wire EXCEPT ![side] = Append(@, Envelope(fields))]
        /\ UNCHANGED <<session, notice, sent, answered, rejected>>
    BY Zenon DEF ForeignSends, history
  <1>2. fields \in Envelopes /\ foreign \in Nat
    BY Zenon DEF Inv, TypeOK, Envelopes
  <1>3. wire' \in [Sides -> Seq(Items)] /\ \A p \in Sides : WireGrown(p)
    <2>1. wire \in [Sides -> Seq(Items)] /\ wire[side] \in Seq(Items) /\ Envelope(fields) \in Items
      BY Zenon, <1>2 DEF Inv, TypeOK, Items
    <2>2. PICK u : u = Append(wire[side], Envelope(fields))
      BY Zenon
    <2>3. u \in Seq(Items) /\ \A i \in DOMAIN wire[side] : i \in DOMAIN u /\ u[i] = wire[side][i]
      BY <2>1, <2>2, Appends
    <2>4. wire' = [wire EXCEPT ![side] = u]
      BY <1>1, <2>2
    <2>5. QED
      BY <2>1, <2>3, <2>4 DEF WireGrown
  <1>4. TypeOK' /\ foreign' \in Nat /\ foreign' # 0 /\ foreign <= foreign'
    BY SMTT(30), <1>1, <1>2, <1>3 DEF Inv, TypeOK
  <1>5. Asking' /\ Sending'
    BY <1>1 DEF Inv, Asking, Sending, Question
  <1>6. \A p \in Sides : Own(p)'
    <2>1. \A p \in Sides : session[p].nextId \in Nat
      BY SMTT(30), Fields DEF Inv, TypeOK
    <2>2. Grow
      BY SMTT(30), <1>1, <1>4, <2>1 DEF Grow
    <2>3. QED
      BY ZenonT(30), <1>1, <2>2, Untouched, KeepsOwn
  <1>7. MalformedIsDeserved'
    BY SMTT(30), <1>1, <1>2, <1>4, DeservedKeeps DEF Inv
  <1>8. Ending'
    <2>1. Client \in Sides
      BY DEF Sides
    <2>2. WireGrown(Client)
      BY Zenon, <1>3, <2>1
    <2>3. EndKept
      BY <1>1, <2>2 DEF Inv, EndKept, IsOpen
    <2>4. QED
      BY Zenon, <2>3, EndingKeeps DEF Inv
  <1>9. QED
    BY SMTT(30), <1>4, <1>5, <1>6, <1>7, <1>8 DEF Inv
----------------------------------------------------------------------------
(* The invariant.                                                          *)

(* The invariant holds at first.                                           *)
LEMMA Starts ==
  ASSUME Init
  PROVE  Inv
  <1>1. ASSUME NEW side \in Sides PROVE Started(side) \in SessionRecord
    <2>1. Workers(side) \subseteq {"writer", "deadlines", "reader"} /\ FirstId(side) \in Nat
      BY DEF Workers, FirstId
    <2>2. /\ <<>> \in Seq(Results) /\ <<>> \in Seq(Outcomes) /\ <<>> \in Seq(Operations)
          /\ <<>> \in Seq([id : Ids, fields : Envelopes]) /\ {} \subseteq Nat \X Nat /\ {} \subseteq Ids
      OBVIOUS
    <2>3. QED
      BY <2>1, <2>2 DEF Started, SessionRecord
  <1>2. ASSUME NEW side \in Sides
        PROVE  /\ session[side].asked = <<>> /\ session[side].promise = <<>>
               /\ session[side].outgoing = <<>> /\ session[side].nextId = FirstId(side)
               /\ session[side].outstanding = {} /\ session[side].incoming = <<>>
               /\ session[side].reserved = {} /\ session[side].held = {}
               /\ session[side].closed = "open" /\ session[side].owned
               /\ session[side].running = Workers(side)
               /\ wire[side] = <<>> /\ rejected[side] = {}
    BY DEF Init, Started
  <1>3. TypeOK
    <2>1. session \in [Sides -> SessionRecord]
      BY <1>1 DEF Init
    <2>2. wire \in [Sides -> Seq(Items)]
      <3>1. <<>> \in Seq(Items)
        OBVIOUS
      <3>2. QED
        BY <3>1 DEF Init
    <2>3. QED
      BY <2>1, <2>2 DEF Init, TypeOK
  <1>4. Asking
    <2>1. \A side \in Sides : Parity(FirstId(side)) = OwnParity(side)
      BY DEF Parity, FirstId, OwnParity
    <2>2. QED
      BY <1>2, <2>1 DEF Asking
  <1>5. Sending /\ AnswersOK /\ sent = {} /\ answered = {}
    BY Zenon DEF Init, Sending, AnswersOK
  <1>6. ASSUME NEW side \in Sides PROVE Own(side) /\ Shared(side)
    <2>1. /\ DOMAIN session[side].outgoing = {} /\ DOMAIN session[side].incoming = {}
          /\ DOMAIN session[side].promise = {} /\ DOMAIN wire[side] = {}
      BY <1>2
    <2>2. Own(side)
      BY Zenon, <1>2, <2>1 DEF Own, QueueOK, RoutesOK, AdmittedOK, RespondedOK
    <2>3. WireOK(side) /\ IncomingOK(side) /\ HeldOK(side) /\ ReadyOK(side) /\ DoneOK(side)
      BY Zenon, <1>2, <2>1 DEF WireOK, IncomingOK, HeldOK, ReadyOK, DoneOK
    <2>4. OrderOK(side)
      BY Zenon, <1>2, <2>1 DEF OrderOK, UnderWay
    <2>5. QED
      BY SMTT(30), <2>2, <2>3, <2>4 DEF Shared
  <1>7. MalformedIsDeserved
    BY SMTT(30), <1>2 DEF MalformedIsDeserved
  <1>8. Ending
    <2>1. notice = "due"
      BY Zenon DEF Init
    <2>2. QED
      BY <1>2, <2>1 DEF Ending, Workers, Sides, Client, Server
  <1>9. QED
    BY SMTT(30), <1>3, <1>4, <1>5, <1>6, <1>7, <1>8 DEF Inv

(* It speaks of the variables only.                                        *)
LEMMA Stutters ==
  ASSUME Inv, UNCHANGED vars
  PROVE  Inv'
  <1>1. /\ session' = session /\ wire' = wire /\ notice' = notice /\ foreign' = foreign
        /\ sent' = sent /\ answered' = answered /\ rejected' = rejected
    BY SMTT(30) DEF vars
  <1>2. TypeOK' /\ Asking' /\ Sending' /\ MalformedIsDeserved' /\ Ending'
    BY SMTT(30), <1>1
       DEF Inv, TypeOK, Asking, Sending, Question, MalformedIsDeserved, Ending, EndComes, IsOpen
  <1>3. ASSUME NEW p \in Sides PROVE Kept(p) /\ WireKept(p)
    BY <1>1, Untouched DEF WireKept
  <1>4. Grow
    <2>1. \A p \in Sides : session[p].nextId \in Nat
      BY Fields DEF Inv, TypeOK
    <2>2. QED
      BY <1>1, <2>1 DEF Grow
  <1>5. \A p \in Sides : Own(p)'
    BY <1>3, <1>4, KeepsOwn
  <1>6. foreign' = 0 => AnswersOK' /\ \A p \in Sides : Shared(p)'
    BY SMTT(30), <1>1, <1>2, <1>3, <1>4, KeepsShared, AnswersKeep DEF Inv
  <1>7. QED
    BY <1>2, <1>5, <1>6 DEF Inv

(* The two sessions, the wire between them and what was asked, sent and    *)
(* answered fit together in every reachable state.                         *)
THEOREM InvHolds == Spec => []Inv
  <1>1. Init => Inv
    BY Zenon, Starts
  <1>2. Inv /\ [Next]_vars => Inv'
    <2>1. SUFFICES ASSUME Inv, Next PROVE Inv'
      BY Zenon, Stutters
    <2>2. PICK side \in Sides :
            \/ \E result \in Offered[side] : Request(side, result)
            \/ Recv(side)
            \/ \E id \in session[side].held, result \in Answers[side] \cup {Err("Unanswered")} :
                 Answer(side, id, result)
            \/ \E n \in DOMAIN session[side].promise : Wait(side, n) \/ ExpireRequest(side, n)
            \/ \E id \in session[side].reserved : ExpireReply(side, id)
            \/ Close(side) \/ Drop(side)
            \/ Write(side) \/ WriterStops(side) \/ DeadlinesStop(side)
            \/ Read(side) \/ StreamEnds(side)
            \/ \E fields \in Foreign : ForeignSends(side, fields)
      BY Zenon, <2>1 DEF Next
    <2>3. CASE \E result \in Offered[side] : Request(side, result)
      BY <2>1, <2>3, RequestStep
    <2>4. CASE Recv(side)
      BY <2>1, <2>4, RecvStep
    <2>5. CASE \E id \in session[side].held, result \in Answers[side] \cup {Err("Unanswered")} :
                 Answer(side, id, result)
      BY SMTT(30), <2>1, <2>5, AnswerStep
    <2>6. CASE \E n \in DOMAIN session[side].promise : Wait(side, n) \/ ExpireRequest(side, n)
      BY SMTT(30), <2>1, <2>6, WaitStep, ExpireRequestStep
    <2>7. CASE \E id \in session[side].reserved : ExpireReply(side, id)
      BY <2>1, <2>7, ExpireReplyStep
    <2>8. CASE Close(side) \/ Drop(side)
      BY SMTT(30), <2>1, <2>8, CloseStep, DropStep
    <2>9. CASE Write(side) \/ WriterStops(side) \/ DeadlinesStop(side)
      BY SMTT(30), <2>1, <2>9, WriteStep, WriterStopsStep, DeadlinesStopStep
    <2>10. CASE Read(side) \/ StreamEnds(side)
      BY <2>1, <2>10, ReadStep, StreamEndsStep
    <2>11. CASE \E fields \in Foreign : ForeignSends(side, fields)
      BY <2>1, <2>11, ForeignStep
    <2>12. QED
      BY ZenonT(30), <2>2, <2>3, <2>4, <2>5, <2>6, <2>7, <2>8, <2>9, <2>10, <2>11
  <1>3. QED
    BY <1>1, <1>2, PTL DEF Spec

(* Between two peers of this code a promise completes with what the peer   *)
(* answered to that very request, however replies, expiries, drops and     *)
(* closes interleave: with UNKNOWN if the peer's build does not know the   *)
(* content, and only then unless its application chose that answer.        *)
THEOREM PromisesGetTheirAnswers == Spec => []AnswersMatch
  <1>1. Inv => AnswersMatch
    <2>1. SUFFICES ASSUME Inv, foreign = 0, NEW side \in Sides, NEW n \in DOMAIN session[side].promise,
                          session[side].promise[n].state = "done"
                   PROVE  LET p == session[side].promise[n] IN
                          /\ \E id \in {q[2] : q \in sent} :
                               <<side, id, n>> \in sent /\ <<Peer(side), id, p.result>> \in answered
                          /\ FitsBuild(Peer(side),
                                       session[side].asked[n].body.tag \in Schema[Peer(side)], p.result)
      BY Zenon DEF AnswersMatch
    <2>2. PICK p : p = session[side].promise[n]
      OBVIOUS
    <2>3. PICK q \in sent, a \in answered :
            /\ q[1] = side /\ q[3] = n /\ a[1] = Peer(side) /\ q[2] = a[2] /\ p.result = a[3]
      BY SMTT(30), <2>1, <2>2 DEF Inv, Shared, DoneOK
    <2>4. q = <<side, q[2], n>> /\ a = <<Peer(side), q[2], p.result>>
      BY <2>1, <2>3, RequestFacts DEF Inv, TypeOK
    <2>5. PICK k \in sent : k[1] = Peer(a[1]) /\ k[2] = a[2] /\ FitsBuild(a[1], IsKnown(k), a[3])
      BY ZenonT(30), <2>1 DEF Inv, AnswersOK
    <2>6. k = q
      BY SMTT(30), <2>1, <2>3, <2>5, Peers DEF Inv, Sending
    <2>7. FitsBuild(Peer(side), session[side].asked[n].body.tag \in Schema[Peer(side)], p.result)
      BY Zenon, <2>3, <2>5, <2>6 DEF IsKnown, Question
    <2>8. QED
      BY Zenon, <2>2, <2>4, <2>7
  <1>2. QED
    BY <1>1, InvHolds, PTL

(* A session closes over an envelope as malformed only if the envelope is  *)
(* ill-formed or reuses an ID in use, or is a response of content that the *)
(* build does not know.  Peers of this code cause only the last.           *)
THEOREM MalformedOnlyIfDeserved == Spec => []MalformedIsDeserved
  <1>1. Inv => MalformedIsDeserved
    BY DEF Inv
  <1>2. QED
    BY <1>1, InvHolds, PTL

(* When the threads have nothing left to do, a session that the            *)
(* application dropped is freed.  The server's session then has ended with *)
(* its client's, and the client's with its server's unless the last notice *)
(* to it failed.                                                           *)
THEOREM DropsReachPeers == Spec => []DropReachesPeer
  <1>1. Inv => DropReachesPeer
    <2>1. SUFFICES ASSUME Inv, Quiet PROVE DropReachesPeer
      BY Zenon DEF DropReachesPeer
    <2>2. Client \in Sides /\ Server \in Sides /\ \A side \in Sides : side = Client \/ side = Server
      BY Zenon DEF Sides
    <2>3. ASSUME NEW side \in Sides, ~session[side].owned
          PROVE  ~IsOpen(side) /\ session[side].running \subseteq {"reader"}
      <3>1. ~IsOpen(side) /\ session[side].running \subseteq {"writer", "deadlines", "reader"}
        BY SMTT(30), <2>1, <2>3, Fields DEF Inv, TypeOK, Ending
      <3>2. "writer" \notin session[side].running /\ "deadlines" \notin session[side].running
        BY <2>1, <3>1 DEF Quiet
      <3>3. QED
        BY <3>1, <3>2
    <2>4. ASSUME ~session[Client].owned PROVE Freed(Client) /\ ~IsOpen(Server)
      <3>1. "reader" \notin session[Client].running /\ ~IsOpen(Server)
        BY <2>1, <2>2, <2>3, <2>4 DEF Quiet, Connected
      <3>2. QED
        BY <2>2, <2>3, <2>4, <3>1 DEF Freed
    <2>5. ASSUME ~session[Server].owned PROVE Freed(Server) /\ (~IsOpen(Client) \/ notice = "lost")
      <3>1. "reader" \notin session[Server].running
        BY <2>1 DEF Inv, Ending
      <3>2. session[Server].running = {}
        BY <2>2, <2>3, <2>5, <3>1
      <3>3. ASSUME IsOpen(Client), notice # "lost" PROVE FALSE
        <4>1. notice = "told"
          BY <2>1, <3>2, <3>3 DEF Inv, Ending
        <4>2. PICK i \in DOMAIN wire[Client] : wire[Client][i].kind = "end"
          BY Zenon, <2>1, <3>3, <4>1 DEF Inv, Ending, EndComes
        <4>3. "reader" \in session[Client].running
          BY <2>1, <3>3 DEF Inv, Ending
        <4>4. wire[Client] = <<>>
          BY <2>1, <4>3 DEF Quiet
        <4>5. QED
          BY <4>2, <4>4
      <3>4. QED
        BY Zenon, <2>5, <3>2, <3>3 DEF Freed
    <2>6. QED
      BY Zenon, <2>2, <2>4, <2>5 DEF DropReachesPeer
  <1>2. QED
    BY <1>1, InvHolds, PTL
=============================================================================
