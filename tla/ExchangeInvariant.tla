------------------------- MODULE ExchangeInvariant -------------------------
(***************************************************************************)
(* The inductive invariant of two connected sessions, what the codec       *)
(* makes of the envelopes between them, and the steps that ask, answer,    *)
(* expire and close, for any schemas of the two builds, any requests,      *)
(* answers and foreign envelopes, and any bounds on them.                  *)
(***************************************************************************)
EXTENDS Exchange, TLAPS

(* Everything that may be sent: requests, answers, and the two errors that *)
(* a session answers with by itself.                                       *)
Results ==
  Offered[Client] \cup Offered[Server] \cup Answers[Client] \cup Answers[Server]
    \cup {Err("Unanswered"), Err("Unknown")}

Ids == Nat \cup {IdOf(fields) : fields \in Foreign}
Sendable(side) == {result \in Results : Refusal(side, result) = "none"}
Encoded == UNION {{Encode(side, id, result) : id \in Ids, result \in Sendable(side)} : side \in Sides}
Envelopes == Foreign \cup Encoded

Errors ==
  {"Closed", "Malformed", "UnexpectedResponse", "Transport", "Timeout", "InboundRequestLimit",
   "SessionReset", "WrongDirection", "TooLarge"}

Outcomes ==
  {Pending} \cup {Ready(fields) : fields \in Envelopes} \cup {Failed(error) : error \in Errors}
    \cup {Done(Decode(side, fields)) : side \in Sides, fields \in Envelopes}

Operations ==
  {AskedAs(n, result) : n \in Nat, result \in Results}
    \cup {ReplyTo(id, result) : id \in Ids, result \in Results}

(* The types.  Field by field what State and the two histories hold.       *)
SessionRecord ==
  [closed : Errors \cup {"open"}, owned : BOOLEAN, running : SUBSET {"writer", "deadlines", "reader"},
   asked : Seq(Results), promise : Seq(Outcomes), outgoing : Seq(Operations), nextId : Nat,
   outstanding : SUBSET (Nat \X Nat), incoming : Seq([id : Ids, fields : Envelopes]),
   reserved : SUBSET Ids, held : SUBSET Ids]

Items == {End} \cup {Envelope(fields) : fields \in Envelopes}

TypeOK ==
  /\ session \in [Sides -> SessionRecord]
  /\ wire \in [Sides -> Seq(Items)]
  /\ foreign \in Nat
  /\ sent \subseteq Sides \X Nat \X Nat
  /\ answered \subseteq Sides \X Ids \X Results
  /\ rejected \in [Sides -> SUBSET (Envelopes \X BOOLEAN)]

(* Request n of side.                                                      *)
Question(side, n) == session[side].asked[n]

(* The request <<side, id, n>> could be sent, and its content is known to  *)
(* the peer.                                                               *)
IsKnown(q) == Question(q[1], q[3]).body.tag \in Schema[Peer(q[1])]

(* An envelope is that of a sent request, or of an answer.                 *)
CarriesRequest(fields, q) == fields = Encode(q[1], q[2], Question(q[1], q[3]))
CarriesReply(fields, a) == fields = Encode(a[1], a[2], a[3]) /\ Refusal(a[1], a[3]) = "none"

(* Requests are sent under IDs of their own.                               *)
Asking ==
  \A side \in Sides :
    /\ Len(session[side].asked) = Len(session[side].promise)
    /\ \A n \in DOMAIN session[side].asked : Question(side, n) \in Offered[side]
    /\ Parity(session[side].nextId) = OwnParity(side)

Sending ==
  /\ \A q \in sent :
       /\ q[2] < session[q[1]].nextId /\ Parity(q[2]) = OwnParity(q[1])
       /\ q[3] \in DOMAIN session[q[1]].asked
       /\ Refusal(q[1], Question(q[1], q[3])) = "none"
  /\ \A q, p \in sent : q[1] = p[1] /\ q[2] = p[2] => q = p

(* What waits to be written, and what waits for a response.                *)
QueueOK(side) ==
  \A i \in DOMAIN session[side].outgoing :
    LET m == session[side].outgoing[i] IN
    \/ \E n \in DOMAIN session[side].asked : m = AskedAs(n, Question(side, n))
    \/ \E a \in answered : a[1] = side /\ m = ReplyTo(a[2], a[3])

RoutesOK(side) ==
  IsOpen(side) => \A r \in session[side].outstanding : <<side, r[1], r[2]>> \in sent

(* The reader has looked at what recv and wait decode.                     *)
AdmittedOK(side) ==
  \A i \in DOMAIN session[side].incoming :
    LET h == DecodeHeader(side, session[side].incoming[i].fields) IN h.ok /\ ~h.failed /\ ~h.unknown

RespondedOK(side) ==
  \A n \in DOMAIN session[side].promise :
    LET p == session[side].promise[n] IN
    p.state = "ready" => DecodeHeader(side, p.fields).ok /\ IsResponse(side, IdOf(p.fields))

(* Between two peers of this code.                                         *)
AnswersOK ==
  \A a \in answered : \E q \in sent :
    q[1] = Peer(a[1]) /\ q[2] = a[2] /\ FitsBuild(a[1], IsKnown(q), a[3])

WireOK(side) ==
  \A i \in DOMAIN wire[side] : wire[side][i].kind = "message" =>
    \/ \E q \in sent : q[1] = Peer(side) /\ CarriesRequest(wire[side][i].fields, q)
    \/ \E a \in answered : a[1] = Peer(side) /\ CarriesReply(wire[side][i].fields, a)

IncomingOK(side) ==
  \A i \in DOMAIN session[side].incoming :
    LET m == session[side].incoming[i] IN
    \E q \in sent : q[1] = Peer(side) /\ q[2] = m.id /\ IsKnown(q) /\ CarriesRequest(m.fields, q)

HeldOK(side) ==
  \A id \in session[side].held : \E q \in sent : q[1] = Peer(side) /\ q[2] = id /\ IsKnown(q)

ReadyOK(side) ==
  \A n \in DOMAIN session[side].promise :
    LET p == session[side].promise[n] IN
    p.state = "ready" => \E q \in sent, a \in answered :
      /\ q[1] = side /\ q[3] = n /\ a[1] = Peer(side) /\ q[2] = a[2]
      /\ CarriesReply(p.fields, a)

DoneOK(side) ==
  \A n \in DOMAIN session[side].promise :
    LET p == session[side].promise[n] IN
    p.state = "done" => \E q \in sent, a \in answered :
      /\ q[1] = side /\ q[3] = n /\ a[1] = Peer(side) /\ q[2] = a[2]
      /\ p.result = a[3]

(* The requests under way to side come in the order of their IDs, after    *)
(* those whose ID is in use.                                               *)
UnderWay(side) ==
  {i \in DOMAIN wire[side] :
     wire[side][i].kind = "message" /\ ~IsResponse(side, IdOf(wire[side][i].fields))}

OrderOK(side) ==
  /\ \A i, j \in UnderWay(side) :
       i < j => IdOf(wire[side][i].fields) < IdOf(wire[side][j].fields)
  /\ \A id \in session[side].reserved :
       /\ id \in Nat /\ id < session[Peer(side)].nextId
       /\ \A i \in UnderWay(side) : id < IdOf(wire[side][i].fields)

(* Ends.  A client that was told has the end before it, or has met it.     *)
EndComes == \E i \in DOMAIN wire[Client] : wire[Client][i].kind = "end"

Ending ==
  /\ \A side \in Sides : ~session[side].owned => ~IsOpen(side)
  /\ "reader" \notin session[Server].running
  /\ "reader" \notin session[Client].running => ~IsOpen(Client)
  /\ notice \in {"due", "told", "lost"}
  /\ "writer" \notin session[Server].running => notice # "due"
  /\ notice = "told" => ~IsOpen(Client) \/ EndComes

Own(side) == QueueOK(side) /\ RoutesOK(side) /\ AdmittedOK(side) /\ RespondedOK(side)
Shared(side) ==
  WireOK(side) /\ IncomingOK(side) /\ HeldOK(side) /\ ReadyOK(side) /\ DoneOK(side) /\ OrderOK(side)

Inv ==
  /\ TypeOK /\ Asking /\ Sending
  /\ \A side \in Sides : Own(side)
  /\ foreign = 0 => AnswersOK /\ \A side \in Sides : Shared(side)
  /\ MalformedIsDeserved /\ Ending

----------------------------------------------------------------------------
(* The codec.                                                              *)

(* Each side has one peer.                                                 *)
LEMMA Peers ==
  ASSUME NEW side \in Sides
  PROVE  /\ Peer(side) \in Sides /\ Peer(side) # side /\ Peer(Peer(side)) = side
         /\ \A p \in Sides : p = side \/ p = Peer(side)
  BY DEF Sides, Peer, Client, Server

(* The two sides number their requests differently.                        *)
LEMMA Parities ==
  ASSUME NEW side \in Sides, NEW id
  PROVE  /\ Parity(id) = OwnParity(side) => IsResponse(side, id) /\ ~IsResponse(Peer(side), id)
         /\ Parity(id) = OwnParity(Peer(side)) => ~IsResponse(side, id)
  BY DEF IsResponse, OwnParity, Peer, Sides, Client, Server

(* A result is a content or an error.                                      *)
LEMMA ResultForms ==
  ASSUME NEW r \in Results
  PROVE  \/ r.ok = TRUE /\ r = Ok(r.body, r.value)
         \/ r.ok = FALSE /\ r = Err(r.code)
  <1>1. CASE \E side \in Sides : r \in Offered[side]
    BY <1>1, ExchangeAssumption DEF Ok
  <1>2. CASE \E side \in Sides : r \in Answers[side]
    BY <1>2, ExchangeAssumption DEF Ok, Err
  <1>3. CASE r \in {Err("Unanswered"), Err("Unknown")}
    BY <1>3 DEF Err
  <1>4. (\E side \in Sides : r \in Offered[side] \cup Answers[side])
        \/ r \in {Err("Unanswered"), Err("Unknown")}
    BY DEF Results, Sides
  <1>5. QED
    BY Zenon, <1>1, <1>2, <1>3, <1>4

(* A result that encodes is an error, or content the sender knows and may  *)
(* send.                                                                   *)
LEMMA Sendables ==
  ASSUME NEW side \in Sides, NEW r \in Sendable(side)
  PROVE  r.ok => /\ r.body.tag \in Schema[side] /\ r.body = Content(side, r.body.tag)
                 /\ r.body.tag \in Nat /\ r.body.tag >= FirstContentTag
  BY ExchangeAssumption DEF Sendable, Refusal, CanSend

(* An envelope of this code has its ID and one body.                       *)
LEMMA EncodedFields ==
  ASSUME NEW side, NEW id, NEW r
  PROVE  LET fields == Encode(side, id, r) IN
         /\ DOMAIN fields = {1, 2}
         /\ fields[1] = Field(IdTag, "varint", id)
         /\ fields[2] = IF r.ok THEN Field(r.body.tag, "bytes", r.value)
                                ELSE Field(ErrTag, "bytes", r.code)
  BY DEF Encode, Payload

(* What the decoders look for in such an envelope.                         *)
LEMMA EncodedParts ==
  ASSUME NEW side \in Sides, NEW p \in Sides, NEW id, NEW r \in Sendable(side),
         NEW fields, fields = Encode(side, id, r)
  PROVE  /\ Having(fields, {ErrTag}) = IF r.ok THEN {} ELSE {2}
         /\ Having(fields, Schema[p]) = IF r.ok /\ r.body.tag \in Schema[p] THEN {2} ELSE {}
         /\ Parses(p, fields)
         /\ Decodes(p, fields)
         /\ (\E i \in DOMAIN fields : fields[i].tag >= FirstContentTag) <=> r.ok
  <1> DEFINE tag == IF r.ok THEN r.body.tag ELSE ErrTag
             value == IF r.ok THEN r.value ELSE r.code
  <1>1. DOMAIN fields = {1, 2} /\ fields[1] = Field(IdTag, "varint", id)
        /\ fields[2] = Field(tag, "bytes", value)
    BY EncodedFields
  <1>2. /\ fields[1].tag = IdTag /\ fields[1].wire = "varint"
        /\ fields[2].tag = tag /\ fields[2].wire = "bytes" /\ fields[2].sound
    BY <1>1 DEF Field
  <1>3. IdTag \notin Schema[p] /\ ErrTag \notin Schema[p]
    BY ExchangeAssumption DEF IdTag, ErrTag, FirstContentTag
  <1>4. r.ok => tag \in Nat /\ tag >= FirstContentTag
    BY Sendables
  <1>5. tag # IdTag /\ (tag = ErrTag <=> ~r.ok) /\ (tag >= FirstContentTag <=> r.ok)
    BY <1>4 DEF IdTag, ErrTag, FirstContentTag
  <1>6. ~(IdTag >= FirstContentTag)
    BY DEF IdTag, FirstContentTag
  <1> HIDE DEF tag, value
  <1>7. Having(fields, {ErrTag}) = IF r.ok THEN {} ELSE {2}
    BY <1>1, <1>2, <1>5 DEF Having, IdTag, ErrTag
  <1>8. Having(fields, Schema[p]) = IF r.ok /\ r.body.tag \in Schema[p] THEN {2} ELSE {}
    BY <1>1, <1>2, <1>3, <1>5 DEF Having, tag
  <1>9. Parses(p, fields)
    BY <1>1, <1>2, <1>5 DEF Parses, WireOf
  <1>10. Decodes(p, fields)
    BY <1>9, <1>1, <1>2, <1>3 DEF Decodes, IdTag, ErrTag
  <1>11. (\E i \in DOMAIN fields : fields[i].tag >= FirstContentTag) <=> r.ok
    BY <1>1, <1>2, <1>5, <1>6
  <1>12. QED
    BY <1>7, <1>8, <1>9, <1>10, <1>11

(* The last of a single field.                                             *)
LEMMA LastOfOne ==
  ASSUME NEW fields, NEW tags, NEW i \in Nat, Having(fields, tags) = {i}
  PROVE  Last(fields, tags) = fields[i]
  BY DEF Last

(* What a peer makes of an envelope it is sent.                            *)
LEMMA EncodedId ==
  ASSUME NEW side \in Sides, NEW id, NEW r \in Sendable(side)
  PROVE  IdOf(Encode(side, id, r)) = id
  <1>1. PICK fields : fields = Encode(side, id, r)
    OBVIOUS
  <1>2. /\ DOMAIN fields = {1, 2} /\ fields[1] = Field(IdTag, "varint", id)
        /\ \E tag, value : fields[2] = Field(tag, "bytes", value) /\ tag # IdTag
    BY <1>1, EncodedFields, Sendables DEF IdTag, ErrTag, FirstContentTag
  <1>3. fields[1].tag = IdTag /\ fields[1].value = id /\ fields[2].tag # IdTag
    BY <1>2 DEF Field
  <1>4. Having(fields, {IdTag}) = {1}
    BY <1>2, <1>3 DEF Having
  <1>5. Last(fields, {IdTag}) = fields[1]
    BY <1>4, LastOfOne
  <1>6. QED
    BY <1>1, <1>3, <1>4, <1>5 DEF IdOf

(* The reader accepts what a peer of this code sends, and knows a response *)
(* by its ID.                                                              *)
LEMMA EncodedHeader ==
  ASSUME NEW side \in Sides, NEW id, NEW r \in Sendable(side), NEW fields,
         fields = Encode(side, id, r)
  PROVE  LET h == DecodeHeader(Peer(side), fields) IN
         /\ h.ok /\ h.id = id
         /\ h.failed <=> ~r.ok
         /\ h.unknown <=> r.ok /\ r.body.tag \notin Schema[Peer(side)]
  <1> DEFINE p == Peer(side)
  <1>1. p \in Sides
    BY Peers
  <1>2. IdOf(fields) = id
    BY EncodedId
  <1>3. /\ Having(fields, {ErrTag}) = IF r.ok THEN {} ELSE {2}
        /\ Having(fields, Schema[p]) = IF r.ok /\ r.body.tag \in Schema[p] THEN {2} ELSE {}
        /\ Parses(p, fields)
        /\ (\E i \in DOMAIN fields : fields[i].tag >= FirstContentTag) <=> r.ok
    BY Zenon, <1>1, EncodedParts
  <1>4. Unknown(p, fields) <=> r.ok /\ r.body.tag \notin Schema[p]
    BY <1>3 DEF Unknown
  <1>5. (Having(fields, {ErrTag}) # {}) <=> ~r.ok
    BY <1>3
  <1>6. (Having(fields, Schema[p]) # {} \/ Unknown(p, fields)) <=> r.ok
    BY <1>3, <1>4
  <1>7. QED
    BY Zenon, <1>2, <1>3, <1>4, <1>5, <1>6 DEF DecodeHeader

(* Decoding gives back the result encoded, if the build knows its content. *)
LEMMA EncodedDecodes ==
  ASSUME NEW side \in Sides, NEW id, NEW r \in Sendable(side), NEW fields,
         fields = Encode(side, id, r)
  PROVE  LET p == Peer(side) IN
         /\ DecodeOk(p, fields) <=> (r.ok => r.body.tag \in Schema[p])
         /\ DecodeOk(p, fields) => Decode(p, fields) = r
         /\ r.ok /\ r.body.tag \notin Schema[p] =>
              \A i \in DOMAIN fields : fields[i].tag \notin Schema[p]
  <1> DEFINE p == Peer(side)
  <1>1. p \in Sides /\ Peer(p) = side
    BY Peers
  <1>2. /\ Having(fields, {ErrTag}) = IF r.ok THEN {} ELSE {2}
        /\ Having(fields, Schema[p]) = IF r.ok /\ r.body.tag \in Schema[p] THEN {2} ELSE {}
        /\ Decodes(p, fields)
    BY Zenon, <1>1, EncodedParts
  <1>3. DecodeOk(p, fields) <=> (r.ok => r.body.tag \in Schema[p])
    BY <1>2 DEF DecodeOk, HasOneBody
  <1>4. ASSUME r.ok, r.body.tag \in Schema[p] PROVE Decode(p, fields) = r
    <2>1. Last(fields, Schema[p]) = fields[2]
      BY <1>2, <1>4, LastOfOne
    <2>a. fields[2] = Field(r.body.tag, "bytes", r.value)
      BY <1>4, EncodedFields
    <2>2. fields[2].tag = r.body.tag /\ fields[2].value = r.value
      BY <2>a DEF Field
    <2>3. Decode(p, fields) = Ok(Content(side, r.body.tag), r.value)
      BY <1>1, <1>2, <1>4, <2>1, <2>2 DEF Decode
    <2>4. r = Ok(r.body, r.value) /\ r.body = Content(side, r.body.tag)
      BY Zenon, <1>4, ResultForms, Sendables DEF Sendable
    <2>5. QED
      BY <2>3, <2>4
  <1>5. ASSUME ~r.ok PROVE Decode(p, fields) = r
    <2>1. Last(fields, {ErrTag}) = fields[2]
      BY Zenon, <1>2, <1>5, LastOfOne
    <2>a. fields[2] = Field(ErrTag, "bytes", r.code)
      BY <1>5, EncodedFields
    <2>2. fields[2].value = r.code
      BY <2>a DEF Field
    <2>3. Decode(p, fields) = Err(r.code)
      BY <1>2, <1>5, <2>1, <2>2 DEF Decode
    <2>4. r = Err(r.code)
      BY Zenon, <1>5, ResultForms DEF Sendable
    <2>5. QED
      BY <2>3, <2>4
  <1>6. Having(fields, Schema[p]) = {} => \A i \in DOMAIN fields : fields[i].tag \notin Schema[p]
    BY DEF Having
  <1>7. QED
    BY <1>2, <1>3, <1>4, <1>5, <1>6

(* What the two decoders refuse is not well formed, but for responses of   *)
(* unknown content.                                                        *)
UnknownResponse(side, fields) ==
  IsResponse(side, IdOf(fields)) /\ \A i \in DOMAIN fields : fields[i].tag \notin Schema[side]

(* WellFormed and the decoders ask for the same two bodies.                *)
LEMMA Bodies ==
  ASSUME NEW side \in Sides, NEW fields
  PROVE  LET tags == {fields[i].tag : i \in DOMAIN fields} IN
         /\ ErrTag \in tags <=> Having(fields, {ErrTag}) # {}
         /\ (\E t \in tags : t >= FirstContentTag)
              <=> Having(fields, Schema[side]) # {} \/ Unknown(side, fields)
  <1> DEFINE tags == {fields[i].tag : i \in DOMAIN fields}
  <1>1. ErrTag \in tags <=> Having(fields, {ErrTag}) # {}
    BY DEF Having
  <1>2. (\E t \in tags : t >= FirstContentTag)
           <=> \E i \in DOMAIN fields : fields[i].tag >= FirstContentTag
    OBVIOUS
  <1>3. Having(fields, Schema[side]) # {} =>
          \E i \in DOMAIN fields : fields[i].tag >= FirstContentTag
    BY ExchangeAssumption DEF Having
  <1>4. QED
    BY <1>1, <1>2, <1>3 DEF Unknown

(* A header refused is not well formed.                                    *)
LEMMA IllFormedHeader ==
  ASSUME NEW side \in Sides, NEW fields, WellFormed(side, fields)
  PROVE  LET h == DecodeHeader(side, fields) IN
         h.ok /\ (h.failed => IsResponse(side, h.id))
  <1> DEFINE tags == {fields[i].tag : i \in DOMAIN fields}
  <1>1. Parses(side, fields)
    BY DEF WellFormed, Parses, WireOf, IdTag, ErrTag
  <1>2. ErrTag \in tags <=> ~\E t \in tags : t >= FirstContentTag
    BY DEF WellFormed
  <1>3. ErrTag \in tags => IsResponse(side, IdOf(fields))
    BY DEF WellFormed
  <1>4. /\ ErrTag \in tags <=> Having(fields, {ErrTag}) # {}
        /\ (\E t \in tags : t >= FirstContentTag)
             <=> Having(fields, Schema[side]) # {} \/ Unknown(side, fields)
    BY Zenon, Bodies
  <1> HIDE DEF tags
  <1>5. (Having(fields, Schema[side]) # {} \/ Unknown(side, fields))
           <=> ~(Having(fields, {ErrTag}) # {})
    BY <1>2, <1>4
  <1>6. Having(fields, {ErrTag}) # {} => IsResponse(side, IdOf(fields))
    BY <1>3, <1>4
  <1>7. QED
    BY Zenon, <1>1, <1>5, <1>6 DEF DecodeHeader

(* A body refused is not well formed, or of content unknown.               *)
LEMMA IllFormedBody ==
  ASSUME NEW side \in Sides, NEW fields, DecodeHeader(side, fields).ok, ~DecodeOk(side, fields)
  PROVE  LET h == DecodeHeader(side, fields) IN
         \/ ~WellFormed(side, fields)
         \/ h.unknown /\ \A i \in DOMAIN fields : fields[i].tag \notin Schema[side]
  <1>1. CASE ~Decodes(side, fields)
    <2>1. Parses(side, fields)
      BY Zenon DEF DecodeHeader
    <2>2. QED
      BY <1>1, <2>1 DEF Decodes, WellFormed
  <1>2. CASE ~HasOneBody(side, fields)
    <2>1. (Having(fields, Schema[side]) # {} \/ Unknown(side, fields)) # (Having(fields, {ErrTag}) # {})
      BY Zenon DEF DecodeHeader
    <2>2. (Having(fields, Schema[side]) # {}) <=> (Having(fields, {ErrTag}) # {})
      BY <1>2 DEF HasOneBody
    <2>3. Unknown(side, fields)
      BY <2>1, <2>2
    <2>4. \A i \in DOMAIN fields : fields[i].tag \notin Schema[side]
      BY <2>3 DEF Unknown, Having
    <2>5. QED
      BY <2>3, <2>4 DEF DecodeHeader
  <1>3. QED
    BY <1>1, <1>2 DEF DecodeOk

----------------------------------------------------------------------------
(* Types.                                                                  *)

(* A session by its fields.                                                *)
LEMMA Fields ==
  ASSUME NEW s \in SessionRecord
  PROVE  /\ s.closed \in Errors \cup {"open"} /\ s.owned \in BOOLEAN
         /\ s.running \subseteq {"writer", "deadlines", "reader"}
         /\ s.asked \in Seq(Results) /\ s.promise \in Seq(Outcomes)
         /\ s.outgoing \in Seq(Operations) /\ s.nextId \in Nat
         /\ s.outstanding \subseteq Nat \X Nat
         /\ s.incoming \in Seq([id : Ids, fields : Envelopes])
         /\ s.reserved \subseteq Ids /\ s.held \subseteq Ids
  BY DEF SessionRecord

(* What promises are set to.                                               *)
LEMMA OutcomeTypes ==
  /\ Pending \in Outcomes
  /\ \A fields \in Envelopes : Ready(fields) \in Outcomes
  /\ \A error \in Errors : Failed(error) \in Outcomes
  /\ \A side \in Sides, fields \in Envelopes : Done(Decode(side, fields)) \in Outcomes
  BY DEF Outcomes

(* The state of a promise tells what it holds.                             *)
LEMMA OutcomeStates ==
  ASSUME NEW p \in Outcomes
  PROVE  /\ p.state = "ready" => p.fields \in Envelopes /\ p = Ready(p.fields)
         /\ p.state = "pending" => p = Pending
         /\ p = Pending => p.state = "pending"
  BY DEF Outcomes, Pending, Ready, Failed, Done

(* IDs of envelopes.                                                       *)
LEMMA EnvelopeIds ==
  /\ \A fields \in Envelopes : IdOf(fields) \in Ids
  /\ \A side \in Sides : \A id \in Ids, r \in Sendable(side) : Encode(side, id, r) \in Envelopes
  <1>1. \A side \in Sides : \A id \in Ids, r \in Sendable(side) : Encode(side, id, r) \in Encoded
    BY DEF Encoded
  <1>2. ASSUME NEW fields \in Encoded PROVE IdOf(fields) \in Ids
    <2>1. PICK side \in Sides : \E id \in Ids, r \in Sendable(side) : fields = Encode(side, id, r)
      BY DEF Encoded
    <2>2. QED
      BY <2>1, EncodedId
  <1>3. QED
    BY <1>1, <1>2 DEF Envelopes, Ids

(* State::close keeps the types.                                           *)
LEMMA ClosedTypes ==
  ASSUME NEW s \in SessionRecord, NEW reason \in Errors
  PROVE  Closed(s, reason) \in SessionRecord
  <1>1. CASE s.closed # "open"
    BY <1>1 DEF Closed
  <1>2. CASE s.closed = "open"
    <2> DEFINE promise == [n \in DOMAIN s.promise |->
                             IF s.promise[n] = Pending THEN Failed(reason) ELSE s.promise[n]]
    <2>1. s.promise \in Seq(Outcomes) /\ Failed(reason) \in Outcomes
      BY Fields, OutcomeTypes
    <2>2. promise \in Seq(Outcomes)
      BY <2>1
    <2> HIDE DEF promise
    <2>3. [s EXCEPT !.closed = reason, !.promise = promise, !.outgoing = <<>>,
                    !.outstanding = {}, !.incoming = <<>>, !.reserved = {}] \in SessionRecord
      <3>1. /\ <<>> \in Seq(Operations) /\ <<>> \in Seq([id : Ids, fields : Envelopes])
            /\ {} \subseteq Nat \X Nat /\ {} \subseteq Ids
        OBVIOUS
      <3>2. reason \in Errors \cup {"open"}
        OBVIOUS
      <3>3. QED
        BY Zenon, <2>2, <3>1, <3>2 DEF SessionRecord
    <2>4. QED
      BY <1>2, <2>3 DEF Closed, promise
  <1>3. QED
    BY <1>1, <1>2

----------------------------------------------------------------------------
(* What a step leaves as it was.  From says that a queue has nothing new.  *)
From(new, old) == \A i \in DOMAIN new : \E j \in DOMAIN old : new[i] = old[j]

QueueKept(p) == From(session'[p].outgoing, session[p].outgoing)
RoutesKept(p) ==
  /\ session'[p].closed = "open" => session[p].closed = "open"
  /\ session'[p].outstanding \subseteq session[p].outstanding
IncomingKept(p) == From(session'[p].incoming, session[p].incoming)
PromisesKept(p) ==
  \A n \in DOMAIN session'[p].promise :
    \/ n \in DOMAIN session[p].promise /\ session'[p].promise[n] = session[p].promise[n]
    \/ session'[p].promise[n].state \in {"failed", "pending"}
HeldKept(p) == session'[p].held \subseteq session[p].held
ReservedKept(p) == session'[p].reserved \subseteq session[p].reserved
WireKept(p) ==
  \/ wire'[p] = wire[p]
  \/ Len(wire[p]) > 0 /\ wire'[p] = Tail(wire[p])
  \/ wire'[p] = Append(wire[p], End)

WireGrown(p) == \A i \in DOMAIN wire[p] : i \in DOMAIN wire'[p] /\ wire'[p][i] = wire[p][i]

(* The histories grow, and what was asked stays.                           *)
Grow ==
  /\ sent \subseteq sent' /\ answered \subseteq answered'
  /\ foreign' = 0 => foreign = 0
  /\ \A p \in Sides :
       /\ session[p].nextId <= session'[p].nextId
       /\ \A n \in DOMAIN session[p].asked :
            n \in DOMAIN session'[p].asked /\ session'[p].asked[n] = session[p].asked[n]

(* Each conjunct of the invariant survives a step that keeps what it       *)
(* speaks of.                                                              *)
LEMMA QueueKeeps ==
  ASSUME NEW p \in Sides, Grow, QueueOK(p), QueueKept(p)
  PROVE  QueueOK(p)'
  BY DEF Grow, QueueOK, QueueKept, From, Question

(* Routes survive where the requests they stand for do.                    *)
LEMMA RoutesKeep ==
  ASSUME NEW p \in Sides, Grow, RoutesOK(p), RoutesKept(p)
  PROVE  RoutesOK(p)'
  BY DEF Grow, RoutesOK, RoutesKept, IsOpen

(* So does what the reader admitted, with the queue of recv.               *)
LEMMA AdmittedKeeps ==
  ASSUME NEW p \in Sides, AdmittedOK(p), IncomingKept(p)
  PROVE  AdmittedOK(p)'
  BY DEF AdmittedOK, IncomingKept, From

(* So does what it accepted as a response, with the promises.              *)
LEMMA RespondedKeeps ==
  ASSUME NEW p \in Sides, RespondedOK(p), PromisesKept(p)
  PROVE  RespondedOK(p)'
  BY DEF RespondedOK, PromisesKept

(* A request sent stays what it was while requests only grow.              *)
LEMMA RequestsKeep ==
  ASSUME TypeOK, Sending, Grow, NEW q \in sent
  PROVE  /\ q \in sent'
         /\ Question(q[1], q[3])' = Question(q[1], q[3])
         /\ IsKnown(q)' = IsKnown(q)
         /\ \A fields : CarriesRequest(fields, q)' = CarriesRequest(fields, q)
  <1>1. q \in Sides \X Nat \X Nat /\ q[1] \in Sides
    BY DEF TypeOK
  <1>2. q \in sent' /\ session'[q[1]].asked[q[3]] = session[q[1]].asked[q[3]]
    BY <1>1 DEF Sending, Grow
  <1>3. QED
    BY <1>2 DEF Question, IsKnown, CarriesRequest

(* So does what is answered.                                               *)
LEMMA AnswersKeep ==
  ASSUME TypeOK, Sending, Grow, AnswersOK, answered' = answered
  PROVE  AnswersOK'
  BY RequestsKeep DEF AnswersOK

(* The wire may lose its head.                                             *)
LEMMA WireKeeps ==
  ASSUME NEW p \in Sides, TypeOK, Sending, Grow, WireOK(p), WireKept(p)
  PROVE  WireOK(p)'
  <1> DEFINE OnWire(f) == \E j \in DOMAIN wire[p] : wire[p][j].kind = "message" /\ wire[p][j].fields = f
  <1>1. ASSUME NEW i \in DOMAIN wire'[p], wire'[p][i].kind = "message"
        PROVE  OnWire(wire'[p][i].fields)
    <2>1. wire[p] \in Seq(Items)
      BY Zenon DEF TypeOK
    <2>2. CASE wire'[p] = wire[p]
      BY <1>1, <2>2
    <2>3. CASE Len(wire[p]) > 0 /\ wire'[p] = Tail(wire[p])
      <3>1. i + 1 \in DOMAIN wire[p] /\ wire[p][i + 1] = wire'[p][i]
        BY <1>1, <2>1, <2>3
      <3>2. QED
        BY <1>1, <3>1
    <2>4. CASE wire'[p] = Append(wire[p], End)
      <3>1. i \in DOMAIN wire[p] /\ wire[p][i] = wire'[p][i]
        BY <1>1, <2>1, <2>4 DEF End
      <3>2. QED
        BY <1>1, <3>1
    <2>5. QED
      BY <2>2, <2>3, <2>4 DEF WireKept
  <1>2. ASSUME NEW f, OnWire(f)
        PROVE  \/ \E q \in sent' : q[1] = Peer(p) /\ CarriesRequest(f, q)'
               \/ \E a \in answered' : a[1] = Peer(p) /\ CarriesReply(f, a)
    <2>1. CASE \E q \in sent : q[1] = Peer(p) /\ CarriesRequest(f, q)
      <3>1. PICK q \in sent : q[1] = Peer(p) /\ CarriesRequest(f, q)
        BY <2>1
      <3>2. q \in sent' /\ CarriesRequest(f, q)'
        BY Zenon, <3>1, RequestsKeep
      <3>3. QED
        BY <3>1, <3>2
    <2>2. CASE \E a \in answered : a[1] = Peer(p) /\ CarriesReply(f, a)
      BY <2>2 DEF Grow
    <2>3. QED
      BY <1>2, <2>1, <2>2 DEF WireOK
  <1> HIDE DEF OnWire
  <1>3. QED
    BY <1>1, <1>2 DEF WireOK, CarriesReply, CarriesRequest

(* So do the requests awaiting recv.                                       *)
LEMMA IncomingKeeps ==
  ASSUME NEW p \in Sides, TypeOK, Sending, Grow, IncomingOK(p), IncomingKept(p)
  PROVE  IncomingOK(p)'
  BY RequestsKeep DEF IncomingOK, IncomingKept, From

(* So do those recv has handed out.                                        *)
LEMMA HeldKeeps ==
  ASSUME NEW p \in Sides, TypeOK, Sending, Grow, HeldOK(p), HeldKept(p)
  PROVE  HeldOK(p)'
  BY Zenon, RequestsKeep DEF HeldOK, HeldKept

(* So do responses that await wait.                                        *)
LEMMA ReadyKeeps ==
  ASSUME NEW p \in Sides, Grow, ReadyOK(p), PromisesKept(p)
  PROVE  ReadyOK(p)'
  BY DEF Grow, ReadyOK, PromisesKept, CarriesReply

(* So do results that wait has returned.                                   *)
LEMMA DoneKeeps ==
  ASSUME NEW p \in Sides, Grow, DoneOK(p), PromisesKept(p)
  PROVE  DoneOK(p)'
  BY DEF Grow, DoneOK, PromisesKept

(* So may the order of IDs.                                                *)
LEMMA OrderKeeps ==
  ASSUME NEW p \in Sides, TypeOK, TypeOK', Grow, OrderOK(p), WireKept(p), ReservedKept(p)
  PROVE  OrderOK(p)'
  <1>1. \E k \in 0 .. 1 : \A i \in UnderWay(p)' :
          i \in Nat /\ i + k \in UnderWay(p) /\ wire'[p][i] = wire[p][i + k]
    <2>1. wire[p] \in Seq(Items)
      BY DEF TypeOK
    <2>2. CASE wire'[p] = wire[p]
      <3>1. \A i \in UnderWay(p)' : i + 0 \in UnderWay(p) /\ wire'[p][i] = wire[p][i + 0] /\ i \in Nat
        BY <2>1, <2>2 DEF UnderWay
      <3>2. QED
        BY <3>1
    <2>3. CASE Len(wire[p]) > 0 /\ wire'[p] = Tail(wire[p])
      <3>1. \A i \in UnderWay(p)' : i + 1 \in UnderWay(p) /\ wire'[p][i] = wire[p][i + 1] /\ i \in Nat
        BY <2>1, <2>3 DEF UnderWay
      <3>2. QED
        BY <3>1
    <2>4. CASE wire'[p] = Append(wire[p], End)
      <3>1. \A i \in UnderWay(p)' : i + 0 \in UnderWay(p) /\ wire'[p][i] = wire[p][i + 0] /\ i \in Nat
        BY <2>1, <2>4 DEF UnderWay, End
      <3>2. QED
        BY <3>1
    <2>5. QED
      BY <2>2, <2>3, <2>4 DEF WireKept
  <1>2. PICK k \in 0 .. 1 : \A i \in UnderWay(p)' :
          i \in Nat /\ i + k \in UnderWay(p) /\ wire'[p][i] = wire[p][i + k]
    BY Zenon, <1>1
  <1>3. ASSUME NEW i \in UnderWay(p)', NEW j \in UnderWay(p)', i < j
        PROVE  IdOf(wire'[p][i].fields) < IdOf(wire'[p][j].fields)
    <2>1. i + k < j + k
      BY <1>2, <1>3
    <2>2. QED
      BY Zenon, <1>2, <2>1 DEF OrderOK
  <1>4. ASSUME NEW id \in session'[p].reserved
        PROVE  /\ id \in Nat /\ id < session'[Peer(p)].nextId
               /\ \A i \in UnderWay(p)' : id < IdOf(wire'[p][i].fields)
    <2>1. id \in session[p].reserved
      BY Zenon DEF ReservedKept
    <2>2. /\ session[Peer(p)].nextId \in Nat /\ session'[Peer(p)].nextId \in Nat
          /\ session[Peer(p)].nextId <= session'[Peer(p)].nextId
      BY Peers, Fields DEF TypeOK, Grow
    <2>3. id \in Nat /\ id < session[Peer(p)].nextId
      BY Zenon, <2>1 DEF OrderOK
    <2>4. \A i \in UnderWay(p)' : id < IdOf(wire'[p][i].fields)
      BY <1>2, <2>1 DEF OrderOK
    <2>5. QED
      BY <2>2, <2>3, <2>4
  <1>5. QED
    BY <1>3, <1>4 DEF OrderOK

(* All of this for one session.                                            *)
Kept(p) ==
  /\ QueueKept(p) /\ RoutesKept(p) /\ IncomingKept(p)
  /\ PromisesKept(p) /\ HeldKept(p) /\ ReservedKept(p)

(* A session that does not change is kept.                                 *)
LEMMA Untouched ==
  ASSUME NEW p \in Sides, session'[p] = session[p]
  PROVE  Kept(p)
  BY DEF Kept, QueueKept, RoutesKept, IncomingKept, PromisesKept, HeldKept, ReservedKept, From

(* A session that is kept keeps its own part of the invariant.             *)
LEMMA KeepsOwn ==
  ASSUME NEW p \in Sides, Inv, Grow, Kept(p)
  PROVE  Own(p)'
  BY QueueKeeps, RoutesKeep, AdmittedKeeps, RespondedKeeps DEF Inv, Own, Kept

(* It keeps its part of what two peers of this code share.                 *)
LEMMA KeepsShared ==
  ASSUME NEW p \in Sides, Inv, TypeOK', Grow, Kept(p), WireKept(p), foreign = 0
  PROVE  Shared(p)'
  BY WireKeeps, IncomingKeeps, HeldKeeps, ReadyKeeps, DoneKeeps, OrderKeeps DEF Inv, Shared, Kept

(* A session that only loses or fails what it has.                         *)
Shrinks(s, t) ==
  /\ t.closed = "open" => s.closed = "open"
  /\ t.asked = s.asked /\ t.nextId = s.nextId /\ Len(t.promise) = Len(s.promise)
  /\ \A n \in DOMAIN s.promise : t.promise[n] = s.promise[n] \/ t.promise[n].state = "failed"
  /\ From(t.outgoing, s.outgoing) /\ t.outstanding \subseteq s.outstanding
  /\ From(t.incoming, s.incoming) /\ t.reserved \subseteq s.reserved /\ t.held \subseteq s.held

(* What an end takes with it.                                              *)
EndKept ==
  /\ \A p \in Sides :
       /\ ~IsOpen(p) => ~IsOpen(p)'
       /\ session'[p].running \subseteq session[p].running
       /\ ~session'[p].owned => ~session[p].owned \/ ~IsOpen(p)'
  /\ "reader" \notin session'[Client].running =>
       "reader" \notin session[Client].running \/ ~IsOpen(Client)'
  /\ "writer" \notin session'[Server].running =>
       "writer" \notin session[Server].running \/ notice' # "due"
  /\ \/ notice' = "lost"
     \/ notice' = "told" /\ EndComes'
     \/ /\ notice' = notice
        /\ \/ ~IsOpen(Client)' \/ WireGrown(Client)
           \/ WireKept(Client) /\ wire[Client][1].kind # "end"

(* Such a step keeps the order of ends.                                    *)
LEMMA EndingKeeps ==
  ASSUME TypeOK, Ending, EndKept
  PROVE  Ending'
  <1>1. Client \in Sides /\ Server \in Sides
    BY Zenon DEF Sides
  <1>2. \A p \in Sides : ~session'[p].owned => ~IsOpen(p)'
    BY Zenon DEF Ending, EndKept
  <1>3. "reader" \notin session'[Server].running
    BY <1>1 DEF Ending, EndKept
  <1>4. "reader" \notin session'[Client].running => ~IsOpen(Client)'
    BY <1>1 DEF Ending, EndKept
  <1>5. ASSUME notice' = "told", IsOpen(Client)' PROVE EndComes'
    <2>1. CASE notice' = notice
      <3>1. PICK i \in DOMAIN wire[Client] : wire[Client][i].kind = "end"
        BY <1>1, <1>5, <2>1 DEF Ending, EndKept, EndComes
      <3>2. wire[Client] \in Seq(Items)
        BY <1>1 DEF TypeOK
      <3>3. CASE WireGrown(Client)
        BY Zenon, <3>1, <3>3 DEF WireGrown, EndComes
      <3>4. CASE WireKept(Client) /\ wire[Client][1].kind # "end"
        <4>1. i # 1
          BY Zenon, <3>1, <3>4
        <4>2. \/ i \in DOMAIN wire'[Client] /\ wire'[Client][i] = wire[Client][i]
              \/ i - 1 \in DOMAIN wire'[Client] /\ wire'[Client][i - 1] = wire[Client][i]
          <5>1. CASE Len(wire[Client]) > 0 /\ wire'[Client] = Tail(wire[Client])
            BY <3>1, <3>2, <4>1, <5>1
          <5>2. CASE wire'[Client] = Append(wire[Client], End)
            BY <3>1, <3>2, <5>2
          <5>3. CASE wire'[Client] = wire[Client]
            BY Zenon, <3>1, <5>3
          <5>4. QED
            BY <3>4, <5>1, <5>2, <5>3 DEF WireKept
        <4>3. QED
          BY <3>1, <4>2 DEF EndComes
      <3>5. CASE EndComes'
        BY <3>5
      <3>6. QED
        BY Zenon, <1>5, <3>3, <3>4, <3>5 DEF EndKept
    <2>2. CASE notice' # notice
      BY Zenon, <1>5, <2>2 DEF EndKept
    <2>3. QED
      BY <2>1, <2>2
  <1>6. /\ notice' \in {"due", "told", "lost"}
        /\ "writer" \notin session'[Server].running => notice' # "due"
    <2>1. notice' = "lost" \/ notice' = "told" \/ notice' = notice
      BY Zenon DEF EndKept
    <2>2. QED
      BY <2>1 DEF Ending, EndKept
  <1>7. QED
    BY Zenon, <1>2, <1>3, <1>4, <1>5, <1>6 DEF Ending

(* A session that shrinks is kept.                                         *)
LEMMA ShrunkKept ==
  ASSUME NEW p \in Sides, session[p] \in SessionRecord, session'[p] \in SessionRecord,
         Shrinks(session[p], session'[p])
  PROVE  Kept(p)
  <1>1. session[p].promise \in Seq(Outcomes) /\ session'[p].promise \in Seq(Outcomes)
    BY Zenon, Fields
  <1>2. QED
    BY <1>1
       DEF Shrinks, Kept, QueueKept, RoutesKept, IncomingKept, PromisesKept, HeldKept,
       ReservedKept

(* So is the rest, in a step that shrinks one session.                     *)
LEMMA ShrinkingKeeps ==
  ASSUME Inv, TypeOK', NEW side \in Sides, Shrinks(session[side], session'[side]),
         session'[Peer(side)] = session[Peer(side)], \A p \in Sides : WireKept(p),
         UNCHANGED <<sent, answered, foreign>>, EndKept
  PROVE  /\ Asking' /\ Sending' /\ \A p \in Sides : Own(p)'
         /\ foreign' = 0 => AnswersOK' /\ \A p \in Sides : Shared(p)'
         /\ Ending'
  <1>1. /\ \A p \in Sides : p = side \/ p = Peer(side)
        /\ \A p \in Sides : session[p] \in SessionRecord /\ session'[p] \in SessionRecord
    BY Zenon, Peers DEF Inv, TypeOK
  <1>3. Kept(side)
    BY Zenon, <1>1, ShrunkKept
  <1>4. \A p \in Sides : Kept(p)
    BY Zenon, <1>1, <1>3, Untouched
  <1>5. \A p \in Sides : /\ session'[p].asked = session[p].asked
                         /\ session'[p].nextId = session[p].nextId /\ session[p].nextId \in Nat
                         /\ Len(session'[p].promise) = Len(session[p].promise)
    BY Zenon, <1>1, Fields DEF Shrinks
  <1>6. Grow
    BY <1>5 DEF Grow
  <1>7. Asking'
    BY <1>5 DEF Inv, Asking, Question
  <1>8. Sending'
    <2>1. \A q \in sent : q[1] \in Sides
      BY DEF Inv, TypeOK
    <2>2. QED
      BY <1>5, <2>1 DEF Inv, Sending, Question
  <1>9. \A p \in Sides : Own(p)'
    BY <1>4, <1>6, KeepsOwn
  <1>10. ASSUME foreign' = 0 PROVE AnswersOK' /\ \A p \in Sides : Shared(p)'
    BY <1>4, <1>6, <1>10, KeepsShared, AnswersKeep DEF Inv
  <1>11. Ending'
    BY EndingKeeps DEF Inv
  <1>12. QED
    BY <1>7, <1>8, <1>9, <1>10, <1>11

(* Closing, stopping a worker and failing a promise shrink a session.      *)
LEMMA ClosedShrinks ==
  ASSUME NEW s \in SessionRecord, NEW reason \in Errors, NEW t, t = Closed(s, reason)
  PROVE  /\ Shrinks(s, t) /\ t.closed # "open" /\ t.running = s.running /\ t.owned = s.owned
         /\ t \in SessionRecord
  <1>1. t \in SessionRecord
    BY ClosedTypes
  <1>2. CASE s.closed # "open"
    BY <1>1, <1>2 DEF Closed, Shrinks, From
  <1>3. CASE s.closed = "open"
    <2> DEFINE promise == [n \in DOMAIN s.promise |->
                             IF s.promise[n] = Pending THEN Failed(reason) ELSE s.promise[n]]
    <2>0. t = [s EXCEPT !.closed = reason, !.promise = promise, !.outgoing = <<>>,
                        !.outstanding = {}, !.incoming = <<>>, !.reserved = {}]
      BY <1>3 DEF Closed
    <2> HIDE DEF promise
    <2>1. /\ t.asked = s.asked /\ t.nextId = s.nextId /\ t.held = s.held
          /\ t.running = s.running /\ t.owned = s.owned /\ t.closed = reason
          /\ t.outgoing = <<>> /\ t.incoming = <<>> /\ t.outstanding = {} /\ t.reserved = {}
          /\ t.promise = promise
      BY <2>0 DEF SessionRecord
    <2>2. s.promise \in Seq(Outcomes)
      BY Zenon, Fields
    <2>3. /\ Len(t.promise) = Len(s.promise)
          /\ \A n \in DOMAIN s.promise : t.promise[n] = s.promise[n] \/ t.promise[n].state = "failed"
      BY <2>1, <2>2 DEF Failed, promise
    <2>4. QED
      BY <1>1, <1>3, <2>1, <2>3 DEF Shrinks, From, Errors
  <1>4. QED
    BY <1>2, <1>3

(* So does stopping a worker.                                              *)
LEMMA StoppedShrinks ==
  ASSUME NEW s \in SessionRecord, NEW worker, NEW t, t = Stopped(s, worker)
  PROVE  /\ Shrinks(s, t) /\ t.closed = s.closed /\ t.owned = s.owned
         /\ t.running = s.running \ {worker} /\ t \in SessionRecord
  <1>1. t = [s EXCEPT !.running = s.running \ {worker}] /\ t \in SessionRecord
    BY Zenon, Fields DEF Stopped, SessionRecord
  <1>2. /\ t.asked = s.asked /\ t.nextId = s.nextId /\ t.held = s.held /\ t.promise = s.promise
        /\ t.outgoing = s.outgoing /\ t.incoming = s.incoming /\ t.outstanding = s.outstanding
        /\ t.reserved = s.reserved /\ t.closed = s.closed /\ t.owned = s.owned
        /\ t.running = s.running \ {worker}
    BY <1>1 DEF SessionRecord
  <1>3. QED
    BY <1>1, <1>2 DEF Shrinks, From

(* Shrinking twice is shrinking.                                           *)
LEMMA ShrinksTwice ==
  ASSUME NEW s \in SessionRecord, NEW t \in SessionRecord, NEW u,
         Shrinks(s, t), Shrinks(t, u)
  PROVE  Shrinks(s, u)
  <1>1. s.promise \in Seq(Outcomes) /\ t.promise \in Seq(Outcomes)
    BY Fields
  <1>2. \A n \in DOMAIN s.promise : u.promise[n] = s.promise[n] \/ u.promise[n].state = "failed"
    BY <1>1 DEF Shrinks
  <1>3. From(u.outgoing, s.outgoing) /\ From(u.incoming, s.incoming)
    BY DEF Shrinks, From
  <1>4. QED
    BY <1>2, <1>3 DEF Shrinks

(* So does failing a promise.                                              *)
LEMMA FailedShrinks ==
  ASSUME NEW s \in SessionRecord, NEW n \in DOMAIN s.promise, NEW error \in Errors,
         NEW t, t = [s EXCEPT !.promise[n] = Failed(error)]
  PROVE  /\ Shrinks(s, t) /\ t.closed = s.closed /\ t.owned = s.owned /\ t.running = s.running
         /\ t \in SessionRecord
  <1>1. s.promise \in Seq(Outcomes) /\ Failed(error) \in Outcomes
    BY Fields, OutcomeTypes
  <1>2. PICK promise : promise = [s.promise EXCEPT ![n] = Failed(error)]
    BY Zenon
  <1>3. promise \in Seq(Outcomes)
    BY <1>1, <1>2
  <1>4. t = [s EXCEPT !.promise = promise] /\ t \in SessionRecord
    BY Zenon, <1>2, <1>3 DEF SessionRecord
  <1>5. /\ t.asked = s.asked /\ t.nextId = s.nextId /\ t.held = s.held /\ t.promise = promise
        /\ t.outgoing = s.outgoing /\ t.incoming = s.incoming /\ t.outstanding = s.outstanding
        /\ t.reserved = s.reserved /\ t.closed = s.closed /\ t.owned = s.owned
        /\ t.running = s.running
    BY <1>4 DEF SessionRecord
  <1>6. /\ Len(promise) = Len(s.promise)
        /\ \A k \in DOMAIN s.promise : promise[k] = s.promise[k] \/ promise[k].state = "failed"
    BY <1>1, <1>2 DEF Failed
  <1>7. QED
    BY <1>4, <1>5, <1>6 DEF Shrinks, From

----------------------------------------------------------------------------
(* Steps that only take from a session.                                    *)

(* Becomes changes one session.                                            *)
LEMMA SessionUpdate ==
  ASSUME TypeOK, NEW side \in Sides, NEW t \in SessionRecord, Becomes(side, t)
  PROVE  /\ session' \in [Sides -> SessionRecord]
         /\ session'[side] = t /\ session'[Peer(side)] = session[Peer(side)]
         /\ session[side] \in SessionRecord /\ session[Peer(side)] \in SessionRecord
  BY Peers DEF Becomes, TypeOK

(* Nothing new is rejected.                                                *)
LEMMA DeservedKeeps ==
  ASSUME MalformedIsDeserved, UNCHANGED rejected, foreign \in Nat, foreign' \in Nat,
         foreign <= foreign'
  PROVE  MalformedIsDeserved'
  BY DEF MalformedIsDeserved

(* What is rejected deserves it.                                           *)
LEMMA DeservedRejects ==
  ASSUME MalformedIsDeserved, TypeOK, NEW side \in Sides, NEW fields, NEW used, UNCHANGED foreign,
         rejected' = [rejected EXCEPT ![side] = @ \cup {<<fields, used>>}],
         \/ UnknownResponse(side, fields)
         \/ foreign > 0 /\ (~WellFormed(side, fields) \/ used)
  PROVE  MalformedIsDeserved'
  <1>1. ASSUME NEW p \in Sides, NEW r \in rejected'[p]
        PROVE  UnknownResponse(p, r[1]) \/ (foreign > 0 /\ (~WellFormed(p, r[1]) \/ r[2]))
    <2>1. r \in rejected[p] \/ (p = side /\ r = <<fields, used>>)
      BY Zenon, <1>1 DEF TypeOK
    <2>2. CASE r \in rejected[p]
      BY <2>2 DEF MalformedIsDeserved, UnknownResponse
    <2>3. CASE p = side /\ r = <<fields, used>>
      BY <2>3
    <2>4. QED
      BY <2>1, <2>2, <2>3
  <1>2. QED
    BY <1>1 DEF MalformedIsDeserved, UnknownResponse

(* A step that shrinks one session and may take from the wire.             *)
LEMMA ShrinkingStep ==
  ASSUME Inv, NEW side \in Sides, NEW t \in SessionRecord, Becomes(side, t),
         Shrinks(session[side], t), UNCHANGED <<sent, answered, foreign>>, EndKept,
         wire' \in [Sides -> Seq(Items)], \A p \in Sides : WireKept(p),
         rejected' \in [Sides -> SUBSET (Envelopes \X BOOLEAN)], MalformedIsDeserved'
  PROVE  Inv'
  <1>1. /\ session' \in [Sides -> SessionRecord]
        /\ session'[side] = t /\ session'[Peer(side)] = session[Peer(side)]
    BY Zenon, SessionUpdate DEF Inv
  <1>2. TypeOK'
    BY Zenon, <1>1 DEF Inv, TypeOK
  <1>3. /\ Asking' /\ Sending' /\ \A p \in Sides : Own(p)'
        /\ foreign' = 0 => AnswersOK' /\ \A p \in Sides : Shared(p)'
        /\ Ending'
    BY Zenon, <1>1, <1>2, ShrinkingKeeps
  <1>4. QED
    BY <1>2, <1>3 DEF Inv

(* A step that leaves the wire alone keeps the order of ends, if the       *)
(* reader goes only with its session and the writer of the server stays.   *)
LEMMA WorkersKeepEnd ==
  ASSUME TypeOK, NEW side \in Sides, NEW t \in SessionRecord, Becomes(side, t),
         session[side].closed # "open" => t.closed # "open",
         t.running \subseteq session[side].running, wire' = wire, notice' = notice,
         "writer" \in session[side].running \ t.running => side = Client,
         "reader" \in session[side].running \ t.running => t.closed # "open",
         t.owned = session[side].owned \/ t.closed # "open"
  PROVE  EndKept
  <1>1. /\ session'[side] = t /\ session'[Peer(side)] = session[Peer(side)]
        /\ \A p \in Sides : p = side \/ p = Peer(side)
    BY Zenon, SessionUpdate, Peers
  <1>2. \A p \in Sides :
          /\ ~IsOpen(p) => ~IsOpen(p)'
          /\ session'[p].running \subseteq session[p].running
          /\ ~session'[p].owned => ~session[p].owned \/ ~IsOpen(p)'
    BY Zenon, <1>1 DEF IsOpen
  <1>3. Client \in Sides /\ Server \in Sides /\ Client # Server
    BY Zenon DEF Sides, Client, Server
  <1>4. "reader" \notin session'[Client].running =>
          "reader" \notin session[Client].running \/ ~IsOpen(Client)'
    BY Zenon, <1>1, <1>3 DEF IsOpen
  <1>5. "writer" \notin session'[Server].running => "writer" \notin session[Server].running
    BY <1>1, <1>3
  <1>6. WireGrown(Client)
    BY Zenon DEF WireGrown
  <1>7. QED
    BY Zenon, <1>2, <1>4, <1>5, <1>6 DEF EndKept

(* A wire that does not change is kept.                                    *)
LEMMA SameWire ==
  ASSUME TypeOK, wire' = wire
  PROVE  wire' \in [Sides -> Seq(Items)] /\ \A p \in Sides : WireKept(p)
  BY Zenon DEF TypeOK, WireKept

(* A local step on one session that only takes from it.                    *)
LEMMA LocalStep ==
  ASSUME Inv, NEW side \in Sides, NEW t \in SessionRecord, Becomes(side, t),
         Shrinks(session[side], t), UNCHANGED <<wire, notice, sent, answered, foreign, rejected>>,
         session[side].closed # "open" => t.closed # "open",
         t.running \subseteq session[side].running,
         "writer" \in session[side].running \ t.running => side = Client,
         "reader" \in session[side].running \ t.running => t.closed # "open",
         t.owned = session[side].owned \/ t.closed # "open"
  PROVE  Inv'
  <1>1. TypeOK /\ MalformedIsDeserved /\ foreign \in Nat
    BY Zenon DEF Inv, TypeOK
  <1>2. EndKept
    BY Zenon, <1>1, WorkersKeepEnd
  <1>3. MalformedIsDeserved'
    BY <1>1, DeservedKeeps
  <1>4. wire' \in [Sides -> Seq(Items)] /\ \A p \in Sides : WireKept(p)
    BY Zenon, <1>1, SameWire
  <1>5. rejected' \in [Sides -> SUBSET (Envelopes \X BOOLEAN)]
    BY <1>1 DEF TypeOK
  <1>6. QED
    BY Zenon, <1>2, <1>3, <1>4, <1>5, ShrinkingStep

(* The errors, one by one.                                                 *)
LEMMA Reasons ==
  /\ "Closed" \in Errors /\ "Malformed" \in Errors /\ "UnexpectedResponse" \in Errors
  /\ "Transport" \in Errors /\ "Timeout" \in Errors /\ "InboundRequestLimit" \in Errors
  /\ "SessionReset" \in Errors /\ "WrongDirection" \in Errors /\ "TooLarge" \in Errors
  BY Zenon DEF Errors

----------------------------------------------------------------------------
(* Steps that ask for nothing new and write nothing.                       *)

Steady(s, t) == t.asked = s.asked /\ t.nextId = s.nextId /\ Len(t.promise) = Len(s.promise)

(* A steady step grows.                                                    *)
LEMMA SteadyGrows ==
  ASSUME Inv, NEW side \in Sides, Steady(session[side], session'[side]), session[side].nextId \in Nat,
         session'[Peer(side)] = session[Peer(side)], session[Peer(side)].nextId \in Nat,
         UNCHANGED <<sent, foreign>>, answered \subseteq answered'
  PROVE  Grow /\ Asking' /\ Sending'
  <1>1. \A p \in Sides : p = side \/ p = Peer(side)
    BY Zenon, Peers
  <1>2. \A p \in Sides : /\ session'[p].asked = session[p].asked
                         /\ session'[p].nextId = session[p].nextId /\ session[p].nextId \in Nat
                         /\ Len(session'[p].promise) = Len(session[p].promise)
    BY Zenon, <1>1 DEF Steady
  <1>3. Grow
    BY <1>2 DEF Grow
  <1>4. Asking'
    BY Zenon, <1>2 DEF Inv, Asking, Question
  <1>5. \A q \in sent : q[1] \in Sides
    BY Zenon DEF Inv, TypeOK
  <1>6. Sending'
    BY Zenon, <1>2, <1>5 DEF Inv, Sending, Question
  <1>7. QED
    BY Zenon, <1>3, <1>4, <1>6

(* It is left to show what such a step does to its own session.            *)
LEMMA SteadyStep ==
  ASSUME Inv, NEW side \in Sides, NEW t \in SessionRecord, Becomes(side, t),
         Steady(session[side], t), UNCHANGED <<sent, foreign>>, EndKept,
         answered \subseteq answered', answered' \subseteq Sides \X Ids \X Results,
         wire' \in [Sides -> Seq(Items)], \A p \in Sides : WireKept(p), UNCHANGED rejected,
         TypeOK' /\ Grow => Own(side)',
         TypeOK' /\ Grow /\ foreign = 0 => AnswersOK' /\ Shared(side)'
  PROVE  Inv'
  <1>1. /\ session' \in [Sides -> SessionRecord]
        /\ session'[side] = t /\ session'[Peer(side)] = session[Peer(side)]
        /\ session[side] \in SessionRecord /\ session[Peer(side)] \in SessionRecord
    BY Zenon, SessionUpdate DEF Inv
  <1>2. TypeOK'
    BY Zenon, <1>1 DEF Inv, TypeOK
  <1>3. Grow /\ Asking' /\ Sending'
    BY Zenon, <1>1, Fields, SteadyGrows
  <1>4. Peer(side) \in Sides /\ \A p \in Sides : p = side \/ p = Peer(side)
    BY Peers
  <1>5. Own(side)' /\ Own(Peer(side))'
    BY <1>1, <1>2, <1>3, <1>4, Untouched, KeepsOwn
  <1>6. ASSUME foreign = 0 PROVE AnswersOK' /\ Shared(side)' /\ Shared(Peer(side))'
    BY <1>1, <1>2, <1>3, <1>4, <1>6, Untouched, KeepsShared
  <1>7. MalformedIsDeserved'
    BY DeservedKeeps DEF Inv, TypeOK
  <1>8. Ending'
    BY EndingKeeps DEF Inv
  <1>9. \A p \in Sides : Own(p)'
    BY Zenon, <1>4, <1>5
  <1>10. foreign' = 0 => AnswersOK' /\ \A p \in Sides : Shared(p)'
    BY <1>4, <1>6
  <1>11. QED
    BY <1>2, <1>3, <1>7, <1>8, <1>9, <1>10 DEF Inv

----------------------------------------------------------------------------
(* Sequences, and what envelopes carry.                                    *)

(* Sequences.                                                              *)
LEMMA Heads ==
  ASSUME NEW S, NEW q \in Seq(S), q # <<>>
  PROVE  /\ 1 \in DOMAIN q /\ Len(q) > 0 /\ Head(q) = q[1] /\ Head(q) \in S /\ Tail(q) \in Seq(S)
         /\ \A i \in DOMAIN Tail(q) : i + 1 \in DOMAIN q /\ Tail(q)[i] = q[i + 1]
  OBVIOUS

(* The elements of a sequence with one more.                               *)
LEMMA Appends ==
  ASSUME NEW S, NEW q \in Seq(S), NEW m \in S
  PROVE  /\ Append(q, m) \in Seq(S) /\ Len(Append(q, m)) = Len(q) + 1
         /\ Len(q) + 1 \in DOMAIN Append(q, m) /\ Append(q, m)[Len(q) + 1] = m
         /\ \A i \in DOMAIN q : i \in DOMAIN Append(q, m) /\ Append(q, m)[i] = q[i]
         /\ \A i \in DOMAIN Append(q, m) :
              i = Len(q) + 1 \/ (i \in DOMAIN q /\ Append(q, m)[i] = q[i])
  OBVIOUS

(* What the histories say of a request and of a reply that an envelope     *)
(* carries.                                                                *)
LEMMA RequestFacts ==
  ASSUME Inv, NEW q \in sent
  PROVE  /\ q[1] \in Sides /\ q[2] \in Nat /\ q[2] \in Ids /\ q = <<q[1], q[2], q[3]>>
         /\ Question(q[1], q[3]) \in Sendable(q[1]) /\ Question(q[1], q[3]).ok
  <1>1. q \in Sides \X Nat \X Nat /\ q[1] \in Sides /\ q[2] \in Nat /\ q = <<q[1], q[2], q[3]>>
    BY DEF Inv, TypeOK
  <1>2. Question(q[1], q[3]) \in Offered[q[1]] /\ Refusal(q[1], Question(q[1], q[3])) = "none"
    BY Zenon, <1>1 DEF Inv, Asking, Sending
  <1>3. Question(q[1], q[3]) \in Results
    BY <1>1, <1>2 DEF Results, Sides
  <1>4. QED
    BY <1>1, <1>2, <1>3, ExchangeAssumption DEF Sendable, Ids

(* The parts of an answer, and of its envelope.                            *)
LEMMA ReplyFacts ==
  ASSUME Inv, NEW a \in answered, NEW fields, CarriesReply(fields, a)
  PROVE  /\ a[1] \in Sides /\ a[2] \in Ids /\ a[3] \in Sendable(a[1])
         /\ a = <<a[1], a[2], a[3]>> /\ fields = Encode(a[1], a[2], a[3])
  BY DEF Inv, TypeOK, CarriesReply, Sendable

(* What is under way to a side, and is no response, is a request.          *)
LEMMA UnderWayIds ==
  ASSUME Inv, foreign = 0, NEW p \in Sides, NEW i \in UnderWay(p)
  PROVE  \E q \in sent : /\ q[1] = Peer(p) /\ CarriesRequest(wire[p][i].fields, q)
                         /\ IdOf(wire[p][i].fields) = q[2] /\ q[2] < session[Peer(p)].nextId
                         /\ Parity(q[2]) = OwnParity(Peer(p))
  <1> DEFINE fields == wire[p][i].fields
  <1>1. /\ i \in DOMAIN wire[p] /\ wire[p][i].kind = "message" /\ ~IsResponse(p, IdOf(fields))
        /\ Peer(p) \in Sides
    BY Zenon, Peers DEF UnderWay
  <1>2. CASE \E q \in sent : q[1] = Peer(p) /\ CarriesRequest(fields, q)
    <2>1. PICK q \in sent : q[1] = Peer(p) /\ CarriesRequest(fields, q)
      BY <1>2
    <2>2. Question(q[1], q[3]) \in Sendable(q[1]) /\ q[1] \in Sides
      BY Zenon, RequestFacts
    <2>3. IdOf(fields) = q[2]
      BY <2>1, <2>2, EncodedId DEF CarriesRequest
    <2>4. q[2] < session[Peer(p)].nextId /\ Parity(q[2]) = OwnParity(Peer(p))
      BY Zenon, <2>1 DEF Inv, Sending
    <2>5. QED
      BY <2>1, <2>3, <2>4
  <1>3. CASE \E a \in answered : a[1] = Peer(p) /\ CarriesReply(fields, a)
    <2>1. PICK a \in answered : a[1] = Peer(p) /\ CarriesReply(fields, a)
      BY Zenon, <1>3
    <2>2. IdOf(fields) = a[2]
      BY <2>1, ReplyFacts, EncodedId
    <2>3. PICK q \in sent : q[1] = Peer(a[1]) /\ q[2] = a[2]
      BY Zenon DEF Inv, AnswersOK
    <2>4. q[1] = p /\ Parity(q[2]) = OwnParity(p)
      BY <2>1, <2>3, Peers DEF Inv, Sending
    <2>5. IsResponse(p, a[2])
      BY Zenon, <2>3, <2>4 DEF IsResponse
    <2>6. QED
      BY Zenon, <1>1, <2>2, <2>5
  <1>4. QED
    BY Zenon, <1>1, <1>2, <1>3 DEF Inv, Shared, WireOK

(* An operation leaves the queue.                                          *)
LEMMA Tails ==
  ASSUME NEW S, NEW q \in Seq(S), q # <<>>
  PROVE  Tail(q) \in Seq(S) /\ From(Tail(q), q)
  BY Heads DEF From

----------------------------------------------------------------------------
(* Closing, stopping and expiring only take from a session.                *)

(* Session::close keeps the invariant.                                     *)
LEMMA CloseStep ==
  ASSUME Inv, NEW side \in Sides, Close(side)
  PROVE  Inv'
  <1> DEFINE t == Closed(session[side], "Closed")
  <1>1. session[side] \in SessionRecord /\ "Closed" \in Errors
    BY Reasons DEF Inv, TypeOK
  <1>2. /\ Shrinks(session[side], t) /\ t.closed # "open" /\ t.running = session[side].running
        /\ t.owned = session[side].owned /\ t \in SessionRecord
    BY <1>1, ClosedShrinks
  <1>3. Becomes(side, t) /\ UNCHANGED <<wire, notice, sent, answered, foreign, rejected>>
    BY DEF Close, history
  <1> HIDE DEF t
  <1>4. QED
    BY <1>2, <1>3, LocalStep

(* Dropping a session keeps it.                                            *)
LEMMA DropStep ==
  ASSUME Inv, NEW side \in Sides, Drop(side)
  PROVE  Inv'
  <1>1. session[side] \in SessionRecord /\ "Closed" \in Errors
    BY Reasons DEF Inv, TypeOK
  <1>2. PICK c : c = Closed(session[side], "Closed")
    OBVIOUS
  <1>3. /\ Shrinks(session[side], c) /\ c.closed # "open" /\ c.running = session[side].running
        /\ c \in SessionRecord
    BY <1>1, <1>2, ClosedShrinks
  <1>4. PICK t : t = [c EXCEPT !.owned = FALSE]
    BY Zenon
  <1>5. t \in SessionRecord
    BY Zenon, <1>3, <1>4 DEF SessionRecord
  <1>6. /\ t.asked = c.asked /\ t.nextId = c.nextId /\ t.held = c.held /\ t.promise = c.promise
        /\ t.outgoing = c.outgoing /\ t.incoming = c.incoming /\ t.outstanding = c.outstanding
        /\ t.reserved = c.reserved /\ t.closed = c.closed /\ t.running = c.running
    BY Zenon, <1>3, <1>4 DEF SessionRecord
  <1>7. Shrinks(session[side], t)
    BY <1>3, <1>6 DEF Shrinks
  <1>8. Becomes(side, t) /\ UNCHANGED <<wire, notice, sent, answered, foreign, rejected>>
    BY SMTT(30), <1>2, <1>4 DEF Drop, Dropped, history
  <1>9. QED
    BY <1>3, <1>5, <1>6, <1>7, <1>8, LocalStep

(* The end of the deadline worker keeps it.                                *)
LEMMA DeadlinesStopStep ==
  ASSUME Inv, NEW side \in Sides, DeadlinesStop(side)
  PROVE  Inv'
  <1>1. session[side] \in SessionRecord
    BY DEF Inv, TypeOK
  <1>2. PICK t : t = Stopped(session[side], "deadlines")
    OBVIOUS
  <1>3. /\ Shrinks(session[side], t) /\ t.closed = session[side].closed
        /\ t.owned = session[side].owned
        /\ t.running = session[side].running \ {"deadlines"} /\ t \in SessionRecord
    BY <1>1, <1>2, StoppedShrinks
  <1>4. Becomes(side, t) /\ UNCHANGED <<wire, notice, sent, answered, foreign, rejected>>
    BY Zenon, <1>2 DEF DeadlinesStop, history
  <1>5. QED
    BY <1>3, <1>4, LocalStep

(* The end of the stream keeps it.                                         *)
LEMMA StreamEndsStep ==
  ASSUME Inv, NEW side \in Sides, StreamEnds(side)
  PROVE  Inv'
  <1>1. session[side] \in SessionRecord /\ "Transport" \in Errors
    BY Reasons DEF Inv, TypeOK
  <1>2. PICK c : c = Closed(session[side], "Transport")
    OBVIOUS
  <1>3. /\ Shrinks(session[side], c) /\ c.closed # "open" /\ c.running = session[side].running
        /\ c \in SessionRecord
    BY <1>1, <1>2, ClosedShrinks
  <1>4. PICK t : t = Stopped(c, "reader")
    OBVIOUS
  <1>5. /\ Shrinks(c, t) /\ t.closed = c.closed /\ t.running = c.running \ {"reader"}
        /\ t \in SessionRecord
    BY <1>3, <1>4, StoppedShrinks
  <1>6. Shrinks(session[side], t)
    BY Zenon, <1>1, <1>3, <1>5, ShrinksTwice
  <1>7. Becomes(side, t) /\ UNCHANGED <<wire, notice, sent, answered, foreign, rejected>>
    BY <1>2, <1>4 DEF StreamEnds, history
  <1>8. QED
    BY Zenon, <1>3, <1>5, <1>6, <1>7, LocalStep

(* A notice over what is on the wire reaches the client or fails.          *)
LEMMA Notified ==
  ASSUME NEW w \in [Sides -> Seq(Items)], Notify(w)
  PROVE  /\ wire' \in [Sides -> Seq(Items)] /\ wire'[Server] = w[Server]
         /\ wire'[Client] = w[Client] \/ wire'[Client] = Append(w[Client], End)
         /\ notice' = "lost" \/ (notice' = "told" /\ EndComes')
  <1>1. /\ Client \in Sides /\ Server \in Sides /\ Client # Server
        /\ w[Client] \in Seq(Items) /\ End \in Items /\ End.kind = "end"
    BY DEF Sides, Client, Server, Items, End
  <1>2. CASE wire' = w /\ notice' = "lost"
    BY <1>2
  <1>3. CASE wire' = [w EXCEPT ![Client] = Append(@, End)] /\ notice' = "told"
    <2>1. PICK u : u = Append(w[Client], End)
      BY Zenon
    <2>2. u \in Seq(Items) /\ Len(w[Client]) + 1 \in DOMAIN u /\ u[Len(w[Client]) + 1] = End
      BY <1>1, <2>1, Appends
    <2>3. wire' = [w EXCEPT ![Client] = u]
      BY <1>3, <2>1
    <2>4. wire' \in [Sides -> Seq(Items)] /\ wire'[Client] = u /\ wire'[Server] = w[Server]
      BY <1>1, <2>2, <2>3
    <2>5. EndComes'
      BY Zenon, <1>1, <2>2, <2>4 DEF EndComes
    <2>6. QED
      BY Zenon, <1>3, <2>1, <2>4, <2>5
  <1>4. QED
    BY <1>2, <1>3 DEF Notify

(* A step that shrinks the session of the server, and tells the client.    *)
LEMMA NotifyStep ==
  ASSUME Inv, NEW t \in SessionRecord, Becomes(Server, t), Shrinks(session[Server], t),
         t.running \subseteq session[Server].running, t.owned = session[Server].owned,
         UNCHANGED <<sent, answered, foreign, rejected>>,
         NEW w \in [Sides -> Seq(Items)], Notify(w), w[Client] = wire[Client],
         \/ w[Server] = wire[Server]
         \/ Len(wire[Server]) > 0 /\ w[Server] = Tail(wire[Server])
  PROVE  Inv'
  <1>1. /\ Client \in Sides /\ Server \in Sides /\ Peer(Server) = Client
        /\ \A p \in Sides : p = Client \/ p = Server
    BY Zenon DEF Sides, Peer, Client, Server
  <1>2. session'[Server] = t /\ session'[Client] = session[Client]
    BY Zenon, <1>1, SessionUpdate DEF Inv
  <1>3. /\ wire' \in [Sides -> Seq(Items)] /\ wire'[Server] = w[Server]
        /\ wire'[Client] = w[Client] \/ wire'[Client] = Append(w[Client], End)
        /\ notice' = "lost" \/ (notice' = "told" /\ EndComes')
    BY Zenon, Notified
  <1>4. \A p \in Sides : WireKept(p)
    BY Zenon, <1>1, <1>3 DEF WireKept
  <1>5. EndKept
    <2>1. \A p \in Sides :
            /\ ~IsOpen(p) => ~IsOpen(p)'
            /\ session'[p].running \subseteq session[p].running
            /\ session'[p].owned = session[p].owned
      BY <1>1, <1>2 DEF IsOpen, Shrinks
    <2>2. notice' # "due"
      BY <1>3
    <2>3. QED
      BY Zenon, <1>2, <1>3, <2>1, <2>2 DEF EndKept
  <1>6. MalformedIsDeserved' /\ rejected' \in [Sides -> SUBSET (Envelopes \X BOOLEAN)]
    BY DeservedKeeps DEF Inv, TypeOK
  <1>7. QED
    BY Zenon, <1>1, <1>3, <1>4, <1>5, <1>6, ShrinkingStep

(* The end of the writer keeps it.                                         *)
LEMMA WriterStopsStep ==
  ASSUME Inv, NEW side \in Sides, WriterStops(side)
  PROVE  Inv'
  <1>1. TypeOK /\ session[side] \in SessionRecord
    BY DEF Inv, TypeOK
  <1>2. PICK t : t = Stopped(session[side], "writer")
    OBVIOUS
  <1>3. /\ Shrinks(session[side], t) /\ t.closed = session[side].closed
        /\ t.owned = session[side].owned
        /\ t.running = session[side].running \ {"writer"} /\ t \in SessionRecord
    BY <1>1, <1>2, StoppedShrinks
  <1>4. /\ Becomes(side, t) /\ Disconnect(side)
        /\ UNCHANGED <<sent, answered, foreign, rejected>>
    BY Zenon, <1>2 DEF WriterStops, history
  <1>5. CASE ~(side = Server /\ notice = "due")
    <2>1. wire' = wire /\ notice' = notice
      BY <1>4, <1>5 DEF Disconnect
    <2>2. /\ session'[side] = t /\ session'[Peer(side)] = session[Peer(side)]
          /\ \A p \in Sides : p = side \/ p = Peer(side)
      BY Zenon, <1>1, <1>3, <1>4, SessionUpdate, Peers
    <2>3. EndKept
      <3>1. /\ \A p \in Sides :
                 /\ ~IsOpen(p) => ~IsOpen(p)'
                 /\ session'[p].running \subseteq session[p].running
                 /\ session'[p].owned = session[p].owned
                 /\ "reader" \in session[p].running => "reader" \in session'[p].running
                 /\ "writer" \notin session'[p].running =>
                      "writer" \notin session[p].running \/ p = side
            /\ Client \in Sides /\ Server \in Sides
        BY <1>3, <2>2 DEF IsOpen, Sides
      <3>2. WireGrown(Client)
        BY Zenon, <2>1 DEF WireGrown
      <3>3. QED
        BY <1>5, <2>1, <3>1, <3>2 DEF EndKept
    <2>4. MalformedIsDeserved' /\ rejected' \in [Sides -> SUBSET (Envelopes \X BOOLEAN)]
      BY <1>4, DeservedKeeps DEF Inv, TypeOK
    <2>5. wire' \in [Sides -> Seq(Items)] /\ \A p \in Sides : WireKept(p)
      BY <1>1, <2>1, SameWire
    <2>6. QED
      BY Zenon, <1>3, <1>4, <2>3, <2>4, <2>5, ShrinkingStep
  <1>6. CASE side = Server /\ notice = "due"
    <2>1. Notify(wire) /\ wire \in [Sides -> Seq(Items)]
      BY <1>1, <1>4, <1>6 DEF Disconnect, TypeOK
    <2>2. QED
      BY Zenon, <1>1, <1>3, <1>4, <1>6, <2>1, NotifyStep
  <1>7. QED
    BY Zenon, <1>5, <1>6

(* Expiry only takes from the queue.                                       *)
LEMMA WithoutFrom ==
  ASSUME NEW queue \in Seq(Operations), NEW gone
  PROVE  Without(queue, gone) \in Seq(Operations) /\ From(Without(queue, gone), queue)
  <1>1. PICK late : late = {i \in DOMAIN queue : queue[i] \in gone}
    BY Zenon
  <1>2. CASE late = {}
    BY Zenon, <1>1, <1>2 DEF Without, From
  <1>3. CASE late # {}
    <2>1. PICK at : at = CHOOSE i \in late : TRUE
      OBVIOUS
    <2>2. at \in 1 .. Len(queue) /\ Len(queue) \in Nat
      BY <1>1, <1>3, <2>1
    <2>3. PICK w : w = [i \in 1 .. Len(queue) - 1 |-> queue[IF i < at THEN i ELSE i + 1]]
      BY Zenon
    <2>4. Without(queue, gone) = w
      BY <1>1, <1>3, <2>1, <2>3 DEF Without
    <2>5. DOMAIN w = 1 .. Len(queue) - 1 /\ Len(queue) - 1 \in Nat
      BY <2>2, <2>3
    <2>6. \A i \in 1 .. Len(queue) - 1 : \E j \in 1 .. Len(queue) : w[i] = queue[j]
      BY <2>2, <2>3
    <2>7. From(w, queue)
      BY <2>5, <2>6 DEF From
    <2>8. w \in Seq(Operations)
      BY SMTT(30), <2>2, <2>3, <2>5, <2>6
    <2>9. QED
      BY <2>4, <2>7, <2>8
  <1>4. QED
    BY <1>2, <1>3

(* A request that expires keeps it.                                        *)
LEMMA ExpireRequestStep ==
  ASSUME Inv, NEW side \in Sides, NEW n \in DOMAIN session[side].promise, ExpireRequest(side, n)
  PROVE  Inv'
  <1>1. session[side] \in SessionRecord /\ "Timeout" \in Errors
    BY Reasons DEF Inv, TypeOK
  <1>2. PICK f : f = [session[side] EXCEPT !.promise[n] = Failed("Timeout")]
    BY Zenon
  <1>3. /\ Shrinks(session[side], f) /\ f.closed = session[side].closed
        /\ f.owned = session[side].owned /\ f.running = session[side].running
        /\ f \in SessionRecord
    BY <1>1, <1>2, FailedShrinks
  <1>4. PICK late : Becomes(side, [session[side] EXCEPT !.promise[n] = Failed("Timeout"),
                                     !.outgoing = Without(session[side].outgoing, late)])
    BY Zenon DEF ExpireRequest
  <1>5. PICK w : w = Without(session[side].outgoing, late)
    BY Zenon
  <1>6. w \in Seq(Operations) /\ From(w, session[side].outgoing)
    BY <1>1, <1>5, Fields, WithoutFrom
  <1>7. PICK t : t = [f EXCEPT !.outgoing = w]
    BY Zenon
  <1>8. t \in SessionRecord
    BY Zenon, <1>3, <1>6, <1>7 DEF SessionRecord
  <1>9. /\ t.asked = f.asked /\ t.nextId = f.nextId /\ t.held = f.held /\ t.promise = f.promise
        /\ t.outgoing = w /\ t.incoming = f.incoming /\ t.outstanding = f.outstanding
        /\ t.reserved = f.reserved /\ t.closed = f.closed /\ t.running = f.running
        /\ t.owned = f.owned
    BY Zenon, <1>3, <1>7 DEF SessionRecord
  <1>10. Shrinks(session[side], t)
    BY <1>3, <1>6, <1>9 DEF Shrinks
  <1>11. Becomes(side, t)
    BY <1>2, <1>4, <1>5, <1>7
  <1>12. UNCHANGED <<wire, notice, sent, answered, foreign, rejected>>
    BY ZenonT(30) DEF ExpireRequest, history
  <1>13. QED
    BY <1>3, <1>8, <1>9, <1>10, <1>11, <1>12, LocalStep

(* A reply that expires keeps it.                                          *)
LEMMA ExpireReplyStep ==
  ASSUME Inv, NEW side \in Sides, NEW id, ExpireReply(side, id)
  PROVE  Inv'
  <1>1. PICK s : s = session[side] /\ s \in SessionRecord
    BY Zenon DEF Inv, TypeOK
  <1>2. PICK late : Becomes(side, [s EXCEPT !.outgoing = Without(s.outgoing, late),
                                            !.reserved = s.reserved \ {id}])
    BY Zenon, <1>1 DEF ExpireReply
  <1>3. PICK w : w = Without(s.outgoing, late)
    BY Zenon
  <1>4. w \in Seq(Operations) /\ From(w, s.outgoing) /\ s.reserved \ {id} \subseteq Ids
    BY <1>1, <1>3, Fields, WithoutFrom
  <1>5. PICK t : t = [s EXCEPT !.outgoing = w, !.reserved = s.reserved \ {id}]
    OBVIOUS
  <1>6. t \in SessionRecord
    BY Zenon, <1>1, <1>4, <1>5 DEF SessionRecord
  <1>7. /\ t.asked = s.asked /\ t.nextId = s.nextId /\ t.held = s.held /\ t.promise = s.promise
        /\ t.outgoing = w /\ t.incoming = s.incoming /\ t.outstanding = s.outstanding
        /\ t.reserved = s.reserved \ {id} /\ t.closed = s.closed /\ t.running = s.running
        /\ t.owned = s.owned
    BY <1>1, <1>5 DEF SessionRecord
  <1>8. Shrinks(s, t)
    BY <1>4, <1>7 DEF Shrinks, From
  <1>9. Becomes(side, t)
    BY <1>2, <1>3, <1>5
  <1>10. UNCHANGED <<wire, notice, sent, answered, foreign, rejected>>
    BY DEF ExpireReply, history
  <1>11. QED
    BY <1>1, <1>6, <1>7, <1>8, <1>9, <1>10, LocalStep

(* An answer joins the queue and the history of answers.                   *)
LEMMA AnswerStep ==
  ASSUME Inv, NEW side \in Sides, NEW id \in session[side].held,
         NEW result \in Answers[side] \cup {Err("Unanswered")}, Answer(side, id, result)
  PROVE  Inv'
  <1>1. PICK s : s = session[side] /\ s \in SessionRecord
    BY DEF Inv, TypeOK
  <1>2. id \in Ids /\ s.held \ {id} \subseteq Ids /\ result \in Results
    BY <1>1, Fields DEF Results, Sides
  <1>3. PICK r : r = [s EXCEPT !.held = s.held \ {id}]
    BY Zenon
  <1>4. r \in SessionRecord
    BY Zenon, <1>1, <1>2, <1>3 DEF SessionRecord
  <1>5. /\ r.asked = s.asked /\ r.nextId = s.nextId /\ r.held = s.held \ {id} /\ r.promise = s.promise
        /\ r.outgoing = s.outgoing /\ r.incoming = s.incoming /\ r.outstanding = s.outstanding
        /\ r.reserved = s.reserved /\ r.closed = s.closed /\ r.running = s.running
        /\ r.owned = s.owned
    BY SMTT(30), <1>1, <1>3 DEF SessionRecord
  <1>6. CASE ~IsOpen(side)
    <2>1. Becomes(side, r) /\ UNCHANGED <<wire, notice, sent, answered, foreign, rejected>>
      BY <1>1, <1>3, <1>6 DEF Answer
    <2>2. Shrinks(s, r)
      BY ZenonT(30), <1>5 DEF Shrinks, From
    <2>3. QED
      BY <1>1, <1>4, <1>5, <2>1, <2>2, LocalStep
  <1>7. CASE IsOpen(side)
    <2>1. PICK m : m = ReplyTo(id, result)
      OBVIOUS
    <2>2. m \in Operations /\ s.outgoing \in Seq(Operations) /\ Append(s.outgoing, m) \in Seq(Operations)
      BY <1>1, <1>2, <2>1, Fields DEF Operations
    <2>3. PICK t : t = [r EXCEPT !.outgoing = Append(s.outgoing, m)]
      BY Zenon
    <2>4. t \in SessionRecord
      BY Zenon, <1>4, <2>2, <2>3 DEF SessionRecord
    <2>5. /\ t.asked = s.asked /\ t.nextId = s.nextId /\ t.held = s.held \ {id} /\ t.promise = s.promise
          /\ t.outgoing = Append(s.outgoing, m) /\ t.incoming = s.incoming
          /\ t.outstanding = s.outstanding /\ t.reserved = s.reserved /\ t.closed = s.closed
          /\ t.running = s.running /\ t.owned = s.owned
      BY <1>4, <1>5, <2>3 DEF SessionRecord
    <2>6. /\ Becomes(side, t) /\ answered' = answered \cup {<<side, id, result>>}
          /\ UNCHANGED <<wire, notice, sent, foreign, rejected>>
      BY Zenon, <1>1, <1>3, <1>5, <1>7, <2>1, <2>3 DEF Answer
    <2>7. session'[side] = t
      BY Zenon, <2>4, <2>6, SessionUpdate DEF Inv
    <2>8. EndKept
      BY SMTT(30), <1>1, <2>4, <2>5, <2>6, WorkersKeepEnd DEF Inv
    <2>9. wire' \in [Sides -> Seq(Items)] /\ \A p \in Sides : WireKept(p)
      BY <2>6, SameWire DEF Inv
    <2>10. /\ answered \subseteq answered' /\ answered' \subseteq Sides \X Ids \X Results
           /\ <<side, id, result>> \in answered'
      BY <1>2, <2>6 DEF Inv, TypeOK
    <2>11. /\ RoutesKept(side) /\ IncomingKept(side) /\ PromisesKept(side) /\ HeldKept(side)
           /\ ReservedKept(side)
      BY Zenon, <1>1, <2>5, <2>7
         DEF RoutesKept, IncomingKept, PromisesKept, HeldKept, ReservedKept, From
    <2>12. ASSUME TypeOK', Grow PROVE Own(side)'
      <3>1. QueueOK(side)'
        <4>1. ASSUME NEW i \in DOMAIN t.outgoing
              PROVE  \/ \E n \in DOMAIN session'[side].asked :
                          t.outgoing[i] = AskedAs(n, session'[side].asked[n])
                     \/ \E a \in answered' : a[1] = side /\ t.outgoing[i] = ReplyTo(a[2], a[3])
          <5>1. CASE i \in DOMAIN s.outgoing /\ t.outgoing[i] = s.outgoing[i]
            BY <1>1, <2>5, <2>7, <2>10, <5>1 DEF Inv, Own, QueueOK, Question
          <5>2. CASE t.outgoing[i] = m
            BY Zenon, <2>1, <2>10, <5>2
          <5>3. QED
            BY SMTT(30), <2>2, <2>5, <5>1, <5>2
        <4>2. QED
          BY ZenonT(30), <2>7, <4>1 DEF QueueOK, Question
      <3>2. QED
        BY Zenon, <2>11, <2>12, <3>1, RoutesKeep, AdmittedKeeps, RespondedKeeps DEF Inv, Own
    <2>13. ASSUME TypeOK', Grow, foreign = 0 PROVE AnswersOK' /\ Shared(side)'
      <3>1. Shared(side)'
        <4>1. /\ TypeOK /\ Sending /\ WireOK(side) /\ IncomingOK(side) /\ HeldOK(side)
              /\ ReadyOK(side) /\ DoneOK(side) /\ OrderOK(side)
          BY Zenon, <2>13 DEF Inv, Shared
        <4>2. WireOK(side)' /\ IncomingOK(side)' /\ HeldOK(side)'
          BY Zenon, <2>9, <2>11, <2>13, <4>1, WireKeeps, IncomingKeeps, HeldKeeps
        <4>3. ReadyOK(side)' /\ DoneOK(side)' /\ OrderOK(side)'
          BY Zenon, <2>9, <2>11, <2>13, <4>1, ReadyKeeps, DoneKeeps, OrderKeeps
        <4>4. QED
          BY <4>2, <4>3 DEF Shared
      <3>2. result = Err("Unknown") => result \in Answers[side]
        <4>1. CASE result \in Answers[side]
          BY Zenon, <4>1
        <4>2. CASE result = Err("Unanswered")
          BY Zenon, <4>2 DEF Err
        <4>3. QED
          BY <4>1, <4>2
      <3>3. PICK k \in sent : k[1] = Peer(side) /\ k[2] = id /\ IsKnown(k)
        BY Zenon, <2>13 DEF Inv, Shared, HeldOK
      <3>4. ASSUME NEW a \in answered'
            PROVE  \E q \in sent' : q[1] = Peer(a[1]) /\ q[2] = a[2]
                                    /\ FitsBuild(a[1], IsKnown(q)', a[3])
        <4>1. CASE a \in answered
          <5>1. PICK q \in sent : q[1] = Peer(a[1]) /\ q[2] = a[2] /\ FitsBuild(a[1], IsKnown(q), a[3])
            BY Zenon, <2>13, <4>1 DEF Inv, AnswersOK
          <5>2. q \in sent' /\ IsKnown(q)' = IsKnown(q)
            BY ZenonT(30), <2>13, RequestsKeep DEF Inv
          <5>3. QED
            BY <5>1, <5>2 DEF FitsBuild
        <4>2. CASE a = <<side, id, result>>
          BY SMTT(30), <2>13, <3>2, <3>3, <4>2, RequestsKeep DEF Inv, FitsBuild
        <4>3. QED
          BY Zenon, <2>6, <4>1, <4>2
      <3>5. QED
        BY Zenon, <3>1, <3>4 DEF AnswersOK
    <2>14. QED
      BY SMTT(30), <1>1, <2>4, <2>5, <2>6, <2>8, <2>9, <2>10, <2>12, <2>13, SteadyStep DEF Steady
  <1>8. QED
    BY <1>6, <1>7

(* A request gets the next number and joins the queue; no ID is given yet. *)
LEMMA RequestStep ==
  ASSUME Inv, NEW side \in Sides, NEW result \in Offered[side], Request(side, result)
  PROVE  Inv'
  <1>1. PICK s : s = session[side] /\ s \in SessionRecord
    BY Zenon DEF Inv, TypeOK
  <1>2. /\ s.asked \in Seq(Results) /\ s.promise \in Seq(Outcomes) /\ s.outgoing \in Seq(Operations)
        /\ Len(s.asked) = Len(s.promise) /\ s.nextId \in Nat /\ s.closed \in Errors \cup {"open"}
    BY <1>1, Fields DEF Inv, Asking
  <1>3. PICK n : n = Len(s.promise) + 1
    BY Zenon
  <1>4. n \in Nat /\ result \in Results
    BY <1>2, <1>3 DEF Results, Sides
  <1>5. PICK m : m = AskedAs(n, result)
    OBVIOUS
  <1>6. m \in Operations
    BY <1>4, <1>5 DEF Operations
  <1>7. UNCHANGED <<wire, notice, sent, answered, foreign, rejected>>
    BY Zenon DEF Request, history
  <1>8. \E o \in {s.outgoing, Append(s.outgoing, m)}, p \in {Pending} \cup {Failed(e) : e \in Errors} :
          Becomes(side, [s EXCEPT !.asked = Append(s.asked, result), !.promise = Append(s.promise, p),
                                  !.outgoing = o])
    <2>1. CASE IsOpen(side)
      <3>1. Becomes(side, [s EXCEPT !.asked = Append(s.asked, result),
                                    !.promise = Append(s.promise, Pending),
                                    !.outgoing = Append(s.outgoing, m)])
        BY Zenon, <1>1, <1>3, <1>5, <2>1 DEF Request
      <3>2. QED
        BY Zenon, <3>1
    <2>2. CASE ~IsOpen(side)
      <3>1. PICK e : e = IF Freed(side) THEN "Closed" ELSE s.closed
        BY Zenon
      <3>2. e \in Errors
        BY <1>1, <1>2, <2>2, <3>1, Reasons DEF IsOpen
      <3>3. Becomes(side, [s EXCEPT !.asked = Append(s.asked, result),
                                    !.promise = Append(s.promise, Failed(e))])
        BY <1>1, <2>2, <3>1 DEF Request
      <3>4. [s EXCEPT !.asked = Append(s.asked, result), !.promise = Append(s.promise, Failed(e))]
              = [s EXCEPT !.asked = Append(s.asked, result),
                          !.promise = Append(s.promise, Failed(e)), !.outgoing = s.outgoing]
        BY Zenon, <1>1 DEF SessionRecord
      <3>5. QED
        BY Zenon, <3>2, <3>3, <3>4
    <2>3. QED
      BY Zenon, <2>1, <2>2
  <1>9. PICK o \in {s.outgoing, Append(s.outgoing, m)},
             p \in {Pending} \cup {Failed(e) : e \in Errors} :
          Becomes(side, [s EXCEPT !.asked = Append(s.asked, result), !.promise = Append(s.promise, p),
                                  !.outgoing = o])
    BY Zenon, <1>8
  <1>10. p \in Outcomes /\ p.state \in {"pending", "failed"}
    BY OutcomeTypes DEF Pending, Failed
  <1>11. PICK asked : asked = Append(s.asked, result)
    BY Zenon
  <1>12. /\ asked \in Seq(Results) /\ Len(asked) = n /\ asked[n] = result
         /\ \A k \in DOMAIN s.asked : k \in DOMAIN asked /\ asked[k] = s.asked[k]
         /\ \A k \in DOMAIN asked : k = n \/ k \in DOMAIN s.asked
    BY SMTT(30), <1>2, <1>3, <1>4, <1>11
  <1>13. PICK promise : promise = Append(s.promise, p)
    BY Zenon
  <1>14. /\ promise \in Seq(Outcomes) /\ Len(promise) = n /\ promise[n] = p
         /\ \A k \in DOMAIN promise : k = n \/ (k \in DOMAIN s.promise /\ promise[k] = s.promise[k])
    BY SMTT(30), <1>2, <1>3, <1>10, <1>13
  <1>15. /\ o \in Seq(Operations)
         /\ \A i \in DOMAIN o : o[i] = m \/ \E j \in DOMAIN s.outgoing : o[i] = s.outgoing[j]
    <2>1. CASE o = s.outgoing
      BY <1>2, <2>1
    <2>2. CASE o = Append(s.outgoing, m)
      BY <1>2, <1>6, <2>2, Appends
    <2>3. QED
      BY <2>1, <2>2
  <1>16. PICK t : t = [s EXCEPT !.asked = asked, !.promise = promise, !.outgoing = o]
    OBVIOUS
  <1>17. t \in SessionRecord
    BY Zenon, <1>1, <1>12, <1>14, <1>15, <1>16 DEF SessionRecord
  <1>18. /\ t.asked = asked /\ t.nextId = s.nextId /\ t.held = s.held /\ t.promise = promise
         /\ t.outgoing = o /\ t.incoming = s.incoming /\ t.outstanding = s.outstanding
         /\ t.reserved = s.reserved /\ t.closed = s.closed /\ t.running = s.running
         /\ t.owned = s.owned
    BY <1>1, <1>16 DEF SessionRecord
  <1>19. Becomes(side, t)
    BY SMTT(30), <1>9, <1>11, <1>13, <1>16
  <1>20. /\ session' \in [Sides -> SessionRecord]
         /\ session'[side] = t /\ session'[Peer(side)] = session[Peer(side)]
         /\ session[Peer(side)] \in SessionRecord
    BY <1>17, <1>19, SessionUpdate DEF Inv
  <1>21. TypeOK'
    BY <1>7, <1>20 DEF Inv, TypeOK
  <1>22. Peer(side) \in Sides /\ \A b \in Sides : b = side \/ b = Peer(side)
    BY ZenonT(30), Peers
  <1>23. Grow
    <2>1. session[Peer(side)].nextId \in Nat
      BY Zenon, <1>20, Fields
    <2>2. QED
      BY <1>1, <1>2, <1>7, <1>12, <1>18, <1>20, <1>22, <2>1 DEF Grow
  <1>24. Asking'
    <2>1. ASSUME NEW k \in DOMAIN asked PROVE asked[k] \in Offered[side]
      BY Zenon, <1>1, <1>12, <2>1 DEF Inv, Asking, Question
    <2>2. ASSUME NEW b \in Sides
          PROVE  /\ Len(session'[b].asked) = Len(session'[b].promise)
                 /\ \A k \in DOMAIN session'[b].asked : session'[b].asked[k] \in Offered[b]
                 /\ Parity(session'[b].nextId) = OwnParity(b)
      <3>1. CASE b = side
        <4>1. Parity(s.nextId) = OwnParity(side)
          BY Zenon, <1>1 DEF Inv, Asking
        <4>2. QED
          BY SMTT(30), <1>12, <1>14, <1>18, <1>20, <2>1, <3>1, <4>1
      <3>2. CASE b = Peer(side)
        BY ZenonT(30), <1>20, <1>22, <3>2 DEF Inv, Asking, Question
      <3>3. QED
        BY ZenonT(30), <1>22, <3>1, <3>2
    <2>3. QED
      BY Zenon, <2>2 DEF Asking, Question
  <1>25. Sending'
    <2>1. ASSUME NEW q \in sent
          PROVE  /\ q[2] < session'[q[1]].nextId /\ Parity(q[2]) = OwnParity(q[1])
                 /\ q[3] \in DOMAIN session'[q[1]].asked
                 /\ Refusal(q[1], session'[q[1]].asked[q[3]]) = "none"
      <3>1. /\ q[1] \in Sides /\ q[2] < session[q[1]].nextId /\ Parity(q[2]) = OwnParity(q[1])
            /\ q[3] \in DOMAIN session[q[1]].asked
            /\ Refusal(q[1], session[q[1]].asked[q[3]]) = "none"
        BY Zenon, RequestFacts DEF Inv, Sending, Question
      <3>2. session'[q[1]].nextId = session[q[1]].nextId
        BY Zenon, <1>1, <1>18, <1>20, <1>22, <3>1
      <3>3. QED
        BY Zenon, <1>23, <3>1, <3>2 DEF Grow
    <2>2. QED
      BY Zenon, <1>7, <2>1 DEF Inv, Sending, Question
  <1>26. /\ RoutesKept(side) /\ IncomingKept(side) /\ HeldKept(side) /\ ReservedKept(side)
    BY Zenon, <1>1, <1>18, <1>20 DEF RoutesKept, IncomingKept, HeldKept, ReservedKept, From
  <1>27. PromisesKept(side)
    BY Zenon, <1>1, <1>10, <1>14, <1>18, <1>20 DEF PromisesKept
  <1>28. QueueOK(side)'
    <2>1. n \in DOMAIN asked
      BY <1>3, <1>2, <1>12
    <2>2. ASSUME NEW i \in DOMAIN o
          PROVE  \/ \E k \in DOMAIN asked : o[i] = AskedAs(k, asked[k])
                 \/ \E a \in answered' : a[1] = side /\ o[i] = ReplyTo(a[2], a[3])
      <3>1. CASE o[i] = m
        BY ZenonT(30), <1>5, <1>12, <2>1, <3>1
      <3>2. CASE \E j \in DOMAIN s.outgoing : o[i] = s.outgoing[j]
        BY <1>1, <1>7, <1>12, <3>2 DEF Inv, Own, QueueOK, Question
      <3>3. QED
        BY Zenon, <1>15, <3>1, <3>2
    <2>3. QED
      BY Zenon, <1>18, <1>20, <2>2 DEF QueueOK, Question
  <1>29. Own(side)'
    BY ZenonT(30), <1>23, <1>26, <1>27, <1>28, RoutesKeep, AdmittedKeeps, RespondedKeeps DEF Inv,
       Own
  <1>30. Own(Peer(side))'
    BY ZenonT(30), <1>20, <1>22, <1>23, Untouched, KeepsOwn
  <1>31. \A b \in Sides : WireKept(b)
    BY <1>7, SameWire DEF Inv
  <1>32. ASSUME foreign = 0 PROVE AnswersOK' /\ Shared(side)' /\ Shared(Peer(side))'
    <2>1. AnswersOK'
      BY Zenon, <1>7, <1>23, <1>32, AnswersKeep DEF Inv
    <2>2. Shared(side)'
      BY ZenonT(30), <1>21, <1>23, <1>26, <1>27, <1>31, <1>32, WireKeeps, IncomingKeeps, HeldKeeps,
         ReadyKeeps,
         DoneKeeps, OrderKeeps DEF Inv, Shared
    <2>3. Shared(Peer(side))'
      BY ZenonT(30), <1>20, <1>21, <1>22, <1>23, <1>31, <1>32, Untouched, KeepsShared
    <2>4. QED
      BY <2>1, <2>2, <2>3
  <1>33. MalformedIsDeserved'
    BY <1>7, DeservedKeeps DEF Inv, TypeOK
  <1>34. Ending'
    <2>1. EndKept
      BY Zenon, <1>1, <1>7, <1>17, <1>18, <1>19, WorkersKeepEnd DEF Inv
    <2>2. QED
      BY Zenon, <2>1, EndingKeeps DEF Inv
  <1>35. \A b \in Sides : Own(b)'
    BY SMTT(30), <1>22, <1>29, <1>30
  <1>36. foreign' = 0 => AnswersOK' /\ \A b \in Sides : Shared(b)'
    BY <1>7, <1>22, <1>32
  <1>37. QED
    BY <1>21, <1>24, <1>25, <1>33, <1>34, <1>35, <1>36 DEF Inv
=============================================================================
