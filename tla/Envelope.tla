------------------------------ MODULE Envelope ------------------------------
(***************************************************************************)
(* The envelope codec (protocol/envelope.rs, message.rs and the generated  *)
(* schema).  An encoded envelope is the sequence of its top-level Protobuf *)
(* fields.  A field is                                                     *)
(*   [tag, wire, value, sound]                                             *)
(* where wire is its wire type, or "cut" for a field whose bytes end too   *)
(* early, and sound says whether a nested payload decodes.  Protobuf's own *)
(* rules (prost) are external: the last ID wins, an absent ID is zero,     *)
(* unknown tags are skipped, and a body given again is merged when it is   *)
(* the same one and replaced when it is another.                           *)
(***************************************************************************)
EXTENDS Naturals, Sequences, FiniteSets

CONSTANTS
  Schema,     \* side -> the content tags its build knows
  Oversized   \* contents and errors too large for MAX_MESSAGE_SIZE

Client == "client"
Server == "server"
Sides == {Client, Server}
Peer(side) == IF side = Client THEN Server ELSE Client
----------------------------------------------------------------------------
(* The schema.  Both directions number their contents alike: bodies of one *)
(* tag are a request and its response.                                     *)

IdTag == 1
ErrTag == 2
FirstContentTag == 256

Tags ==
  256..260 \cup 513..517 \cup 769..774 \cup 1025..1027 \cup 1281..1290
    \cup 1537..1544 \cup {1793, 4096}

(* The Ark asks these of the host: relay_outbound, exec_module_size and    *)
(* exec_module_read.                                                       *)
ArkAsks == {1027, 1289, 1290}
Develop == 4096

Body(tag, form) == [tag |-> tag, form |-> form]

HostToArk(tag) ==
  Body(tag, CASE tag = Develop -> "Develop"
              [] tag \in ArkAsks -> "Response"
              [] OTHER -> "Request")

ArkToHost(tag) ==
  Body(tag, CASE tag = Develop -> "Develop"
              [] tag \in ArkAsks -> "Request"
              [] OTHER -> "Response")

(* The content a side puts in, and the content it takes from the other.    *)
Content(side, tag) == IF side = Client THEN HostToArk(tag) ELSE ArkToHost(tag)

Messages == {HostToArk(tag) : tag \in Tags} \cup {ArkToHost(tag) : tag \in Tags}

(* TryFrom<Message> for Content.                                           *)
CanSend(side, body) == body.tag \in Schema[side] /\ body = Content(side, body.tag)
----------------------------------------------------------------------------
(* Request IDs: hosts allocate odd ones and Arks even ones.                *)

Parity(id) == id % 2
OwnParity(side) == IF side = Client THEN 1 ELSE 0
FirstId(side) == IF side = Client THEN 1 ELSE 2
IsResponse(side, id) == Parity(id) = OwnParity(side)
----------------------------------------------------------------------------
(* Side::encode.  A result is Ok(body, payload) or Err(code).              *)

Ok(body, value) == [ok |-> TRUE, body |-> body, value |-> value]
Err(code) == [ok |-> FALSE, code |-> code]

Field(tag, wire, value) == [tag |-> tag, wire |-> wire, value |-> value, sound |-> TRUE]

Payload(result) == IF result.ok THEN result.value ELSE result.code

Refusal(side, result) ==
  IF result.ok /\ ~CanSend(side, result.body) THEN "WrongDirection"
  ELSE IF Payload(result) \in Oversized THEN "TooLarge" ELSE "none"

Encode(side, id, result) ==
  <<Field(IdTag, "varint", id),
    Field(IF result.ok THEN result.body.tag ELSE ErrTag, "bytes", Payload(result))>>
----------------------------------------------------------------------------
(* Reading an envelope.                                                    *)

(* Where an envelope has fields of these tags, and the last one of them.   *)
Having(fields, tags) == {i \in DOMAIN fields : fields[i].tag \in tags}
Last(fields, tags) ==
  LET at == Having(fields, tags) IN fields[CHOOSE i \in at : \A j \in at : j <= i]

WireOf(tag) == IF tag = IdTag THEN "varint" ELSE "bytes"

Parses(side, fields) ==
  \A i \in DOMAIN fields :
    LET f == fields[i] IN
    /\ f.wire # "cut"
    /\ f.tag \in {IdTag, ErrTag} \cup Schema[side] => f.wire = WireOf(f.tag)

IdOf(fields) ==
  IF Having(fields, {IdTag}) = {} THEN 0 ELSE Last(fields, {IdTag}).value

(* Content this build does not know is content still.                      *)
NeverUnknown(side, fields) == FALSE
Unknown(side, fields) ==
  /\ Having(fields, Schema[side]) = {}
  /\ \E i \in DOMAIN fields : fields[i].tag >= FirstContentTag

(* Side::decode_header, on the schema with opaque bodies.                  *)
DecodeHeader(side, fields) ==
  LET failed == Having(fields, {ErrTag}) # {}
      unknown == Unknown(side, fields)
      known == Having(fields, Schema[side]) # {}
  IN  [ok |-> Parses(side, fields) /\ (known \/ unknown) # failed,
       id |-> IdOf(fields), failed |-> failed, unknown |-> unknown]

(* Side::decode, on the full schema, where a nested body can be malformed. *)
Decodes(side, fields) ==
  /\ Parses(side, fields)
  /\ \A i \in DOMAIN fields :
       fields[i].tag \in {ErrTag} \cup Schema[side] => fields[i].sound

HasOneBody(side, fields) ==
  (Having(fields, Schema[side]) # {}) # (Having(fields, {ErrTag}) # {})

DecodeOk(side, fields) == Decodes(side, fields) /\ HasOneBody(side, fields)

Decode(side, fields) ==
  IF Having(fields, Schema[side]) # {}
  THEN LET content == Last(fields, Schema[side])
       IN  Ok(Content(Peer(side), content.tag), content.value)
  ELSE Err(Last(fields, {ErrTag}).value)
=============================================================================
