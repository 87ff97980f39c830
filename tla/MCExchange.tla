----------------------------- MODULE MCExchange -----------------------------
(***************************************************************************)
(* A host that knows one content (8192) its Ark does not, and an Ark that  *)
(* knows one (8193) its host does not.                                     *)
(***************************************************************************)
EXTENDS Exchange, TLC

Unlock == 1281
RelayOutbound == 1027

MCSchema == Client :> (Tags \cup {8192}) @@ Server :> (Tags \cup {8193})
MCOffered ==
  Client :> {Ok(HostToArk(Unlock), "a"), Ok(HostToArk(8192), "a")}
  @@ Server :> {Ok(ArkToHost(RelayOutbound), "a"), Ok(HostToArk(RelayOutbound), "a")}
MCAnswers ==
  Client :> {Ok(HostToArk(RelayOutbound), "big"), Err("big")}
  @@ Server :> {Ok(ArkToHost(Unlock), "a"), Ok(ArkToHost(8193), "a")}
MCMaxInbound == Client :> 1 @@ Server :> 2
MCForeign ==
  LET id(n) == Field(IdTag, "varint", n)
      content(tag) == Field(tag, "bytes", "b")
      err == Field(ErrTag, "bytes", "other")
      unsound == [content(Unlock) EXCEPT !.sound = FALSE]
      cut == [content(Unlock) EXCEPT !.wire = "cut"]
  IN  {<<content(Unlock)>>, <<id(1), cut>>, <<id(1), unsound>>, <<id(1), err>>,
       <<id(1), err, content(9000)>>, <<id(2), content(9000)>>,
       <<id(2), id(1), content(FirstContentTag), content(9000)>>}
=============================================================================
