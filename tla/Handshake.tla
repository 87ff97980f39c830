----------------------------- MODULE Handshake -----------------------------
(***************************************************************************)
(* A transport client and a transport server over one byte stream:         *)
(* Client::connect, recv and send (transport/client.rs, sender.rs) with    *)
(* Server::recv, its handshake and disconnect (transport/server.rs).       *)
(*                                                                         *)
(* A direction of the stream is the frames its reader has not taken yet,   *)
(* as framing.rs cuts them.  Writes may fail at any byte and leave an      *)
(* unterminated or even a whole frame behind.  Cryptography is ideal: a    *)
(* frame names the keys it was made with, and only they open it.           *)
(***************************************************************************)
EXTENDS Naturals, Sequences

CONSTANTS
  MaxAttempts,   \* bound on the client's connection attempts
  MaxMessages,   \* bound on the messages sealed per session and direction
  MaxFaults      \* bound on failed writes and reads, timeouts and refusals

ASSUME HandshakeAssumption == {MaxAttempts, MaxMessages, MaxFaults} \subseteq Nat

(* Frames.  An attempt of the client has fresh keys, and so has an answer  *)
(* of the server; a pair of them is a session.                             *)
Frame(type, keys, n) == [type |-> type, keys |-> keys, n |-> n]
NoKeys == <<0, 0>>
Empty == Frame("empty", NoKeys, 0)
Garbage == Frame("garbage", NoKeys, 0)

VARIABLES
  c2s, s2c,    \* directions: frames to read, undelimited tail, resync flag
  attempt,     \* number of attempts of the client, its current keys
  connecting,  \* "no", or the step of Client::handshake: "hello" or "ark"
  client,      \* session of the client's contexts, or NoKeys
  cbound,      \* the client's binding is that session
  csent,       \* messages the client sealed in it
  crcvd,       \* messages it opened
  answer,      \* number of HostHellos answered, the server's current keys
  serving,     \* "frames", "reset" when one is owed a handshake at the next
               \* recv, or the step of Server::handshake: "hello" or "ack"
  offer,       \* keys of the ArkHello whose HostAck is awaited
  server, sbound, ssent, srcvd,   \* the same of the server
  faults       \* failures so far

clientVars == <<attempt, connecting, client, cbound, csent, crcvd>>
serverVars == <<answer, serving, offer, server, sbound, ssent, srcvd>>
vars == <<c2s, s2c, clientVars, serverVars, faults>>

Init ==
  /\ c2s = [frames |-> <<>>, tail |-> Empty, resync |-> FALSE]
  /\ s2c = [frames |-> <<>>, tail |-> Empty, resync |-> FALSE]
  /\ attempt = 0
  /\ connecting = "no"
  /\ client = NoKeys
  /\ cbound = FALSE
  /\ csent = 0
  /\ crcvd = 0
  /\ answer = 0
  /\ serving = "frames"
  /\ offer = NoKeys
  /\ server = NoKeys
  /\ sbound = FALSE
  /\ ssent = 0
  /\ srcvd = 0
  /\ faults = 0
----------------------------------------------------------------------------
(* FrameWriter.  A delimiter turns the tail into a frame: the empty one if *)
(* nothing was written since the last delimiter.                           *)
Delimited(d) == [d EXCEPT !.frames = Append(@, d.tail), !.tail = Empty]

Recovered(d) == IF d.resync THEN Delimited(d) ELSE d

(* Content after an undelimited tail merges with it.                       *)
WithContent(d, f) == [d EXCEPT !.tail = IF @ = Empty THEN f ELSE Garbage]

Written(d, f) == [Delimited(WithContent(Recovered(d), f)) EXCEPT !.resync = FALSE]
Signalled(d) == [Delimited(Recovered(d)) EXCEPT !.resync = FALSE]
WasReset(d) == [Delimited(Delimited(d)) EXCEPT !.resync = FALSE]

(* What a failed write may leave: nothing, its recovery delimiter, part of *)
(* the frame, all but its delimiter, or all of it when the flush failed or *)
(* was late.                                                               *)
Failed(ds) == {[d EXCEPT !.resync = TRUE] : d \in ds}
FailedWrites(d, f) ==
  Failed({d, Recovered(d), Written(d, f)}
           \cup {WithContent(Recovered(d), g) : g \in {f, Garbage}})
FailedSignals(d) == Failed({d, Recovered(d), Signalled(d)})
FailedResets(d) == Failed({d, Delimited(d), WasReset(d)})

(* A server follows a failed packet by an empty frame, unless the failure  *)
(* was a timeout; that may fail as well.                                   *)
ServerFailures(d, f) ==
  UNION {{e, Signalled(e)} \cup FailedSignals(e) : e \in FailedWrites(d, f)}

Fault == faults < MaxFaults /\ faults' = faults + 1
----------------------------------------------------------------------------
(* The client.                                                             *)
ClientEnds == client' = NoKeys /\ cbound' = FALSE /\ csent' = 0 /\ crcvd' = 0

(* Client::connect: the contexts go, then reset and hello are sent.        *)
Connect ==
  /\ connecting = "no"
  /\ attempt < MaxAttempts
  /\ attempt' = attempt + 1
  /\ ClientEnds
  /\ \/ c2s' = WasReset(c2s) /\ connecting' = "hello" /\ UNCHANGED faults
     \/ c2s' \in FailedResets(c2s) /\ connecting' = "no" /\ Fault
  /\ UNCHANGED <<s2c, serverVars>>

SendHello ==
  LET hello == Frame("hello", <<attempt, 0>>, 0) IN
  /\ connecting = "hello"
  /\ \/ c2s' = Written(c2s, hello) /\ connecting' = "ark" /\ UNCHANGED faults
     \/ c2s' \in FailedWrites(c2s, hello) /\ connecting' = "no" /\ Fault
  /\ UNCHANGED <<s2c, attempt, client, cbound, csent, crcvd, serverVars>>

TakeS2c == s2c' = [s2c EXCEPT !.frames = Tail(@)]

(* Everything is skipped until an ArkHello for this attempt's key.         *)
MyArk(f) == f.type = "ark" /\ f.keys[1] = attempt

SkipStale ==
  /\ connecting = "ark"
  /\ s2c.frames # <<>>
  /\ ~MyArk(Head(s2c.frames))
  /\ TakeS2c
  /\ UNCHANGED <<c2s, clientVars, serverVars, faults>>

(* It is verified, the HostAck is sent and the session is bound.           *)
TakeArk ==
  /\ connecting = "ark"
  /\ s2c.frames # <<>>
  /\ MyArk(Head(s2c.frames))
  /\ TakeS2c
  /\ LET keys == Head(s2c.frames).keys
         ack == Frame("ack", keys, 0)
     IN \/ /\ c2s' = Written(c2s, ack)
           /\ client' = keys
           /\ cbound' = TRUE
           /\ UNCHANGED faults
        \/ /\ c2s' \in FailedWrites(c2s, ack) \cup {c2s}
           /\ Fault
           /\ UNCHANGED <<client, cbound>>
  /\ connecting' = "no"
  /\ UNCHANGED <<attempt, csent, crcvd, serverVars>>

ConnectTimeout ==
  /\ connecting = "ark"
  /\ connecting' = "no"
  /\ Fault
  /\ UNCHANGED <<c2s, s2c, attempt, client, cbound, csent, crcvd, serverVars>>

(* Sender::disconnect at a client only removes the binding.                *)
ClientDisconnect ==
  /\ client # NoKeys
  /\ cbound
  /\ cbound' = FALSE
  /\ Fault
  /\ UNCHANGED <<c2s, s2c, attempt, connecting, client, csent, crcvd, serverVars>>

(* A failed send ends the binding.                                         *)
StayBound == UNCHANGED cbound
Unbind == cbound' = FALSE

ClientSend ==
  LET message == Frame("message", client, csent + 1) IN
  /\ connecting = "no"
  /\ client # NoKeys
  /\ cbound
  /\ csent < MaxMessages
  /\ csent' = csent + 1
  /\ \/ c2s' = Written(c2s, message) /\ UNCHANGED <<cbound, faults>>
     \/ c2s' \in FailedWrites(c2s, message) /\ Unbind /\ Fault
  /\ UNCHANGED <<s2c, attempt, connecting, client, crcvd, serverVars>>

(* Client::recv: the next message of a bound session is accepted, anything *)
(* else ends the session.                                                  *)
ClientRecv ==
  /\ connecting = "no"
  /\ client # NoKeys
  /\ s2c.frames # <<>>
  /\ TakeS2c
  /\ IF cbound /\ Head(s2c.frames) = Frame("message", client, crcvd + 1)
       THEN crcvd' = crcvd + 1 /\ UNCHANGED <<client, cbound, csent>>
       ELSE ClientEnds
  /\ UNCHANGED <<c2s, attempt, connecting, serverVars, faults>>

(* The same call when the adapter's read fails or meets the end of its     *)
(* stream: the session ends with no frame taken.  At a server outside a    *)
(* handshake such a failure changes nothing.                               *)
ClientReadFails ==
  /\ connecting = "no"
  /\ client # NoKeys
  /\ ClientEnds
  /\ Fault
  /\ UNCHANGED <<c2s, s2c, attempt, connecting, serverVars>>
----------------------------------------------------------------------------
(* The server.                                                             *)
ServerEnds == server' = NoKeys /\ sbound' = FALSE /\ ssent' = 0 /\ srcvd' = 0

TakeC2s == c2s.frames # <<>> /\ c2s' = [c2s EXCEPT !.frames = Tail(@)]

(* send_dropped; its failure is only logged.                               *)
SilentDrop == UNCHANGED <<s2c, faults>>
SendDropped ==
  \/ s2c' = Signalled(s2c) /\ UNCHANGED faults
  \/ s2c' \in FailedSignals(s2c) /\ Fault

(* Server::recv outside a handshake: an empty frame ends the session and   *)
(* starts a handshake, at the next call if it returns Disconnected; a      *)
(* message is accepted; other data ends the session and is answered by an  *)
(* empty frame.                                                            *)
ServerReset ==
  /\ serving = "frames"
  /\ TakeC2s
  /\ Head(c2s.frames) = Empty
  /\ ServerEnds
  /\ serving' = IF server = NoKeys THEN "hello" ELSE "reset"
  /\ UNCHANGED <<s2c, clientVars, answer, offer, faults>>

StartHandshake ==
  /\ serving = "reset"
  /\ serving' = "hello"
  /\ UNCHANGED <<c2s, s2c, clientVars, answer, offer, server, sbound, ssent, srcvd, faults>>

(* Server::recv with Outbound::finish_receive: the next message, and only  *)
(* while the session it was opened for is still bound.                     *)
AcceptsUnbound(f) == f = Frame("message", server, srcvd + 1)
ServerAccepts(f) == sbound /\ f = Frame("message", server, srcvd + 1)

ServerMessage ==
  /\ serving = "frames"
  /\ TakeC2s
  /\ ServerAccepts(Head(c2s.frames))
  /\ srcvd' = srcvd + 1
  /\ UNCHANGED <<s2c, clientVars, answer, serving, offer, server, sbound, ssent, faults>>

ServerRefuses ==
  /\ serving = "frames"
  /\ TakeC2s
  /\ Head(c2s.frames) # Empty
  /\ ~ServerAccepts(Head(c2s.frames))
  /\ ServerEnds
  /\ SendDropped
  /\ UNCHANGED <<clientVars, answer, serving, offer>>

(* Server::handshake.  Empty frames before the HostHello are skipped.      *)
SkipReset ==
  /\ serving = "hello"
  /\ TakeC2s
  /\ Head(c2s.frames) = Empty
  /\ UNCHANGED <<s2c, clientVars, serverVars, faults>>

TakeHello ==
  /\ serving = "hello"
  /\ TakeC2s
  /\ Head(c2s.frames).type = "hello"
  /\ answer' = answer + 1
  /\ LET keys == <<Head(c2s.frames).keys[1], answer'>>
         ark == Frame("ark", keys, 0)
     IN \/ /\ s2c' = Written(s2c, ark)
           /\ serving' = "ack"
           /\ offer' = keys
           /\ UNCHANGED faults
        \/ /\ s2c' \in ServerFailures(s2c, ark)
           /\ serving' = "frames"
           /\ Fault
           /\ UNCHANGED offer
  /\ UNCHANGED <<clientVars, server, sbound, ssent, srcvd>>

(* An empty frame instead of the HostAck is another reset.                 *)
Restart ==
  /\ serving = "ack"
  /\ TakeC2s
  /\ Head(c2s.frames) = Empty
  /\ serving' = "hello"
  /\ UNCHANGED <<s2c, clientVars, answer, offer, server, sbound, ssent, srcvd, faults>>

MyAck(f) == f = Frame("ack", offer, 0)

TakeAck ==
  /\ serving = "ack"
  /\ TakeC2s
  /\ MyAck(Head(c2s.frames))
  /\ server' = offer
  /\ sbound' = TRUE
  /\ ssent' = 0
  /\ srcvd' = 0
  /\ serving' = "frames"
  /\ UNCHANGED <<s2c, clientVars, answer, offer, faults>>

(* Any other frame fails the handshake, which is answered.                 *)
HandshakeFails ==
  /\ TakeC2s
  /\ \/ serving = "hello" /\ Head(c2s.frames).type \notin {"empty", "hello"}
     \/ serving = "ack" /\ Head(c2s.frames) # Empty /\ ~MyAck(Head(c2s.frames))
  /\ serving' = "frames"
  /\ SendDropped
  /\ UNCHANGED <<clientVars, answer, offer, server, sbound, ssent, srcvd>>

HandshakeTimeout ==
  /\ serving \in {"hello", "ack"}
  /\ serving' = "frames"
  /\ Fault
  /\ UNCHANGED <<c2s, s2c, clientVars, answer, offer, server, sbound, ssent, srcvd>>

ServerSend ==
  LET message == Frame("message", server, ssent + 1) IN
  /\ server # NoKeys
  /\ sbound
  /\ ssent < MaxMessages
  /\ ssent' = ssent + 1
  /\ \/ s2c' = Written(s2c, message) /\ UNCHANGED <<sbound, faults>>
     \/ s2c' \in ServerFailures(s2c, message) /\ sbound' = FALSE /\ Fault
  /\ UNCHANGED <<c2s, clientVars, answer, serving, offer, server, srcvd>>

(* Server::disconnect, between two calls of recv, with or without a        *)
(* session, and Sender::disconnect, which leaves the receive context.      *)
Disconnect ==
  /\ serving \in {"frames", "reset"}
  /\ ServerEnds
  /\ Fault
  /\ s2c' \in {Signalled(s2c)} \cup FailedSignals(s2c)
  /\ UNCHANGED <<c2s, clientVars, answer, serving, offer>>

SenderDisconnect ==
  /\ server # NoKeys
  /\ sbound
  /\ sbound' = FALSE
  /\ Fault
  /\ s2c' \in {Signalled(s2c)} \cup FailedSignals(s2c)
  /\ UNCHANGED <<c2s, clientVars, answer, serving, offer, server, ssent, srcvd>>
----------------------------------------------------------------------------
ClientStep == SendHello \/ SkipStale \/ TakeArk \/ ClientRecv

ServerStep ==
  \/ ServerReset
  \/ StartHandshake
  \/ ServerMessage
  \/ ServerRefuses
  \/ SkipReset
  \/ TakeHello
  \/ Restart
  \/ TakeAck
  \/ HandshakeFails

Next ==
  \/ ClientStep
  \/ ServerStep
  \/ Connect
  \/ ConnectTimeout
  \/ ClientDisconnect
  \/ ClientSend
  \/ ClientReadFails
  \/ HandshakeTimeout
  \/ ServerSend
  \/ Disconnect
  \/ SenderDisconnect

Spec == Init /\ [][Next]_vars

(* Both sides take what arrives; nobody has to connect or to send.         *)
FairSpec == Spec /\ WF_vars(ClientStep) /\ WF_vars(ServerStep)
----------------------------------------------------------------------------
(* The messages first+1 .. last of a session, in order.                    *)
Messages(keys, first, last) == [i \in 1 .. last - first |-> Frame("message", keys, first + i)]

(* When both ends hold the same session, nothing else is in flight: each   *)
(* direction carries exactly the messages sealed and not yet opened, in    *)
(* order, with no stale signal, handshake frame or fragment that would end *)
(* the session.                                                            *)
SharedSessionIsClean ==
  client = server /\ client # NoKeys /\ cbound /\ sbound =>
    /\ c2s.frames = Messages(client, srcvd, csent) /\ c2s.tail = Empty
    /\ s2c.frames = Messages(server, crcvd, ssent) /\ s2c.tail = Empty

(* A client is not left alone in a session: when the server is not in it   *)
(* any more, the HostAck is still to be refused, or a frame that ends it   *)
(* is on its way, or the notice failed and the server's next output ends   *)
(* it.                                                                     *)
LostSessionIsTold ==
  client # NoKeys /\ cbound /\ server # client =>
    \/ s2c.resync
    \/ \E i \in DOMAIN c2s.frames : c2s.frames[i] = Frame("ack", client, 0)
    \/ \E i \in DOMAIN s2c.frames :
         ~(s2c.frames[i].type = "message" /\ s2c.frames[i].keys = client)

(* Once nothing fails any more, the stream recovers.  An attempt whose     *)
(* reset the server has yet to read yields a session, whatever earlier     *)
(* attempts left on the stream, at the client and at the server.  And a    *)
(* client that speaks in a session which a failed send has ended at the    *)
(* server is not listened to: it is told, even if the first notice was     *)
(* lost.                                                                   *)
StreamRecovers ==
  /\ connecting = "hello" /\ c2s.frames # <<>> /\ faults = MaxFaults
       ~> client # NoKeys /\ client = server
  /\ cbound /\ ~sbound /\ c2s.frames # <<>> /\ faults = MaxFaults
       ~> ~cbound \/ sbound
============================================================================
