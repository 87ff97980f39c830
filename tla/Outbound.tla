----------------------------- MODULE Outbound ------------------------------
(***************************************************************************)
(* Output and session boundaries of one byte stream: transport/outbound.rs *)
(* with the handles that send through it (sender.rs) and the calls of its  *)
(* owner, the transport client or server.                                  *)
(*                                                                         *)
(* Three locks order it.  The encryption lock of a session is held from    *)
(* sealing until the writer lock is held; the writer lock covers a frame's *)
(* complete write and flush and every change of the binding; the binding   *)
(* lock covers one access of the binding, so each access is one step.      *)
(* Sessions are numbered in the order in which they are bound.             *)
(***************************************************************************)
EXTENDS Naturals

CONSTANTS
  Threads,       \* threads that use Sender handles
  Side,          \* "Client" or "Server"
  MaxSessions,   \* bound on the sessions bound to the stream
  MaxSeals       \* bound on the messages sealed in a session

ASSUME OutboundAssumption ==
  /\ Side \in {"Client", "Server"}
  /\ MaxSessions \in Nat
  /\ MaxSeals \in Nat

Sessions == 1 .. MaxSessions
NoSession == 0
Owner == "owner"
NoOne == "none"

ASSUME ThreadsAssumption == Owner \notin Threads /\ NoOne \notin Threads

VARIABLES
  binding,   \* session that may write and accept messages
  bound,     \* number of sessions bound so far
  owned,     \* session whose contexts the owner retains
  sealer,    \* sealer[s]: holder of the encryption lock of s
  sealed,    \* sealed[s]: sequence number of the last message sealed in s
  writer,    \* holder of the writer lock
  pc,        \* pc[t]: where thread t is in send or disconnect
  ctx,       \* ctx[t]: session of the handle t uses
  seq,       \* seq[t]: sequence number of the packet t has sealed
  stage,     \* where the owner is
  written,   \* history: sequence number of the last frame of s on the wire
  fence      \* history: sessions up to here had ended when the last
             \* handshake frame or notification was written, if only in part

vars == <<binding, bound, owned, sealer, sealed, writer, pc, ctx, seq, stage, written, fence>>

senders == <<sealer, sealed, pc, ctx, seq>>

Init ==
  /\ binding = NoSession
  /\ bound = 0
  /\ owned = NoSession
  /\ sealer = [s \in Sessions |-> NoOne]
  /\ sealed = [s \in Sessions |-> 0]
  /\ writer = NoOne
  /\ pc = [t \in Threads |-> "idle"]
  /\ ctx = [t \in Threads |-> NoSession]
  /\ seq = [t \in Threads |-> 0]
  /\ stage = "idle"
  /\ written = [s \in Sessions |-> 0]
  /\ fence = 0
----------------------------------------------------------------------------
(* Weak::upgrade of a session's sending context: its owner retains it, or  *)
(* a call in progress does.                                                *)
Retained(s) == owned = s \/ \E t \in Threads : pc[t] # "idle" /\ ctx[t] = s

SendCall(t, s) ==
  /\ pc[t] = "idle"
  /\ Retained(s)
  /\ pc' = [pc EXCEPT ![t] = "seal"]
  /\ ctx' = [ctx EXCEPT ![t] = s]
  /\ UNCHANGED <<binding, bound, owned, sealer, sealed, writer, seq, stage, written, fence>>

(* Sealing takes the encryption lock and keeps it until the writer lock is *)
(* held.                                                                   *)
SequenceLeft(s) == sealed[s] < MaxSeals

HoldSealerNot(t, s) == UNCHANGED sealer
HoldSealer(t, s) == sealer' = [sealer EXCEPT ![s] = t]

SendSeal(t) ==
  LET s == ctx[t] IN
  /\ pc[t] = "seal"
  /\ sealer[s] = NoOne
  /\ SequenceLeft(s)
  /\ HoldSealer(t, s)
  /\ sealed' = [sealed EXCEPT ![s] = @ + 1]
  /\ seq' = [seq EXCEPT ![t] = sealed[s] + 1]
  /\ pc' = [pc EXCEPT ![t] = "queue"]
  /\ UNCHANGED <<binding, bound, owned, writer, ctx, stage, written, fence>>

(* A message that is too large is refused before it is sealed, with or     *)
(* without a binding, and changes nothing.                                 *)
SendOversized(t) ==
  /\ pc[t] = "seal"
  /\ sealer[ctx[t]] = NoOne
  /\ pc' = [pc EXCEPT ![t] = "idle"]
  /\ UNCHANGED <<binding, bound, owned, sealer, sealed, writer, ctx, seq, stage, written, fence>>

(* Writer::send checks the binding under the writer lock, and the lock is  *)
(* kept for the write.                                                     *)
IsBound(s) == binding = s

KeepSealer(s) == UNCHANGED sealer
ReleaseSealer(s) == sealer' = [sealer EXCEPT ![s] = NoOne]

SendLock(t) ==
  /\ pc[t] = "queue"
  /\ writer = NoOne
  /\ IsBound(ctx[t])
  /\ ReleaseSealer(ctx[t])
  /\ writer' = t
  /\ pc' = [pc EXCEPT ![t] = "write"]
  /\ UNCHANGED <<binding, bound, owned, sealed, ctx, seq, stage, written, fence>>

SendRefused(t) ==
  /\ pc[t] = "queue"
  /\ writer = NoOne
  /\ ~IsBound(ctx[t])
  /\ ReleaseSealer(ctx[t])
  /\ pc' = [pc EXCEPT ![t] = "idle"]
  /\ UNCHANGED <<binding, bound, owned, sealed, writer, ctx, seq, stage, written, fence>>

SendWritten(t) ==
  /\ pc[t] = "write"
  /\ written' = [written EXCEPT ![ctx[t]] = seq[t]]
  /\ writer' = NoOne
  /\ pc' = [pc EXCEPT ![t] = "idle"]
  /\ UNCHANGED <<binding, bound, owned, sealer, sealed, ctx, seq, stage, fence>>

(* Writer::end.                                                            *)
EndBound(s) == binding' = NoSession
EndIfBound(s) == binding' = IF binding = s THEN NoSession ELSE binding

(* Ending a session on a server is followed by one empty frame.            *)
Notifies(s) == Side = "Server" /\ IsBound(s)

(* A failed write ends the session under the same lock.  A server goes on  *)
(* to notify, unless the failure was a timeout.                            *)
SendFails(t) ==
  /\ pc[t] = "write"
  /\ EndIfBound(ctx[t])
  /\ \/ /\ Notifies(ctx[t])
        /\ pc' = [pc EXCEPT ![t] = "notify"]
        /\ UNCHANGED writer
     \/ /\ pc' = [pc EXCEPT ![t] = "idle"]
        /\ writer' = NoOne
  /\ UNCHANGED <<bound, owned, sealer, sealed, ctx, seq, stage, written, fence>>

(* Sender::disconnect: waits for the writer, ends its own session only and *)
(* on a server notifies under the same lock.                               *)
DisconnectCall(t, s) ==
  /\ pc[t] = "idle"
  /\ Retained(s)
  /\ pc' = [pc EXCEPT ![t] = "disconnect"]
  /\ ctx' = [ctx EXCEPT ![t] = s]
  /\ UNCHANGED <<binding, bound, owned, sealer, sealed, writer, seq, stage, written, fence>>

Disconnect(t) ==
  /\ pc[t] = "disconnect"
  /\ writer = NoOne
  /\ EndIfBound(ctx[t])
  /\ IF Notifies(ctx[t])
       THEN pc' = [pc EXCEPT ![t] = "notify"] /\ writer' = t
       ELSE pc' = [pc EXCEPT ![t] = "idle"] /\ UNCHANGED writer
  /\ UNCHANGED <<bound, owned, sealer, sealed, ctx, seq, stage, written, fence>>

(* The empty frame is written, or that fails too.                          *)
Notified(t) ==
  /\ pc[t] = "notify"
  /\ pc' = [pc EXCEPT ![t] = "idle"]
  /\ writer' = NoOne
  /\ fence' = bound
  /\ UNCHANGED <<binding, bound, owned, sealer, sealed, ctx, seq, stage, written>>
----------------------------------------------------------------------------
(* The owner.  Client::handshake releases its contexts, then sends reset,  *)
(* hello and ack.  Server::handshake removes any binding and, after the    *)
(* hello it reads, sends its own.  Either then binds the new session.      *)
(* What is read in between is in Handshake.                                *)
Connect ==
  /\ stage = "idle"
  /\ bound < MaxSessions
  /\ \/ /\ Side = "Client"
        /\ owned' = NoSession
        /\ stage' = "reset"
        /\ UNCHANGED binding
     \/ /\ Side = "Server"
        /\ owned = NoSession
        /\ writer = NoOne
        /\ binding' = NoSession
        /\ stage' = "ark hello"
        /\ UNCHANGED owned
  /\ UNCHANGED <<bound, senders, writer, written, fence>>

Packets == {"host hello", "host ack", "ark hello"}

NextStage(s) ==
  CASE s = "reset"      -> "host hello"
    [] s = "host hello" -> "host ack"
    [] s = "host ack"   -> "bind"
    [] s = "ark hello"  -> "bind"
    [] s = "dropped"    -> "idle"

(* Outbound::send_reset and send_dropped remove the binding before they    *)
(* write, send_packet leaves it alone.                                     *)
NeverUnbinds(s) == FALSE
Unbinds(s) == s \in {"reset", "dropped"}

OwnerLock ==
  /\ stage \in Packets \cup {"reset", "dropped"}
  /\ writer = NoOne
  /\ writer' = Owner
  /\ binding' = IF Unbinds(stage) THEN NoSession ELSE binding
  /\ UNCHANGED <<bound, owned, senders, stage, written, fence>>

OwnerWritten ==
  /\ writer = Owner
  /\ writer' = NoOne
  /\ stage' = NextStage(stage)
  /\ fence' = bound
  /\ UNCHANGED <<binding, bound, owned, senders, written>>

(* A failed frame fails the handshake or is only logged; the notification  *)
(* a server still tries is part of this step.                              *)
OwnerFails ==
  /\ writer = Owner
  /\ writer' = NoOne
  /\ stage' = "idle"
  /\ fence' = bound
  /\ UNCHANGED <<binding, bound, owned, senders, written>>

(* The peer's part of the handshake fails, at a server with a notification *)
(* unless its input failed; or the server reads a reset instead of an ack  *)
(* and starts over.                                                        *)
HandshakeFails ==
  /\ writer # Owner
  /\ \/ stage = "host ack" /\ stage' = "idle"
     \/ stage = "ark hello" /\ stage' \in {"idle", "dropped"}
     \/ stage = "bind" /\ Side = "Server" /\ stage' \in {"idle", "dropped", "ark hello"}
  /\ UNCHANGED <<binding, bound, owned, senders, writer, written, fence>>

(* Outbound::bind, from new_session.                                       *)
Bind ==
  /\ stage = "bind"
  /\ writer = NoOne
  /\ bound' = bound + 1
  /\ binding' = bound'
  /\ owned' = bound'
  /\ stage' = "idle"
  /\ UNCHANGED <<senders, writer, written, fence>>

(* end_session, after a failed receive, a reset or finish_receive refusing *)
(* a message of an ended session.  A server may go on to notify.           *)
EndAtOnce == TRUE
EndWaits == writer = NoOne

EndSession ==
  /\ stage = "idle"
  /\ owned # NoSession
  /\ EndWaits
  /\ EndIfBound(owned)
  /\ owned' = NoSession
  /\ stage' \in IF Side = "Server" THEN {"idle", "dropped"} ELSE {"idle"}
  /\ UNCHANGED <<bound, senders, writer, written, fence>>

(* A server answers data outside a session.                                *)
RefuseData ==
  /\ Side = "Server"
  /\ stage = "idle"
  /\ owned = NoSession
  /\ stage' = "dropped"
  /\ UNCHANGED <<binding, bound, owned, senders, writer, written, fence>>
----------------------------------------------------------------------------
Step(t) ==
  \/ SendSeal(t)
  \/ SendOversized(t)
  \/ SendLock(t)
  \/ SendRefused(t)
  \/ SendWritten(t)
  \/ SendFails(t)
  \/ Disconnect(t)
  \/ Notified(t)

Call(t, s) == SendCall(t, s) \/ DisconnectCall(t, s)

OwnerStep ==
  \/ Connect
  \/ OwnerLock
  \/ OwnerWritten
  \/ OwnerFails
  \/ HandshakeFails
  \/ Bind
  \/ EndSession
  \/ RefuseData

Next ==
  \/ \E t \in Threads : Step(t) \/ \E s \in Sessions : Call(t, s)
  \/ OwnerStep

Spec == Init /\ [][Next]_vars

(* A frame's write ends within its timeout, and a mutex is not withheld    *)
(* for ever from a thread that waits for it.                               *)
Fairness ==
  /\ \A t \in Threads : SF_vars(Step(t))
  /\ WF_vars(OwnerWritten \/ OwnerFails)

FairSpec == Spec /\ Fairness
----------------------------------------------------------------------------
(* Types of every variable.                                                *)
TypeOK ==
  /\ binding \in 0 .. MaxSessions
  /\ bound \in 0 .. MaxSessions
  /\ owned \in 0 .. MaxSessions
  /\ sealer \in [Sessions -> Threads \cup {NoOne}]
  /\ sealed \in [Sessions -> 0 .. MaxSeals]
  /\ writer \in Threads \cup {Owner, NoOne}
  /\ pc \in [Threads -> {"idle", "seal", "queue", "write", "disconnect", "notify"}]
  /\ ctx \in [Threads -> 0 .. MaxSessions]
  /\ seq \in [Threads -> 0 .. MaxSeals]
  /\ stage \in Packets \cup {"idle", "reset", "bind", "dropped"}
  /\ written \in [Sessions -> 0 .. MaxSeals]
  /\ fence \in 0 .. MaxSessions

(* Wire order equals sealing order, without a gap: the packet a send       *)
(* writes is the successor of the last one of its session on the wire.     *)
(* The peer opens packets by sequence number and loses the session         *)
(* otherwise.                                                              *)
WireInSealOrder == \A t \in Threads : pc[t] = "write" => seq[t] = written[ctx[t]] + 1

(* A binding stays for the whole write it admitted.  So once end_session   *)
(* has returned, no write or flush of the session is running, and none of  *)
(* them can start.                                                         *)
WriteIsBound == \A t \in Threads : pc[t] = "write" => writer = t /\ binding = ctx[t]

(* No frame of an old session follows a reset, a handshake frame or a      *)
(* notification.                                                           *)
NoStaleFrame == \A t \in Threads : pc[t] = "write" => ctx[t] > fence

(* An empty frame tells the client that it has no session: nobody writes   *)
(* one while a session is bound, so an old session's writer cannot end its *)
(* successor at the peer.                                                  *)
NoSpuriousNotice ==
  /\ \A t \in Threads : pc[t] = "notify" => binding = NoSession
  /\ writer = Owner /\ stage = "dropped" => binding = NoSession

(* A handle unbinds its own session only: the step by which a thread ends  *)
(* a send or a disconnect leaves the binding of another session alone.     *)
ReplacementUntouched ==
  [][\A t \in Threads : pc'[t] # pc[t] /\ ctx[t] # binding => binding' = binding]_vars

(* Every send and every disconnect returns: the three locks are taken in   *)
(* one order and none is held for ever.                                    *)
CallsReturn == \A t \in Threads : pc[t] # "idle" ~> pc[t] = "idle"
============================================================================
