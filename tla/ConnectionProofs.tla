------------------------- MODULE ConnectionProofs --------------------------
(***************************************************************************)
(* What goes over a connection, how it ends, and who is told. The writer   *)
(* and encryption locks keep the wire in sealing order and a session's     *)
(* frames behind its boundaries, for any number of threads, sessions and   *)
(* messages, on either side; the stream below them closes once and         *)
(* orderly, for any set of closers; the server above them has one live     *)
(* session at a time, for any number of sessions and closers; callbacks    *)
(* of promises run after the result, at most once, and are not lost to a   *)
(* wait, for any set of promises; and no wakeup of a session's condition   *)
(* variable is lost, for any number of operations and queued requests.     *)
(***************************************************************************)
EXTENDS Outbound, Stream, Server, Promise, Wakeups, TLAPS

(* Who holds which lock, and that a handle in use names a session that was *)
(* bound.                                                                  *)
WriterLock == \A t \in Threads : writer = t <=> pc[t] \in {"write", "notify"}

SealerLock ==
  \A t \in Threads, s \in Sessions : sealer[s] = t <=> pc[t] = "queue" /\ ctx[t] = s

Contexts ==
  /\ \A t \in Threads : pc[t] # "idle" => ctx[t] \in Sessions /\ ctx[t] <= bound
  /\ owned <= bound

(* What the binding can be while a lock is held.                           *)
Bindings ==
  /\ binding \in {NoSession, bound}
  /\ binding # NoSession => fence < binding
  /\ fence <= bound
  /\ writer = Owner => stage \in Packets \cup {"reset", "dropped"} /\ binding = NoSession
  /\ stage \in Packets \cup {"bind"} => binding = NoSession
  /\ stage \in Packets \cup {"reset", "bind"} => bound < MaxSessions
  /\ \A t \in Threads : pc[t] = "write" => binding = ctx[t]
  /\ \A t \in Threads : pc[t] = "notify" => binding = NoSession

(* The last sequence number of s whose packet has reached the writer.      *)
Handed(s) == IF sealer[s] = NoOne THEN sealed[s] ELSE sealed[s] - 1

(* While a session is bound, all it handed over is on the wire, except the *)
(* packet being written.                                                   *)
Sequence ==
  /\ \A s \in Sessions : s > bound => sealed[s] = 0 /\ written[s] = 0
  /\ \A t \in Threads : pc[t] = "queue" => seq[t] = sealed[ctx[t]]
  /\ binding # NoSession /\ writer \notin Threads => written[binding] = Handed(binding)
  /\ \A t \in Threads :
       pc[t] = "write" => seq[t] = Handed(ctx[t]) /\ seq[t] = written[ctx[t]] + 1

(* Session numbers are numbers.                                            *)
LEMMA Numbers == TypeOK => bound \in Nat /\ fence \in Nat /\ binding \in Nat
  BY OutboundAssumption DEF TypeOK

(* Writing a frame while nobody is bound moves the fence up to now.        *)
LEMMA FenceMoves ==
  ASSUME TypeOK, binding = NoSession, UNCHANGED <<binding, bound>>, fence' = bound
  PROVE  (/\ binding \in {NoSession, bound}
          /\ binding # NoSession => fence < binding
          /\ fence <= bound)'
  BY Numbers

(* The writer lock is held exactly from acquisition to release.            *)
LEMMA WriterLockStep == TypeOK /\ WriterLock /\ [Next]_vars => WriterLock'
<1>. SUFFICES ASSUME TypeOK, WriterLock, [Next]_vars PROVE WriterLock'
  OBVIOUS
<1>. USE ThreadsAssumption DEF WriterLock, senders, Owner, NoOne
<1>. pc \in [Threads -> {"idle", "seal", "queue", "write", "disconnect", "notify"}]
  BY DEF TypeOK
<1>1. ASSUME NEW t \in Threads, SendSeal(t) PROVE WriterLock'
  BY <1>1 DEF SendSeal
<1>2. ASSUME NEW t \in Threads, SendOversized(t) PROVE WriterLock'
  BY <1>2 DEF SendOversized
<1>3. ASSUME NEW t \in Threads, SendLock(t) PROVE WriterLock'
  BY <1>3 DEF SendLock
<1>4. ASSUME NEW t \in Threads, SendRefused(t) PROVE WriterLock'
  BY <1>4 DEF SendRefused
<1>5. ASSUME NEW t \in Threads, SendWritten(t) PROVE WriterLock'
  BY <1>5 DEF SendWritten
<1>6. ASSUME NEW t \in Threads, SendFails(t) PROVE WriterLock'
  BY <1>6 DEF SendFails
<1>7. ASSUME NEW t \in Threads, Disconnect(t) PROVE WriterLock'
  BY <1>7 DEF Disconnect
<1>8. ASSUME NEW t \in Threads, Notified(t) PROVE WriterLock'
  BY <1>8 DEF Notified
<1>9. ASSUME NEW t \in Threads, NEW s \in Sessions, SendCall(t, s) PROVE WriterLock'
  BY <1>9 DEF SendCall
<1>10. ASSUME NEW t \in Threads, NEW s \in Sessions, DisconnectCall(t, s) PROVE WriterLock'
  BY <1>10 DEF DisconnectCall
<1>11. CASE Connect
  BY ZenonT(30), <1>11 DEF Connect
<1>12. CASE OwnerLock
  BY <1>12 DEF OwnerLock
<1>13. CASE OwnerWritten
  BY <1>13 DEF OwnerWritten
<1>14. CASE OwnerFails
  BY <1>14 DEF OwnerFails
<1>15. CASE HandshakeFails
  BY ZenonT(30), <1>15 DEF HandshakeFails
<1>16. CASE Bind
  BY <1>16 DEF Bind
<1>17. CASE EndSession
  BY <1>17 DEF EndSession
<1>18. CASE RefuseData
  BY <1>18 DEF RefuseData
<1>19. CASE UNCHANGED vars
  BY Zenon, <1>19 DEF vars
<1>. QED
  BY <1>1, <1>2, <1>3, <1>4, <1>5, <1>6, <1>7, <1>8, <1>9, <1>10, <1>11, <1>12, <1>13, <1>14,
     <1>15, <1>16, <1>17, <1>18, <1>19  DEF Next, Step, Call, OwnerStep

(* The encryption lock is held exactly while a sealed packet queues.       *)
LEMMA SealerLockStep == TypeOK /\ Contexts /\ SealerLock /\ [Next]_vars => SealerLock'
<1>. SUFFICES ASSUME TypeOK, Contexts, SealerLock, [Next]_vars PROVE SealerLock'
  OBVIOUS
<1>. USE ThreadsAssumption DEF SealerLock, Contexts, senders, HoldSealer, ReleaseSealer, NoOne
<1>. pc \in [Threads -> {"idle", "seal", "queue", "write", "disconnect", "notify"}]
  BY DEF TypeOK
<1>. /\ ctx \in [Threads -> 0 .. MaxSessions]
     /\ sealer \in [Sessions -> Threads \cup {NoOne}]
  BY DEF TypeOK
<1>1. ASSUME NEW t \in Threads, SendSeal(t) PROVE SealerLock'
  BY <1>1 DEF SendSeal
<1>2. ASSUME NEW t \in Threads, SendOversized(t) PROVE SealerLock'
  BY <1>2 DEF SendOversized
<1>3. ASSUME NEW t \in Threads, SendLock(t) PROVE SealerLock'
  BY <1>3 DEF SendLock
<1>4. ASSUME NEW t \in Threads, SendRefused(t) PROVE SealerLock'
  BY <1>4 DEF SendRefused
<1>5. ASSUME NEW t \in Threads, SendWritten(t) PROVE SealerLock'
  BY <1>5 DEF SendWritten
<1>6. ASSUME NEW t \in Threads, SendFails(t) PROVE SealerLock'
  BY <1>6 DEF SendFails
<1>7. ASSUME NEW t \in Threads, Disconnect(t) PROVE SealerLock'
  BY <1>7 DEF Disconnect
<1>8. ASSUME NEW t \in Threads, Notified(t) PROVE SealerLock'
  BY <1>8 DEF Notified
<1>9. ASSUME NEW t \in Threads, NEW s \in Sessions, SendCall(t, s) PROVE SealerLock'
  BY <1>9 DEF SendCall
<1>10. ASSUME NEW t \in Threads, NEW s \in Sessions, DisconnectCall(t, s) PROVE SealerLock'
  BY <1>10 DEF DisconnectCall
<1>11. CASE Connect
  <2>1. UNCHANGED <<pc, ctx, sealer>>
    BY ZenonT(30), <1>11 DEF Connect
  <2>. QED
    BY <2>1
<1>12. CASE OwnerLock
  BY <1>12 DEF OwnerLock
<1>13. CASE OwnerWritten
  BY <1>13 DEF OwnerWritten
<1>14. CASE OwnerFails
  BY <1>14 DEF OwnerFails
<1>15. CASE HandshakeFails
  <2>1. UNCHANGED <<pc, ctx, sealer>>
    BY ZenonT(30), <1>15 DEF HandshakeFails
  <2>. QED
    BY <2>1
<1>16. CASE Bind
  BY <1>16 DEF Bind
<1>17. CASE EndSession
  BY <1>17 DEF EndSession
<1>18. CASE RefuseData
  BY <1>18 DEF RefuseData
<1>19. CASE UNCHANGED vars
  BY <1>19 DEF vars
<1>. QED
  BY <1>1, <1>2, <1>3, <1>4, <1>5, <1>6, <1>7, <1>8, <1>9, <1>10, <1>11, <1>12, <1>13, <1>14,
     <1>15, <1>16, <1>17, <1>18, <1>19  DEF Next, Step, Call, OwnerStep

(* A handle in use names a session that was bound.                         *)
LEMMA ContextStep == TypeOK /\ Contexts /\ [Next]_vars => Contexts'
<1>. SUFFICES ASSUME TypeOK, Contexts, [Next]_vars PROVE Contexts'
  OBVIOUS
<1>. USE OutboundAssumption DEF Contexts, senders, Retained, NoSession, Sessions
<1>. pc \in [Threads -> {"idle", "seal", "queue", "write", "disconnect", "notify"}]
  BY Zenon DEF TypeOK
<1>. /\ ctx \in [Threads -> 0 .. MaxSessions]
     /\ bound \in 0 .. MaxSessions
     /\ owned \in 0 .. MaxSessions
  BY Zenon DEF TypeOK
<1>1. ASSUME NEW t \in Threads, SendSeal(t) PROVE Contexts'
  BY <1>1 DEF SendSeal
<1>2. ASSUME NEW t \in Threads, SendOversized(t) PROVE Contexts'
  BY <1>2 DEF SendOversized
<1>3. ASSUME NEW t \in Threads, SendLock(t) PROVE Contexts'
  BY <1>3 DEF SendLock
<1>4. ASSUME NEW t \in Threads, SendRefused(t) PROVE Contexts'
  BY <1>4 DEF SendRefused
<1>5. ASSUME NEW t \in Threads, SendWritten(t) PROVE Contexts'
  BY Zenon, <1>5 DEF SendWritten
<1>6. ASSUME NEW t \in Threads, SendFails(t) PROVE Contexts'
  BY Zenon, <1>6 DEF SendFails
<1>7. ASSUME NEW t \in Threads, Disconnect(t) PROVE Contexts'
  BY <1>7 DEF Disconnect
<1>8. ASSUME NEW t \in Threads, Notified(t) PROVE Contexts'
  BY <1>8 DEF Notified
<1>9. ASSUME NEW t \in Threads, NEW s \in Sessions, SendCall(t, s) PROVE Contexts'
  BY <1>9 DEF SendCall
<1>10. ASSUME NEW t \in Threads, NEW s \in Sessions, DisconnectCall(t, s) PROVE Contexts'
  BY <1>10 DEF DisconnectCall
<1>11. CASE Connect
  <2>1. UNCHANGED <<pc, ctx, bound>>
    BY ZenonT(30), <1>11 DEF Connect
  <2>2. owned' \in {owned, NoSession}
    BY Zenon, <1>11 DEF Connect
  <2>. QED
    BY <2>1, <2>2
<1>12. CASE OwnerLock
  BY <1>12 DEF OwnerLock
<1>13. CASE OwnerWritten
  BY Zenon, <1>13 DEF OwnerWritten
<1>14. CASE OwnerFails
  BY Zenon, <1>14 DEF OwnerFails
<1>15. CASE HandshakeFails
  BY Zenon, <1>15 DEF HandshakeFails
<1>16. CASE Bind
  BY <1>16 DEF Bind
<1>17. CASE EndSession
  BY <1>17 DEF EndSession
<1>18. CASE RefuseData
  BY <1>18 DEF RefuseData
<1>19. CASE UNCHANGED vars
  BY Zenon, <1>19 DEF vars
<1>. QED
  BY Zenon, <1>1, <1>2, <1>3, <1>4, <1>5, <1>6, <1>7, <1>8, <1>9, <1>10, <1>11, <1>12, <1>13, <1>14,
     <1>15, <1>16, <1>17, <1>18, <1>19  DEF Next, Step, Call, OwnerStep

(* The binding changes only where no write it admitted is in progress.     *)
LEMMA BindingStep == TypeOK /\ WriterLock /\ Contexts /\ Bindings /\ [Next]_vars => Bindings'
<1>. SUFFICES ASSUME TypeOK, WriterLock, Contexts, Bindings, [Next]_vars PROVE Bindings'
  BY Zenon
<1>. USE OutboundAssumption, ThreadsAssumption DEF WriterLock, Contexts, Bindings, NoSession, Packets,
         senders, IsBound, EndIfBound, Notifies, Unbinds, EndWaits, Owner, NoOne
<1>. pc \in [Threads -> {"idle", "seal", "queue", "write", "disconnect", "notify"}]
  BY Zenon DEF TypeOK
<1>. /\ ctx \in [Threads -> 0 .. MaxSessions]
     /\ binding \in 0 .. MaxSessions
     /\ bound \in 0 .. MaxSessions
     /\ fence \in 0 .. MaxSessions
  BY Zenon DEF TypeOK
<1>1. ASSUME NEW t \in Threads, SendSeal(t) PROVE Bindings'
  BY Zenon, <1>1 DEF SendSeal
<1>2. ASSUME NEW t \in Threads, SendOversized(t) PROVE Bindings'
  BY Zenon, <1>2 DEF SendOversized
<1>3. ASSUME NEW t \in Threads, SendLock(t) PROVE Bindings'
  BY ZenonT(30), <1>3 DEF SendLock
<1>4. ASSUME NEW t \in Threads, SendRefused(t) PROVE Bindings'
  BY ZenonT(30), <1>4 DEF SendRefused
<1>5. ASSUME NEW t \in Threads, SendWritten(t) PROVE Bindings'
  BY Zenon, <1>5 DEF SendWritten
<1>6. ASSUME NEW t \in Threads, SendFails(t) PROVE Bindings'
  BY ZenonT(30), <1>6 DEF SendFails
<1>7. ASSUME NEW t \in Threads, Disconnect(t) PROVE Bindings'
  BY ZenonT(60), <1>7 DEF Disconnect
<1>8. ASSUME NEW t \in Threads, Notified(t) PROVE Bindings'
  <2>1. binding = NoSession /\ writer = t
    BY ZenonT(30), <1>8 DEF Notified
  <2>2. UNCHANGED <<binding, bound, stage, ctx>> /\ fence' = bound /\ writer' # Owner
    BY Zenon, <1>8 DEF Notified
  <2>3. \A u \in Threads : pc'[u] \in {"write", "notify"} => pc[u] = pc'[u]
    BY Zenon, <1>8 DEF Notified
  <2>4. \A u \in Threads : pc[u] = "write" => u = t
    BY Zenon, <2>1
  <2>. QED
    <3>1. (/\ binding \in {NoSession, bound}
           /\ binding # NoSession => fence < binding
           /\ fence <= bound)'
      BY ZenonT(30), <2>1, <2>2, FenceMoves
    <3>2. (/\ writer = Owner => stage \in Packets \cup {"reset", "dropped"} /\ binding = NoSession
           /\ stage \in Packets \cup {"bind"} => binding = NoSession
           /\ stage \in Packets \cup {"reset", "bind"} => bound < MaxSessions)'
      BY ZenonT(30), <2>1, <2>2, <2>3, <2>4
    <3>3. (/\ \A u \in Threads : pc[u] = "write" => binding = ctx[u]
           /\ \A u \in Threads : pc[u] = "notify" => binding = NoSession)'
      BY ZenonT(30), <2>1, <2>2, <2>3, <2>4
    <3>. QED
      BY ZenonT(30), <3>1, <3>2, <3>3
<1>9. ASSUME NEW t \in Threads, NEW s \in Sessions, SendCall(t, s) PROVE Bindings'
  BY Zenon, <1>9 DEF SendCall
<1>10. ASSUME NEW t \in Threads, NEW s \in Sessions, DisconnectCall(t, s) PROVE Bindings'
  BY Zenon, <1>10 DEF DisconnectCall
<1>11. CASE Connect
  BY Zenon, <1>11 DEF Connect
<1>12. CASE OwnerLock
  BY ZenonT(30), <1>12 DEF OwnerLock
<1>13. CASE OwnerWritten
  <2>1. /\ binding = NoSession
        /\ stage \in Packets \cup {"reset", "dropped"}
        /\ stage' = NextStage(stage)
    BY Zenon, <1>13 DEF OwnerWritten
  <2>2. UNCHANGED <<binding, bound, pc, ctx>> /\ fence' = bound /\ writer' # Owner
    BY ZenonT(30), <1>13 DEF OwnerWritten
  <2>3. stage' \in Packets \cup {"bind", "idle"} /\ (stage = "dropped" => stage' = "idle")
    BY Zenon, <2>1 DEF NextStage
  <2>4. stage' \in Packets \cup {"bind"} => bound < MaxSessions
    BY Zenon, <2>1, <2>3
  <2>. QED
    <3>1. (/\ binding \in {NoSession, bound}
           /\ binding # NoSession => fence < binding
           /\ fence <= bound)'
      BY Zenon, <2>1, <2>2, FenceMoves
    <3>2. (/\ writer = Owner => stage \in Packets \cup {"reset", "dropped"} /\ binding = NoSession
           /\ stage \in Packets \cup {"bind"} => binding = NoSession
           /\ stage \in Packets \cup {"reset", "bind"} => bound < MaxSessions)'
      BY Zenon, <2>1, <2>2, <2>3, <2>4
    <3>3. (/\ \A u \in Threads : pc[u] = "write" => binding = ctx[u]
           /\ \A u \in Threads : pc[u] = "notify" => binding = NoSession)'
      BY Zenon, <2>1, <2>2, <2>3, <2>4
    <3>. QED
      BY ZenonT(30), <3>1, <3>2, <3>3
<1>14. CASE OwnerFails
  <2>1. /\ binding = NoSession
        /\ stage \in Packets \cup {"reset", "dropped"}
        /\ stage' = "idle"
    BY Zenon, <1>14 DEF OwnerFails
  <2>2. UNCHANGED <<binding, bound, pc, ctx>> /\ fence' = bound /\ writer' # Owner
    BY Zenon, <1>14 DEF OwnerFails
  <2>. QED
    <3>1. (/\ binding \in {NoSession, bound}
           /\ binding # NoSession => fence < binding
           /\ fence <= bound)'
      BY Zenon, <2>1, <2>2, FenceMoves
    <3>2. (/\ writer = Owner => stage \in Packets \cup {"reset", "dropped"} /\ binding = NoSession
           /\ stage \in Packets \cup {"bind"} => binding = NoSession
           /\ stage \in Packets \cup {"reset", "bind"} => bound < MaxSessions)'
      BY Zenon, <2>1, <2>2
    <3>3. (/\ \A u \in Threads : pc[u] = "write" => binding = ctx[u]
           /\ \A u \in Threads : pc[u] = "notify" => binding = NoSession)'
      BY Zenon, <2>1, <2>2
    <3>. QED
      BY <3>1, <3>2, <3>3
<1>15. CASE HandshakeFails
  BY Zenon, <1>15 DEF HandshakeFails
<1>16. CASE Bind
  BY <1>16 DEF Bind
<1>17. CASE EndSession
  BY ZenonT(60), <1>17 DEF EndSession
<1>18. CASE RefuseData
  BY <1>18 DEF RefuseData
<1>19. CASE UNCHANGED vars
  BY ZenonT(30), <1>19 DEF vars
<1>. QED
  BY Zenon, <1>1, <1>2, <1>3, <1>4, <1>5, <1>6, <1>7, <1>8, <1>9, <1>10, <1>11, <1>12, <1>13, <1>14,
     <1>15, <1>16, <1>17, <1>18, <1>19  DEF Next, Step, Call, OwnerStep

(* Sealing and writing advance in step.                                    *)
LEMMA SequenceStep == TypeOK /\ WriterLock /\ SealerLock /\ Contexts /\ Bindings /\ Sequence /\ [Next]_vars => Sequence'
<1>. SUFFICES ASSUME TypeOK, WriterLock, SealerLock, Contexts, Bindings, Sequence, [Next]_vars PROVE Sequence'
  BY Zenon
<1>. USE OutboundAssumption, ThreadsAssumption DEF WriterLock, SealerLock, Contexts, Bindings, Sequence,
         Handed, NoSession, senders, IsBound, EndIfBound, HoldSealer, ReleaseSealer, Notifies,
         Owner, NoOne
<1>. pc \in [Threads -> {"idle", "seal", "queue", "write", "disconnect", "notify"}]
  BY Zenon DEF TypeOK
<1>. /\ ctx \in [Threads -> 0 .. MaxSessions]
     /\ binding \in 0 .. MaxSessions
     /\ bound \in 0 .. MaxSessions
     /\ sealer \in [Sessions -> Threads \cup {NoOne}]
     /\ sealed \in [Sessions -> 0 .. MaxSeals]
     /\ written \in [Sessions -> 0 .. MaxSeals]
     /\ seq \in [Threads -> 0 .. MaxSeals]
  BY Zenon DEF TypeOK
<1>1. ASSUME NEW t \in Threads, SendSeal(t) PROVE Sequence'
  BY SMTT(30), <1>1 DEF SendSeal
<1>2. ASSUME NEW t \in Threads, SendOversized(t) PROVE Sequence'
  BY SMTT(30), <1>2 DEF SendOversized
<1>3. ASSUME NEW t \in Threads, SendLock(t) PROVE Sequence'
  <2>. DEFINE c == ctx[t]
  <2>1. /\ c \in Sessions
        /\ binding = c
        /\ sealer[c] = t
        /\ writer = NoOne
        /\ UNCHANGED <<binding, bound, sealed, ctx, seq, written>>
    BY Zenon, <1>3 DEF SendLock
  <2>2. written[c] = sealed[c] - 1 /\ seq[t] = sealed[c]
    <3>1. sealer[c] # NoOne /\ writer \notin Threads /\ binding # NoSession
      BY SMTT(30), <2>1 DEF Sessions
    <3>2. written[c] = Handed(c)
      BY Zenon, <2>1, <3>1 DEF Sequence
    <3>. QED
      BY Zenon, <1>3, <2>1, <3>1, <3>2 DEF SendLock
  <2>3. Handed(c)' = sealed[c]
    BY SMTT(30), <1>3, <2>1 DEF SendLock
  <2>4. \A u \in Threads : pc'[u] = "write" => u = t
    BY SMTT(30), <1>3, <2>1 DEF SendLock
  <2>5. \A u \in Threads : pc'[u] = "queue" => pc[u] = "queue"
    BY <1>3 DEF SendLock
  <2>6. writer' \in Threads
    BY Zenon, <1>3 DEF SendLock
  <2>7. c # 0 /\ written[c] \in Nat /\ sealed[c] \in Nat
    BY SMTT(30), <2>1 DEF Sessions
  <2>. QED
    BY <2>1, <2>2, <2>3, <2>4, <2>5, <2>6, <2>7
<1>4. ASSUME NEW t \in Threads, SendRefused(t) PROVE Sequence'
  BY SMTT(30), <1>4 DEF SendRefused
<1>5. ASSUME NEW t \in Threads, SendWritten(t) PROVE Sequence'
  BY SMTT(30), <1>5 DEF SendWritten
<1>6. ASSUME NEW t \in Threads, SendFails(t) PROVE Sequence'
  BY SMTT(30), <1>6 DEF SendFails
<1>7. ASSUME NEW t \in Threads, Disconnect(t) PROVE Sequence'
  BY SMTT(30), <1>7 DEF Disconnect
<1>8. ASSUME NEW t \in Threads, Notified(t) PROVE Sequence'
  BY SMTT(30), <1>8 DEF Notified
<1>9. ASSUME NEW t \in Threads, NEW s \in Sessions, SendCall(t, s) PROVE Sequence'
  BY SMTT(30), <1>9 DEF SendCall
<1>10. ASSUME NEW t \in Threads, NEW s \in Sessions, DisconnectCall(t, s) PROVE Sequence'
  BY SMTT(30), <1>10 DEF DisconnectCall
<1>11. CASE Connect
  BY ZenonT(30), <1>11 DEF Connect
<1>12. CASE OwnerLock
  BY Zenon, <1>12 DEF OwnerLock
<1>13. CASE OwnerWritten
  BY Zenon, <1>13 DEF OwnerWritten
<1>14. CASE OwnerFails
  BY Zenon, <1>14 DEF OwnerFails
<1>15. CASE HandshakeFails
  BY ZenonT(30), <1>15 DEF HandshakeFails
<1>16. CASE Bind
  <2>. DEFINE b == bound + 1
  <2>1. /\ b \in Sessions
        /\ bound' = b
        /\ binding' = b
        /\ UNCHANGED <<sealer, sealed, pc, ctx, seq, writer, written>>
    BY SMTT(30), <1>16 DEF Bind, Sessions
  <2>2. sealed[b] = 0 /\ written[b] = 0
    BY SMTT(30), <2>1
  <2>3. sealer[b] = NoOne
    BY <2>1
  <2>4. written'[binding'] = Handed(binding)'
    BY Zenon, <2>1, <2>2, <2>3
  <2>5. \A s \in Sessions : s > bound' => s > bound
    BY SMTT(30), <2>1 DEF Sessions
  <2>6. \A u \in Threads : pc[u] = "write" => FALSE
    BY <1>16 DEF Bind
  <2>. QED
    BY Zenon, <2>1, <2>2, <2>4, <2>5, <2>6
<1>17. CASE EndSession
  BY Zenon, <1>17 DEF EndSession
<1>18. CASE RefuseData
  BY Zenon, <1>18 DEF RefuseData
<1>19. CASE UNCHANGED vars
  BY Zenon, <1>19 DEF vars
<1>. QED
  BY Zenon, <1>1, <1>2, <1>3, <1>4, <1>5, <1>6, <1>7, <1>8, <1>9, <1>10, <1>11, <1>12, <1>13, <1>14,
     <1>15, <1>16, <1>17, <1>18, <1>19  DEF Next, Step, Call, OwnerStep

(* Every step keeps the types.                                             *)
LEMMA TypeStep == TypeOK /\ Contexts /\ Bindings /\ [Next]_vars => TypeOK'
<1>. SUFFICES ASSUME TypeOK, Contexts, Bindings, [Next]_vars PROVE TypeOK'
  BY Zenon
<1>. USE OutboundAssumption DEF senders
<1>c. \A t \in Threads : pc[t] # "idle" => ctx[t] \in Sessions
  BY Zenon DEF Contexts
<1>b. /\ writer = Owner => stage \in Packets \cup {"reset", "dropped"}
      /\ stage = "bind" => bound < MaxSessions
  BY Zenon DEF Bindings
<1>n. /\ binding \in 0 .. MaxSessions
      /\ bound \in 0 .. MaxSessions
      /\ owned \in 0 .. MaxSessions
      /\ fence \in 0 .. MaxSessions
  BY Zenon DEF TypeOK
<1>sealer. sealer \in [Sessions -> Threads \cup {NoOne}]
  BY Zenon DEF TypeOK
<1>sealed. sealed \in [Sessions -> 0 .. MaxSeals]
  BY Zenon DEF TypeOK
<1>writer. writer \in Threads \cup {Owner, NoOne}
  BY Zenon DEF TypeOK
<1>pc. pc \in [Threads -> {"idle", "seal", "queue", "write", "disconnect", "notify"}]
  BY Zenon DEF TypeOK
<1>ctx. ctx \in [Threads -> 0 .. MaxSessions]
  BY Zenon DEF TypeOK
<1>seq. seq \in [Threads -> 0 .. MaxSeals]
  BY Zenon DEF TypeOK
<1>stage. stage \in Packets \cup {"idle", "reset", "bind", "dropped"}
  BY Zenon DEF TypeOK
<1>written. written \in [Sessions -> 0 .. MaxSeals]
  BY Zenon DEF TypeOK
<1>1. ASSUME NEW t \in Threads, SendSeal(t) PROVE TypeOK'
  <2>1. UNCHANGED <<binding, bound, owned, writer, ctx, stage, written, fence>>
    BY Zenon, <1>1 DEF SendSeal
  <2>2. sealer' \in [Sessions -> Threads \cup {NoOne}]
    BY ZenonT(30), <1>1, <1>sealer, <1>c DEF SendSeal, HoldSealer, ReleaseSealer
  <2>3. sealed' \in [Sessions -> 0 .. MaxSeals]
    BY <1>1, <1>sealed, <1>c DEF SendSeal, SequenceLeft
  <2>4. seq' \in [Threads -> 0 .. MaxSeals]
    BY SMTT(30), <1>1, <1>seq, <1>sealed, <1>c DEF SendSeal, SequenceLeft
  <2>5. pc' \in [Threads -> {"idle", "seal", "queue", "write", "disconnect", "notify"}]
    BY <1>1, <1>pc DEF SendSeal
  <2>. QED
    BY Zenon, <2>1, <2>2, <2>3, <2>4, <2>5 DEF TypeOK
<1>2. ASSUME NEW t \in Threads, SendOversized(t) PROVE TypeOK'
  <2>1. UNCHANGED <<binding, bound, owned, sealer, sealed, writer, ctx, seq, stage, written, fence>>
    BY Zenon, <1>2 DEF SendOversized
  <2>2. pc' \in [Threads -> {"idle", "seal", "queue", "write", "disconnect", "notify"}]
    BY Zenon, <1>2, <1>pc DEF SendOversized
  <2>. QED
    BY <2>1, <2>2 DEF TypeOK
<1>3. ASSUME NEW t \in Threads, SendLock(t) PROVE TypeOK'
  <2>1. UNCHANGED <<binding, bound, owned, sealed, ctx, seq, stage, written, fence>>
    BY Zenon, <1>3 DEF SendLock
  <2>2. sealer' \in [Sessions -> Threads \cup {NoOne}]
    BY Zenon, <1>3, <1>sealer, <1>c DEF SendLock, HoldSealer, ReleaseSealer
  <2>3. writer' \in Threads \cup {Owner, NoOne}
    BY Zenon, <1>3, <1>writer DEF SendLock
  <2>4. pc' \in [Threads -> {"idle", "seal", "queue", "write", "disconnect", "notify"}]
    BY Zenon, <1>3, <1>pc DEF SendLock
  <2>. QED
    BY Zenon, <2>1, <2>2, <2>3, <2>4 DEF TypeOK
<1>4. ASSUME NEW t \in Threads, SendRefused(t) PROVE TypeOK'
  <2>1. UNCHANGED <<binding, bound, owned, sealed, writer, ctx, seq, stage, written, fence>>
    BY Zenon, <1>4 DEF SendRefused
  <2>2. sealer' \in [Sessions -> Threads \cup {NoOne}]
    BY Zenon, <1>4, <1>sealer, <1>c DEF SendRefused, HoldSealer, ReleaseSealer
  <2>3. pc' \in [Threads -> {"idle", "seal", "queue", "write", "disconnect", "notify"}]
    BY Zenon, <1>4, <1>pc DEF SendRefused
  <2>. QED
    BY Zenon, <2>1, <2>2, <2>3 DEF TypeOK
<1>5. ASSUME NEW t \in Threads, SendWritten(t) PROVE TypeOK'
  <2>1. UNCHANGED <<binding, bound, owned, sealer, sealed, ctx, seq, stage, fence>>
    BY Zenon, <1>5 DEF SendWritten
  <2>2. written' \in [Sessions -> 0 .. MaxSeals]
    BY Zenon, <1>5, <1>written, <1>seq, <1>c DEF SendWritten
  <2>3. writer' \in Threads \cup {Owner, NoOne}
    BY Zenon, <1>5, <1>writer DEF SendWritten
  <2>4. pc' \in [Threads -> {"idle", "seal", "queue", "write", "disconnect", "notify"}]
    BY Zenon, <1>5, <1>pc DEF SendWritten
  <2>. QED
    BY Zenon, <2>1, <2>2, <2>3, <2>4 DEF TypeOK
<1>6. ASSUME NEW t \in Threads, SendFails(t) PROVE TypeOK'
  <2>1. UNCHANGED <<bound, owned, sealer, sealed, ctx, seq, stage, written, fence>>
    BY Zenon, <1>6 DEF SendFails
  <2>2. binding' \in 0 .. MaxSessions
    BY <1>6, <1>n DEF SendFails, EndIfBound, Unbinds, NoSession
  <2>3. pc' \in [Threads -> {"idle", "seal", "queue", "write", "disconnect", "notify"}]
    BY Zenon, <1>6, <1>pc DEF SendFails
  <2>4. writer' \in Threads \cup {Owner, NoOne}
    BY Zenon, <1>6, <1>writer DEF SendFails
  <2>. QED
    BY Zenon, <2>1, <2>2, <2>3, <2>4 DEF TypeOK
<1>7. ASSUME NEW t \in Threads, Disconnect(t) PROVE TypeOK'
  <2>1. UNCHANGED <<bound, owned, sealer, sealed, ctx, seq, stage, written, fence>>
    BY Zenon, <1>7 DEF Disconnect
  <2>2. binding' \in 0 .. MaxSessions
    BY <1>7, <1>n DEF Disconnect, EndIfBound, Unbinds, NoSession
  <2>3. pc' \in [Threads -> {"idle", "seal", "queue", "write", "disconnect", "notify"}]
    BY Zenon, <1>7, <1>pc DEF Disconnect
  <2>4. writer' \in Threads \cup {Owner, NoOne}
    BY Zenon, <1>7, <1>writer DEF Disconnect
  <2>. QED
    BY <2>1, <2>2, <2>3, <2>4 DEF TypeOK
<1>8. ASSUME NEW t \in Threads, Notified(t) PROVE TypeOK'
  <2>1. UNCHANGED <<binding, bound, owned, sealer, sealed, ctx, seq, stage, written>>
    BY Zenon, <1>8 DEF Notified
  <2>2. pc' \in [Threads -> {"idle", "seal", "queue", "write", "disconnect", "notify"}]
    BY Zenon, <1>8, <1>pc DEF Notified
  <2>3. writer' \in Threads \cup {Owner, NoOne}
    BY Zenon, <1>8, <1>writer DEF Notified
  <2>4. fence' \in 0 .. MaxSessions
    BY Zenon, <1>8, <1>n DEF Notified
  <2>. QED
    BY Zenon, <2>1, <2>2, <2>3, <2>4 DEF TypeOK
<1>9. ASSUME NEW t \in Threads, NEW s \in Sessions, SendCall(t, s) PROVE TypeOK'
  <2>1. UNCHANGED <<binding, bound, owned, sealer, sealed, writer, seq, stage, written, fence>>
    BY Zenon, <1>9 DEF SendCall
  <2>2. pc' \in [Threads -> {"idle", "seal", "queue", "write", "disconnect", "notify"}]
    BY Zenon, <1>9, <1>pc DEF SendCall
  <2>3. ctx' \in [Threads -> 0 .. MaxSessions]
    BY <1>9, <1>ctx DEF SendCall, Sessions
  <2>. QED
    BY Zenon, <2>1, <2>2, <2>3 DEF TypeOK
<1>10. ASSUME NEW t \in Threads, NEW s \in Sessions, DisconnectCall(t, s) PROVE TypeOK'
  <2>1. UNCHANGED <<binding, bound, owned, sealer, sealed, writer, seq, stage, written, fence>>
    BY Zenon, <1>10 DEF DisconnectCall
  <2>2. pc' \in [Threads -> {"idle", "seal", "queue", "write", "disconnect", "notify"}]
    BY Zenon, <1>10, <1>pc DEF DisconnectCall
  <2>3. ctx' \in [Threads -> 0 .. MaxSessions]
    BY <1>10, <1>ctx DEF DisconnectCall, Sessions
  <2>. QED
    BY <2>1, <2>2, <2>3 DEF TypeOK
<1>11. CASE Connect
  <2>1. UNCHANGED <<bound, sealer, sealed, writer, pc, ctx, seq, written, fence>>
    BY Zenon, <1>11 DEF Connect
  <2>2. binding' \in 0 .. MaxSessions
    <3>1. binding' = binding \/ binding' = 0
      BY Zenon, <1>11 DEF Connect, NoSession
    <3>. QED
      BY <3>1, <1>n
  <2>3. owned' \in 0 .. MaxSessions
    <3>1. owned' = owned \/ owned' = 0
      BY Zenon, <1>11 DEF Connect, NoSession
    <3>. QED
      BY <3>1, <1>n
  <2>4. stage' \in Packets \cup {"idle", "reset", "bind", "dropped"}
    BY Zenon, <1>11, <1>stage, <1>b DEF Connect, NextStage, Packets
  <2>. QED
    BY Zenon, <2>1, <2>2, <2>3, <2>4 DEF TypeOK
<1>12. CASE OwnerLock
  <2>1. UNCHANGED <<bound, owned, sealer, sealed, pc, ctx, seq, stage, written, fence>>
    BY Zenon, <1>12 DEF OwnerLock
  <2>2. writer' \in Threads \cup {Owner, NoOne}
    BY Zenon, <1>12, <1>writer DEF OwnerLock
  <2>3. binding' \in 0 .. MaxSessions
    BY <1>12, <1>n DEF OwnerLock, EndIfBound, Unbinds, NoSession
  <2>. QED
    BY Zenon, <2>1, <2>2, <2>3 DEF TypeOK
<1>13. CASE OwnerWritten
  <2>1. UNCHANGED <<binding, bound, owned, sealer, sealed, pc, ctx, seq, written>>
    BY Zenon, <1>13 DEF OwnerWritten
  <2>2. writer' \in Threads \cup {Owner, NoOne}
    BY <1>13, <1>writer DEF OwnerWritten
  <2>3. stage' \in Packets \cup {"idle", "reset", "bind", "dropped"}
    BY Zenon, <1>13, <1>stage, <1>b DEF OwnerWritten, NextStage, Packets
  <2>4. fence' \in 0 .. MaxSessions
    BY Zenon, <1>13, <1>n DEF OwnerWritten
  <2>. QED
    BY Zenon, <2>1, <2>2, <2>3, <2>4 DEF TypeOK
<1>14. CASE OwnerFails
  <2>1. UNCHANGED <<binding, bound, owned, sealer, sealed, pc, ctx, seq, written>>
    BY Zenon, <1>14 DEF OwnerFails
  <2>2. writer' \in Threads \cup {Owner, NoOne}
    BY Zenon, <1>14, <1>writer DEF OwnerFails
  <2>3. stage' \in Packets \cup {"idle", "reset", "bind", "dropped"}
    BY Zenon, <1>14, <1>stage, <1>b DEF OwnerFails, NextStage, Packets
  <2>4. fence' \in 0 .. MaxSessions
    BY Zenon, <1>14, <1>n DEF OwnerFails
  <2>. QED
    BY <2>1, <2>2, <2>3, <2>4 DEF TypeOK
<1>15. CASE HandshakeFails
  <2>1. UNCHANGED <<binding, bound, owned, sealer, sealed, writer, pc, ctx, seq, written, fence>>
    BY Zenon, <1>15 DEF HandshakeFails
  <2>2. stage' \in Packets \cup {"idle", "reset", "bind", "dropped"}
    BY Zenon, <1>15, <1>stage, <1>b DEF HandshakeFails, NextStage, Packets
  <2>. QED
    BY Zenon, <2>1, <2>2 DEF TypeOK
<1>16. CASE Bind
  <2>1. UNCHANGED <<sealer, sealed, writer, pc, ctx, seq, written, fence>>
    BY Zenon, <1>16 DEF Bind
  <2>2. bound' \in 0 .. MaxSessions
    BY <1>16, <1>n, <1>b DEF Bind
  <2>3. binding' \in 0 .. MaxSessions
    BY <1>16, <1>n, <1>b DEF Bind, EndIfBound, Unbinds, NoSession
  <2>4. owned' \in 0 .. MaxSessions
    BY <1>16, <1>n, <1>b DEF Bind, NoSession
  <2>5. stage' \in Packets \cup {"idle", "reset", "bind", "dropped"}
    BY Zenon, <1>16, <1>stage, <1>b DEF Bind, NextStage, Packets
  <2>. QED
    BY Zenon, <2>1, <2>2, <2>3, <2>4, <2>5 DEF TypeOK
<1>17. CASE EndSession
  <2>1. UNCHANGED <<bound, sealer, sealed, writer, pc, ctx, seq, written, fence>>
    BY Zenon, <1>17 DEF EndSession
  <2>2. binding' \in 0 .. MaxSessions
    BY <1>17, <1>n DEF EndSession, EndIfBound, Unbinds, NoSession
  <2>3. owned' \in 0 .. MaxSessions
    BY <1>17, <1>n DEF EndSession, NoSession
  <2>4. stage' \in Packets \cup {"idle", "reset", "bind", "dropped"}
    BY Zenon, <1>17, <1>stage, <1>b DEF EndSession, NextStage, Packets
  <2>. QED
    BY <2>1, <2>2, <2>3, <2>4 DEF TypeOK
<1>18. CASE RefuseData
  <2>1. UNCHANGED <<binding, bound, owned, sealer, sealed, writer, pc, ctx, seq, written, fence>>
    BY Zenon, <1>18 DEF RefuseData
  <2>2. stage' \in Packets \cup {"idle", "reset", "bind", "dropped"}
    BY Zenon, <1>18, <1>stage, <1>b DEF RefuseData, NextStage, Packets
  <2>. QED
    BY <2>1, <2>2 DEF TypeOK
<1>19. CASE UNCHANGED vars
  BY Zenon, <1>19 DEF vars, TypeOK
<1>. QED
  BY Zenon, <1>1, <1>2, <1>3, <1>4, <1>5, <1>6, <1>7, <1>8, <1>9, <1>10, <1>11, <1>12, <1>13, <1>14,
     <1>15, <1>16, <1>17, <1>18, <1>19  DEF Next, Step, Call, OwnerStep

Inv == TypeOK /\ WriterLock /\ SealerLock /\ Contexts /\ Bindings /\ Sequence

(* The invariant holds of a connection without a session.                  *)
LEMMA InvInit == Init => Inv
<1>. SUFFICES ASSUME Init PROVE Inv
  BY Zenon
<1>. USE OutboundAssumption, ThreadsAssumption DEF Init
<1>1. TypeOK
  BY DEF TypeOK, Packets, NoSession
<1>2. WriterLock /\ SealerLock /\ Contexts
  BY DEF WriterLock, SealerLock, Contexts, NoSession
<1>3. Bindings
  BY DEF Bindings, Packets, NoSession, Owner, NoOne
<1>4. Sequence
  BY DEF Sequence, NoSession
<1>. QED
  BY <1>1, <1>2, <1>3, <1>4 DEF Inv

(* The invariant holds throughout.                                         *)
LEMMA InvHolds == Spec => []Inv
<1>1. Inv /\ [Next]_vars => Inv'
  BY TypeStep, WriterLockStep, SealerLockStep, ContextStep, BindingStep, SequenceStep DEF Inv
<1>. QED
  BY <1>1, InvInit, PTL DEF Spec

(* Every variable keeps its type.                                          *)
THEOREM OutboundTypes == Spec => []TypeOK
<1>1. Inv => TypeOK
  BY Zenon DEF Inv
<1>. QED
  BY <1>1, InvHolds, PTL

(* The wire carries a session's packets in the order they were sealed and  *)
(* without a gap: sender.rs keeps the encryption lock until it holds the   *)
(* writer lock, and a failed write ends the session under that lock.       *)
THEOREM WireOrder == Spec => []WireInSealOrder
<1>1. Inv => WireInSealOrder
  BY Zenon DEF Inv, Sequence, WireInSealOrder
<1>. QED
  BY <1>1, InvHolds, PTL

(* A binding outlasts every write it admitted, because bind, end, unbind   *)
(* and the boundary frames all take the writer lock first.                 *)
THEOREM WritesStayBound == Spec => []WriteIsBound
<1>1. Inv => WriteIsBound
  BY Zenon DEF Inv, WriterLock, Bindings, WriteIsBound
<1>. QED
  BY <1>1, InvHolds, PTL

(* No frame of an old session follows a later boundary on the wire.        *)
THEOREM BoundariesHold == Spec => []NoStaleFrame
<1>1. Inv => NoStaleFrame
  <2>. SUFFICES ASSUME Inv, NEW t \in Threads, pc[t] = "write" PROVE ctx[t] > fence
    BY Zenon DEF NoStaleFrame
  <2>1. binding = ctx[t] /\ ctx[t] \in Sessions
    BY Zenon DEF Inv, Bindings, Contexts
  <2>2. fence < binding
    BY <2>1 DEF Inv, Bindings, Sessions, NoSession
  <2>. QED
    BY Zenon, <2>1, <2>2, Numbers DEF Inv
<1>. QED
  BY <1>1, InvHolds, PTL

(* No empty frame is written while a session is bound.                     *)
THEOREM NoticesAreDue == Spec => []NoSpuriousNotice
<1>1. Inv => NoSpuriousNotice
  BY DEF Inv, Bindings, NoSpuriousNotice
<1>. QED
  BY <1>1, InvHolds, PTL

(* A handle of an ended session cannot unbind its successor.               *)
THEOREM SuccessorIsSafe == Spec => ReplacementUntouched
<1>1. ASSUME Inv, [Next]_vars, NEW t \in Threads, pc'[t] # pc[t], ctx[t] # binding
      PROVE  binding' = binding
  <2>. pc \in [Threads -> {"idle", "seal", "queue", "write", "disconnect", "notify"}]
    BY <1>1 DEF Inv, TypeOK
  <2>1. CASE OwnerStep
    BY ZenonT(60), <1>1, <2>1 DEF OwnerStep, senders, Connect, OwnerLock, OwnerWritten, OwnerFails,
       HandshakeFails, Bind, EndSession, RefuseData
  <2>2. ASSUME NEW u \in Threads, Step(u) PROVE binding' = binding
    <3>1. u = t \/ pc'[t] = pc[t]
      BY Zenon, <2>2
         DEF Step, SendSeal, SendOversized, SendLock, SendRefused, SendWritten, SendFails,
         Disconnect, Notified
    <3>2. u = t
      BY Zenon, <1>1, <3>1
    <3>. QED
      BY ZenonT(60), <1>1, <2>2, <3>2
         DEF Step, SendSeal, SendOversized, SendLock, SendRefused, SendWritten,
         SendFails, Disconnect, Notified, EndIfBound
  <2>3. ASSUME NEW u \in Threads, NEW s \in Sessions, Call(u, s) PROVE binding' = binding
    BY Zenon, <2>3 DEF Call, SendCall, DisconnectCall
  <2>4. CASE UNCHANGED vars
    BY Zenon, <2>4 DEF vars
  <2>. QED
    BY Zenon, <1>1, <2>1, <2>2, <2>3, <2>4 DEF Next
<1>2. Inv /\ [Next]_vars =>
        [\A t \in Threads : pc'[t] # pc[t] /\ ctx[t] # binding => binding' = binding]_vars
  BY <1>1
<1>. QED
  BY <1>2, InvHolds, PTL DEF Spec, ReplacementUntouched
----------------------------------------------------------------------------
(* The stream under the senders.                                           *)

(* The admitted calls are counted exactly.                                 *)
ActiveExact ==
  active = (IF reading = "call" THEN 1 ELSE 0) + (IF writing \in WriteCalls THEN 1 ELSE 0)

(* What each place inside close knows about the stream.                    *)
CloserKnows ==
  \A c \in Closers :
    /\ closing[c] \in {"callback", "drain"} => phase = "Closing" /\ ~action
    /\ closing[c] = "drain" => released
    /\ closing[c] = "returned" => phase = "Closed"

(* A closed stream has run its callback and has no call left.              *)
ClosedIsQuiet == phase = "Closed" => released /\ active = 0

StreamInv == StreamTypeOK /\ ActiveExact /\ CloserKnows /\ ClosedIsQuiet /\ OneShutdown

USE DEF WriteCalls

(* The invariant holds of a fresh stream.                                  *)
LEMMA StreamStarts == StreamInit => StreamInv
  <1>1. StreamInit => action \in BOOLEAN /\ released \in BOOLEAN
    BY Zenon DEF StreamInit
  <1>2. StreamInit => StreamTypeOK
    BY <1>1, StreamAssumption DEF StreamInit, StreamTypeOK
  <1>3. StreamInit => ActiveExact /\ CloserKnows /\ ClosedIsQuiet /\ OneShutdown
    BY DEF StreamInit, ActiveExact, CloserKnows, ClosedIsQuiet, OneShutdown
  <1>4. QED
    BY <1>2, <1>3 DEF StreamInv

(* Every step keeps the invariant of the stream.                           *)
LEMMA StreamStep ==
  ASSUME StreamInv, [StreamNext]_streamVars
  PROVE  StreamInv'
  <1> USE StreamAssumption DEF StreamInv, closeVars
  <1>1. ASSUME NEW c \in Closers, CloseCall(c) PROVE StreamInv'
    BY <1>1 DEF CloseCall, StreamTypeOK, ActiveExact, CloserKnows, ClosedIsQuiet, OneShutdown
  <1>2. ASSUME NEW c \in Closers, CloseEnter(c) PROVE StreamInv'
    <2>1. CASE phase = "Open"
      <3>1. /\ phase' = "Closing" /\ action' = FALSE
            /\ closing' = [closing EXCEPT ![c] = "callback"]
            /\ UNCHANGED <<asleep, active, released, reading, writing, left>>
        BY Zenon, <1>2, <2>1 DEF CloseEnter, Begin
      <3>2. \A d \in Closers : closing[d] \in {"idle", "enter"}
        BY Zenon, <2>1 DEF StreamTypeOK, CloserKnows
      <3>3. StreamTypeOK' /\ ActiveExact' /\ ClosedIsQuiet'
        BY Zenon, <3>1 DEF StreamTypeOK, ActiveExact, ClosedIsQuiet
      <3>4. CloserKnows' /\ OneShutdown'
        BY SMTT(30), <3>1, <3>2 DEF StreamTypeOK, CloserKnows, OneShutdown
      <3>5. QED
        BY Zenon, <3>3, <3>4
    <2>2. CASE phase # "Open"
      BY SMTT(30), <1>2, <2>2
         DEF CloseEnter, StreamTypeOK, ActiveExact, CloserKnows, ClosedIsQuiet, OneShutdown
    <2>3. QED
      BY Zenon, <2>1, <2>2
  <1>3. ASSUME NEW c \in Closers, RunShutdown(c) PROVE StreamInv'
    BY SMTT(30), <1>3 DEF RunShutdown, StreamTypeOK, ActiveExact, CloserKnows, ClosedIsQuiet,
       OneShutdown
  <1>4. ASSUME NEW c \in Closers, Drain(c) PROVE StreamInv'
    BY SMTT(30), <1>4 DEF Drain, Drained, StreamTypeOK, ActiveExact, CloserKnows, ClosedIsQuiet,
       OneShutdown
  <1>5. ASSUME Read PROVE StreamInv'
    BY SMTT(30), <1>5
       DEF Read, Enter, Admits, StreamTypeOK, ActiveExact, CloserKnows, ClosedIsQuiet,
       OneShutdown
  <1>6. ASSUME ReadReturn PROVE StreamInv'
    BY SMTT(30), <1>6
       DEF ReadReturn, Leave, StreamTypeOK, ActiveExact, CloserKnows, ClosedIsQuiet, OneShutdown
  <1>7. ASSUME Write PROVE StreamInv'
    BY SMTT(30), <1>7 DEF Write, WriteEnter, Enter, Admits, StreamTypeOK, ActiveExact, CloserKnows,
       ClosedIsQuiet, OneShutdown
  <1>8. ASSUME WritePart PROVE StreamInv'
    BY SMTT(30), <1>8 DEF WritePart, WriteEnter, Enter, Admits, StreamTypeOK, ActiveExact,
       CloserKnows,
       ClosedIsQuiet, OneShutdown
  <1>9. ASSUME Flush PROVE StreamInv'
    BY <1>9 DEF Flush, WriteEnter, Enter, Admits, StreamTypeOK, ActiveExact, CloserKnows,
       ClosedIsQuiet, OneShutdown
  <1>10. ASSUME WriteExpires PROVE StreamInv'
    BY Zenon, <1>10
       DEF WriteExpires, StreamTypeOK, ActiveExact, CloserKnows, ClosedIsQuiet, OneShutdown
  <1>11. ASSUME WriteReturn PROVE StreamInv'
    BY SMTT(30), <1>11
       DEF WriteReturn, Leave, StreamTypeOK, ActiveExact, CloserKnows, ClosedIsQuiet,
       OneShutdown
  <1>12. CASE UNCHANGED streamVars
    BY <1>12 DEF streamVars, StreamTypeOK, ActiveExact, CloserKnows, ClosedIsQuiet, OneShutdown
  <1>13. QED
    BY Zenon, <1>1, <1>2, <1>3, <1>4, <1>5, <1>6, <1>7, <1>8, <1>9, <1>10, <1>11, <1>12
       DEF StreamNext, Close

(* Types, in particular that the count of admitted calls never drops below *)
(* zero.                                                                   *)
THEOREM StreamTypes == StreamSpec => []StreamTypeOK
  <1>1. StreamInv /\ [StreamNext]_streamVars => StreamInv'
    BY StreamStep
  <1>2. StreamInv => StreamTypeOK
    BY Zenon DEF StreamInv
  <1>3. QED
    BY <1>1, <1>2, StreamStarts, PTL DEF StreamSpec

(* close returns to no caller before the stream is quiet, for any number   *)
(* of closers.                                                             *)
THEOREM CloseWaitsForCalls == StreamSpec => []ReturnedMeansQuiet
  <1>1. StreamInv /\ [StreamNext]_streamVars => StreamInv'
    BY StreamStep
  <1>2. StreamInv => ReturnedMeansQuiet
    BY DEF StreamInv, StreamTypeOK, ActiveExact, CloserKnows, ClosedIsQuiet, ReturnedMeansQuiet
  <1>3. QED
    BY <1>1, <1>2, StreamStarts, PTL DEF StreamSpec

(* One closer takes the callback, and a closing stream has one at work.    *)
THEOREM ShutdownRunsOnce == StreamSpec => []OneShutdown
  <1>1. StreamInv /\ [StreamNext]_streamVars => StreamInv'
    BY StreamStep
  <1>2. StreamInv => OneShutdown
    BY DEF StreamInv
  <1>3. QED
    BY <1>1, <1>2, StreamStarts, PTL DEF StreamSpec

(* No adapter call starts once closing has begun.                          *)
THEOREM ClosingAdmitsNothing == StreamSpec => NoCallAfterClosing
  <1>1. [StreamNext]_streamVars =>
          [phase # "Open" => /\ reading' = "call" => reading = "call"
                             /\ writing' \in WriteCalls => writing' = writing]_streamVars
    BY ZenonT(30)
       DEF StreamNext, streamVars, closeVars, Close, CloseCall, CloseEnter, RunShutdown, Drain,
       Read,
       ReadReturn, Write, WritePart, Flush, WriteEnter, WriteExpires, WriteReturn, Enter, Admits
  <1>2. QED
    BY <1>1, PTL DEF StreamSpec, NoCallAfterClosing
----------------------------------------------------------------------------
IsClosed(s) == s = NoServerSession \/ s \in closed

(* Sessions before the attached one are closed, and accept has returned    *)
(* none after it.                                                          *)
Succession ==
  /\ \A r \in 1 .. started : r < session => r \in closed
  /\ \A s \in accepted : s <= session

(* The reader has one session at most that is not attached, and it goes on *)
(* to install that one only when the attached one is closed.  While it     *)
(* closes the server it does nothing else.                                 *)
Attachment ==
  /\ Attaching => started = session + 1 /\ current = started
  /\ ~Attaching => \/ started = session
                   \/ reader = "stopped" /\ started = session + 1 /\ started \in closed
  /\ reader = "replace" => previous = session
  /\ reader = "install" => IsClosed(session)
  /\ serverClosing[Reader] \in {"session", "wake", "stream"} => reader = "close"

(* A thread in close has shut the door behind it, and closes the session   *)
(* that is attached for good.                                              *)
Closing ==
  \A t \in ServerThreads :
    /\ serverClosing[t] # "no" => ~open /\ ready = NoServerSession
    /\ serverClosing[t] = "session" => closes[t] = session
    /\ serverClosing[t] \in {"wake", "stream", "returned"} => IsClosed(session)
    /\ serverClosing[t] = "returned" => ~stream

ServerInv == ServerTypeOK /\ Succession /\ Attachment /\ Closing /\ PolicyIsApplied

(* Every step keeps sessions in succession.                                *)
LEMMA SuccessionStep ==
  ASSUME ServerTypeOK, Succession, Attachment, [ServerNext]_serverVars
  PROVE  Succession'
<1>. /\ started \in 0 .. MaxServerSessions /\ session \in 0 .. started /\ ready \in {NoServerSession, session}
     /\ current \in 0 .. started
  BY Zenon DEF ServerTypeOK
<1>. USE ServerAssumption DEF Succession, Attachment, Attaching, IsClosed, NoServerSession
<1>1. CASE AcceptCall
  BY Zenon, <1>1 DEF AcceptCall
<1>2. CASE Accept
  BY <1>2 DEF Accept
<1>3. CASE SetPolicy
  BY Zenon, <1>3 DEF SetPolicy, ApplyPolicy, CloseSessions
<1>4. CASE SessionCloses
  BY Zenon, <1>4 DEF SessionCloses, CloseSessions
<1>5. ASSUME NEW t \in ServerThreads, CloseState(t) PROVE Succession'
  BY Zenon, <1>5 DEF CloseState
<1>6. ASSUME NEW t \in ServerThreads, CloseSession(t) PROVE Succession'
  BY Zenon, <1>6 DEF CloseSession, CloseSessions
<1>7. ASSUME NEW t \in ServerThreads, CloseWake(t) PROVE Succession'
  BY Zenon, <1>7 DEF CloseWake, Woken, WokenReader
<1>8. ASSUME NEW t \in ServerThreads, CloseStream(t) PROVE Succession'
  BY Zenon, <1>8 DEF CloseStream
<1>9. CASE AttachCheck
  BY Zenon, <1>9 DEF AttachCheck, AttachFails, CloseSessions, Stop, ReaderUnchanged
<1>10. CASE AttachReplace
  BY Zenon, <1>10 DEF AttachReplace, ClosePrevious, CloseSessions, ReaderUnchanged
<1>11. CASE AttachInstall
  <2>1. CASE open
    <3>1. session' = current /\ UNCHANGED <<started, closed, accepted>> /\ reader = "install"
      BY Zenon, <1>11, <2>1 DEF AttachInstall, StillOpen, AttachFails, Attached
    <3>2. started = session + 1 /\ current = started /\ IsClosed(session)
      BY Zenon, <3>1
    <3>3. \A r \in 1 .. started' : r < session' => r \in closed'
      BY <3>1, <3>2
    <3>4. \A s \in accepted' : s \in Nat /\ s <= session'
      BY <3>1, <3>2 DEF ServerTypeOK
    <3>. QED
      BY Zenon, <3>3, <3>4
  <2>2. CASE ~open
    BY Zenon, <1>11, <2>2 DEF AttachInstall, StillOpen, AttachFails, CloseSessions, Stop
  <2>. QED
    BY Zenon, <2>1, <2>2
<1>12. CASE AttachWake
  BY Zenon, <1>12 DEF AttachWake, AttachWakes, Woken, CloseSessions
<1>13. CASE Pause
  BY Zenon, <1>13 DEF Pause, MayRetry, Stop, ReaderUnchanged
<1>14. CASE PauseEnds
  BY Zenon, <1>14 DEF PauseEnds, MayRetry, Stop, ReaderUnchanged
<1>15. CASE Connected
  BY <1>15 DEF Connected, ReaderUnchanged
<1>16. CASE Disconnected
  BY Zenon, <1>16 DEF Disconnected, CloseSessions, ReaderUnchanged
<1>17. CASE RecvFailed
  BY Zenon, <1>17 DEF RecvFailed, ReaderUnchanged
<1>18. CASE Terminated
  BY Zenon, <1>18 DEF Terminated, Stop, ReaderUnchanged
<1>19. CASE UNCHANGED serverVars
  BY Zenon, <1>19 DEF serverVars
<1>. QED
  BY <1>1, <1>2, <1>3, <1>4, <1>5, <1>6, <1>7, <1>8, <1>9, <1>10, <1>11, <1>12, <1>13, <1>14,
     <1>15, <1>16, <1>17, <1>18, <1>19 DEF ServerNext, CloseServer, ReaderStep, ServerThreads

(* Every step keeps at most one session unattached.                        *)
LEMMA AttachmentStep ==
  ASSUME ServerTypeOK, Attachment, [ServerNext]_serverVars
  PROVE  Attachment'
<1>. /\ started \in 0 .. MaxServerSessions /\ session \in 0 .. started
     /\ serverClosing \in [ServerThreads -> {"no", "session", "wake", "stream", "returned"}]
  BY Zenon DEF ServerTypeOK
<1>. Reader \in ServerThreads
  BY Zenon DEF ServerThreads
<1>. USE ServerAssumption DEF Attachment, Attaching, IsClosed, NoServerSession
<1>1. CASE AcceptCall
  BY Zenon, <1>1 DEF AcceptCall
<1>2. CASE Accept
  BY Zenon, <1>2 DEF Accept
<1>3. CASE SetPolicy
  BY Zenon, <1>3 DEF SetPolicy, ApplyPolicy, CloseSessions
<1>4. CASE SessionCloses
  BY Zenon, <1>4 DEF SessionCloses, CloseSessions
<1>5. ASSUME NEW t \in ServerThreads, CloseState(t) PROVE Attachment'
  BY Zenon, <1>5 DEF CloseState
<1>6. ASSUME NEW t \in ServerThreads, CloseSession(t) PROVE Attachment'
  BY Zenon, <1>6 DEF CloseSession, CloseSessions
<1>7. ASSUME NEW t \in ServerThreads, CloseWake(t) PROVE Attachment'
  BY Zenon, <1>7 DEF CloseWake, Woken, WokenReader
<1>8. ASSUME NEW t \in ServerThreads, CloseStream(t) PROVE Attachment'
  BY Zenon, <1>8 DEF CloseStream
<1>9. CASE AttachCheck
  BY <1>9 DEF AttachCheck, AttachFails, CloseSessions, Stop, ReaderUnchanged
<1>10. CASE AttachReplace
  BY Zenon, <1>10 DEF AttachReplace, ClosePrevious, CloseSessions, ReaderUnchanged
<1>11. CASE AttachInstall
  BY <1>11 DEF AttachInstall, StillOpen, AttachFails, Attached, ApplyPolicy, CloseSessions, Stop
<1>12. CASE AttachWake
  BY Zenon, <1>12 DEF AttachWake, AttachWakes, Woken, CloseSessions
<1>13. CASE Pause
  BY Zenon, <1>13 DEF Pause, MayRetry, Stop, ReaderUnchanged
<1>14. CASE PauseEnds
  BY Zenon, <1>14 DEF PauseEnds, MayRetry, Stop, ReaderUnchanged
<1>15. CASE Connected
  BY Zenon, <1>15 DEF Connected, ReaderUnchanged
<1>16. CASE Disconnected
  BY Zenon, <1>16 DEF Disconnected, CloseSessions, ReaderUnchanged
<1>17. CASE RecvFailed
  BY Zenon, <1>17 DEF RecvFailed, ReaderUnchanged
<1>18. CASE Terminated
  BY Zenon, <1>18 DEF Terminated, Stop, ReaderUnchanged
<1>19. CASE UNCHANGED serverVars
  BY Zenon, <1>19 DEF serverVars
<1>. QED
  BY Zenon, <1>1, <1>2, <1>3, <1>4, <1>5, <1>6, <1>7, <1>8, <1>9, <1>10, <1>11, <1>12, <1>13, <1>14,
     <1>15, <1>16, <1>17, <1>18, <1>19 DEF ServerNext, CloseServer, ReaderStep, ServerThreads

(* Every step keeps the door shut behind a thread in close.                *)
LEMMA ClosingStep ==
  ASSUME ServerTypeOK, Attachment, Closing, [ServerNext]_serverVars
  PROVE  Closing'
<1>. /\ serverClosing \in [ServerThreads -> {"no", "session", "wake", "stream", "returned"}]
     /\ closes \in [ServerThreads -> 0 .. started]
  BY Zenon DEF ServerTypeOK
<1>. USE ServerAssumption DEF Attachment, Closing, IsClosed, NoServerSession
<1>1. CASE AcceptCall
  BY Zenon, <1>1 DEF AcceptCall
<1>2. CASE Accept
  BY Zenon, <1>2 DEF Accept
<1>3. CASE SetPolicy
  BY Zenon, <1>3 DEF SetPolicy, ApplyPolicy, CloseSessions
<1>4. CASE SessionCloses
  BY Zenon, <1>4 DEF SessionCloses, CloseSessions
<1>5. ASSUME NEW t \in ServerThreads, CloseState(t) PROVE Closing'
  BY Zenon, <1>5 DEF CloseState
<1>6. ASSUME NEW t \in ServerThreads, CloseSession(t) PROVE Closing'
  BY Zenon, <1>6 DEF CloseSession, CloseSessions
<1>7. ASSUME NEW t \in ServerThreads, CloseWake(t) PROVE Closing'
  BY Zenon, <1>7 DEF CloseWake, Woken, WokenReader
<1>8. ASSUME NEW t \in ServerThreads, CloseStream(t) PROVE Closing'
  BY Zenon, <1>8 DEF CloseStream
<1>9. CASE AttachCheck
  BY Zenon, <1>9 DEF AttachCheck, AttachFails, CloseSessions, Stop, ReaderUnchanged
<1>10. CASE AttachReplace
  BY Zenon, <1>10 DEF AttachReplace, ClosePrevious, CloseSessions, ReaderUnchanged
<1>11. CASE AttachInstall
  BY Zenon, <1>11
     DEF AttachInstall, StillOpen, AttachFails, Attached, ApplyPolicy, CloseSessions, Stop
<1>12. CASE AttachWake
  BY Zenon, <1>12 DEF AttachWake, AttachWakes, Woken, CloseSessions
<1>13. CASE Pause
  BY Zenon, <1>13 DEF Pause, MayRetry, Stop, ReaderUnchanged
<1>14. CASE PauseEnds
  BY Zenon, <1>14 DEF PauseEnds, MayRetry, Stop, ReaderUnchanged
<1>15. CASE Connected
  BY Zenon, <1>15 DEF Connected, ReaderUnchanged
<1>16. CASE Disconnected
  BY Zenon, <1>16 DEF Disconnected, CloseSessions, ReaderUnchanged
<1>17. CASE RecvFailed
  BY Zenon, <1>17 DEF RecvFailed, ReaderUnchanged
<1>18. CASE Terminated
  BY Zenon, <1>18 DEF Terminated, Stop, ReaderUnchanged
<1>19. CASE UNCHANGED serverVars
  BY Zenon, <1>19 DEF serverVars
<1>. QED
  BY Zenon, <1>1, <1>2, <1>3, <1>4, <1>5, <1>6, <1>7, <1>8, <1>9, <1>10, <1>11, <1>12, <1>13, <1>14,
     <1>15, <1>16, <1>17, <1>18, <1>19 DEF ServerNext, CloseServer, ReaderStep, ServerThreads

(* Every step keeps the policy in force on the session it is meant for.    *)
LEMMA PolicyStep ==
  ASSUME ServerTypeOK, Attachment, PolicyIsApplied, [ServerNext]_serverVars
  PROVE  PolicyIsApplied'
<1>. /\ session \in 0 .. MaxServerSessions /\ current \in 0 .. MaxServerSessions
     /\ applied \in [ServerSessions -> 0 .. MaxPolicies]
  BY ServerAssumption DEF ServerTypeOK
<1>. USE ServerAssumption DEF PolicyIsApplied, ServerSessions, NoServerSession, Attachment, Attaching
<1>1. CASE AcceptCall
  BY Zenon, <1>1 DEF AcceptCall
<1>2. CASE Accept
  BY Zenon, <1>2 DEF Accept
<1>3. CASE SetPolicy
  BY <1>3 DEF SetPolicy, ApplyPolicy, CloseSessions
<1>4. CASE SessionCloses
  BY Zenon, <1>4 DEF SessionCloses, CloseSessions
<1>5. ASSUME NEW t \in ServerThreads, CloseState(t) PROVE PolicyIsApplied'
  BY Zenon, <1>5 DEF CloseState
<1>6. ASSUME NEW t \in ServerThreads, CloseSession(t) PROVE PolicyIsApplied'
  BY Zenon, <1>6 DEF CloseSession, CloseSessions
<1>7. ASSUME NEW t \in ServerThreads, CloseWake(t) PROVE PolicyIsApplied'
  BY Zenon, <1>7 DEF CloseWake, Woken, WokenReader
<1>8. ASSUME NEW t \in ServerThreads, CloseStream(t) PROVE PolicyIsApplied'
  BY Zenon, <1>8 DEF CloseStream
<1>9. CASE AttachCheck
  BY Zenon, <1>9 DEF AttachCheck, AttachFails, CloseSessions, Stop, ReaderUnchanged
<1>10. CASE AttachReplace
  BY <1>10 DEF AttachReplace, ClosePrevious, CloseSessions, ReaderUnchanged
<1>11. CASE AttachInstall
  <2>1. CASE open
    <3>1. /\ session' = current /\ UNCHANGED policy
          /\ applied' = [r \in ServerSessions |-> IF r = current THEN policy' ELSE applied[r]]
      BY <1>11, <2>1 DEF AttachInstall, StillOpen, AttachFails, Attached, ApplyPolicy
    <3>. QED
      BY <3>1
  <2>2. CASE ~open
    BY Zenon, <1>11, <2>2 DEF AttachInstall, StillOpen, AttachFails, Stop
  <2>. QED
    BY <2>1, <2>2
<1>12. CASE AttachWake
  BY <1>12 DEF AttachWake, AttachWakes, Woken, CloseSessions
<1>13. CASE Pause
  BY <1>13 DEF Pause, MayRetry, Stop, ReaderUnchanged
<1>14. CASE PauseEnds
  BY <1>14 DEF PauseEnds, MayRetry, Stop, ReaderUnchanged
<1>15. CASE Connected
  BY <1>15 DEF Connected, ReaderUnchanged
<1>16. CASE Disconnected
  BY Zenon, <1>16 DEF Disconnected, CloseSessions, ReaderUnchanged
<1>17. CASE RecvFailed
  BY Zenon, <1>17 DEF RecvFailed, ReaderUnchanged
<1>18. CASE Terminated
  BY Zenon, <1>18 DEF Terminated, Stop, ReaderUnchanged
<1>19. CASE UNCHANGED serverVars
  BY Zenon, <1>19 DEF serverVars
<1>. QED
  BY Zenon, <1>1, <1>2, <1>3, <1>4, <1>5, <1>6, <1>7, <1>8, <1>9, <1>10, <1>11, <1>12, <1>13, <1>14,
     <1>15, <1>16, <1>17, <1>18, <1>19 DEF ServerNext, CloseServer, ReaderStep, ServerThreads

BooleanTypes == open \in BOOLEAN /\ stream \in BOOLEAN

ControlTypes ==
  /\ owner \in {"idle", "accept", "asleep"}
  /\ reader \in {"recv", "attach", "replace", "install", "wake", "pause", "paused",
                 "close", "stopped"}
  /\ serverClosing \in [ServerThreads -> {"no", "session", "wake", "stream", "returned"}]
  /\ policy \in 0 .. MaxPolicies
  /\ applied \in [ServerSessions -> 0 .. MaxPolicies]

SessionTypes ==
  /\ started \in 0 .. MaxServerSessions
  /\ session \in 0 .. started
  /\ ready \in {NoServerSession, session}
  /\ current \in 0 .. started
  /\ previous \in 0 .. started
  /\ closed \in SUBSET (1 .. started)
  /\ accepted \in SUBSET (1 .. started)
  /\ closes \in [ServerThreads -> 0 .. started]

(* Every step keeps the flags typed.                                       *)
LEMMA BooleanStep ==
  ASSUME BooleanTypes, [ServerNext]_serverVars
  PROVE  BooleanTypes'
<1>. USE ServerAssumption DEF BooleanTypes
<1>1. CASE AcceptCall
  BY Zenon, <1>1 DEF AcceptCall
<1>2. CASE Accept
  BY Zenon, <1>2 DEF Accept
<1>3. CASE SetPolicy
  BY Zenon, <1>3 DEF SetPolicy, ApplyPolicy, CloseSessions
<1>4. CASE SessionCloses
  BY Zenon, <1>4 DEF SessionCloses, CloseSessions
<1>5. ASSUME NEW t \in ServerThreads, CloseState(t) PROVE BooleanTypes'
  BY ZenonT(30), <1>5 DEF CloseState
<1>6. ASSUME NEW t \in ServerThreads, CloseSession(t) PROVE BooleanTypes'
  BY <1>6 DEF CloseSession, CloseSessions
<1>7. ASSUME NEW t \in ServerThreads, CloseWake(t) PROVE BooleanTypes'
  BY <1>7 DEF CloseWake, Woken, WokenReader
<1>8. ASSUME NEW t \in ServerThreads, CloseStream(t) PROVE BooleanTypes'
  BY Zenon, <1>8 DEF CloseStream
<1>9. CASE AttachCheck
  BY Zenon, <1>9 DEF AttachCheck, AttachFails, CloseSessions, Stop, ReaderUnchanged
<1>10. CASE AttachReplace
  BY <1>10 DEF AttachReplace, ClosePrevious, CloseSessions, ReaderUnchanged
<1>11. CASE AttachInstall
  BY Zenon, <1>11
     DEF AttachInstall, StillOpen, AttachFails, Attached, ApplyPolicy, CloseSessions, Stop
<1>12. CASE AttachWake
  BY <1>12 DEF AttachWake, AttachWakes, Woken, CloseSessions
<1>13. CASE Pause
  BY Zenon, <1>13 DEF Pause, MayRetry, Stop, ReaderUnchanged
<1>14. CASE PauseEnds
  BY Zenon, <1>14 DEF PauseEnds, MayRetry, Stop, ReaderUnchanged
<1>15. CASE Connected
  BY <1>15 DEF Connected, ReaderUnchanged
<1>16. CASE Disconnected
  BY <1>16 DEF Disconnected, CloseSessions, ReaderUnchanged
<1>17. CASE RecvFailed
  BY <1>17 DEF RecvFailed, ReaderUnchanged
<1>18. CASE Terminated
  BY Zenon, <1>18 DEF Terminated, Stop, ReaderUnchanged
<1>19. CASE UNCHANGED serverVars
  BY <1>19 DEF serverVars
<1>. QED
  BY Zenon, <1>1, <1>2, <1>3, <1>4, <1>5, <1>6, <1>7, <1>8, <1>9, <1>10, <1>11, <1>12, <1>13, <1>14,
     <1>15, <1>16, <1>17, <1>18, <1>19 DEF ServerNext, CloseServer, ReaderStep, ServerThreads

(* Every step keeps the places of the threads typed.                       *)
LEMMA ControlStep ==
  ASSUME ControlTypes, [ServerNext]_serverVars
  PROVE  ControlTypes'
<1>. USE ServerAssumption DEF ControlTypes, ServerSessions
<1>1. CASE AcceptCall
  BY Zenon, <1>1 DEF AcceptCall
<1>2. CASE Accept
  BY Zenon, <1>2 DEF Accept
<1>3. CASE SetPolicy
  BY <1>3 DEF SetPolicy, ApplyPolicy, CloseSessions
<1>4. CASE SessionCloses
  BY Zenon, <1>4 DEF SessionCloses, CloseSessions
<1>5. ASSUME NEW t \in ServerThreads, CloseState(t) PROVE ControlTypes'
  BY Zenon, <1>5 DEF CloseState
<1>6. ASSUME NEW t \in ServerThreads, CloseSession(t) PROVE ControlTypes'
  BY Zenon, <1>6 DEF CloseSession, CloseSessions
<1>7. ASSUME NEW t \in ServerThreads, CloseWake(t) PROVE ControlTypes'
  BY Zenon, <1>7 DEF CloseWake, Woken, WokenReader
<1>8. ASSUME NEW t \in ServerThreads, CloseStream(t) PROVE ControlTypes'
  BY Zenon, <1>8 DEF CloseStream
<1>9. CASE AttachCheck
  BY Zenon, <1>9 DEF AttachCheck, AttachFails, CloseSessions, Stop, ReaderUnchanged
<1>10. CASE AttachReplace
  BY Zenon, <1>10 DEF AttachReplace, ClosePrevious, CloseSessions, ReaderUnchanged
<1>11. CASE AttachInstall
  BY Zenon, <1>11
     DEF AttachInstall, StillOpen, AttachFails, Attached, ApplyPolicy, CloseSessions, Stop
<1>12. CASE AttachWake
  BY Zenon, <1>12 DEF AttachWake, AttachWakes, Woken, CloseSessions
<1>13. CASE Pause
  BY Zenon, <1>13 DEF Pause, MayRetry, Stop, ReaderUnchanged
<1>14. CASE PauseEnds
  BY Zenon, <1>14 DEF PauseEnds, MayRetry, Stop, ReaderUnchanged
<1>15. CASE Connected
  BY Zenon, <1>15 DEF Connected, ReaderUnchanged
<1>16. CASE Disconnected
  BY Zenon, <1>16 DEF Disconnected, CloseSessions, ReaderUnchanged
<1>17. CASE RecvFailed
  BY Zenon, <1>17 DEF RecvFailed, ReaderUnchanged
<1>18. CASE Terminated
  BY Zenon, <1>18 DEF Terminated, Stop, ReaderUnchanged
<1>19. CASE UNCHANGED serverVars
  BY Zenon, <1>19 DEF serverVars
<1>. QED
  BY Zenon, <1>1, <1>2, <1>3, <1>4, <1>5, <1>6, <1>7, <1>8, <1>9, <1>10, <1>11, <1>12, <1>13, <1>14,
     <1>15, <1>16, <1>17, <1>18, <1>19 DEF ServerNext, CloseServer, ReaderStep, ServerThreads

(* Closing a session that was started, or none, keeps the set's type.      *)
LEMMA ClosedTyped ==
  ASSUME SessionTypes, NEW s \in 0 .. started, CloseSessions({s})
  PROVE  closed' \in SUBSET (1 .. started)
BY DEF SessionTypes, CloseSessions, NoServerSession

(* Every step keeps the session numbers typed.                             *)
LEMMA SessionStep ==
  ASSUME SessionTypes, [ServerNext]_serverVars
  PROVE  SessionTypes'
<1>. USE ServerAssumption DEF SessionTypes, NoServerSession
<1>1. CASE AcceptCall
  BY Zenon, <1>1 DEF AcceptCall
<1>2. CASE Accept
  <2>1. UNCHANGED <<started, session, current, previous, closed, closes>>
    BY Zenon, <1>2 DEF Accept
  <2>2. \/ UNCHANGED <<ready, accepted>>
        \/ ready # NoServerSession /\ accepted' = accepted \cup {ready} /\ ready' = NoServerSession
    BY Zenon, <1>2 DEF Accept
  <2>3. ready # NoServerSession => ready \in 1 .. started
    OBVIOUS
  <2>4. accepted' \in SUBSET (1 .. started)
    BY Zenon, <2>2, <2>3
  <2>. QED
    BY Zenon, <2>1, <2>2, <2>4
<1>3. CASE SetPolicy
  <2>1. UNCHANGED <<started, session, ready, current, previous, accepted, closes>>
    BY <1>3 DEF SetPolicy
  <2>2. CloseSessions({session}) \/ UNCHANGED closed
    BY <1>3 DEF SetPolicy
  <2>3. closed' \in SUBSET (1 .. started)
    BY Zenon, <2>2, ClosedTyped
  <2>. QED
    BY <2>1, <2>3
<1>4. CASE SessionCloses
  BY SMTT(30), <1>4 DEF SessionCloses, CloseSessions
<1>5. ASSUME NEW t \in ServerThreads, CloseState(t) PROVE SessionTypes'
  BY <1>5 DEF CloseState
<1>6. ASSUME NEW t \in ServerThreads, CloseSession(t) PROVE SessionTypes'
  <2>1. UNCHANGED <<started, session, ready, current, previous, accepted, closes>>
    BY Zenon, <1>6 DEF CloseSession
  <2>2. CloseSessions({closes[t]}) /\ closes[t] \in 0 .. started
    BY Zenon, <1>6 DEF CloseSession
  <2>3. closed' \in SUBSET (1 .. started)
    BY Zenon, <2>2, ClosedTyped
  <2>. QED
    BY <2>1, <2>3
<1>7. ASSUME NEW t \in ServerThreads, CloseWake(t) PROVE SessionTypes'
  BY Zenon, <1>7 DEF CloseWake, Woken, WokenReader
<1>8. ASSUME NEW t \in ServerThreads, CloseStream(t) PROVE SessionTypes'
  BY Zenon, <1>8 DEF CloseStream
<1>9. CASE AttachCheck
  <2>1. UNCHANGED <<started, session, ready, current, accepted, closes>>
    BY Zenon, <1>9 DEF AttachCheck, AttachFails, ReaderUnchanged
  <2>2. previous' \in {previous, session}
    BY Zenon, <1>9 DEF AttachCheck, AttachFails
  <2>3. CloseSessions({current}) \/ UNCHANGED closed
    BY Zenon, <1>9 DEF AttachCheck, AttachFails
  <2>4. closed' \in SUBSET (1 .. started)
    BY Zenon, <2>3, ClosedTyped
  <2>. QED
    BY Zenon, <2>1, <2>2, <2>4
<1>10. CASE AttachReplace
  BY <1>10 DEF AttachReplace, ClosePrevious, CloseSessions, ReaderUnchanged
<1>11. CASE AttachInstall
  <2>1. UNCHANGED <<started, current, accepted, closes>>
    BY <1>11 DEF AttachInstall, AttachFails
  <2>2. \/ UNCHANGED <<session, ready, previous>>
        \/ session' = current /\ ready' = current /\ previous' = ready
    BY Zenon, <1>11 DEF AttachInstall, AttachFails, Attached
  <2>3. CloseSessions({current}) \/ UNCHANGED closed
    BY Zenon, <1>11 DEF AttachInstall, AttachFails
  <2>4. closed' \in SUBSET (1 .. started)
    BY Zenon, <2>3, ClosedTyped
  <2>. QED
    BY SMTT(30), <2>1, <2>2, <2>4
<1>12. CASE AttachWake
  BY <1>12 DEF AttachWake, AttachWakes, Woken, CloseSessions
<1>13. CASE Pause
  BY Zenon, <1>13 DEF Pause, MayRetry, Stop, ReaderUnchanged
<1>14. CASE PauseEnds
  BY Zenon, <1>14 DEF PauseEnds, MayRetry, Stop, ReaderUnchanged
<1>15. CASE Connected
  BY SMTT(30), <1>15 DEF Connected, ReaderUnchanged
<1>16. CASE Disconnected
  BY <1>16 DEF Disconnected, CloseSessions, ReaderUnchanged
<1>17. CASE RecvFailed
  BY Zenon, <1>17 DEF RecvFailed, ReaderUnchanged
<1>18. CASE Terminated
  BY Zenon, <1>18 DEF Terminated, Stop, ReaderUnchanged
<1>19. CASE UNCHANGED serverVars
  BY Zenon, <1>19 DEF serverVars
<1>. QED
  BY Zenon, <1>1, <1>2, <1>3, <1>4, <1>5, <1>6, <1>7, <1>8, <1>9, <1>10, <1>11, <1>12, <1>13, <1>14,
     <1>15, <1>16, <1>17, <1>18, <1>19 DEF ServerNext, CloseServer, ReaderStep, ServerThreads

(* The types, in three parts.                                              *)
LEMMA TypesSplit == ServerTypeOK <=> BooleanTypes /\ ControlTypes /\ SessionTypes
BY Zenon DEF ServerTypeOK, BooleanTypes, ControlTypes, SessionTypes

(* The invariant holds of a fresh server.                                  *)
LEMMA ServerStarts == ServerInit => ServerInv
<1>. SUFFICES ASSUME ServerInit PROVE ServerInv
  OBVIOUS
<1>. USE ServerAssumption DEF ServerInit, NoServerSession
<1>1. BooleanTypes
  BY Zenon DEF BooleanTypes
<1>2. ControlTypes
  BY DEF ControlTypes
<1>3. SessionTypes
  BY DEF SessionTypes
<1>4. Succession /\ Attachment
  BY DEF Succession, Attachment, Attaching, IsClosed, ServerThreads
<1>5. Closing
  BY Zenon DEF Closing
<1>6. PolicyIsApplied
  BY Zenon DEF PolicyIsApplied
<1>. QED
  BY <1>1, <1>2, <1>3, <1>4, <1>5, <1>6, TypesSplit DEF ServerInv

(* The invariant holds throughout.                                         *)
LEMMA ServerInvHolds == ServerSpec => []ServerInv
<1>1. ServerInv /\ [ServerNext]_serverVars => ServerInv'
  <2>. SUFFICES ASSUME ServerInv, [ServerNext]_serverVars PROVE ServerInv'
    OBVIOUS
  <2>1. BooleanTypes' /\ ControlTypes' /\ SessionTypes'
    BY Zenon, BooleanStep, ControlStep, SessionStep, TypesSplit DEF ServerInv
  <2>2. ServerTypeOK'
    BY Zenon, <2>1 DEF ServerTypeOK, BooleanTypes, ControlTypes, SessionTypes
  <2>. QED
    BY Zenon, <2>2, SuccessionStep, AttachmentStep, ClosingStep, PolicyStep DEF ServerInv
<1>. QED
  BY <1>1, ServerStarts, PTL DEF ServerSpec

(* Every variable of the server keeps its type, and the session on offer   *)
(* to accept is always the one attached last.                              *)
THEOREM ServerTypes == ServerSpec => []ServerTypeOK
<1>1. ServerInv => ServerTypeOK
  BY DEF ServerInv
<1>. QED
  BY <1>1, ServerInvHolds, PTL

(* accept never offers or returns a session while an earlier one is alive, *)
(* however often the reader replaces sessions and whoever closes them.     *)
THEOREM SessionsSucceed == ServerSpec => []NewestIsAlone
<1>1. ServerInv => NewestIsAlone
  <2>. SUFFICES ASSUME ServerInv, NEW s \in accepted \cup {ready}, NEW r \in 1 .. started, r < s
                PROVE  r \in closed
    BY Zenon DEF NewestIsAlone
  <2>1. session \in Nat /\ s \in Nat /\ s <= session
    BY ServerAssumption DEF ServerInv, ServerTypeOK, Succession, NoServerSession
  <2>2. r < session
    BY <2>1
  <2>. QED
    BY Zenon, <2>2 DEF ServerInv, Succession
<1>. QED
  BY <1>1, ServerInvHolds, PTL

(* Once any call of ServerInner::close has returned, no session is left    *)
(* open but the one attach is about to drop, which nobody has seen.        *)
THEOREM ClosingIsComplete == ServerSpec => []CloseLeavesNothing
<1>1. ServerInv => CloseLeavesNothing
  <2>. SUFFICES ASSUME ServerInv, NEW t \in ServerThreads, serverClosing[t] = "returned"
                PROVE  /\ ready = NoServerSession
                       /\ ~stream
                       /\ \A s \in 1 .. started :
                            s \in closed \/ (Attaching /\ s = current /\ s \notin accepted)
    BY Zenon DEF CloseLeavesNothing
  <2>1. ready = NoServerSession /\ ~stream /\ IsClosed(session)
    BY Zenon DEF ServerInv, Closing
  <2>2. ASSUME NEW s \in 1 .. started
        PROVE  s \in closed \/ (Attaching /\ s = current /\ s \notin accepted)
    <3>1. started \in Nat /\ session \in Nat /\ s \in Nat
      BY ServerAssumption DEF ServerInv, ServerTypeOK
    <3>2. CASE s <= session
      BY <2>1, <3>1, <3>2 DEF ServerInv, Succession, IsClosed, NoServerSession
    <3>3. CASE s > session
      <4>1. s \notin accepted
        BY <3>1, <3>3 DEF ServerInv, Succession
      <4>2. s = started /\ started = session + 1
        BY <3>1, <3>3 DEF ServerInv, Attachment
      <4>. QED
        BY <3>1, <4>1, <4>2 DEF ServerInv, Attachment
    <3>. QED
      BY <3>1, <3>2, <3>3
  <2>. QED
    BY Zenon, <2>1, <2>2
<1>. QED
  BY <1>1, ServerInvHolds, PTL

(* The attached session of an open server has the policy its owner set     *)
(* last, in set_inbound_limits or through attach.                          *)
THEOREM PolicyReachesSession == ServerSpec => []PolicyIsApplied
<1>1. ServerInv => PolicyIsApplied
  BY DEF ServerInv
<1>. QED
  BY <1>1, ServerInvHolds, PTL
----------------------------------------------------------------------------
(* The promises of a session's operations.                                 *)

SetTypes ==
  /\ settling \subseteq Promises /\ locked \subseteq Promises /\ pending \subseteq Promises
  /\ sent \subseteq Promises /\ received \subseteq Promises /\ done \subseteq Promises
  /\ hook \subseteq Promises /\ collected \subseteq Promises
  /\ registered \subseteq Promises /\ waited \subseteq Promises

HolderTypes ==
  /\ holder \in [Promises -> {"holding", "callback", "drop", "receiver", "gone"}]
  /\ ran \in [Promises -> 0 .. 1]

(* Publication: a promise is settled once, under its notification lock,    *)
(* and once that is released its hook is taken and it is marked done,      *)
(* unless nobody holds it any more.                                        *)
Publication ==
  /\ locked = settling
  /\ settling \subseteq sent
  /\ pending \cap sent = {}
  /\ done \subseteq sent
  /\ waited \subseteq sent
  /\ \A p, q \in settling : p = q
  /\ \A p \in settling : p \in received \/ holder[p] = "gone"
  /\ \A p \in sent \ settling : p \notin hook /\ (p \in done \/ holder[p] = "gone")

(* A callback is in one place: registered as a hook, collected by the      *)
(* settling thread, being run by the holder, or run.  It leaves the last   *)
(* of these without having run only when the promise is dropped.           *)
Callbacks ==
  \A p \in Promises :
    /\ p \in hook => /\ p \in registered \ collected
                     /\ holder[p] \in {"holding", "drop"}
                     /\ ran[p] = 0
    /\ p \in collected => p \in registered \cap sent /\ holder[p] # "callback" /\ ran[p] = 0
    /\ holder[p] = "callback" => p \in registered \cap sent /\ ran[p] = 0
    /\ ran[p] = 1 => p \in registered \cap sent
    /\ p \in registered /\ holder[p] \in {"holding", "drop"} =>
         p \in hook \/ p \in collected \/ ran[p] = 1

PromiseInv == PromiseTypeOK /\ Publication /\ Callbacks /\ WaitKeepsCallback

(* Every step keeps the sets of promises within the promises.              *)
LEMMA SetStep ==
  ASSUME SetTypes, [PromiseNext]_promiseVars
  PROVE  SetTypes'
<1>. USE DEF SetTypes
<1>1. CASE LockSession
  BY <1>1 DEF LockSession
<1>2. CASE UnlockSession
  BY Zenon, <1>2 DEF UnlockSession
<1>3. ASSUME NEW p \in Promises, SendPublish(p) PROVE SetTypes'
  BY Zenon, <1>3 DEF SendPublish, LockNotification
<1>4. ASSUME NEW p \in Promises, SendNotify(p) PROVE SetTypes'
  BY Zenon, <1>4 DEF SendNotify
<1>5. ASSUME NEW p \in Promises, RunCallback(p) PROVE SetTypes'
  BY Zenon, <1>5 DEF RunCallback
<1>6. ASSUME NEW p \in Promises, Notify(p) PROVE SetTypes'
  BY Zenon, <1>6 DEF Notify, FirstNotify, RunsNow, settlerVars
<1>7. ASSUME NEW p \in Promises, HolderCallback(p) PROVE SetTypes'
  BY Zenon, <1>7 DEF HolderCallback, settlerVars
<1>8. ASSUME NEW p \in Promises, WaitResult(p) PROVE SetTypes'
  BY Zenon, <1>8 DEF WaitResult, settlerVars
<1>9. ASSUME NEW p \in Promises, DropUnread(p) PROVE SetTypes'
  BY Zenon, <1>9 DEF DropUnread, settlerVars
<1>10. ASSUME NEW p \in Promises, DropHook(p) PROVE SetTypes'
  BY Zenon, <1>10 DEF DropHook, settlerVars
<1>11. ASSUME NEW p \in Promises, DropReceiver(p) PROVE SetTypes'
  BY Zenon, <1>11 DEF DropReceiver, settlerVars
<1>12. CASE UNCHANGED promiseVars
  BY ZenonT(30), <1>12 DEF promiseVars
<1>. QED
  BY Zenon, <1>1, <1>2, <1>3, <1>4, <1>5, <1>6, <1>7, <1>8, <1>9, <1>10, <1>11, <1>12
     DEF PromiseNext

(* Every step keeps the holders typed, and runs no callback twice.         *)
LEMMA HolderStep ==
  ASSUME HolderTypes, Callbacks, [PromiseNext]_promiseVars
  PROVE  HolderTypes'
<1>. USE DEF HolderTypes, Callbacks
<1>1. CASE LockSession
  BY Zenon, <1>1 DEF LockSession
<1>2. CASE UnlockSession
  BY Zenon, <1>2 DEF UnlockSession
<1>3. ASSUME NEW p \in Promises, SendPublish(p) PROVE HolderTypes'
  BY Zenon, <1>3 DEF SendPublish, LockNotification
<1>4. ASSUME NEW p \in Promises, SendNotify(p) PROVE HolderTypes'
  BY Zenon, <1>4 DEF SendNotify
<1>5. ASSUME NEW p \in Promises, RunCallback(p) PROVE HolderTypes'
  BY <1>5 DEF RunCallback
<1>6. ASSUME NEW p \in Promises, Notify(p) PROVE HolderTypes'
  BY Zenon, <1>6 DEF Notify, FirstNotify, RunsNow, settlerVars
<1>7. ASSUME NEW p \in Promises, HolderCallback(p) PROVE HolderTypes'
  BY <1>7 DEF HolderCallback, settlerVars
<1>8. ASSUME NEW p \in Promises, WaitResult(p) PROVE HolderTypes'
  BY Zenon, <1>8 DEF WaitResult, settlerVars
<1>9. ASSUME NEW p \in Promises, DropUnread(p) PROVE HolderTypes'
  BY Zenon, <1>9 DEF DropUnread, settlerVars
<1>10. ASSUME NEW p \in Promises, DropHook(p) PROVE HolderTypes'
  BY Zenon, <1>10 DEF DropHook, settlerVars
<1>11. ASSUME NEW p \in Promises, DropReceiver(p) PROVE HolderTypes'
  BY Zenon, <1>11 DEF DropReceiver, settlerVars
<1>12. CASE UNCHANGED promiseVars
  BY Zenon, <1>12 DEF promiseVars
<1>. QED
  BY <1>1, <1>2, <1>3, <1>4, <1>5, <1>6, <1>7, <1>8, <1>9, <1>10, <1>11, <1>12 DEF PromiseNext

(* Every step keeps results published under the notification lock.         *)
LEMMA PublicationStep ==
  ASSUME HolderTypes, Publication, Callbacks, [PromiseNext]_promiseVars
  PROVE  Publication'
<1>. USE DEF HolderTypes, Publication, Callbacks
<1>1. CASE LockSession
  BY Zenon, <1>1 DEF LockSession
<1>2. CASE UnlockSession
  BY Zenon, <1>2 DEF UnlockSession
<1>3. ASSUME NEW p \in Promises, SendPublish(p) PROVE Publication'
  BY ZenonT(30), <1>3 DEF SendPublish, LockNotification
<1>4. ASSUME NEW p \in Promises, SendNotify(p) PROVE Publication'
  BY <1>4 DEF SendNotify
<1>5. ASSUME NEW p \in Promises, RunCallback(p) PROVE Publication'
  BY Zenon, <1>5 DEF RunCallback
<1>6. ASSUME NEW p \in Promises, Notify(p) PROVE Publication'
  <2>1. UNCHANGED <<settling, locked, pending, sent, received, done, waited>>
    BY Zenon, <1>6 DEF Notify, settlerVars
  <2>2. holder[p] = "holding" /\ p \notin settling
    BY ZenonT(30), <1>6 DEF Notify
  <2>3. CASE p \in done
    <3>1. hook' = hook /\ holder' = [holder EXCEPT ![p] = "callback"]
      BY ZenonT(30), <1>6, <2>3 DEF Notify, RunsNow
    <3>. QED
      BY <2>1, <2>2, <3>1
  <2>4. CASE p \notin done
    <3>1. hook' = hook \cup {p} /\ holder' = holder
      BY Zenon, <1>6, <2>4 DEF Notify, RunsNow
    <3>2. p \notin sent
      BY ZenonT(30), <2>2, <2>4
    <3>. QED
      BY <2>1, <3>1, <3>2
  <2>. QED
    BY Zenon, <2>3, <2>4
<1>7. ASSUME NEW p \in Promises, HolderCallback(p) PROVE Publication'
  BY SMTT(30), <1>7 DEF HolderCallback, settlerVars
<1>8. ASSUME NEW p \in Promises, WaitResult(p) PROVE Publication'
  BY SMTT(30), <1>8 DEF WaitResult, settlerVars
<1>9. ASSUME NEW p \in Promises, DropUnread(p) PROVE Publication'
  BY SMTT(30), <1>9 DEF DropUnread, settlerVars
<1>10. ASSUME NEW p \in Promises, DropHook(p) PROVE Publication'
  BY SMTT(30), <1>10 DEF DropHook, settlerVars
<1>11. ASSUME NEW p \in Promises, DropReceiver(p) PROVE Publication'
  BY <1>11 DEF DropReceiver, settlerVars
<1>12. CASE UNCHANGED promiseVars
  BY Zenon, <1>12 DEF promiseVars
<1>. QED
  BY Zenon, <1>1, <1>2, <1>3, <1>4, <1>5, <1>6, <1>7, <1>8, <1>9, <1>10, <1>11, <1>12
     DEF PromiseNext

(* Every step keeps a callback in one place.                               *)
LEMMA CallbackStep ==
  ASSUME HolderTypes, SetTypes, Publication, Callbacks, [PromiseNext]_promiseVars
  PROVE  Callbacks'
<1>. USE DEF HolderTypes, SetTypes, Publication, Callbacks
<1>1. CASE LockSession
  BY Zenon, <1>1 DEF LockSession
<1>2. CASE UnlockSession
  BY Zenon, <1>2 DEF UnlockSession
<1>3. ASSUME NEW p \in Promises, SendPublish(p) PROVE Callbacks'
  BY ZenonT(30), <1>3 DEF SendPublish, LockNotification
<1>4. ASSUME NEW p \in Promises, SendNotify(p) PROVE Callbacks'
  BY SMTT(30), <1>4 DEF SendNotify
<1>5. ASSUME NEW p \in Promises, RunCallback(p) PROVE Callbacks'
  BY SMTT(30), <1>5 DEF RunCallback
<1>6. ASSUME NEW p \in Promises, Notify(p) PROVE Callbacks'
  BY SMTT(30), <1>6 DEF Notify, FirstNotify, RunsNow, settlerVars
<1>7. ASSUME NEW p \in Promises, HolderCallback(p) PROVE Callbacks'
  BY SMTT(30), <1>7 DEF HolderCallback, settlerVars
<1>8. ASSUME NEW p \in Promises, WaitResult(p) PROVE Callbacks'
  BY SMTT(30), <1>8 DEF WaitResult, settlerVars
<1>9. ASSUME NEW p \in Promises, DropUnread(p) PROVE Callbacks'
  BY SMTT(30), <1>9 DEF DropUnread, settlerVars
<1>10. ASSUME NEW p \in Promises, DropHook(p) PROVE Callbacks'
  BY SMTT(30), <1>10 DEF DropHook, settlerVars
<1>11. ASSUME NEW p \in Promises, DropReceiver(p) PROVE Callbacks'
  BY <1>11 DEF DropReceiver, settlerVars
<1>12. CASE UNCHANGED promiseVars
  BY Zenon, <1>12 DEF promiseVars
<1>. QED
  BY Zenon, <1>1, <1>2, <1>3, <1>4, <1>5, <1>6, <1>7, <1>8, <1>9, <1>10, <1>11, <1>12
     DEF PromiseNext

(* Every step keeps the callback of a promise that was waited for.         *)
LEMMA WaitStep ==
  ASSUME HolderTypes, SetTypes, Publication, Callbacks, WaitKeepsCallback, [PromiseNext]_promiseVars
  PROVE  WaitKeepsCallback'
<1>. USE DEF HolderTypes, SetTypes, Publication, Callbacks, WaitKeepsCallback
<1>1. CASE LockSession
  BY Zenon, <1>1 DEF LockSession
<1>2. CASE UnlockSession
  BY Zenon, <1>2 DEF UnlockSession
<1>3. ASSUME NEW p \in Promises, SendPublish(p) PROVE WaitKeepsCallback'
  BY Zenon, <1>3 DEF SendPublish, LockNotification
<1>4. ASSUME NEW p \in Promises, SendNotify(p) PROVE WaitKeepsCallback'
  BY ZenonT(30), <1>4 DEF SendNotify
<1>5. ASSUME NEW p \in Promises, RunCallback(p) PROVE WaitKeepsCallback'
  BY SMTT(30), <1>5 DEF RunCallback
<1>6. ASSUME NEW p \in Promises, Notify(p) PROVE WaitKeepsCallback'
  BY <1>6 DEF Notify, FirstNotify, RunsNow, settlerVars
<1>7. ASSUME NEW p \in Promises, HolderCallback(p) PROVE WaitKeepsCallback'
  BY ZenonT(30), <1>7 DEF HolderCallback, settlerVars
<1>8. ASSUME NEW p \in Promises, WaitResult(p) PROVE WaitKeepsCallback'
  BY SMTT(30), <1>8 DEF WaitResult, settlerVars
<1>9. ASSUME NEW p \in Promises, DropUnread(p) PROVE WaitKeepsCallback'
  BY SMTT(30), <1>9 DEF DropUnread, settlerVars
<1>10. ASSUME NEW p \in Promises, DropHook(p) PROVE WaitKeepsCallback'
  BY SMTT(30), <1>10 DEF DropHook, settlerVars
<1>11. ASSUME NEW p \in Promises, DropReceiver(p) PROVE WaitKeepsCallback'
  BY <1>11 DEF DropReceiver, settlerVars
<1>12. CASE UNCHANGED promiseVars
  BY Zenon, <1>12 DEF promiseVars
<1>. QED
  BY Zenon, <1>1, <1>2, <1>3, <1>4, <1>5, <1>6, <1>7, <1>8, <1>9, <1>10, <1>11, <1>12
     DEF PromiseNext

(* The types, in three parts.                                              *)
LEMMA PromiseTypesSplit == PromiseTypeOK <=> settler \in BOOLEAN /\ SetTypes /\ HolderTypes
BY Zenon DEF PromiseTypeOK, SetTypes, HolderTypes

(* The critical section is entered or it is not.                           *)
LEMMA SessionLockStep ==
  ASSUME settler \in BOOLEAN, [PromiseNext]_promiseVars
  PROVE  settler' \in BOOLEAN
<1>1. CASE LockSession
  BY <1>1 DEF LockSession
<1>2. CASE UnlockSession
  BY Zenon, <1>2 DEF UnlockSession
<1>3. ASSUME NEW p \in Promises, SendPublish(p) PROVE settler' \in BOOLEAN
  BY <1>3 DEF SendPublish, LockNotification
<1>4. ASSUME NEW p \in Promises, SendNotify(p) PROVE settler' \in BOOLEAN
  BY <1>4 DEF SendNotify
<1>5. ASSUME NEW p \in Promises, RunCallback(p) PROVE settler' \in BOOLEAN
  BY <1>5 DEF RunCallback
<1>6. ASSUME NEW p \in Promises, Notify(p) PROVE settler' \in BOOLEAN
  BY <1>6 DEF Notify, FirstNotify, RunsNow, settlerVars
<1>7. ASSUME NEW p \in Promises, HolderCallback(p) PROVE settler' \in BOOLEAN
  BY <1>7 DEF HolderCallback, settlerVars
<1>8. ASSUME NEW p \in Promises, WaitResult(p) PROVE settler' \in BOOLEAN
  BY <1>8 DEF WaitResult, settlerVars
<1>9. ASSUME NEW p \in Promises, DropUnread(p) PROVE settler' \in BOOLEAN
  BY <1>9 DEF DropUnread, settlerVars
<1>10. ASSUME NEW p \in Promises, DropHook(p) PROVE settler' \in BOOLEAN
  BY <1>10 DEF DropHook, settlerVars
<1>11. ASSUME NEW p \in Promises, DropReceiver(p) PROVE settler' \in BOOLEAN
  BY <1>11 DEF DropReceiver, settlerVars
<1>12. CASE UNCHANGED promiseVars
  BY <1>12 DEF promiseVars
<1>. QED
  BY <1>1, <1>2, <1>3, <1>4, <1>5, <1>6, <1>7, <1>8, <1>9, <1>10, <1>11, <1>12 DEF PromiseNext

(* The invariant holds of fresh promises.                                  *)
LEMMA PromiseStarts == PromiseInit => PromiseInv
<1>. SUFFICES ASSUME PromiseInit PROVE PromiseInv
  OBVIOUS
<1>1. settler \in BOOLEAN
  BY Zenon DEF PromiseInit
<1>2. SetTypes /\ HolderTypes
  BY DEF PromiseInit, SetTypes, HolderTypes
<1>3. Publication
  BY SMTT(30) DEF PromiseInit, Publication
<1>4. Callbacks /\ WaitKeepsCallback
  BY DEF PromiseInit, Callbacks, WaitKeepsCallback
<1>. QED
  BY <1>1, <1>2, <1>3, <1>4, PromiseTypesSplit DEF PromiseInv

(* The invariant holds throughout.                                         *)
LEMMA PromiseInvHolds == PromiseSpec => []PromiseInv
<1>1. PromiseInv /\ [PromiseNext]_promiseVars => PromiseInv'
  <2>. SUFFICES ASSUME PromiseInv, [PromiseNext]_promiseVars PROVE PromiseInv'
    OBVIOUS
  <2>1. settler \in BOOLEAN /\ SetTypes /\ HolderTypes
    BY PromiseTypesSplit DEF PromiseInv
  <2>2. settler' \in BOOLEAN /\ SetTypes' /\ HolderTypes'
    BY <2>1, SessionLockStep, SetStep, HolderStep DEF PromiseInv
  <2>3. PromiseTypeOK'
    BY <2>2 DEF PromiseTypeOK, SetTypes, HolderTypes
  <2>. QED
    BY <2>1, <2>3, PublicationStep, CallbackStep, WaitStep DEF PromiseInv
<1>. QED
  BY <1>1, PromiseStarts, PTL DEF PromiseSpec

(* Every variable keeps its type; in particular no callback runs twice,    *)
(* whether notify, the settling thread or a drop comes first.              *)
THEOREM CallbacksRunOnce == PromiseSpec => []PromiseTypeOK
<1>1. PromiseInv => PromiseTypeOK
  BY SMTT(30) DEF PromiseInv
<1>. QED
  BY <1>1, PromiseInvHolds, PTL

(* A callback given to Promise::notify runs only once ResultSender::send   *)
(* has published the result.                                               *)
THEOREM CallbacksFollowResults == PromiseSpec => []CallbackAfterResult
<1>1. PromiseInv => CallbackAfterResult
  BY DEF PromiseInv, PromiseTypeOK, Callbacks, CallbackAfterResult
<1>. QED
  BY <1>1, PromiseInvHolds, PTL

(* A waiter that takes the result and drops the promise does not take the  *)
(* callback with it: ResultSender::send publishes under the lock that      *)
(* Promise::drop needs.                                                    *)
THEOREM WaitingLosesNoCallback == PromiseSpec => []WaitKeepsCallback
<1>1. PromiseInv => WaitKeepsCallback
  BY DEF PromiseInv
<1>. QED
  BY <1>1, PromiseInvHolds, PTL
----------------------------------------------------------------------------
(* The condition variable of a session.                                    *)

(* The initial state is typed.                                             *)
LEMMA WakeupsTypeInit == WakeupsInit => WakeupsTypeOK
<1>1. ASSUME WakeupsInit PROVE isOpen \in BOOLEAN
  BY <1>1, Zenon DEF WakeupsInit
<1>. QED
  BY <1>1, WakeupsAssumption DEF WakeupsInit, WakeupsTypeOK, Keys, Notifiers

(* What closing does to the queues keeps their types.                      *)
LEMMA CloseTyped ==
  ASSUME WakeupsTypeOK, CloseQueues
  PROVE  /\ isOpen' \in BOOLEAN
         /\ incoming' \in 0 .. MaxIncoming
         /\ outgoing' \in SUBSET Keys
         /\ operations' \in SUBSET Keys
         /\ owed' \in SUBSET Notifiers
<1>1. isOpen' \in BOOLEAN
  BY Zenon DEF CloseQueues
<1>2. incoming' \in 0 .. MaxIncoming
  BY WakeupsAssumption DEF CloseQueues
<1>3. outgoing' \in SUBSET Keys /\ operations' \in SUBSET Keys
  BY DEF CloseQueues
<1>4. owed' \in SUBSET Notifiers
  BY WakeupsAssumption DEF CloseQueues, OweNotify, WakeupsTypeOK, Notifiers, TheCloser
<1>. QED
  BY <1>1, <1>2, <1>3, <1>4

(* Every step keeps the types.                                             *)
LEMMA WakeupsTypeStep == WakeupsTypeOK /\ [WakeupsNext]_wakeupsVars => WakeupsTypeOK'
<1>. SUFFICES ASSUME WakeupsTypeOK, [WakeupsNext]_wakeupsVars PROVE WakeupsTypeOK'
  OBVIOUS
<1>. USE WakeupsAssumption DEF WakeupsTypeOK, queues, Keys, Notifiers, TheReader, TheCloser,
         OweNotify, Live, Expired, HasIncoming
<1>1. CASE Enqueue
  BY <1>1 DEF Enqueue
<1>2. CASE HandleRequest
  BY SMTT(30), <1>2 DEF HandleRequest
<1>3. CASE \E k \in Keys : HandleResponse(k)
  BY SMTT(30), <1>3 DEF HandleResponse
<1>4. CASE FinishClose
  <2>1. UNCHANGED <<last_key, due, sleepers, watched, receiver, sending, writerAt, deadlines>>
    BY ZenonT(30), <1>4 DEF FinishClose
  <2>2. CASE isOpen
    BY SMTT(30), <1>4, <2>1, <2>2, CloseTyped DEF FinishClose
  <2>3. CASE ~isOpen
    <3>1. UNCHANGED <<isOpen, incoming, outgoing, operations>>
      BY SMTT(30), <1>4, <2>3 DEF FinishClose
    <3>2. owed' = owed \cup {TheCloser}
      BY <1>4, <2>3 DEF FinishClose
    <3>3. TheCloser \in Notifiers
      OBVIOUS
    <3>4. owed' \in SUBSET Notifiers
      BY <3>2, <3>3, ZenonT(30) DEF WakeupsTypeOK
    <3>. QED
      BY SMTT(30), <2>1, <3>1, <3>4
  <2>. QED
    BY <2>2, <2>3
<1>5. CASE \E t \in Notifiers : NotifyAll(t)
  BY SMTT(30), <1>5 DEF NotifyAll
<1>6. CASE \E k \in Keys : DeadlinePasses(k)
  BY SMTT(30), <1>6 DEF DeadlinePasses
<1>7. CASE Timer
  BY SMTT(30), <1>7 DEF Timer
<1>8. CASE WaitExpires
  BY SMTT(30), <1>8 DEF WaitExpires
<1>9. CASE RecvCall
  BY SMTT(30), <1>9 DEF RecvCall
<1>10. CASE Recv
  <2>1. UNCHANGED <<isOpen, outgoing, operations, last_key, due, owed, watched, sending, writerAt,
                    deadlines>>
    BY <1>10 DEF Recv
  <2>2. incoming' \in 0 .. MaxIncoming /\ receiver' \in {"idle", "recv"}
    BY <1>10 DEF Recv
  <2>3. sleepers' \in SUBSET {"recv", "writer", "deadlines"}
    BY Zenon, <1>10 DEF Recv
  <2>. QED
    BY SMTT(30), <2>1, <2>2, <2>3
<1>11. CASE WriterTurn
  <2>1. UNCHANGED <<isOpen, incoming, last_key, due, owed, watched, receiver, deadlines>>
    BY <1>11 DEF WriterTurn
  <2>2. operations' \in SUBSET Keys /\ outgoing' \in SUBSET Keys
    BY Zenon, <1>11 DEF WriterTurn
  <2>4. sending' = sending \/ sending' \in outgoing
    BY <1>11 DEF WriterTurn
  <2>5. \A k \in outgoing : k \in 0 .. MaxOps
    OBVIOUS
  <2>6. sending' \in 0 .. MaxOps
    BY <2>4, <2>5, Zenon DEF WakeupsTypeOK
  <2>7. /\ sleepers' \in SUBSET {"recv", "writer", "deadlines"}
        /\ writerAt' \in {"loop", "callbacks", "send", "done"}
    BY Zenon, <1>11 DEF WriterTurn
  <2>. QED
    BY SMTT(30), <2>1, <2>2, <2>7, <2>6
<1>12. CASE WriterCallbacks
  BY SMTT(30), <1>12 DEF WriterCallbacks
<1>13. CASE WriterSend
  <2>1. UNCHANGED <<last_key, due, sleepers, watched, receiver, sending, deadlines>>
    BY SMTT(30), <1>13 DEF WriterSend
  <2>2. writerAt' \in {"loop", "done"}
    BY SMTT(30), <1>13 DEF WriterSend
  <2>3. \/ CloseQueues
        \/ UNCHANGED queues /\ OweNotify(TheCloser)
        \/ UNCHANGED <<isOpen, incoming, outgoing, owed>> /\ operations' \subseteq operations
    BY SMTT(30), <1>13 DEF WriterSend
  <2>4. CASE CloseQueues
    BY SMTT(30), <2>1, <2>2, <2>4, CloseTyped
  <2>5. CASE UNCHANGED queues /\ OweNotify(TheCloser)
    <3>1. UNCHANGED <<isOpen, incoming, outgoing, operations>> /\ owed' = owed \cup {TheCloser}
      BY <2>5
    <3>2. TheCloser \in Notifiers
      BY SMTT(30)
    <3>3. owed' \in SUBSET Notifiers
      BY <3>1, <3>2, Zenon DEF WakeupsTypeOK
    <3>. QED
      BY SMTT(30), <2>1, <2>2, <3>1, <3>3
  <2>6. CASE UNCHANGED <<isOpen, incoming, outgoing, owed>> /\ operations' \subseteq operations
    BY <2>1, <2>2, <2>6
  <2>. QED
    BY ZenonT(30), <2>3, <2>4, <2>5, <2>6
<1>14. CASE DeadlinesTurn
  BY ZenonT(30), <1>14 DEF DeadlinesTurn, Watch
<1>15. CASE DeadlinesCallbacks
  BY SMTT(30), <1>15 DEF DeadlinesCallbacks
<1>16. CASE UNCHANGED wakeupsVars
  BY <1>16 DEF wakeupsVars
<1>. QED
  BY ZenonT(30), <1>1, <1>2, <1>3, <1>4, <1>5, <1>6, <1>7, <1>8, <1>9, <1>10, <1>11, <1>12, <1>13,
     <1>14,
     <1>15, <1>16 DEF WakeupsNext

(* Every variable of the wakeup protocol keeps its type.                   *)
THEOREM WakeupTypes == WakeupsSafeSpec => []WakeupsTypeOK
<1>. QED
  BY WakeupsTypeInit, WakeupsTypeStep, PTL DEF WakeupsSafeSpec

(* Every step keeps a notify_all owed to those who sleep with work to do.  *)
LEMMA WakeupStep == WakeupsTypeOK /\ NoLostWakeup /\ [WakeupsNext]_wakeupsVars => NoLostWakeup'
<1>. SUFFICES ASSUME WakeupsTypeOK, NoLostWakeup, [WakeupsNext]_wakeupsVars PROVE NoLostWakeup'
  OBVIOUS
<1>. USE WakeupsAssumption DEF NoLostWakeup, WakeupsTypeOK, queues, OweNotify, Live, HasIncoming
<1>1. CASE Enqueue
  BY SMTT(30), <1>1 DEF Enqueue
<1>2. CASE HandleRequest
  BY SMTT(30), <1>2 DEF HandleRequest
<1>3. CASE \E k \in Keys : HandleResponse(k)
  BY SMTT(30), <1>3 DEF HandleResponse
<1>4. CASE FinishClose
  BY <1>4 DEF FinishClose, CloseQueues
<1>5. CASE \E t \in Notifiers : NotifyAll(t)
  BY Zenon, <1>5 DEF NotifyAll
<1>6. CASE \E k \in Keys : DeadlinePasses(k)
  BY <1>6 DEF DeadlinePasses
<1>7. CASE Timer
  BY Zenon, <1>7 DEF Timer
<1>8. CASE WaitExpires
  BY Zenon, <1>8 DEF WaitExpires
<1>9. CASE RecvCall
  BY ZenonT(30), <1>9 DEF RecvCall
<1>10. CASE Recv
  BY <1>10 DEF Recv
<1>11. CASE WriterTurn
  BY Zenon, <1>11 DEF WriterTurn
<1>12. CASE WriterCallbacks
  BY ZenonT(30), <1>12 DEF WriterCallbacks
<1>13. CASE WriterSend
  BY SMTT(30), <1>13 DEF WriterSend, CloseQueues
<1>14. CASE DeadlinesTurn
  BY <1>14 DEF DeadlinesTurn, Watch
<1>15. CASE DeadlinesCallbacks
  BY Zenon, <1>15 DEF DeadlinesCallbacks
<1>16. CASE UNCHANGED wakeupsVars
  BY <1>16 DEF wakeupsVars
<1>. QED
  BY ZenonT(30), <1>1, <1>2, <1>3, <1>4, <1>5, <1>6, <1>7, <1>8, <1>9, <1>10, <1>11, <1>12, <1>13,
     <1>14,
     <1>15, <1>16 DEF WakeupsNext

(* No thread sleeps on the session's condition variable while it has work, *)
(* unless a notify_all is on its way: the invariant is inductive, because  *)
(* only steps that owe a notify_all create work, and a thread goes to      *)
(* sleep in the critical section in which it found none.                   *)
THEOREM NoWakeupIsLost == WakeupsSafeSpec => []NoLostWakeup
<1>1. WakeupsInit => NoLostWakeup
  BY Zenon DEF WakeupsInit, NoLostWakeup
<1>. QED
  BY <1>1, WakeupsTypeInit, WakeupsTypeStep, WakeupStep, PTL DEF WakeupsSafeSpec
=============================================================================
