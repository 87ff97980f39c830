------------------------------- MODULE Server -------------------------------
(***************************************************************************)
(* The protocol server (protocol/server.rs): its reader attaches the       *)
(* session of each handshake and closes the one before, while the owner    *)
(* accepts sessions and sets their policy and any thread closes the        *)
(* server.  An action is what a thread does in one critical section of the *)
(* server lock, or one call it makes without it.                           *)
(*                                                                         *)
(* Sessions are numbered in the order they are established.  The limits    *)
(* and the automatic reply timeout are a policy, numbered as it is set.    *)
(***************************************************************************)
EXTENDS Naturals

CONSTANTS
  ServerClosers,      \* threads that call Server::close or Closer::close
  MaxServerSessions,  \* bound on the sessions established
  MaxPolicies         \* bound on the policies set

Reader == "reader"

ASSUME ServerAssumption ==
  /\ MaxServerSessions \in Nat
  /\ MaxPolicies \in Nat
  /\ Reader \notin ServerClosers

ServerSessions == 1 .. MaxServerSessions
NoServerSession == 0
ServerThreads == ServerClosers \cup {Reader}

VARIABLES
  open,           \* State::Open
  session,        \* State's session: the one attached last
  ready,          \* the session that waits for accept, or NoServerSession
  policy,         \* policy of the server
  applied,        \* session -> its policy
  started,        \* sessions started so far
  closed,         \* sessions that are closed
  stream,         \* the byte stream is open
  owner,          \* the owner: "idle", in "accept" or "asleep" there
  accepted,       \* sessions accept has returned
  reader,         \* where run_reader is
  current,        \* the reader's session, or NoServerSession
  previous,       \* the session that attach has to close or drop
  serverClosing,  \* thread -> where it is in ServerInner::close
  closes          \* thread -> the session its close has to close

serverVars == <<open, session, ready, policy, applied, started, closed, stream, owner,
                accepted, reader, current, previous, serverClosing, closes>>

ServerInit ==
  /\ open = TRUE
  /\ session = NoServerSession
  /\ ready = NoServerSession
  /\ policy = 0
  /\ applied = [s \in ServerSessions |-> 0]
  /\ started = 0
  /\ closed = {}
  /\ stream = TRUE
  /\ owner = "idle"
  /\ accepted = {}
  /\ reader = "recv"
  /\ current = NoServerSession
  /\ previous = NoServerSession
  /\ serverClosing = [t \in ServerThreads |-> "no"]
  /\ closes = [t \in ServerThreads |-> NoServerSession]

(* SessionInner::close; a session that is gone has been closed.            *)
CloseSessions(ss) == closed' = closed \cup (ss \ {NoServerSession})
----------------------------------------------------------------------------
(* The owner.                                                              *)
AcceptCall ==
  /\ owner = "idle"
  /\ owner' = "accept"
  /\ UNCHANGED <<open, session, ready, policy, applied, started, closed, stream,
                 accepted, reader, current, previous, serverClosing, closes>>

(* accept fails once closed, takes the ready session, or waits.            *)
Accept ==
  /\ owner = "accept"
  /\ \/ ~open /\ owner' = "idle" /\ UNCHANGED <<ready, accepted>>
     \/ /\ open
        /\ ready # NoServerSession
        /\ accepted' = accepted \cup {ready}
        /\ ready' = NoServerSession
        /\ owner' = "idle"
     \/ open /\ ready = NoServerSession /\ owner' = "asleep" /\ UNCHANGED <<ready, accepted>>
  /\ UNCHANGED <<open, session, policy, applied, started, closed, stream,
                 reader, current, previous, serverClosing, closes>>

(* set_inbound_limits and set_autoreply_timeout change the server and the  *)
(* attached session in one critical section; a smaller limit may close it. *)
ApplyToDefaults(s) == UNCHANGED applied
ApplyPolicy(s) == applied' = [r \in ServerSessions |-> IF r = s THEN policy' ELSE applied[r]]

SetPolicy ==
  /\ owner = "idle"
  /\ open
  /\ policy < MaxPolicies
  /\ policy' = policy + 1
  /\ ApplyPolicy(session)
  /\ \/ CloseSessions({session})
     \/ UNCHANGED closed
  /\ UNCHANGED <<open, session, ready, started, stream, owner, accepted,
                 reader, current, previous, serverClosing, closes>>

(* A session closes by itself: its holder or one of its workers does it.   *)
SessionCloses ==
  /\ \E s \in 1 .. started : CloseSessions({s})
  /\ UNCHANGED <<open, session, ready, policy, applied, started, stream, owner,
                 accepted, reader, current, previous, serverClosing, closes>>
----------------------------------------------------------------------------
(* ServerInner::close: under the lock the state becomes Closed and gives   *)
(* up the ready session; then come the attached session, the wakeup and    *)
(* the stream.  A repeated close goes through the same steps.              *)
Woken == IF owner = "asleep" THEN "accept" ELSE owner
WokenReader == IF reader = "paused" THEN "pause" ELSE reader

CloseState(t) ==
  /\ serverClosing[t] = "no"
  /\ t = Reader => reader = "close"
  /\ open' = FALSE
  /\ ready' = NoServerSession
  /\ closes' = [closes EXCEPT ![t] = session]
  /\ serverClosing' = [serverClosing EXCEPT ![t] = "session"]
  /\ UNCHANGED <<session, policy, applied, started, closed, stream, owner,
                 accepted, reader, current, previous>>

CloseSession(t) ==
  /\ serverClosing[t] = "session"
  /\ CloseSessions({closes[t]})
  /\ serverClosing' = [serverClosing EXCEPT ![t] = "wake"]
  /\ UNCHANGED <<open, session, ready, policy, applied, started, stream, owner,
                 accepted, reader, current, previous, closes>>

(* notify_all; dropping the ready session closes one that is closed.       *)
CloseWake(t) ==
  /\ serverClosing[t] = "wake"
  /\ owner' = Woken
  /\ reader' = WokenReader
  /\ serverClosing' = [serverClosing EXCEPT ![t] = "stream"]
  /\ UNCHANGED <<open, session, ready, policy, applied, started, closed, stream,
                 accepted, current, previous, closes>>

CloseStream(t) ==
  /\ serverClosing[t] = "stream"
  /\ stream' = FALSE
  /\ serverClosing' = [serverClosing EXCEPT ![t] = "returned"]
  /\ reader' = IF t = Reader THEN "stopped" ELSE reader
  /\ UNCHANGED <<open, session, ready, policy, applied, started, closed, owner,
                 accepted, current, previous, closes>>
----------------------------------------------------------------------------
(* run_reader.  Its end drops the transport, which closes the stream.      *)
Stop == reader' = "stopped" /\ stream' = FALSE

ReaderUnchanged == UNCHANGED <<policy, owner, accepted, serverClosing, closes>>

(* A handshake: the session starts with the default policy.                *)
Connected ==
  /\ reader = "recv"
  /\ started < MaxServerSessions
  /\ started' = started + 1
  /\ current' = started'
  /\ reader' = "attach"
  /\ UNCHANGED <<open, session, ready, applied, closed, stream, previous>>
  /\ ReaderUnchanged

(* attach finds the session to replace, closes it without the lock, and    *)
(* looks again before it installs the new one.  A session that cannot be   *)
(* attached is dropped.                                                    *)
AttachFails ==
  /\ CloseSessions({current})
  /\ Stop
  /\ UNCHANGED <<open, session, ready, applied, started, current, previous>>

AttachCheck ==
  /\ reader = "attach"
  /\ \/ ~open /\ AttachFails
     \/ /\ open
        /\ previous' = session
        /\ reader' = "replace"
        /\ UNCHANGED <<open, session, ready, applied, started, closed, stream, current>>
  /\ ReaderUnchanged

KeepPrevious == UNCHANGED closed
ClosePrevious == CloseSessions({previous})

AttachReplace ==
  /\ reader = "replace"
  /\ ClosePrevious
  /\ reader' = "install"
  /\ UNCHANGED <<open, session, ready, applied, started, stream, current, previous>>
  /\ ReaderUnchanged

Unchecked == TRUE
StillOpen == open

Attached == current

AttachInstall ==
  /\ reader = "install"
  /\ \/ ~StillOpen /\ AttachFails /\ UNCHANGED policy
     \/ /\ StillOpen
        /\ UNCHANGED policy
        /\ ApplyPolicy(current)
        /\ session' = Attached
        /\ previous' = ready
        /\ ready' = current
        /\ reader' = "wake"
        /\ UNCHANGED <<open, started, closed, stream, current>>
  /\ UNCHANGED <<owner, accepted, serverClosing, closes>>

(* accept is woken, and a session it never took is dropped.                *)
NoWake == owner
AttachWakes == Woken

AttachWake ==
  /\ reader = "wake"
  /\ owner' = AttachWakes
  /\ CloseSessions({previous})
  /\ reader' = "recv"
  /\ UNCHANGED <<open, session, ready, policy, applied, started, stream, accepted,
                 current, previous, serverClosing, closes>>

(* The transport ended the session, or a message it could not handle does. *)
Disconnected ==
  /\ reader = "recv"
  /\ CloseSessions({current})
  /\ current' \in {current, NoServerSession}
  /\ UNCHANGED <<open, session, ready, applied, started, stream, reader, previous>>
  /\ ReaderUnchanged

(* pause_reader: after a failed read the reader waits for the retry delay, *)
(* unless the server closes.                                               *)
RecvFailed ==
  /\ reader = "recv"
  /\ reader' = "pause"
  /\ UNCHANGED <<open, session, ready, applied, started, closed, stream, current, previous>>
  /\ ReaderUnchanged

Regardless == TRUE
MayRetry == open

Pause ==
  /\ reader = "pause"
  /\ \/ ~MayRetry /\ Stop
     \/ MayRetry /\ reader' = "paused" /\ UNCHANGED stream
  /\ UNCHANGED <<open, session, ready, applied, started, closed, current, previous>>
  /\ ReaderUnchanged

PauseEnds ==
  /\ reader = "paused"
  /\ \/ ~MayRetry /\ Stop
     \/ MayRetry /\ reader' = "recv" /\ UNCHANGED stream
  /\ UNCHANGED <<open, session, ready, applied, started, closed, current, previous>>
  /\ ReaderUnchanged

(* The stream ended: the reader closes the server, unless it is gone.      *)
Terminated ==
  /\ reader = "recv"
  /\ \/ reader' = "close" /\ UNCHANGED stream
     \/ ~open /\ Stop
  /\ UNCHANGED <<open, session, ready, applied, started, closed, current, previous>>
  /\ ReaderUnchanged
----------------------------------------------------------------------------
CloseServer(t) == CloseSession(t) \/ CloseWake(t) \/ CloseStream(t)

ReaderStep ==
  \/ AttachCheck
  \/ AttachReplace
  \/ AttachInstall
  \/ AttachWake
  \/ Pause
  \/ PauseEnds
  \/ CloseState(Reader)

ServerNext ==
  \/ AcceptCall
  \/ Accept
  \/ SetPolicy
  \/ SessionCloses
  \/ \E t \in ServerClosers : CloseState(t)
  \/ \E t \in ServerThreads : CloseServer(t)
  \/ ReaderStep
  \/ Connected
  \/ Disconnected
  \/ RecvFailed
  \/ Terminated

ServerSpec == ServerInit /\ [][ServerNext]_serverVars

(* Threads that can run do; the retry delay passes; a read of a stream     *)
(* that is closed ends.  A read of an open one may block for ever.         *)
ServerFairness ==
  /\ WF_serverVars(Accept)
  /\ WF_serverVars(ReaderStep)
  /\ \A t \in ServerThreads : WF_serverVars(CloseServer(t))
  /\ WF_serverVars(~stream /\ Terminated)

ServerFairSpec == ServerSpec /\ ServerFairness
----------------------------------------------------------------------------
(* Types of every variable.  The session that waits for accept is the one  *)
(* attached last.                                                          *)
ServerTypeOK ==
  /\ open \in BOOLEAN
  /\ session \in 0 .. started
  /\ ready \in {NoServerSession, session}
  /\ policy \in 0 .. MaxPolicies
  /\ applied \in [ServerSessions -> 0 .. MaxPolicies]
  /\ started \in 0 .. MaxServerSessions
  /\ closed \in SUBSET (1 .. started)
  /\ stream \in BOOLEAN
  /\ owner \in {"idle", "accept", "asleep"}
  /\ accepted \in SUBSET (1 .. started)
  /\ reader \in {"recv", "attach", "replace", "install", "wake", "pause", "paused",
                 "close", "stopped"}
  /\ current \in 0 .. started
  /\ previous \in 0 .. started
  /\ serverClosing \in [ServerThreads -> {"no", "session", "wake", "stream", "returned"}]
  /\ closes \in [ServerThreads -> 0 .. started]

(* A session is offered to accept, or returned by it, only when every      *)
(* earlier one is closed: old handles and the new session never talk over  *)
(* the stream at the same time.                                            *)
NewestIsAlone ==
  \A s \in accepted \cup {ready} : \A r \in 1 .. started : r < s => r \in closed

(* When any close has returned, every session that was ever started is     *)
(* closed and none is on offer, whoever closed first and wherever attach   *)
(* was; the one attach still holds is unknown to everybody and dies there. *)
Attaching == reader \in {"attach", "replace", "install"}

CloseLeavesNothing ==
  (\E t \in ServerThreads : serverClosing[t] = "returned") =>
    /\ ready = NoServerSession
    /\ ~stream
    /\ \A s \in 1 .. started :
         s \in closed \/ (Attaching /\ s = current /\ s \notin accepted)

(* The attached session has the server's policy, set before or after it    *)
(* was attached.                                                           *)
PolicyIsApplied == open /\ session # NoServerSession => applied[session] = policy

(* accept does not sleep through a session or a close.                     *)
AcceptReturns ==
  owner \in {"accept", "asleep"} /\ (~open \/ ready # NoServerSession) ~> owner = "idle"

(* A close of the server ends its reader, wherever that was.               *)
ReaderStops == ~open ~> reader = "stopped"
=============================================================================
