------------------------------ MODULE Wakeups ------------------------------
(***************************************************************************)
(* The one condition variable of a session (protocol/session.rs).  recv,   *)
(* the writer and the deadline worker sleep on it; every operation that    *)
(* gives one of them something to do changes the state under the lock and  *)
(* calls notify_all after releasing it.  What is queued or pending matters *)
(* here, the rest of a session is in Session.                              *)
(*                                                                         *)
(* Going to sleep is part of the critical section that decided to.  A      *)
(* notify_all is a later step of the thread that owes it.                  *)
(***************************************************************************)
EXTENDS Naturals

CONSTANTS
  MaxOps,         \* bound on the operations of a behaviour
  MaxIncoming     \* bound on the requests awaiting recv

ASSUME WakeupsAssumption ==
  /\ MaxOps \in Nat
  /\ MaxIncoming \in Nat

Keys == 1 .. MaxOps

(* Threads that owe a notify_all: the submitter of an operation, the       *)
(* reader, and the thread that closed the session.                         *)
TheReader == 0
TheCloser == MaxOps + 1
Notifiers == 0 .. MaxOps + 1

VARIABLES
  isOpen,      \* State::Open
  incoming,    \* number of requests awaiting recv
  outgoing,    \* keys of queued messages; keys grow in push order
  operations,  \* keys without a result
  last_key,    \* number of operations submitted so far
  due,         \* keys whose deadline has passed
  owed,        \* threads between their critical section and notify_all
  sleepers,    \* threads waiting on the condition variable
  watched,     \* operations whose earliest deadline the worker's wait has
  receiver,    \* "idle", in "recv"
  sending,     \* key the writer took last, 0 before that
  writerAt,    \* "loop" of next_outgoing, "callbacks", "send" or "done"
  deadlines    \* "loop" of run_deadlines, "callbacks" or "done"

wakeupsVars ==
  <<isOpen, incoming, outgoing, operations, last_key, due, owed, sleepers, watched, receiver,
    sending, writerAt, deadlines>>

queues == <<isOpen, incoming, outgoing, operations>>

WakeupsInit ==
  /\ isOpen = TRUE
  /\ incoming = 0
  /\ outgoing = {}
  /\ operations = {}
  /\ last_key = 0
  /\ due = {}
  /\ owed = {}
  /\ sleepers = {}
  /\ watched = {}
  /\ receiver = "idle"
  /\ sending = 0
  /\ writerAt = "loop"
  /\ deadlines = "loop"
----------------------------------------------------------------------------
ForgetNotify(t) == UNCHANGED owed
OweNotify(t) == owed' = owed \cup {t}

(* enqueue.  An operation that is late at once changes nothing here.       *)

Enqueue ==
  /\ isOpen
  /\ last_key < MaxOps
  /\ last_key' = last_key + 1
  /\ outgoing' = outgoing \cup {last_key'}
  /\ operations' = operations \cup {last_key'}
  /\ OweNotify(last_key')
  /\ UNCHANGED <<isOpen, incoming, due, sleepers, watched, receiver, sending, writerAt, deadlines>>

(* handle_message admits a request, or takes out the answered operation if *)
(* it still is pending.  A request of unknown content instead submits its  *)
(* automatic reply, an Enqueue; an error ends in a FinishClose.            *)
HandleRequest ==
  /\ isOpen
  /\ TheReader \notin owed
  /\ incoming < MaxIncoming
  /\ incoming' = incoming + 1
  /\ OweNotify(TheReader)
  /\ UNCHANGED <<isOpen, outgoing, operations, last_key, due, sleepers, watched, receiver, sending,
                 writerAt, deadlines>>

HandleResponse(k) ==
  /\ isOpen
  /\ TheReader \notin owed
  /\ k \in Keys \ outgoing
  /\ operations' = operations \ {k}
  /\ OweNotify(TheReader)
  /\ UNCHANGED <<isOpen, incoming, outgoing, last_key, due, sleepers, watched, receiver, sending,
                 writerAt, deadlines>>

(* The state part of every way to close a session.  finish_close notifies, *)
(* also for a session that is closed already.                              *)
CloseSilently ==
  /\ isOpen' = FALSE
  /\ incoming' = 0
  /\ outgoing' = {}
  /\ operations' = {}
  /\ UNCHANGED owed

CloseQueues ==
  /\ isOpen' = FALSE
  /\ incoming' = 0
  /\ outgoing' = {}
  /\ operations' = {}
  /\ OweNotify(TheCloser)

FinishClose ==
  /\ IF isOpen THEN CloseQueues ELSE UNCHANGED queues /\ OweNotify(TheCloser)
  /\ UNCHANGED <<last_key, due, sleepers, watched, receiver, sending, writerAt, deadlines>>

NotifyAll(t) ==
  /\ t \in owed
  /\ owed' = owed \ {t}
  /\ sleepers' = {}
  /\ UNCHANGED <<queues, last_key, due, watched, receiver, sending, writerAt, deadlines>>
----------------------------------------------------------------------------
(* Time.  The worker's timed wait ends when the earliest of the deadlines  *)
(* it looked at passes.                                                    *)
DeadlinePasses(k) ==
  /\ k \in operations \ due
  /\ due' = due \cup {k}
  /\ UNCHANGED <<queues, last_key, owed, sleepers, watched, receiver, sending, writerAt, deadlines>>

Timer ==
  /\ "deadlines" \in sleepers
  /\ watched \cap due # {}
  /\ sleepers' = sleepers \ {"deadlines"}
  /\ UNCHANGED <<queues, last_key, due, owed, watched, receiver, sending, writerAt, deadlines>>

(* State::expire.                                                          *)
LiveUnlessSent == operations \ (due \cap outgoing)
Live == operations \ due
Expired == operations \cap due

(* Promise::wait services deadlines once before it blocks.                 *)
WaitExpires ==
  /\ isOpen
  /\ Expired # {}
  /\ operations' = Live
  /\ outgoing' = outgoing \cap Live
  /\ UNCHANGED <<isOpen, incoming, last_key, due, owed, sleepers, watched, receiver, sending,
                 writerAt, deadlines>>
----------------------------------------------------------------------------
(* Session::recv.                                                          *)
HasIncoming == incoming > 0

RecvCall ==
  /\ receiver = "idle"
  /\ receiver' = "recv"
  /\ UNCHANGED <<queues, last_key, due, owed, sleepers, watched, sending, writerAt, deadlines>>

Recv ==
  /\ receiver = "recv"
  /\ "recv" \notin sleepers
  /\ \/ /\ ~isOpen
        /\ receiver' = "idle"
        /\ UNCHANGED <<incoming, sleepers>>
     \/ /\ isOpen
        /\ HasIncoming
        /\ incoming' = incoming - 1
        /\ receiver' = "idle"
        /\ UNCHANGED sleepers
     \/ /\ isOpen
        /\ ~HasIncoming
        /\ sleepers' = sleepers \cup {"recv"}
        /\ UNCHANGED <<incoming, receiver>>
  /\ UNCHANGED <<isOpen, outgoing, operations, last_key, due, owed, watched, sending, writerAt,
                 deadlines>>

(* One turn of next_outgoing: expire, then run callbacks outside the lock  *)
(* if there are any, or leave, or take the oldest message, or sleep.       *)
WriterTurn ==
  /\ writerAt = "loop"
  /\ "writer" \notin sleepers
  /\ operations' = Live
  /\ \/ /\ Expired # {}
        /\ outgoing' = outgoing \cap Live
        /\ writerAt' = "callbacks"
        /\ UNCHANGED <<sleepers, sending>>
     \/ /\ ~isOpen
        /\ writerAt' = "done"
        /\ UNCHANGED <<outgoing, sleepers, sending>>
     \/ /\ isOpen
        /\ \E k \in outgoing \cap Live :
             /\ \A j \in outgoing \cap Live : k <= j
             /\ outgoing' = (outgoing \cap Live) \ {k}
             /\ sending' = k
        /\ writerAt' = "send"
        /\ UNCHANGED sleepers
     \/ /\ isOpen
        /\ outgoing \cap Live = {}
        /\ outgoing' = {}
        /\ sleepers' = sleepers \cup {"writer"}
        /\ UNCHANGED <<sending, writerAt>>
  /\ UNCHANGED <<isOpen, incoming, last_key, due, owed, watched, receiver, deadlines>>

WriterCallbacks ==
  /\ writerAt = "callbacks"
  /\ writerAt' = "loop"
  /\ UNCHANGED <<queues, last_key, due, owed, sleepers, watched, receiver, sending, deadlines>>

(* run_writer sends outside the lock.  record_write settles what has not   *)
(* timed out, unless it is a request that now awaits its answer; a         *)
(* transport failure closes the session.                                   *)
WriterSend ==
  /\ writerAt = "send"
  /\ \/ /\ \/ operations' = operations \ {sending}
           \/ sending \notin due /\ UNCHANGED operations
        /\ writerAt' = "loop"
        /\ UNCHANGED <<isOpen, incoming, outgoing, owed>>
     \/ /\ IF isOpen THEN CloseQueues ELSE UNCHANGED queues /\ OweNotify(TheCloser)
        /\ writerAt' = "done"
  /\ UNCHANGED <<last_key, due, sleepers, watched, receiver, sending, deadlines>>

(* One turn of run_deadlines.  The sleep is timed by the deadlines pending *)
(* at that moment.                                                         *)
Watch == watched' = Live

DeadlinesTurn ==
  /\ deadlines = "loop"
  /\ "deadlines" \notin sleepers
  /\ operations' = Live
  /\ outgoing' = outgoing \cap Live
  /\ \/ /\ Expired # {}
        /\ deadlines' = "callbacks"
        /\ UNCHANGED <<sleepers, watched>>
     \/ /\ ~isOpen
        /\ deadlines' = "done"
        /\ UNCHANGED <<sleepers, watched>>
     \/ /\ isOpen
        /\ sleepers' = sleepers \cup {"deadlines"}
        /\ Watch
        /\ UNCHANGED deadlines
  /\ UNCHANGED <<isOpen, incoming, last_key, due, owed, receiver, sending, writerAt>>

DeadlinesCallbacks ==
  /\ deadlines = "callbacks"
  /\ deadlines' = "loop"
  /\ UNCHANGED <<queues, last_key, due, owed, sleepers, watched, receiver, sending, writerAt>>
----------------------------------------------------------------------------
WakeupsNext ==
  \/ Enqueue
  \/ HandleRequest
  \/ \E k \in Keys : HandleResponse(k)
  \/ FinishClose
  \/ \E t \in Notifiers : NotifyAll(t)
  \/ \E k \in Keys : DeadlinePasses(k)
  \/ Timer
  \/ WaitExpires
  \/ RecvCall
  \/ Recv
  \/ WriterTurn
  \/ WriterCallbacks
  \/ WriterSend
  \/ DeadlinesTurn
  \/ DeadlinesCallbacks

(* A runnable thread runs, a callback returns promptly and the timer of a  *)
(* wait fires.  Nothing is assumed of the peer or the application, and a   *)
(* send may block for ever.                                                *)
WakeupsFairness ==
  /\ \A t \in Notifiers : WF_wakeupsVars(NotifyAll(t))
  /\ WF_wakeupsVars(Timer)
  /\ WF_wakeupsVars(Recv)
  /\ WF_wakeupsVars(WriterTurn)
  /\ WF_wakeupsVars(WriterCallbacks)
  /\ WF_wakeupsVars(DeadlinesTurn)
  /\ WF_wakeupsVars(DeadlinesCallbacks)

WakeupsSafeSpec == WakeupsInit /\ [][WakeupsNext]_wakeupsVars

WakeupsSpec == WakeupsSafeSpec /\ WakeupsFairness

(* Every send ends: the frame's write timeout bounds it.                   *)
SendsEnd == WF_wakeupsVars(WriterSend)
----------------------------------------------------------------------------
(* Types of every variable.                                                *)
WakeupsTypeOK ==
  /\ isOpen \in BOOLEAN
  /\ incoming \in 0 .. MaxIncoming
  /\ outgoing \in SUBSET Keys
  /\ operations \in SUBSET Keys
  /\ last_key \in 0 .. MaxOps
  /\ due \in SUBSET Keys
  /\ owed \in SUBSET Notifiers
  /\ sleepers \in SUBSET {"recv", "writer", "deadlines"}
  /\ watched \in SUBSET Keys
  /\ receiver \in {"idle", "recv"}
  /\ sending \in 0 .. MaxOps
  /\ writerAt \in {"loop", "callbacks", "send", "done"}
  /\ deadlines \in {"loop", "callbacks", "done"}

(* No wakeup is lost: a thread sleeps only while there is nothing for it   *)
(* to do, or a notify_all is on its way.  In particular the deadline       *)
(* worker's wait covers every pending operation, also one submitted with   *)
(* an earlier deadline than those it looked at.                            *)
NoLostWakeup ==
  owed = {} =>
    /\ "recv" \in sleepers => isOpen /\ incoming = 0
    /\ "writer" \in sleepers => isOpen /\ outgoing = {}
    /\ "deadlines" \in sleepers => isOpen /\ operations \subseteq watched

(* Every operation whose deadline passes is settled, even while the writer *)
(* is blocked in a send and nobody waits on the promise.                   *)
ExpiryIsServiced == \A k \in Keys : k \in operations \cap due ~> k \notin operations

(* recv on a session with a queued request, or on a closed one, returns.   *)
RecvReturns == receiver = "recv" /\ (~isOpen \/ incoming > 0) ~> receiver = "idle"

(* When the session is closed both workers end, if sends do.               *)
WorkersStop == SendsEnd => (~isOpen ~> writerAt = "done" /\ deadlines = "done")
============================================================================
