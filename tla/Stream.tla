------------------------------- MODULE Stream -------------------------------
(***************************************************************************)
(* Shutdown of a byte stream (transport/stream.rs): any number of threads  *)
(* close it while one thread reads and one writes.  Each adapter call is   *)
(* admitted under the state lock; close refuses new calls, runs the        *)
(* shutdown callback once and waits for the admitted calls.  Adapter calls *)
(* and the callback run without the lock.                                  *)
(*                                                                         *)
(* A wait on the condition variable puts the closer to sleep in the same   *)
(* step that releases the lock; notify_all empties the set of sleepers.    *)
(***************************************************************************)
EXTENDS Naturals, FiniteSets

CONSTANTS
  Closers,      \* threads that may call Closer::close
  MaxBytes      \* longest frame, in bytes

ASSUME StreamAssumption == MaxBytes \in Nat \ {0}

VARIABLES
  phase,     \* Phase: "Open", "Closing" or "Closed"
  active,    \* admitted adapter operations
  action,    \* the shutdown callback is still there to take
  released,  \* the callback has run and released blocked I/O
  closing,   \* closer -> where it is in Closer::close
  asleep,    \* closers waiting on the condition variable
  reading,   \* the reader: "idle", in an adapter "call", or refused with "eof"
  writing,   \* the writer: "idle", in a call, between two calls, or "refused"
  left       \* bytes of the frame not yet written

streamVars == <<phase, active, action, released, closing, asleep, reading, writing, left>>

closeVars == <<phase, action, released, closing>>

WriteCalls == {"setter", "write", "flush"}

StreamInit ==
  /\ phase = "Open"
  /\ active = 0
  /\ action = TRUE
  /\ released = FALSE
  /\ closing = [c \in Closers |-> "idle"]
  /\ asleep = {}
  /\ reading = "idle"
  /\ writing = "idle"
  /\ left = 0
----------------------------------------------------------------------------
(* Closer::close.                                                          *)

CloseCall(c) ==
  /\ closing[c] = "idle"
  /\ closing' = [closing EXCEPT ![c] = "enter"]
  /\ UNCHANGED <<phase, active, action, released, asleep, reading, writing, left>>

(* The first closer marks the stream closing and takes the callback.       *)
Begin == action' = FALSE /\ phase' = "Closing"

(* The loop of close: return from a closed stream, wait while another      *)
(* closer shuts down, or take the callback.                                *)
CloseEnter(c) ==
  /\ closing[c] = "enter"
  /\ c \notin asleep
  /\ \/ /\ phase = "Closed"
        /\ closing' = [closing EXCEPT ![c] = "returned"]
        /\ UNCHANGED <<phase, action, asleep>>
     \/ /\ phase = "Closing"
        /\ asleep' = asleep \cup {c}
        /\ UNCHANGED <<phase, action, closing>>
     \/ /\ phase = "Open"
        /\ Begin
        /\ closing' = [closing EXCEPT ![c] = "callback"]
        /\ UNCHANGED asleep
  /\ UNCHANGED <<active, released, reading, writing, left>>

RunShutdown(c) ==
  /\ closing[c] = "callback"
  /\ released' = TRUE
  /\ closing' = [closing EXCEPT ![c] = "drain"]
  /\ UNCHANGED <<phase, active, action, asleep, reading, writing, left>>

(* Wait until every admitted call has returned, then wake all closers.     *)
AlwaysDrained == TRUE
Drained == active = 0

Drain(c) ==
  /\ closing[c] = "drain"
  /\ c \notin asleep
  /\ IF Drained
     THEN /\ phase' = "Closed"
          /\ asleep' = {}
          /\ closing' = [closing EXCEPT ![c] = "returned"]
     ELSE /\ asleep' = asleep \cup {c}
          /\ UNCHANGED <<phase, closing>>
  /\ UNCHANGED <<active, action, released, reading, writing, left>>
----------------------------------------------------------------------------
(* Closer::enter, and dropping its Activity.                               *)

AlwaysAdmits == TRUE
Admits == phase = "Open"

Enter ==
  /\ Admits
  /\ active' = active + 1

SilentLeave ==
  /\ active' = active - 1
  /\ UNCHANGED asleep

Leave ==
  /\ active' = active - 1
  /\ asleep' = IF active' = 0 THEN {} ELSE asleep

(* ReadHalf::read: each turn of its loop is one admitted call, and a turn  *)
(* whose deadline has expired makes none.  A closing stream gives EOF.     *)
Read ==
  /\ reading = "idle"
  /\ \/ /\ Enter
        /\ reading' = "call"
     \/ /\ ~Admits
        /\ reading' = "eof"
        /\ UNCHANGED active
  /\ UNCHANGED <<closeVars, asleep, writing, left>>

(* The setter or the read returns, with bytes or an error or to be retried.*)
ReadReturn ==
  /\ reading = "call"
  /\ reading' = "idle"
  /\ Leave
  /\ UNCHANGED <<closeVars, writing, left>>

(* WriteHalf::write admits the deadline setter, every partial write and    *)
(* the flush one by one.  "next" is between two calls.                     *)
WriteEnter(from, call) ==
  /\ writing = from
  /\ \/ /\ Enter
        /\ writing' = call
     \/ /\ ~Admits
        /\ writing' = "refused"
        /\ UNCHANGED active
  /\ UNCHANGED <<closeVars, asleep, reading>>

Write ==
  /\ WriteEnter("idle", "setter")
  /\ left' \in 1 .. MaxBytes

WritePart ==
  /\ left > 0
  /\ WriteEnter("next", "write")
  /\ UNCHANGED left

Flush ==
  /\ left = 0
  /\ WriteEnter("next", "flush")
  /\ UNCHANGED left

(* An expired deadline, checked before each call, fails the frame.         *)
WriteExpires ==
  /\ writing = "next"
  /\ writing' = "idle"
  /\ UNCHANGED <<closeVars, active, asleep, reading, left>>

(* The call succeeds and the frame goes on, or it fails the frame.  A write*)
(* may take any part of the bytes; an interrupted one takes none and is    *)
(* retried.                                                                *)
WriteReturn ==
  /\ writing \in WriteCalls
  /\ \/ /\ writing = "setter"
        /\ writing' \in {"next", "idle"}
        /\ UNCHANGED left
     \/ /\ writing = "write"
        /\ \E n \in 0 .. left : left' = left - n
        /\ writing' \in {"next", "idle"}
     \/ /\ writing = "flush"
        /\ writing' = "idle"
        /\ UNCHANGED left
  /\ Leave
  /\ UNCHANGED <<closeVars, reading>>
----------------------------------------------------------------------------
Close(c) == CloseEnter(c) \/ RunShutdown(c) \/ Drain(c)

StreamNext ==
  \/ \E c \in Closers : CloseCall(c) \/ Close(c)
  \/ Read
  \/ ReadReturn
  \/ Write
  \/ WritePart
  \/ Flush
  \/ WriteExpires
  \/ WriteReturn

(* A thread inside close keeps running.  An adapter call may block for     *)
(* ever, but not once the shutdown callback has released it: that is what  *)
(* Read and Write (transport/io.rs) require of an adapter.                 *)
StreamFairness ==
  /\ \A c \in Closers : WF_streamVars(Close(c))
  /\ WF_streamVars(released /\ ReadReturn)
  /\ WF_streamVars(released /\ WriteReturn)

StreamSpec == StreamInit /\ [][StreamNext]_streamVars /\ StreamFairness
----------------------------------------------------------------------------
(* Types of every variable.                                                *)
StreamTypeOK ==
  /\ phase \in {"Open", "Closing", "Closed"}
  /\ active \in Nat
  /\ action \in BOOLEAN
  /\ released \in BOOLEAN
  /\ closing \in [Closers -> {"idle", "enter", "callback", "drain", "returned"}]
  /\ asleep \in SUBSET Closers
  /\ reading \in {"idle", "call", "eof"}
  /\ writing \in {"idle", "next", "refused"} \cup WriteCalls
  /\ left \in 0 .. MaxBytes

(* close returns to no caller before the callback and every admitted       *)
(* adapter call have returned, whichever closer ran the callback.          *)
ReturnedMeansQuiet ==
  (\E c \in Closers : closing[c] = "returned") =>
    /\ phase = "Closed"
    /\ released
    /\ reading # "call"
    /\ writing \notin WriteCalls

(* One closer shuts down: it alone finds the callback, so taking it never  *)
(* fails ("shutdown called once"), and while the stream is closing someone *)
(* is still at work on it.                                                 *)
OneShutdown ==
  /\ \A c, d \in Closers : closing[c] \in {"callback", "drain"}
                             /\ closing[d] \in {"callback", "drain"} => c = d
  /\ phase = "Closing" => \E c \in Closers : closing[c] \in {"callback", "drain"}
  /\ phase = "Open" => action

(* Once closing has begun no adapter call starts.                          *)
NoCallAfterClosing ==
  [][phase # "Open" => /\ reading' = "call" => reading = "call"
                       /\ writing' \in WriteCalls => writing' = writing]_streamVars

(* Every call of close returns, provided the callback releases blocked     *)
(* adapter calls: no wakeup is lost between admission, completion and the  *)
(* several closers.                                                        *)
CloseReturns == \A c \in Closers : closing[c] = "enter" ~> closing[c] = "returned"
============================================================================
