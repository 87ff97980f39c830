------------------------------ MODULE Promise ------------------------------
(***************************************************************************)
(* Completion of promises (protocol/promise.rs): a thread settles some of  *)
(* them under the session lock, while the holder of each registers a       *)
(* callback, waits or drops it.  A promise's notification lock orders      *)
(* them; its result channel does not need that lock.                       *)
(*                                                                         *)
(* A callback may call back into the session, so running one takes the     *)
(* session lock.                                                           *)
(***************************************************************************)
EXTENDS Naturals

CONSTANT Promises

VARIABLES
  settler,     \* the settling thread is in its critical section
  settling,    \* promises in ResultSender::send, at most one
  locked,      \* promises whose notification lock that call holds
  pending,     \* promises with an operation that is not settled
  sent,        \* promises whose result is in the channel, or was
  received,   \* promises whose receiver existed then
  done,        \* NotificationState::done
  hook,        \* promises with a registered callback not yet taken
  collected,   \* Notifications: callbacks the settling thread has to run
  registered,  \* promises whose notify was called
  holder,      \* promise -> where its holder is
  waited,      \* promises whose holder took the result
  ran          \* promise -> how often its callback has run

promiseVars ==
  <<settler, settling, locked, pending, sent, received, done, hook, collected,
    registered, holder, waited, ran>>
settlerVars == <<settler, settling, locked, pending, sent, received, done, collected>>

PromiseInit ==
  /\ settler = FALSE
  /\ settling = {}
  /\ locked = {}
  /\ pending = Promises
  /\ sent = {}
  /\ received = {}
  /\ done = {}
  /\ hook = {}
  /\ collected = {}
  /\ registered = {}
  /\ holder = [p \in Promises |-> "holding"]
  /\ waited = {}
  /\ ran = [p \in Promises |-> 0]
----------------------------------------------------------------------------
(* The settling thread: a critical section of the session lock in which it *)
(* settles any of the promises, then the callbacks it has collected.       *)
LockSession ==
  /\ ~settler
  /\ pending # {}
  /\ collected = {}
  /\ settler' = TRUE
  /\ UNCHANGED <<settling, locked, pending, sent, received, done, hook, collected,
                 registered, holder, waited, ran>>

(* ResultSender::send locks the notification before it publishes.          *)
PublishUnlocked(p) == UNCHANGED locked
LockNotification(p) == locked' = locked \cup {p}

SendPublish(p) ==
  /\ settler
  /\ settling = {}
  /\ p \in pending
  /\ settling' = {p}
  /\ pending' = pending \ {p}
  /\ LockNotification(p)
  /\ sent' = sent \cup {p}
  /\ received' = IF holder[p] = "gone" THEN received ELSE received \cup {p}
  /\ UNCHANGED <<settler, done, hook, collected, registered, holder, waited, ran>>

(* Then it marks the completion of a promise that still exists, takes the  *)
(* hook and unlocks.                                                       *)
SendNotify(p) ==
  /\ settler
  /\ p \in settling
  /\ settling' = {}
  /\ done' = done \cup (received \cap {p})
  /\ collected' = collected \cup (hook \cap {p})
  /\ hook' = hook \ {p}
  /\ locked' = locked \ {p}
  /\ UNCHANGED <<settler, pending, sent, received, registered, holder, waited, ran>>

UnlockSession ==
  /\ settler
  /\ settling = {}
  /\ settler' = FALSE
  /\ UNCHANGED <<settling, locked, pending, sent, received, done, hook, collected,
                 registered, holder, waited, ran>>

(* Notifications::drop, declared before the guards, runs after them.       *)
RunCallback(p) ==
  /\ p \in collected
  /\ ~settler
  /\ collected' = collected \ {p}
  /\ ran' = [ran EXCEPT ![p] = @ + 1]
  /\ UNCHANGED <<settler, settling, locked, pending, sent, received, done, hook,
                 registered, holder, waited>>
----------------------------------------------------------------------------
(* A holder.  notify may be called once, and runs the callback of a        *)
(* settled promise at once.                                                *)
FirstNotify(p) == p \notin registered

AlwaysNow(p) == TRUE
RunsNow(p) == p \in done

Notify(p) ==
  /\ holder[p] = "holding"
  /\ FirstNotify(p)
  /\ p \notin locked
  /\ registered' = registered \cup {p}
  /\ \/ /\ RunsNow(p)
        /\ holder' = [holder EXCEPT ![p] = "callback"]
        /\ UNCHANGED hook
     \/ /\ ~RunsNow(p)
        /\ hook' = hook \cup {p}
        /\ UNCHANGED holder
  /\ UNCHANGED <<settlerVars, waited, ran>>

HolderCallback(p) ==
  /\ holder[p] = "callback"
  /\ ~settler
  /\ ran' = [ran EXCEPT ![p] = @ + 1]
  /\ holder' = [holder EXCEPT ![p] = "holding"]
  /\ UNCHANGED <<settlerVars, hook, registered, waited>>

(* wait_result takes the result from the channel without any lock, and     *)
(* then the promise is dropped; or it is dropped without a wait.           *)
WaitResult(p) ==
  /\ holder[p] = "holding"
  /\ p \in sent
  /\ waited' = waited \cup {p}
  /\ holder' = [holder EXCEPT ![p] = "drop"]
  /\ UNCHANGED <<settlerVars, hook, registered, ran>>

DropUnread(p) ==
  /\ holder[p] = "holding"
  /\ holder' = [holder EXCEPT ![p] = "drop"]
  /\ UNCHANGED <<settlerVars, hook, registered, waited, ran>>

(* Promise::drop clears the hook under the notification lock; the receiver *)
(* goes after that.                                                        *)
DropHook(p) ==
  /\ holder[p] = "drop"
  /\ p \notin locked
  /\ hook' = hook \ {p}
  /\ holder' = [holder EXCEPT ![p] = "receiver"]
  /\ UNCHANGED <<settlerVars, registered, waited, ran>>

DropReceiver(p) ==
  /\ holder[p] = "receiver"
  /\ holder' = [holder EXCEPT ![p] = "gone"]
  /\ UNCHANGED <<settlerVars, hook, registered, waited, ran>>
----------------------------------------------------------------------------
PromiseNext ==
  \/ LockSession
  \/ UnlockSession
  \/ \E p \in Promises :
       \/ SendPublish(p)
       \/ SendNotify(p)
       \/ RunCallback(p)
       \/ Notify(p)
       \/ HolderCallback(p)
       \/ WaitResult(p)
       \/ DropUnread(p)
       \/ DropHook(p)
       \/ DropReceiver(p)

PromiseSpec == PromiseInit /\ [][PromiseNext]_promiseVars
----------------------------------------------------------------------------
(* Types of every variable.  A callback runs at most once.                 *)
PromiseTypeOK ==
  /\ settler \in BOOLEAN
  /\ {settling, locked, pending, sent, received, done, hook, collected, registered, waited}
       \subseteq SUBSET Promises
  /\ holder \in [Promises -> {"holding", "callback", "drop", "receiver", "gone"}]
  /\ ran \in [Promises -> 0 .. 1]

(* A callback runs after the result is published, on whichever thread, so  *)
(* that the wait it signals does not block.                                *)
CallbackAfterResult == \A p \in Promises : ran[p] > 0 => p \in sent /\ p \in registered

(* Waiting does not cost a promise its callback: when a waiter has taken   *)
(* the result and dropped the promise, a registered callback has run or is *)
(* about to.                                                               *)
WaitKeepsCallback ==
  \A p \in waited \cap registered :
    holder[p] \in {"receiver", "gone"} => ran[p] = 1 \/ p \in collected
============================================================================
