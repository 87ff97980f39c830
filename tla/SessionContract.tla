-------------------------- MODULE SessionContract --------------------------
(***************************************************************************)
(* What a session promises the application about the operations it submits *)
(* (the documentation of Requester::request, Responder::reply, Promise and *)
(* Session::close, as the code of protocol/session.rs keeps it):           *)
(*   - each operation gets one result, of a kind its caller expects;       *)
(*   - closing gives every pending operation its result at once, and       *)
(*     nothing is accepted afterwards.                                     *)
(* Session is shown to implement this specification.                       *)
(***************************************************************************)
EXTENDS Naturals

CONSTANTS
  MaxOps,    \* bound on the operations of a behaviour
  Reasons    \* the errors a session closes with

VARIABLES
  status,      \* "Open", or the first closing reason
  submitted,   \* number of operations submitted so far
  kind,        \* operation -> "none", "request" or "reply"
  promise      \* operation -> "unused", "pending" or its result

vars == <<status, submitted, kind, promise>>

Operations == 1 .. MaxOps
Pending == {k \in Operations : promise[k] = "pending"}

Results == Reasons \cup {"pending", "Response", "Written", "Timeout", "Refused"}

(* The results an operation can get while its session stays open.          *)
Outcomes(k) ==
  {"Timeout", "Refused"}
    \cup IF kind[k] = "request" THEN {"Response", "InboundByteLimitExceeded"} ELSE {"Written"}

Init ==
  /\ status = "Open"
  /\ submitted = 0
  /\ kind = [k \in Operations |-> "none"]
  /\ promise = [k \in Operations |-> "unused"]

(* Submitting to an open session: pending, or failed at once if late.      *)
Submit(body, result) ==
  /\ status = "Open"
  /\ submitted' = submitted + 1
  /\ submitted' \in Operations
  /\ kind' = [kind EXCEPT ![submitted'] = body]
  /\ promise' = [promise EXCEPT ![submitted'] = result]
  /\ UNCHANGED status

(* An open session gives some pending operations results they can get.     *)
Complete(result) ==
  /\ status = "Open"
  /\ \A k \in Pending : result[k] \in Outcomes(k) \cup {"pending"}
  /\ promise' = [k \in Operations |-> IF k \in Pending THEN result[k] ELSE promise[k]]
  /\ UNCHANGED <<status, submitted, kind>>

(* Closing fails every pending operation with the reason, or with Timeout  *)
(* if its deadline has passed.                                             *)
Close(reason, late) ==
  /\ status = "Open"
  /\ status' = reason
  /\ promise' = [k \in Operations |-> IF k \in late THEN "Timeout"
                                      ELSE IF k \in Pending THEN reason ELSE promise[k]]
  /\ UNCHANGED <<submitted, kind>>

Next ==
  \/ \E body \in {"request", "reply"}, result \in {"pending", "Timeout"} : Submit(body, result)
  \/ \E result \in [Pending -> Results] : Complete(result)
  \/ \E reason \in Reasons, late \in SUBSET Pending : Close(reason, late)

Spec == Init /\ [][Next]_vars
============================================================================
