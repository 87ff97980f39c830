----------------------------- MODULE MCSession -----------------------------
(***************************************************************************)
(* Small instances of Session for TLC.                                     *)
(***************************************************************************)
EXTENDS Session

LoweredLimits == {[requests |-> 1, bytes |-> 2]}
FixedLimits == {}
SmallLimits == [requests |-> 2, bytes |-> 3]

(* Where the peer's requests and the charges can still change: a closed    *)
(* session admits nothing, so once its counter is back at zero the states  *)
(* that follow differ only in how its threads end.                         *)
Charging == Open \/ retained_bytes # 0
============================================================================
