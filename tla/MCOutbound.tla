----------------------------- MODULE MCOutbound ----------------------------
(* Small instances of Outbound.                                            *)
EXTENDS Outbound, TLC

CONSTANTS t1, t2, t3

MCThreads == {t1, t2, t3}

MCPair == {t1, t2}

(* Threads are only compared with each other, and the run checks no        *)
(* liveness.                                                               *)
MCSymmetry == Permutations(MCThreads)
============================================================================
