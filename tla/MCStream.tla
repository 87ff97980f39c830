------------------------------ MODULE MCStream ------------------------------
(***************************************************************************)
(* A stream with three closers for TLC.                                    *)
(***************************************************************************)
EXTENDS Stream

CONSTANTS c1, c2, c3

ThreeClosers == {c1, c2, c3}
============================================================================
