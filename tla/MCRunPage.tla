------------------------------- MODULE MCRunPage -------------------------------
(* Instances of RunPage for TLC. *)
EXTENDS RunPage

CONSTANTS t1, t2, r1
================================================================================
