---------------------------- MODULE MCRunExecution ----------------------------
(* Instances of RunExecution for TLC. *)
EXTENDS RunExecution, TLC

CONSTANTS t1, t2, t3, r1, r2

\* Threads are interchangeable, and so are runs; used for safety only.
ThreadRunSymmetry == Permutations(Threads) \cup Permutations(Runs)
================================================================================
