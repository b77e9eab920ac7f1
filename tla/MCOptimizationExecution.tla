------------------------ MODULE MCOptimizationExecution ------------------------
(* Instances of OptimizationExecution for TLC. *)
EXTENDS OptimizationExecution, TLC

CONSTANTS o1, o2, t1, r1, r2, r3, r4, r5, r6, r7, r8, r9

\* The two optimizers are interchangeable; used for safety only.
OptimizerSymmetry == Permutations(Optimizers)
================================================================================
