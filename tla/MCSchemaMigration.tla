-------------------------- MODULE MCSchemaMigration --------------------------
(* Instances of SchemaMigration for TLC. *)
EXTENDS SchemaMigration, TLC

CONSTANTS a, b, broken

\* The two sound contents are interchangeable; used for safety only.
ContentSymmetry == Permutations({a, b})
================================================================================
