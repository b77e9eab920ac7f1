--------------------------- MODULE MCDatasetImport ---------------------------
(* Instances of DatasetImport for TLC. *)
EXTENDS DatasetImport, TLC

CONSTANTS Kinds, t1, t2

ThreadSymmetry == Permutations(Threads)

At(instant, kind) == [instant |-> instant, kind |-> kind]

\* One day; two days; the unfinished day that repeats, alone and after two
\* others (more than MaxRows); a hole.
MCPayloads ==
    {<<At(2, k)>> : k \in Kinds}
    \cup {<<At(2, "bar"), At(4, "zero_volume")>>,
          <<At(4, "bar"), At(5, "bar")>>,
          <<At(2, "bar"), At(4, "bar"), At(5, "bar")>>,
          <<At(2, "bar"), At(4, "null"), At(6, "bar")>>}
================================================================================
