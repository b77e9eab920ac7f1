------------------------- MODULE MCInstrumentRegistry -------------------------
(* Instances of InstrumentRegistry for TLC. *)
EXTENDS InstrumentRegistry, TLC

CONSTANTS t1, t2, i1, i2, s, x, y

RegistrySymmetry == Permutations(Instruments) \cup Permutations(Threads)
================================================================================
