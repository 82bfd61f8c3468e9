---------------------------- MODULE MCJsonStore -----------------------------
(* Instances of JsonStore for TLC: two loads of the other process that may   *)
(* overlap with a few saves.                                                 *)
EXTENDS JsonStore, TLC

CONSTANTS r1, r2

SomeReaders == {r1, r2}

NoFaults == {}

Symmetry == Permutations(SomeReaders)
=============================================================================
