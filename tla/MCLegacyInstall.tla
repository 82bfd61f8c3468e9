--------------------------- MODULE MCLegacyInstall ---------------------------
EXTENDS LegacyInstall, TLC

\* One late compose command at a time, beside the one the manager waits for.
FewLate == Cardinality(late) <= 1

ScriptSymmetry == Permutations(Scripts)
=============================================================================
