--------------------------- MODULE MCThreadAccess ---------------------------
EXTENDS ThreadAccess, TLC

CallSymmetry == Permutations(Calls)
=============================================================================
