--------------------------- MODULE MCReadReceipts ---------------------------
EXTENDS ReadReceipts, TLC

CallSymmetry == Permutations(Calls)
=============================================================================
