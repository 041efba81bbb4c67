------------------------- MODULE MCUpdatesJournal -------------------------
EXTENDS UpdatesJournal, TLC

ThreadSymmetry == Permutations(Threads)
=============================================================================
