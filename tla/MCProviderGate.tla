--------------------------- MODULE MCProviderGate ---------------------------
EXTENDS ProviderGate, TLC

CONSTANTS g1, g2

MCGates == {g1, g2}

GateSymmetry == Permutations(MCGates)
=============================================================================
