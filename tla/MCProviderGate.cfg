SPECIFICATION Spec
CONSTANTS
  g1 = g1
  g2 = g2
  Gates <- MCGates
  Emoji = {"up", "odd"}
  Allowed = {"up"}
  MaxMsgs = 2
  MaxWrites = 1
  MaxChanges = 2
SYMMETRY GateSymmetry
INVARIANTS
  TypeOK
  RepliesFaithful
  ReactionsFaithful
  StatusTruthful
PROPERTIES
  MappingStable
CHECK_DEADLOCK FALSE
