SPECIFICATION Spec
CONSTANTS
  Contacts = {a, c}
  Creator = a
  Guests = {c}
  NoOne = NoOne
  Tags = {snoozed, vip}
  Snoozed = snoozed
  Keys = {"k"}
  Calls = {k1, k2}
  TTL = 1
  MaxDialogs = 3
  MaxPreviews = 2
  MaxTime = 2
INVARIANTS
  TypeOK
  UpgradeConsumes
  TagsOfMembers
PROPERTIES
  ClosedStaysClosed
  KeysKept
SYMMETRY CallSymmetry
CHECK_DEADLOCK FALSE
