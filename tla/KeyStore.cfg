SPECIFICATION KeyFairSpec
CONSTANTS
  Procs = {p1, p2, p3}
  Seeds = {s1, s2}
  Old = old
  Foreign = foreign
  None = none
  Ops = {"load", "create", "load_or_generate", "delete"}
  MaxCalls = 3
  Faults = {"kill", "io", "backend"}
INVARIANTS
  KeyTypeOK
  NoSeedLost
  PubIsCurrent
PROPERTIES
  CallsReturn
CHECK_DEADLOCK FALSE
