SPECIFICATION ReleaseSpec
CONSTANTS
  Files = {"f"}
  Contents = {"c1", "c2"}
  Twin = "F"
  Litter = "._f"
  Ids = {"r1", "r2"}
  Specs <- MCSpecs
  Changes <- MCChanges
  Options <- MCOptions
  MaxRecords = 2
  MaxEdits = 1
  Faults = {"kill", "sign"}
INVARIANTS
  ReleaseTypeOK
  VerifiedIsSigned
  BuiltVerifies
  RetirementHolds
CHECK_DEADLOCK FALSE
