SPECIFICATION LiveFairSpec
CONSTANTS
  small = small
  big = big
  NoInput = NoInput
  Keys = {k1}
  Inputs = {small}
  ReservedInputs = {}
  RecordSize <- MCRecordSize
  HeaderSize = 1
  FinalizeSize = 1
  Slack = 0
  SegmentSize = 3
  FinalizeOnRollover = TRUE
  MaxIndex = 1
  NameLimit = 9
  MaxChunks = 4
  Faults = {"kill"}
INVARIANTS
  ReaderTypeOK
  YieldedInOrder
  YieldedStable
PROPERTIES
  CatchesUp
