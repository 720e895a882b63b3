SPECIFICATION Spec
CONSTANTS
  small = small
  big = big
  NoInput = NoInput
  Keys = {k1, k2}
  Inputs = {small, big}
  ReservedInputs = {}
  RecordSize <- MCRecordSize
  HeaderSize = 1
  FinalizeSize = 1
  Slack = 0
  SegmentSize = 4
  FinalizeOnRollover = TRUE
  MaxIndex = 1
  NameLimit = 9
  MaxChunks = 5
  Faults = {"kill"}
INVARIANTS
  AckedSurvives
  SegmentBounded
  FinalizedIsLast
