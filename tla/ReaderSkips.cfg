SPECIFICATION LiveSpec
CONSTANTS
  small = small
  big = big
  NoInput = NoInput
  Keys = {k1}
  Inputs = {small}
  ReservedInputs = {}
  RecordSize <- MCRecordSize
  HeaderSize = 1
  FinalizeSize = 1
  Slack = 0
  SegmentSize = 4
  FinalizeOnRollover = TRUE
  MaxIndex = 1
  NameLimit = 9
  MaxChunks = 4
  Faults = {}
INVARIANTS
  NoRecordSkipped
