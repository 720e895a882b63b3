SPECIFICATION VSpec
CONSTANTS
  now = now
  edge = edge
  past = past
  NoInput = NoInput
  Keys = {k1, k2}
  Inputs = {now, edge, past}
  ReservedInputs = {}
  RecordSize <- MCRecordSize
  WallClock <- MCWallClock
  MaxDrift = 1
  HeaderSize = 1
  FinalizeSize = 1
  Slack = 0
  SegmentSize = 3
  FinalizeOnRollover = TRUE
  MaxIndex = 1
  NameLimit = 9
  MaxChunks = 4
  Faults = {"kill"}
  Edits = {"alter", "remove", "cut", "segment", "rewrite"}
  MaxEdits = 1
VIEW MCView
INVARIANTS
  VerifierTypeOK
  AcceptedIsHistory
  NoFalseAlarm
  CheckpointHolds
