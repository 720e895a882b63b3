SPECIFICATION SignedSpec
CONSTANTS
  NoInput = NoInput
  Keys = {k1}
  LogIds = {l1}
  Inputs = {a}
  InputTs <- MCInputTs
  RecordSize <- MCRecordSize
  OwnSize = 1
  HeaderSize = 1
  SegmentSize = 3
  FinalizeOnRollover = TRUE
  MaxIndex = 1
  NameLimit = 9
  MaxChunks = 3
  Faults = {"kill", "power_loss", "sign", "sync", "short_write", "create"}
INVARIANTS
  SignedTypeOK
  SealIsFinal
  SegmentsLinked
  SignedWriterAgrees
