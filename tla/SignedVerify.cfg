SPECIFICATION VerifySpec
CONSTANTS
  a = a
  b = b
  k1 = k1
  k2 = k2
  l1 = l1
  l2 = l2
  NoInput = NoInput
  Forged = Forged
  Keys = {k1, k2}
  LogIds = {l1, l2}
  Inputs = {a}
  InputTs <- MCInputTs
  RecordSize <- MCRecordSize
  OwnSize = 1
  HeaderSize = 1
  SegmentSize = 4
  FinalizeOnRollover = TRUE
  MaxIndex = 1
  NameLimit = 9
  MaxChunks = 4
  Faults = {"kill"}
  MaxDrift = 1
  HeadKinds = {"checkpoint", "statement", "attested"}
  Edits = {"body", "envelope", "remove", "replay", "cut", "tear", "segment", "header", "resign"}
  Options <- MCOptions
INVARIANTS
  VerifiedIsComplete
  VerifiedIsWritten
  SealedIsWhole
  SavedHeadHolds
  NoFalseTampering
VIEW MCView
