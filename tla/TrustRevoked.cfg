SPECIFICATION TrustSpec
CONSTANTS
  NumKeys = 4
  Pins <- MCPins
  Transitions <- MCTransitions
  Revocations <- MCRevocations
  Sources = {"operator", "bundle"}
  Objects <- MCObjects
  MaxPins = 2
  MaxStatements = 3
INVARIANTS
  RetiredAndRevoked
CHECK_DEADLOCK FALSE
