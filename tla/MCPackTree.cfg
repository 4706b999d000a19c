SPECIFICATION Spec
CONSTANTS
  Kind <- MCKind
  Dest <- MCDest
  Tree <- MCTree
  Mangled <- MCMangled
  Unnamed <- MCUnnamed
  MaxFiles = 9
  MaxSuffix = 8
  Scenarios <- MCScenarios
  MaxChanges = 2
  Deepest = 3
CHECK_DEADLOCK FALSE
INVARIANTS
  PackedAsAsked
  FailsForAReason
  InputsSurvive
  StampNotLater
PROPERTIES
  ReadsNoLink
