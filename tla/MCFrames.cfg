SPECIFICATION Spec
CHECK_DEADLOCK FALSE
CONSTANTS
  None = None
  AvailableRanges <- SplitRanges
  MaxFrameGeneration = 3
  Owners = {o1, o2}
INVARIANTS
  TypeOK
  CurrentRefOwnsItsFrame
PROPERTIES
  StaleRefStaysStale
