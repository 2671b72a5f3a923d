SPECIFICATION TranslationSpec
CHECK_DEADLOCK FALSE
CONSTANTS
  None = None
  ObjectCapacity = 3
  MaxObjectGeneration = 2
  HandleCapacity = 3
  MaxHandleGeneration = 2
  GenerationModulus = 8
  MaxChannelMessages = 1
  MaxMessageHandles = 1
  VmRangeCapacity = 2
  MaxPendingTlbInvalidations = 2
  MaxSequence = 2
  AddressLimit = 3
  AvailableRanges <- OneRange
  MaxFrameGeneration = 2
  ProcessCapacity = 1
  ObjectQuota = 4
  CreatableKinds = {"AddressSpace", "Event"}
  RightsChoices <- UniqueRights
  MemorySizes = {2}
  MapRequests <- Requests
  MessageLimits = {2}
  HostCalls = {"event"}
  CpuIds = {c1, c2}
  MaxCpus = 2
  MaxInFlight = 2
INVARIANTS
  TablesFollow
  TranslationsCovered
