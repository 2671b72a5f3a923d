SPECIFICATION Spec
CHECK_DEADLOCK FALSE
CONSTANTS
  None = None
  ObjectCapacity = 3
  MaxObjectGeneration = 2
  HandleCapacity = 3
  MaxHandleGeneration = 2
  GenerationModulus = 8
  MaxChannelMessages = 1
  MaxMessageHandles = 1
  VmRangeCapacity = 2
  MaxPendingTlbInvalidations = 2
  MaxSequence = 3
  AddressLimit = 4
  AvailableRanges <- SplitRanges
  MaxFrameGeneration = 2
  ProcessCapacity = 1
  ObjectQuota = 3
  CreatableKinds = {"AddressSpace"}
  RightsChoices <- AllRights
  MemorySizes = {2}
  MapRequests <- Requests
  MessageLimits = {}
  HostCalls = {}
INVARIANTS
  TypeOK
  MappingCountAccurate
  SpaceConsistent
  BusySpaceHasHandle
  RevokeIsComplete
PROPERTIES
  ImplementsMappings
