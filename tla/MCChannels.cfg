SPECIFICATION Spec
CHECK_DEADLOCK FALSE
CONSTANTS
  None = None
  ObjectCapacity = 3
  MaxObjectGeneration = 2
  HandleCapacity = 3
  MaxHandleGeneration = 2
  GenerationModulus = 8
  MaxChannelMessages = 2
  MaxMessageHandles = 2
  VmRangeCapacity = 1
  MaxPendingTlbInvalidations = 1
  MaxSequence = 1
  AddressLimit = 4
  AvailableRanges <- OneRange
  MaxFrameGeneration = 1
  ProcessCapacity = 1
  ObjectQuota = 3
  CreatableKinds = {}
  RightsChoices <- SendRights
  MemorySizes = {}
  MapRequests <- NoRequests
  MessageLimits = {2, 3}
  HostCalls = {}
INVARIANTS
  HandleCountAccurate
  QueueCountAccurate
PROPERTIES
  ImplementsCapabilities
