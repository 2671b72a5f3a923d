SPECIFICATION Spec
CHECK_DEADLOCK FALSE
CONSTANTS
  None = None
  ObjectCapacity = 3
  MaxObjectGeneration = 2
  HandleCapacity = 2
  MaxHandleGeneration = 5
  GenerationModulus = 4
  MaxChannelMessages = 1
  MaxMessageHandles = 1
  VmRangeCapacity = 1
  MaxPendingTlbInvalidations = 1
  MaxSequence = 1
  AddressLimit = 4
  AvailableRanges <- OneRange
  MaxFrameGeneration = 1
  ProcessCapacity = 1
  ObjectQuota = 3
  CreatableKinds = {"Event"}
  RightsChoices <- AllRights
  MemorySizes = {}
  MapRequests <- NoRequests
  MessageLimits = {}
  HostCalls = {}
INVARIANTS
  EveryEntryNameable
