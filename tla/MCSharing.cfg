SPECIFICATION Spec
CHECK_DEADLOCK FALSE
CONSTANTS
  None = None
  ObjectCapacity = 3
  MaxObjectGeneration = 2
  HandleCapacity = 3
  MaxHandleGeneration = 2
  GenerationModulus = 8
  MaxChannelMessages = 1
  MaxMessageHandles = 1
  VmRangeCapacity = 1
  MaxPendingTlbInvalidations = 1
  MaxSequence = 1
  AddressLimit = 4
  AvailableRanges <- OneRange
  MaxFrameGeneration = 2
  ProcessCapacity = 2
  ObjectQuota = 3
  CreatableKinds = {"Event"}
  RightsChoices <- UniqueRights
  MemorySizes = {1}
  MapRequests <- NoRequests
  MessageLimits = {1}
  HostCalls = {"destroy", "event"}
INVARIANTS
  NoKindConfusion
  PeersAgree
  ReachIsCharged
  NothingSpentInVain
  ProcessesConfined
PROPERTIES
  ObjectNeverRevived
