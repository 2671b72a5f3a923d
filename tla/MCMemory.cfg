SPECIFICATION Spec
CHECK_DEADLOCK FALSE
CONSTANTS
  None = None
  ObjectCapacity = 3
  MaxObjectGeneration = 2
  HandleCapacity = 3
  MaxHandleGeneration = 2
  GenerationModulus = 8
  MaxChannelMessages = 1
  MaxMessageHandles = 1
  VmRangeCapacity = 2
  MaxPendingTlbInvalidations = 2
  MaxSequence = 2
  AddressLimit = 4
  AvailableRanges <- OneRange
  MaxFrameGeneration = 2
  ProcessCapacity = 1
  ObjectQuota = 4
  CreatableKinds = {"AddressSpace"}
  RightsChoices <- AllRights
  MemorySizes = {2}
  MapRequests <- TwoRequests
  MessageLimits = {2}
  HostCalls = {}
INVARIANTS
  NoDanglingHandle
  MappedMemoryStays
  FramesBackMemory
  UnreachableMemoryReclaimed
  NothingSpentInVain
PROPERTIES
  ImplementsMemory
