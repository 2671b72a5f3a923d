SPECIFICATION Spec
CHECK_DEADLOCK FALSE
CONSTANTS
  None = None
  PageSize = 2
  MapCapacity = 2
  AddressLimit = 10
  MemoryMaps <- TidyMaps
  Layouts <- SomeLayouts
INVARIANTS
  TypeOK
  MapIsExact
  GrantsAreDisjoint
  GrantsFitOneRange
