SPECIFICATION Spec
CHECK_DEADLOCK FALSE
CONSTANTS
  Cpus = {c1, c2}
  Primary = c1
  FifoSize = 2
  MaxFaults = 2
  Deadline = 2
INVARIANTS
  LineIsWhole
  DumpMatches
  SuccessIsEarned
  NoOrphan
PROPERTIES
  RunnerAnswers
  GuestSettles
