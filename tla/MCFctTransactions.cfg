CONSTANTS
  Id = {1, 2}
  Partition = {0, 1}
  Window = 1
  MaxTime = 3
  MaxCopies = 4
  MaxRuns = 3
SPECIFICATION Spec
INVARIANTS
  LostOnlyBehindWindow
  OneRowPerTransaction
  LowestPartitionThenLastOffset
CHECK_DEADLOCK FALSE
