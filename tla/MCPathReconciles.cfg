CONSTANTS
  a = a
  b = b
  NULL = NULL
  TxnId = {a, b}
  Partition = {p1}
  Payload <- MCPayload
  DedupDelay = 1
  MaxOffsetsPerTrigger = 2
  MaxOffset = 3
  MaxOperations = 0
  MaxRecreations = 0
SPECIFICATION Spec
INVARIANT Reconciles
CHECK_DEADLOCK FALSE
