CONSTANTS
  a = a
  b = b
  NULL = NULL
  TxnId = {a, b}
  Partition = {p1}
  Payload <- MCPayload
  DedupDelay = 1
  MaxOffsetsPerTrigger = 2
  MaxOffset = 3
  MaxOperations = 1
  MaxRecreations = 0
SPECIFICATION Spec
INVARIANTS
  DuplicatesFarApart
  PathInv
  LossExplained
PROPERTY KeepsLedger
CHECK_DEADLOCK FALSE
