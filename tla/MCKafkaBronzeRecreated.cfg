CONSTANTS
  NULL = NULL
  TxnId = {t1, t2}
  Partition = {p1}
  Payload <- MCPayload
  MaxOffsetsPerTrigger = 2
  MaxOffset = 2
  MaxOperations = 1
  MaxRecreations = 1
SPECIFICATION IngestSpec
INVARIANT RetainedIsReadOrUnread
CHECK_DEADLOCK FALSE
