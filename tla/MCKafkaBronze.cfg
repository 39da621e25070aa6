CONSTANTS
  NULL = NULL
  TxnId = {t1}
  Partition = {p1, p2}
  Payload <- MCPayload
  MaxOffsetsPerTrigger = 2
  MaxOffset = 2
  MaxOperations = 1
  MaxRecreations = 1
SPECIFICATION IngestFairSpec
INVARIANTS
  IngestTypeOK
  NoSilentGap
PROPERTY
  EveryRecordLands
CHECK_DEADLOCK FALSE
