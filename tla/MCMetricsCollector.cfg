CONSTANTS
  streaming = streaming
  customers = customers
  Pipelines <- MCPipelines
  MaxTime = 2
  MaxEvents = 3
  MaxErrors = 1
SPECIFICATION FairSpec
INVARIANTS
  CollectorTypeOK
  CollectedOnce
  OnlyTiesAreSkipped
PROPERTY
  EveryEventCollected
CHECK_DEADLOCK FALSE
