CONSTANTS
  MaxRuns = 3
  FetchLimit = 2
  Fragile = {"ingest_streaming", "collect_job_metrics"}
SPECIFICATION Spec
INVARIANTS
  TablesTypeOK
  RunsCollectedOnce
  TasksCollectedOnce
  TelemetryWhateverHappened
CHECK_DEADLOCK FALSE
