CONSTANTS
  merchants = merchants
  risk = risk
  Name = {merchants, risk}
  Absent = Absent
  Config <- MCConfig
  NumFiles = 2
  MaxUpdates = 2
  MaxDeploys = 1
  PageSize = 1
  MaxPages = 2
  MaxRetries = 2
  MaxRecords = 3
  MaxChanges = 1
SPECIFICATION PipelineSpec
INVARIANTS
  PipelineTypeOK
  FailureStaysLocal
  RegistryLeadsAudit
  ViewIsSnapshot
  BudgetPerPage
PROPERTY
  ViewNeverEmptied
CHECK_DEADLOCK FALSE
