CONSTANTS
  NULL = NULL
  card = card
  customer = customer
  Customer = {customer}
  Limit = {4}
  Transaction <- MCTransaction
  Entry <- MCEntry
  MaxTransactions = 2
  MaxEntries = 2
  MaxProfiles = 2
  JoinDelay = 1
  CountDelay = 2
  WindowLength = 2
  WindowSlide = 1
SPECIFICATION GoldFairSpec
INVARIANTS
  GoldTypeOK
  OneAlertPerMatch
  MatchRegardlessOfOrder
  OneHighValueAlert
  WindowPublishedOnce
  WindowCountsExact
PROPERTY
  MatchesEventuallyAlert
CHECK_DEADLOCK FALSE
