CONSTANTS
  MaxAlerts = 2
  MaxCrashes = 1
SPECIFICATION SinksFairSpec
INVARIANTS
  SinksTypeOK
  MailRepeatedOnlyByCrash
  FailureIsContained
PROPERTY
  EveryAlertReached
CHECK_DEADLOCK FALSE
