CONSTANTS
  Broken = Broken
  Merchant = {shop}
  Profile = {trusted, blacklisted}
  Delay = 1
  MaxBatch = 1
  MaxTime = 3
  MaxFiles = 3
SPECIFICATION Spec
INVARIANT
  ChangesAreVisible
CHECK_DEADLOCK FALSE
