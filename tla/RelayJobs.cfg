SPECIFICATION Spec
CONSTANTS
  NumJobs = 2
  MaxInFlight = 1
  MaxAttempts = 2
  MaxRevivals = 1
  MaxCrashes = 0
  MaxFaults = 1
INVARIANTS
  OneLiveTransactionPerJob
  ActiveNoncesDistinct
  ConfirmedIsMinted
PROPERTIES
  PromiseKept
CHECK_DEADLOCK FALSE
