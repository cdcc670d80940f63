SPECIFICATION FairSpec
CONSTANTS
  NumJobs = 2
  MaxInFlight = 1
  MaxAttempts = 2
  MaxRevivals = 0
  MaxCrashes = 1
  MaxFaults = 0
PROPERTIES
  CrashesLoseNothing
CHECK_DEADLOCK FALSE
