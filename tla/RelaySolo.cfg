SPECIFICATION FairSpec
CONSTANTS
  NumJobs = 1
  MaxInFlight = 1
  MaxAttempts = 3
  MaxRevivals = 1
  MaxCrashes = 2
  MaxFaults = 1
INVARIANTS
  SubmittedTracksItsTransaction
  NoLostWakeup
  AttemptsAreCounted
PROPERTIES
  SettledIsFinal
  EveryJobSettles
  CrashesLoseNothing
CHECK_DEADLOCK FALSE
