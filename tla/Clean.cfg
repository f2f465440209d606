SPECIFICATION Spec
CONSTANTS
  MaxConcurrency = 2
  MaxAttempts = 2
  MaxRevisions = 1
  ProfileNames <- MCProfileNames
  Profiles <- MCProfiles
  Plans <- CleanPlans
  BadPlans = TRUE
  MaxRuns = 2
  MaxJobs = 6
  MaxCrashes = 1
  MaxFalseTimeouts = 0
  MaxCancels = 0
  MaxReloads = 1
CHECK_DEADLOCK FALSE
INVARIANTS
  ReportsAreCurrent
  QueueHoldsReadyOnce
  AttemptsBounded
  FailedRunsAreOver
  NoIdleSlot
  OverMeansReported
PROPERTIES
  SchedulesJobs
