SPECIFICATION Spec
CONSTANTS
  MaxConcurrency = 2
  MaxAttempts = 2
  MaxRevisions = 1
  ProfileNames <- MCProfileNames
  Profiles <- MCProfiles
  Plans <- CleanPlans
  BadPlans = FALSE
  MaxRuns = 1
  MaxJobs = 4
  MaxCrashes = 0
  MaxFalseTimeouts = 0
  MaxCancels = 0
  MaxReloads = 0
CHECK_DEADLOCK FALSE
INVARIANT CompletedRunsAreOver
