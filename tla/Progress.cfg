SPECIFICATION FairSpec
CONSTANTS
  MaxConcurrency = 1
  MaxAttempts = 2
  MaxRevisions = 1
  ProfileNames <- MCProfileNames
  Profiles <- MCProfiles
  Plans <- LivePlans
  BadPlans = TRUE
  MaxRuns = 2
  MaxJobs = 4
  MaxCrashes = 1
  MaxFalseTimeouts = 0
  MaxCancels = 0
  MaxReloads = 1
CHECK_DEADLOCK FALSE
PROPERTIES
  ReadyJobStarts
  RunSettles
