SPECIFICATION RSpec
CONSTANTS
  MaxConcurrency = 1
  MaxAttempts = 2
  MaxRevisions = 0
  ProfileNames <- MCProfileNames
  Profiles <- MCProfiles
  Plans <- ShortPlans
  BadPlans = FALSE
  MaxRuns = 2
  MaxJobs = 4
  MaxCrashes = 1
  MaxFalseTimeouts = 0
  MaxCancels = 1
  MaxReloads = 0
  MaxMishaps = 2
  MaxCutOffs = 1
  MaxEarly = 1
CHECK_DEADLOCK FALSE
INVARIANTS
  CrashLosesOnlyStarts
  NoOrphanRows
  OutputsAreSaved
  DependenciesSurvive
  IdleOnlyAtStartup
  NoLostReady
PROPERTIES
  SavedWorkIsKept
