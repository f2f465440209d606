SPECIFICATION Spec
CONSTANTS
  MaxConcurrency = 2
  MaxAttempts = 2
  MaxRevisions = 1
  ProfileNames <- MCProfileNames
  Profiles <- MCProfiles
  Plans <- FaultPlans
  BadPlans = FALSE
  MaxRuns = 2
  MaxJobs = 4
  MaxCrashes = 1
  MaxFalseTimeouts = 1
  MaxCancels = 1
  MaxReloads = 0
CHECK_DEADLOCK FALSE
INVARIANTS
  TypeOK
  SlotsMatchJobs
  SlotLimit
  NoLostReady
  StaleHoldSlots
