SPECIFICATION Spec
CONSTANTS
  MaxConcurrency = 3
  MaxAttempts = 2
  MaxRevisions = 0
  ProfileNames <- MCProfiles
  Profiles <- MCProfiles
  ChannelPlans <- MCPlans
  Sandboxes = {FALSE, TRUE}
  IdleTimeouts = TRUE
  MaxCrashes = 0
  MaxErrors = 1
CHECK_DEADLOCK FALSE
INVARIANTS
  EngineConsistent
  OneVoice
  ChannelsBeforeCompletion
