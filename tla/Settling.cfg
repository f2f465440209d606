SPECIFICATION FairSpec
CONSTANTS
  MaxConcurrency = 3
  MaxAttempts = 2
  MaxRevisions = 0
  ProfileNames <- MCProfiles
  Profiles <- MCProfiles
  ChannelPlans <- PeerPlans
  Sandboxes = {FALSE, TRUE}
  IdleTimeouts = FALSE
  MaxCrashes = 1
  MaxErrors = 0
CHECK_DEADLOCK FALSE
PROPERTIES
  RunSettles
  DiscussionsEnd
