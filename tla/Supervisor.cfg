SPECIFICATION FairSpec
CONSTANTS
  MaxRestarts = 1
  QueueCapacity = 2
  MaxInstances = 3
  MaxCommands = 2
  MaxReloads = 1
  MaxChatter = 1
  MaxJobWords = 1
CHECK_DEADLOCK FALSE
INVARIANTS
  RestartBudget
  HandlesAgree
  NoSilentDeath
PROPERTIES
  ComesBack
