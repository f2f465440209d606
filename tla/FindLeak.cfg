SPECIFICATION FairSpec
CONSTANTS
  Kinds <- JobOnly
  Chats = {"c1"}
  Closing = {"c1"}
  Notices = {"n1"}
  Routed = {"r1"}
  Jobs = {"j1"}
  Stops = {"s1"}
  MaxCrashes = 0
CHECK_DEADLOCK FALSE
PROPERTIES
  TemporaryWorkersEnd
