SPECIFICATION EdgesSpec
CONSTANTS
  Kinds <- AllKinds
  Chats = {"c1", "c2"}
  Closing = {"c1"}
  Notices = {"n1"}
  Routed = {"r1"}
  Jobs = {"j1"}
  Stops = {"s1"}
  MaxCrashes = 1
  Minute = 2
  Limits = {0, 1, 2}
  MaxTime = 7
  MaxInFlight = 1
  MaxRequests = 4
CHECK_DEADLOCK FALSE
INVARIANTS
  OwnAnswers
  ReportedOnce
  DeathIsReported
  RateIsExact
  ValidPlansMaterialize
  VerdictIsRead
  HistoryKeepsPairs
PROPERTIES
  EveryChatAnswered
  StopEnds
  CapsuleReports
