\* The services around an apply, one at a time: rings and files at their limits,
\* overlapping requests, late timers, restarts between two writes.
CONSTANTS
  Capacity = 2
  LastEntry = 9
  Boots = 2
  UsageBounds <- MCUsageBounds
  Event = {"e1", "e2"}
  Addr = {"a1", "a2"}
  EventWindow = 2
  MaxAddrs = 2
  LastEvent = 4
  LastMoment = 3
  Conn = {root, p1, p2}
  Console = {root}
  Silent = {p1}
  MaxConns = 1
  MaxQueued = 1
  NewsBounds <- MCNewsBounds
  DemoSets = {0, 1}
  DemoAuditCap = 5
  DemoBounds <- MCDemoBounds
  Width4 = 3
  Base6 = 16
  Width6 = 2
  NonGlobal4 <- MCNonGlobal4
  Global6 <- MCGlobal6
  Doc6 <- MCDoc6
  MaxHost4 = 2
  MaxHost6 = 1
  PerChunk = 2
  Submissions <- MCSubmissions
  AllowEntries <- MCPrefix
SPECIFICATION Spec
INVARIANTS
  OutcomeIsTheAnswer
  NewestKept
  CountsOnce
  EveryEventCounted
  NothingAfterStop
  OneOutcome
  SetIsTheList
PROPERTIES
  ShutdownNeedsNoTimer
  ImplementsDecision
  StopReturns
  OutcomeHeard
CHECK_DEADLOCK FALSE
