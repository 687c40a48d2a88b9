SPECIFICATION RecallsSpec
CONSTANTS
  Recalls = {"r1"}
  Evidence = {"e1"}
  Outcomes = {"k1", "k2"}
  Senders = {"s1", "s2"}
  AsOf <- OneRecall
  Outcome <- TwoSources
  Times = {1, 2}
  MaxAttempts = 2
  Retained = 1
  MaxRuntime = 4
  Writers <- AllWriters
  Callers = {"c1", "c2"}
  Questions = {"q1", "q2"}
  Capacity = 1
  Cooldown = 1
  MaxRecalls = 3
  MaxVersion = 1
  MaxClock = 1
INVARIANTS FailureNeedsMotion EpochsNotMixed MarkedAlive AuditConsistent
PROPERTIES ReadsCurrent RecallsEnd JobsServed
CHECK_DEADLOCK FALSE
