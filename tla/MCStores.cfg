SPECIFICATION StoresSpec
CONSTANTS
  Events = {"e1", "e2"}
  Future = {"e2"}
  Texts <- MCTexts
  Callers = {"p1", "p2"}
  MaxConcurrent = 2
  MaxAttempts = 2
  FailureThreshold = 2
  MaxCalls = 3
  MaxRestarts = 1
  Keys = {"k1"}
  Deltas = {1, 2}
  Recalls = {"r1", "r2"}
  Capacity = 1
  TTL = 1
  MaxVersion = 1
  MaxTime = 1
  MaxServed = 3
  Workers = {"w1", "w2"}
  PoolCandidates = 4
  StoredEvents = {"e1", "e2", "bad"}
  Malformed = {"bad"}
  Proposals = {"p1", "p2"}
  Tenant <- MCTenant
  Databases <- MCDatabases
  Current = 17
  Projected = 7
  MaxStarts = 3
  Processes = {"d1", "d2", "d3"}
  MaxKeys = 3
  Registries = {"A", "B"}
  Enrolled <- MCEnrolled
  Requests = {"r1", "r2", "r3", "r4", "r5", "r6"}
  Content <- MCContent
  Posteriors = {"p", "q"}
  Reporters = {"s1", "s2"}
  CacheEntries = 1
  MaxClock = 2
  MaxEpoch = 2
  MaxReloads = 3
INVARIANTS AcknowledgedIndexed DeltasAreLive LoadsComplete EventsKept MarkedProjects KeysAgree ObservationOnce TrustServed
PROPERTIES RequestsEnd
CHECK_DEADLOCK FALSE
