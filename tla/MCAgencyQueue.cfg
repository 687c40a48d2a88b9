SPECIFICATION FairSpec
CONSTANTS
  Proposals = {1, 2}
  Consumers = {w1}
  Evidence = {"e1"}
  Refs = {h1, h2}
  Draft <- SharedForecastDrafts
  NoScope = NoScope
  NoConsumer = NoConsumer
  NoRef = NoRef
  NoParent = NoParent
  Never = Never
  LeaseDuration = 1
  ClaimLimit = 1
  MaxPerChain = 1
  MaxPending = 2
  MaxRefs = 2
  MaxLag = 1
  Motions <- TauMotions
  MaxClock = 4
  MaxRuntime = 4
  MaxReported = 4
INVARIANTS TypeOK ActiveProjection OneLiveOpportunity NoApprovalAfterUncertainty SpacedUnlessLate ForecastBinding
PROPERTIES UncertainBlocksScope ForecastInvalidated ProposalsSettle ImplementsMemory
