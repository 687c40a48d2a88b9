SPECIFICATION AuthoritySpec
CONSTANTS
  Proposals = {1}
  Consumers = {"x"}
  Evidence = {"e1"}
  Refs <- JobRefs
  Draft <- OneDraft
  NoScope = NoScope
  NoConsumer = NoConsumer
  NoRef = NoRef
  NoParent = NoParent
  Never = Never
  LeaseDuration = 1
  ClaimLimit = 1
  MaxPerChain = 1
  MaxPending = 1
  MaxRefs = 3
  MaxLag = 0
  Motions <- NoMotions
  MaxClock = 3
  MaxRuntime = 2
  MaxReported = 100
  Workers = {"A", "B"}
  ConsumerOf <- OneConsumer
  Permitted = {1}
  ScheduledFor <- Requested
  HandoffDelay = 0
  Quiet = {1}
  Critical = 1
  TagRef = TagRef
  NoProposal = NoProposal
  MaxJobs = 2
  Faults <- StopFaults
INVARIANTS JobsAccounted
