SPECIFICATION Spec
SYMMETRY Interchangeable
CONSTANTS
  Proposals = {1, 2}
  Consumers = {w1, w2}
  Evidence = {"e1"}
  Refs = {h1, h2}
  Draft <- TauDrafts
  NoScope = NoScope
  NoConsumer = NoConsumer
  NoRef = NoRef
  NoParent = NoParent
  Never = Never
  LeaseDuration = 1
  ClaimLimit = 1
  MaxPerChain = 1
  MaxPending = 2
  MaxRefs = 2
  MaxLag = 1
  Motions <- TauMotions
  MaxClock = 3
  MaxRuntime = 2
  MaxReported = 2
INVARIANT ApprovalSpacing
