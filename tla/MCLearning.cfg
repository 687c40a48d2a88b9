SPECIFICATION Spec
CONSTANTS
  Events = {"a", "b", "d"}
  Certificates = {"c1", "c2"}
  Members <- Overlapping
  Outcomes = {"k1", "k2", "k3"}
  Outcome <- ThreeOutcomes
  Available <- Times
  Compositions = {"x"}
  Authority <- MacroAuthority
  Journals = {"j1"}
  AsOf = 3
  Snaps = {"s1"}
  Bindings = {"selection"}
  Closure <- OneSnap
  Preloaded = {"a", "b"}
  Bound <- Moves
CHECK_DEADLOCK FALSE
INVARIANTS OwnEvidence
PROPERTIES SplitMaterialises Implements
