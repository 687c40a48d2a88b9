SPECIFICATION PlanningSpec
CONSTANTS
  Planners = {c1, c2}
  Offers <- MCOffers
  Frames <- MCFrames
  Kinds = {"start", "goal", "other", "tau_no_event"}
  Unit = 5
  HourTicks = 2
  DayHours = 4
  MinSlack = 2
  MinLead = 1
  MaxEvidence = 8
  MaxTime = 2
  Events = {"e1", "e2"}
  Keys = {"e2", "ap"}
  Residuals <- MCResiduals
  EdgeIds = {"a", "b"}
  Published <- MCPublished
  Candidates <- MCCandidates
  ObligationLists <- MCObligations
  MaxNodes = 3
  MaxEdges = 2
  ClosureRadius = 1
  MaxBurden = 1
  MaxSnaps = 2
  Frontiers <- MCFrontiers
  Answers <- MCAnswers
  Plain = "plain"
  Top = 8
  MaxRankDelta = 1
  MinScale = 1
  MaxScale = 5
  ScaleUnit = 2
  Preference = 2
  Similarity = 70
  OccupancyLimit = 1
  MaxActive = 1
  ActivationThreshold = 3
  RecallK = 3
  PackK = 2
  MaxPack = 3
  TokenBudget = 3
  DiversityPenalty = 2
  PriorityPenalty = 1
INVARIANTS RepeatsSuppressed
CHECK_DEADLOCK FALSE
