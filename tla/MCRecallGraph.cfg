SPECIFICATION Spec
CONSTANTS
  Recalls = {"r1"}
  Evidence = {"e1"}
  Outcomes = {"k1"}
  Senders = {"s1"}
  AsOf <- OneRecall
  Outcome <- OneOutcome
  Times = {1}
  MaxAttempts = 2
  Retained = 1
  MaxRuntime = 2
  Writers <- GraphWriters
PROPERTIES GraphMotionRefused
