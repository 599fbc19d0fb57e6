SPECIFICATION Spec
CONSTANTS
  Deliveries = {d1, d2}
  Answers = {"ok", "error", "network"}
  MaxAttempts = 2
  MaxStalled = 1
  Concurrency = 2
  Threshold = 2
  MaxCrashes = 1
  Admin = TRUE
  Faults = TRUE
SYMMETRY Symmetry
CHECK_DEADLOCK FALSE
INVARIANTS TypeOK PostsBound DisabledForFailures RetryHasJob AnsweredFailuresDisable
PROPERTIES ImplementsHookLog
