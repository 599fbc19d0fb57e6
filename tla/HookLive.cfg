SPECIFICATION FairSpec
CONSTANTS
  Deliveries = {d1, d2}
  Answers = {"ok", "error"}
  MaxAttempts = 2
  MaxStalled = 1
  Concurrency = 2
  Threshold = 2
  MaxCrashes = 1
  Admin = FALSE
  Faults = TRUE
CHECK_DEADLOCK FALSE
PROPERTIES DeliverySettles
