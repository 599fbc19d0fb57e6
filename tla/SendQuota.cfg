SPECIFICATION Spec
CONSTANTS
  Messages = {m1, m2, m3}
  Requests = {}
  Dates = {d1}
  NoDate = NoDate
  MaxAttempts = 1
  MaxStalled = 1
  Concurrency = 2
  Quota = 1
  MaxCrashes = 0
  Faults = TRUE
SYMMETRY Symmetry
INVARIANTS UsageBound
