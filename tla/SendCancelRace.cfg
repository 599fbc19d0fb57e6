SPECIFICATION Spec
CONSTANTS
  Messages = {m1}
  Requests = {r1}
  Dates = {d1}
  NoDate = NoDate
  MaxAttempts = 3
  MaxStalled = 1
  Concurrency = 1
  Quota = 1
  MaxCrashes = 0
  Faults = FALSE
PROPERTIES CancelledNeverSends
