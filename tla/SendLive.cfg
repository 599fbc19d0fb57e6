SPECIFICATION FairSpec
CONSTANTS
  Messages = {m1, m2}
  Requests = {}
  Dates = {d1}
  NoDate = NoDate
  MaxAttempts = 1
  MaxStalled = 1
  Concurrency = 1
  Quota = 1
  MaxCrashes = 1
  Faults = TRUE
PROPERTIES Settles
