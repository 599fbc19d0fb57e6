SPECIFICATION Spec
CONSTANTS
  Messages = {m1}
  Requests = {r1, r2}
  Dates = {d1}
  NoDate = NoDate
  MaxAttempts = 2
  MaxStalled = 1
  Concurrency = 1
  Quota = 1
  MaxCrashes = 2
  Faults = TRUE
SYMMETRY Symmetry
INVARIANTS TypeOK StatusIsBacked RecordedOnce MailsBound OpenHasJob CancelledRowSettled
PROPERTIES ImplementsOutbox
