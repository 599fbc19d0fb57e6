SPECIFICATION Spec
CONSTANTS
  Messages = {m1}
  Positions = {p1}
  Unknown = Unknown
  Hits = {h1, h2, h3}
  InstantLinks = 1
  MaxAttempts = 2
  MaxStalled = 1
  Concurrency = 2
  MaxMishaps = 1
SYMMETRY Symmetry
CHECK_DEADLOCK FALSE
INVARIANTS TypeOK CountersMatch HitsRecorded FirstOpensBound OneToast
