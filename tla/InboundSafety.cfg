SPECIFICATION Spec
CONSTANTS
  Accounts = {a1}
  Messages = {n1, n2}
  Kinds = {"hard", "soft", "reply", "other", "bare", "poison"}
  Threshold = 2
  MaxUid = 3
  MaxCrashes = 2
  MaxLosses = 2
  Faults = TRUE
SYMMETRY Symmetry
INVARIANTS TypeOK NothingSkipped RecordedOnce UntoldBound BouncesSuppress
PROPERTIES ImplementsLedger
