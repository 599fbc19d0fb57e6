SPECIFICATION FairSpec
CONSTANTS
  Accounts = {a1, a2}
  Messages = {n1}
  Kinds = {"other", "reply", "poison"}
  Threshold = 1
  MaxUid = 2
  MaxCrashes = 1
  MaxLosses = 0
  Faults = FALSE
PROPERTIES MailTakenIn
