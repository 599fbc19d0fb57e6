SPECIFICATION Spec
CONSTANTS
  Customers = {c1, c2}
  Mailboxes = {b1, b2}
  Spellings = {s1, s2}
  Null = Null
  Requests = {q1, q2}
  MaxSends = 2
  MaxChanges = 4
  MaxFaults = 1
SYMMETRY Symmetry
CHECK_DEADLOCK FALSE
INVARIANTS TypeOK ErasureIsComplete CopiesBound
PROPERTIES NoMailToStopped
