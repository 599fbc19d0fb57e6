SPECIFICATION Spec
CONSTANTS
  u1 = u1  u2 = u2  u3 = u3
  Users = {u1, u2, u3}
  Founders = {u1, u2}
  Sessions = {s1, s2, s3}
  Invitations = {i1}
  Requests = {q1, q2}
  None = None
  Ttl = 2
  MaxRequests = 4
  MaxFaults = 1
INVARIANTS TypeOK AccessEnds SessionsHeld LastAdminStays
SYMMETRY Symmetry
CHECK_DEADLOCK FALSE
