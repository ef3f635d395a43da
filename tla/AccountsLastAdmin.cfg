CONSTANTS
  u1 = u1
  u2 = u2
  c1 = c1
  c2 = c2
  r1 = r1
  r2 = r2
  Users <- TwoUsers
  Clients <- OneClient
  Requests <- TwoRequests
  Nobody = Nobody
SPECIFICATION Spec
INVARIANT AdminRemains
CHECK_DEADLOCK FALSE
