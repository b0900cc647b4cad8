SPECIFICATION Spec
CONSTANTS
  u1 = u1  u2 = u2
  n1 = n1  n2 = n2
  p1 = p1  p2 = p2
  q1 = q1  q2 = q2  q3 = q3  q4 = q4
  NoRequest = NoRequest  NoRow = NoRow  Absent = Absent
  Users <- TwoUsers
  Repos <- OneRepo
  Paths <- OnePath
  PathOf <- OnePathOf
  Requests <- ThreeRequests
  Overlapping <- FirstPath
CHECK_DEADLOCK FALSE
INVARIANTS OneRowPerRepo
