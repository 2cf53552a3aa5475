SPECIFICATION Spec
CONSTANTS
  A = A
  B = B
  d1 = d1
  Person = {ann, bob}
  Staff = {ann}
  Domain = {d1}
  Portfolio = {}
  NoOrg = A
  Org <- OrgMC
  Rows = 1
  MaxPages = 5
  Overlap = FALSE
CHECK_DEADLOCK FALSE
PROPERTY RemovedManagerStaysRemoved
