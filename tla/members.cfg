SPECIFICATION Spec
CONSTANTS
  A = A
  B = B
  d1 = d1
  Person = {ann, bob}
  Staff = {ann}
  Domain = {d1}
  Portfolio = {A, B}
  NoOrg = NoOrg
  Org <- OrgMC
  Rows = 2
  MaxPages = 4
  Overlap = TRUE
CHECK_DEADLOCK FALSE
INVARIANT TypeOK
INVARIANT RetrievedHasRole
PROPERTY OneInvitation
PROPERTY OrgKeepsAdmin
PROPERTY OnePortfolio
PROPERTY InvitationsAnswered
