SPECIFICATION Spec
CONSTANTS
  b1 = b1
  t1 = t1
  t2 = t2
  i1 = i1
  i2 = i2
  i3 = i3
  x = x
  y = y
  a1 = a1
  a2 = a2
  a3 = a3
  NoMail = Nobody
  Browser = {b1}
  Tab = {t1, t2}
  BrowserOf <- OneBrowser
  Identity = {i1, i2, i3}
  Email = {x, y}
  Account = {a1, a2, a3}
  Known = {}
  Nobody = Nobody
  MaxVisits = 3
  Beginnings <- Cases
  MaxChanges = 1
  MaxFaults = 1
CHECK_DEADLOCK FALSE
INVARIANT TypeOK
PROPERTY VerifiedOrKnown
PROPERTY SignInEnds
