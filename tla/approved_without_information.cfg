SPECIFICATION Spec
CONSTANTS
  Requests = {r1}
  Tabs = {t1, t2}
  MaxDomains = 2
  MaxWork = 6
  Overlap = FALSE
  RegistryErrors = FALSE
SYMMETRY Symmetry
INVARIANTS ApprovedHasInformation
CHECK_DEADLOCK FALSE
