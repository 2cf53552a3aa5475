SPECIFICATION Spec
CONSTANTS
  Requests = {r1, r2}
  Tabs = {t1, t2}
  MaxDomains = 2
  MaxWork = 8
  Overlap = FALSE
  RegistryErrors = TRUE
SYMMETRY Symmetry
INVARIANTS TypeOK ApprovedHasDomain
PROPERTIES ActiveStaysApproved RestrictedIsFrozen StatusMachineSpec
CHECK_DEADLOCK FALSE
