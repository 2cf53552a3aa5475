SPECIFICATION Spec
CONSTANTS
  Requests = {r1, r2}
  Tabs = {t1, t2}
  MaxDomains = 2
  MaxWork = 5
  Overlap = TRUE
  RegistryErrors = TRUE
SYMMETRY Symmetry
INVARIANTS InfoHasRequest RegisteredHasRow
CHECK_DEADLOCK FALSE
