SPECIFICATION Spec
CONSTANTS
  Requests = {r1, r2}
  Sweeper = sweeper
  Jobs = {j1}
  Texts = {t1}
  Live = live
SYMMETRY Symmetry
PROPERTIES
  StartedWithConsent
CHECK_DEADLOCK FALSE
