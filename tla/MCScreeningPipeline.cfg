SPECIFICATION Spec
CONSTANTS
  Requests = {r1}
  Sweeper = sweeper
  Jobs = {j1, j2}
  Texts = {t1, t2}
  Live = live
SYMMETRY Symmetry
INVARIANTS
  TypeOK
  ReportsAreDue
  OneRecognition
PROPERTIES
  TextIsKept
CHECK_DEADLOCK FALSE
