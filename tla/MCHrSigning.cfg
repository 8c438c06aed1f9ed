SPECIFICATION Spec
CONSTANTS
  Employees = {e1}
  Phones = {p1}
  Docs = {d1}
  Keys = {k1, k2}
  Codes = {c1, c2}
  NoPhone = NoPhone
  NoKey = NoKey
  NoCode = NoCode
  MaxAttempts = 2
SYMMETRY Symmetry
INVARIANTS
  TypeOK
  SignaturesAreOrderly
  EvidenceIsComplete
PROPERTIES
  SignedStands
CHECK_DEADLOCK FALSE
