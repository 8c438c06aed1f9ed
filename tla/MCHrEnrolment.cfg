SPECIFICATION Spec
CONSTANTS
  Employees = {e1}
  Phones = {p1, p2}
  Packages = {d1, d2}
  Keys = {k1, k2}
  Codes = {c1, c2}
  NoPhone = NoPhone
  NoDoc = NoDoc
  NoKey = NoKey
  NoCode = NoCode
  MaxAttempts = 2
SYMMETRY Symmetry
INVARIANTS
  TypeOK
  KeysAreSafe
  CodesAndPackagesHold
PROPERTIES
  HistoryStands
  ImplementsConsentedKey
CHECK_DEADLOCK FALSE
