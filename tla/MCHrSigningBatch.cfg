SPECIFICATION FairSpec
CONSTANTS
  Employees = {e1}
  Phones = {p1}
  Docs = {d1, d2}
  Keys = {k1}
  Codes = {c1}
  NoPhone = NoPhone
  NoKey = NoKey
  NoCode = NoCode
  MaxAttempts = 1
INVARIANTS
  CodeSignsAllOrNothing
PROPERTIES
  PendingIsResolved
CHECK_DEADLOCK FALSE
