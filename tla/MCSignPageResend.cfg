\* A code asked for again on the page where documents are signed.
SPECIFICATION SignSpec
CONSTANTS
  SignPapers = {p1, p2}
  SignCodes = {k1, k2}
  NoSignCode = NoSignCode
  NoSignJob = NoSignJob
  NoReader = NoReader
  MaxVisits = 1
INVARIANTS
  ResentCodeWorks
CHECK_DEADLOCK FALSE
