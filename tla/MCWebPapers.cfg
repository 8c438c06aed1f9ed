SPECIFICATION PapersSpec
CONSTANTS
  MaxTakes = 2
  MaxUploads = 2
  MaxMarks = 2
  Slots = 2
  ChatFiles = {f1, f2, f3}
  MaxDrafts = 3
  DeskPapers = {d1}
  DeskStaff = {e1}
  NoStaff = NoStaff
  NoPaper = NoPaper
  NoDeskDialog = NoDeskDialog
  NoDeskRead = NoDeskRead
  DeskReading = DeskReading
  MaxDeskClicks = 2
  MaxDeskOthers = 1
  MaxDeskPicks = 1
  SignPapers = {p1, p2}
  SignCodes = {k1, k2}
  NoSignCode = NoSignCode
  NoSignJob = NoSignJob
  NoReader = NoReader
  MaxVisits = 1
SYMMETRY PapersSymmetry
INVARIANTS PapersTypeOK RecordingIsKept OfferedIsHonest SignedWasRead FilesGoWithTheirText
CHECK_DEADLOCK FALSE
