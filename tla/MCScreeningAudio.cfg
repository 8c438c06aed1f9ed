\* Liveness: no symmetry.
SPECIFICATION FairSpec
CONSTANTS
  Files = {f1, f2}
  NoFile = NoFile
  Requests = {r1}
  Purger = Purger
INVARIANTS
  TypeOK
PROPERTIES
  RowOutlivesObject
  DeletedSessionLeavesNoAudio
CHECK_DEADLOCK FALSE
