SPECIFICATION DataSpec
CONSTANTS
  Values = {a, b}
  Blank = Blank
  Incomplete = Incomplete
  Absent = Absent
  Nothing = Nothing
  MaxOthers = 1
  MaxSaves = 1
  BoardCards = {1, 2, 3}
  BoardColumns = {todo, doing}
  NoBoardCard = NoBoardCard
  MaxDrops = 2
  MaxRefetches = 1
  Partners = {p1}
  NoCard = NoCard
  NoFetch = NoFetch
  Asking = Asking
  MaxClicks = 2
  MaxCardOthers = 1
  CalEvents = {e1, e2}
  CalDays = 1
  CalKinds = {"day", "week"}
  DaySlots = 8
  HourSlots = 4
  DefaultSlot = 4
  Places = {1, 7}
  NoEvent = NoEvent
  NoEnd = NoEnd
  NoCalRead = NoCalRead
  CalAsking = CalAsking
  MaxCalOps = 1
  CommentCards = {k1, k2}
  CommentIds = {c1, c2}
  NoComment = NoComment
  GoneComment = GoneComment
  NoText = NoText
  ShutField = ShutField
  NoThread = NoThread
  ThreadAsking = ThreadAsking
  MaxTexts = 1
  MaxCommentOps = 2
  MaxCommentOthers = 1
  NoticeKinds = {"chat", "task"}
  AllKinds = "all"
  MaxNotices = 2
  ListLimit = 1
  MaxBellOps = 2
  NoBell = NoBell
  BellAsking = BellAsking
INVARIANTS
  DataTypeOK
  QuietRecordsAreTrue
  ScreenIsRight
PROPERTIES
  OthersWorkSurvives
CHECK_DEADLOCK FALSE
