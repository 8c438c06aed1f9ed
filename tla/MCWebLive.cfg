SPECIFICATION FairLiveSpec
CONSTANTS
  Sockets = {s1, s2, s3}
  NoSocket = NoSocket
  Colleagues = {u1}
  MaxFaults = 1
  MaxTokens = 3
  MaxInbox = 2
  MaxVersion = 1
  Tabs = {t1}
  Calls = {m, d}
  MeCall = m
  People = {p1}
  Sessions = {n1, n2}
  NoSession = NoSession
  NoToken = NoToken
  Nobody = Nobody
  MaxExpired = 1
  MaxLost = 1
  Boards = {"candidates", "vacancies", "leads", "tenders", "tasks"}
  QueueCards = {c1, c2}
  Stages = {todo, won}
  Finals = {won}
  UsedChips = {"source"}
  Passes <- MCPasses
  Moves = {v1, v2}
  NoData = NoData
  NoValue = NoValue
  MaxMoves = 2
  MaxForeign = 1
  MatrixRows = {r1}
  MatrixRoles = {x1, x2}
  NoMatrix = NoMatrix
  NoRead = NoRead
  Reading = Reading
  NoPerson = NoPerson
  MaxEdits = 2
  MaxPeer = 1
  RoomTabs = {b1, b2}
  NoTab = NoTab
  MaxAuthRetries = 3
  NoBackfill = NoBackfill
  MaxSpeech = 2
  MaxCuts = 1
  MaxOpenings = 2
  MaxRefusals = 1
  Dialogs = {d1, d2}
  Groups = {d1}
  NoDialog = NoDialog
  NoFeed = NoFeed
  Screens <- MCScreens
  MaxDeeds = 1
  MaxPeerDeeds = 1
  Folders = {f1}
  Notes = {o1}
  Papers = {q1, q2}
  Legacy = {q2}
  Foreign = {}
  DocSections = {a1, a2}
  RootFolder = RootFolder
  NoDocument = NoDocument
  AnyPlace = AnyPlace
  MaxDocOps = 1
INVARIANTS LiveTypeOK OneLiveSocket SoleTabIsNeverRevoked LiveDataIsTrue QuietPagesAreTrue MovesAreHonest
  DismissedStaysOut
PROPERTIES NothingShownIsLost NoPageIsStuck
CHECK_DEADLOCK FALSE
