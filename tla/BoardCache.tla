----------------------------- MODULE BoardCache -----------------------------
(***************************************************************************)
(* A kanban page and its queries (features/{candidates,vacancies,leads,    *)
(* tenders,tasks}): moves are shown before the server has agreed to them   *)
(* and taken back when it has not, while lists under several filters and   *)
(* cards are fetched, cancelled, invalidated and fetched again. The five   *)
(* pages differ in who may drag, in their final columns and in what can be *)
(* created.                                                                *)
(***************************************************************************)
EXTENDS Naturals, FiniteSets

CONSTANTS
  Boards,       \* the pages: names of features
  QueueCards,   \* cards
  Stages,       \* columns
  Finals,       \* the final ones, of the boards that have them
  UsedChips,    \* bound: the filter chips that are used
  Passes(_, _), \* Passes(f, c): the card passes the filter
  Moves,        \* mutations that may be under way at once
  NoData, NoValue,
  MaxMoves,     \* bound: moves
  MaxForeign    \* bound: moves by others

ASSUME BoardAssumption ==
  /\ Boards \subseteq {"candidates", "vacancies", "leads", "tenders", "tasks"}
  /\ Finals \subseteq Stages /\ Stages \ Finals # {} /\ {NoData, NoValue} \cap Stages = {}
  /\ QueueCards # {} /\ NoData \notin [QueueCards -> Stages \cup {NoValue}]
  /\ {MaxMoves, MaxForeign} \subseteq Nat

VARIABLES
  board,      \* the page that is open
  role,       \* what the user may: "editor" or "viewer"
  boardServer,     \* column of every card in the database
  filter,     \* the filter on the screen
  cache,      \* data of every query: a list per filter
  fetching,   \* requests for the data of a query: "none", "sent" or "read"
  arriving,   \* the data such a request has read
  boardStale,      \* invalidated queries
  skipped,    \* queries older than a change they will not be told of
  finalDrop,  \* the drop that waits for a comment
  move,       \* mutations
  moved, boardOthers

(* Per page: who may drag (dragDisabled, readOnly), which columns ask for  *)
(* a comment, whether a column has a "+", and the chips of its filter bar. *)
CandidatesBoard == [restricted |-> TRUE, final |-> {}, creates |-> FALSE]
CandidatesChips == {"recruiter", "grade", "engagementType", "employmentType"}
VacanciesBoard == [restricted |-> TRUE, final |-> Finals, creates |-> FALSE]
VacanciesChips == {"accountManager", "recruiter", "grade", "priority", "engagementType", "client"}
LeadsBoard == [restricted |-> FALSE, final |-> Finals, creates |-> TRUE]
LeadsChips == {"priority", "accountManager", "source"}
TendersBoard == [restricted |-> FALSE, final |-> Finals, creates |-> TRUE]
TendersChips == {"law", "priority", "accountManager", "platform"}
TasksBoard == [restricted |-> TRUE, final |-> {}, creates |-> TRUE]
TasksChips == {"assignee", "author", "priority"}
Page ==
  CASE board = "candidates" -> CandidatesBoard
    [] board = "vacancies" -> VacanciesBoard
    [] board = "leads" -> LeadsBoard
    [] board = "tenders" -> TendersBoard
    [] board = "tasks" -> TasksBoard
Chips ==
  CASE board = "candidates" -> CandidatesChips
    [] board = "vacancies" -> VacanciesChips
    [] board = "leads" -> LeadsChips
    [] board = "tenders" -> TendersChips
    [] board = "tasks" -> TasksChips

(* Every setting of the chips is a query of its own; at most one is set.   *)
Filters == {"all"} \cup (Chips \cap UsedChips)
HasActiveFilters == filter # "all"

queries == <<cache, fetching, arriving, boardStale, skipped>>
cacheVars == <<board, role, boardServer, filter, queries, finalDrop, move, moved, boardOthers>>

Active == {filter}
List(cols, f) == [c \in QueueCards |-> IF Passes(f, c) THEN cols[c] ELSE NoValue]
View(key) == List(boardServer, key)
Loaded == {k \in Filters : cache[k] # NoData}

IsFinal(col) == col \in Page.final
CanChangeStatus == Page.restricted => role = "editor"

Idle == [state |-> "idle"]
FreeMove == CHOOSE m \in Moves : move[m] = Idle
Move(kind, card, to) ==
  [state |-> "sent", kind |-> kind, card |-> card, to |-> to, previous |-> cache]
UnderWay == {m \in Moves : move[m] # Idle}
-----------------------------------------------------------------------------
(* Fault: only the list on the screen is updated.                           *)
ShownHere(data, card, to) == [data EXCEPT ![filter][card] = to]
(* Optimistic update of every list that shows the card; writing a query    *)
(* makes it fresh.                                                         *)
Shown(data, card, to) ==
  [k \in Filters |-> IF data[k] = NoData \/ data[k][card] = NoValue THEN data[k]
                     ELSE [data[k] EXCEPT ![card] = to]]

(* cancelQueries: fetches under way are dropped.                           *)
Cancelled == [k \in Filters |-> "none"]
EmptyBoard == [k \in Filters |-> NoData]

OnMutate(kind, card, to) ==
  /\ UnderWay # Moves /\ moved < MaxMoves
  /\ moved' = moved + 1
  /\ move' = [move EXCEPT ![FreeMove] = Move(kind, card, to)]
  /\ fetching' = Cancelled
  /\ arriving' = EmptyBoard
  /\ cache' = Shown(cache, card, to)
  /\ boardStale' = {}
  /\ UNCHANGED skipped

(* Creating shows nothing before the server has answered.                  *)
CreateIn(card, to) ==
  /\ Page.creates /\ CanChangeStatus
  /\ finalDrop = NoValue /\ UnderWay # Moves /\ moved < MaxMoves
  /\ boardServer[card] = NoValue /\ \A m \in UnderWay : move[m].card # card
  /\ moved' = moved + 1
  /\ move' = [move EXCEPT ![FreeMove] = [Move("create", card, to) EXCEPT !.previous = EmptyBoard]]
  /\ UNCHANGED <<board, role, boardServer, filter, queries, finalDrop, boardOthers>>

(* invalidateQueries: the query on the screen is fetched again at once; a  *)
(* first load that is under way is not restarted, nor a fetch of a query   *)
(* that is no longer on the screen, and both will count as fresh.          *)
Invalidate(data, sent) ==
  /\ boardStale' = boardStale \cup {k \in Filters : data[k] # NoData}
  /\ fetching' = [k \in Filters |-> IF k \in Active /\ (data[k] # NoData \/ sent[k] = "none")
                                 THEN "sent" ELSE sent[k]]
  /\ arriving' = [k \in Filters |-> IF fetching'[k] = "read" THEN arriving[k] ELSE NoData]
  /\ skipped' = skipped \cup {k \in Filters : fetching'[k] = "read"}

(* onError takes the snapshot back, onSettled invalidates; creating does   *)
(* so only in onSuccess.                                                   *)
Restored(m) == [k \in Filters |-> IF move[m].previous[k] # NoData THEN move[m].previous[k] ELSE cache[k]]
Settled(m, ok) ==
  LET data == IF ok THEN cache ELSE Restored(m) IN
  /\ cache' = data
  /\ IF move[m].kind # "create" \/ ok THEN Invalidate(data, fetching)
     ELSE /\ skipped' = IF move[m].state = "taken" THEN Filters ELSE skipped
          /\ UNCHANGED <<fetching, arriving, boardStale>>
  /\ move' = [move EXCEPT ![m] = Idle]

(* The dialog of the final columns closes when its mutation succeeds.      *)
MoveSucceeds(m) ==
  /\ move[m].state = "taken"
  /\ Settled(m, TRUE)
  /\ finalDrop' = IF move[m].kind = "status" THEN NoValue ELSE finalDrop
  /\ UNCHANGED <<board, role, boardServer, filter, moved, boardOthers>>
MoveFails(m) ==
  /\ move[m].state \in {"refused", "taken", "sent"}
  /\ Settled(m, FALSE)
  /\ UNCHANGED <<board, role, boardServer, filter, finalDrop, moved, boardOthers>>
-----------------------------------------------------------------------------
(* What the page shows in place of the board.                              *)
BoardScreen ==
  CASE cache[filter] = NoData -> "skeleton"
    [] cache[filter] # NoData /\ \A c \in QueueCards : cache[filter][c] = NoValue ->
         IF board = "tasks" /\ ~HasActiveFilters THEN "board"
         ELSE IF HasActiveFilters THEN "nothing found" ELSE "add the first"
    [] OTHER -> "board"
(* onReorder of the page.                                                  *)
Drop(card, to) ==
  /\ CanChangeStatus
  /\ finalDrop = NoValue
  /\ BoardScreen = "board"
  /\ cache[filter][card] \notin {NoValue, to}
  /\ IF IsFinal(to)
     THEN finalDrop' = <<card, to>> /\ UNCHANGED <<queries, move, moved>>
     ELSE OnMutate("reorder", card, to) /\ UNCHANGED finalDrop
  /\ UNCHANGED <<board, role, boardServer, filter, boardOthers>>

(* The dialog: nothing is sent without a comment or twice, and it does not *)
(* close while its mutation is under way.                                  *)
Pending == \E m \in UnderWay : move[m].kind = "status"
ConfirmMove ==
  /\ finalDrop # NoValue /\ ~Pending
  /\ OnMutate("status", finalDrop[1], finalDrop[2])
  /\ UNCHANGED <<board, role, boardServer, filter, finalDrop, boardOthers>>
CloseDialog ==
  /\ finalDrop # NoValue /\ ~Pending
  /\ finalDrop' = NoValue
  /\ UNCHANGED <<board, role, boardServer, filter, queries, move, moved, boardOthers>>

(* Fault: a list that is there is not fetched again.                        *)
LoadMissing(k) == cache[k] = NoData /\ fetching[k] = "none"
(* A chip changes the query key: another list is shown, and loaded if it   *)
(* is missing or stale.                                                    *)
Load(k) == (cache[k] = NoData \/ k \in boardStale) /\ fetching[k] = "none"
SetFilter(f) ==
  /\ f # filter /\ finalDrop = NoValue
  /\ filter' = f
  /\ fetching' = IF Load(f) THEN [fetching EXCEPT ![f] = "sent"] ELSE fetching
  /\ UNCHANGED <<board, role, boardServer, cache, arriving, boardStale, skipped, finalDrop, move,
                 moved, boardOthers>>

-----------------------------------------------------------------------------
(* The server. A final column takes no reorder.                            *)
Acceptable(m) == role = "editor" /\ (move[m].kind = "reorder" => move[m].to \notin Page.final)
ServerTakes(m) ==
  /\ move[m] # Idle /\ move[m].state = "sent" /\ Acceptable(m)
  /\ boardServer' = [boardServer EXCEPT ![move[m].card] = move[m].to]
  /\ move' = [move EXCEPT ![m].state = "taken"]
  /\ UNCHANGED <<board, role, filter, queries, finalDrop, moved, boardOthers>>
ServerRefuses(m) ==
  /\ move[m] # Idle /\ move[m].state = "sent" /\ ~Acceptable(m)
  /\ move' = [move EXCEPT ![m].state = "refused"]
  /\ UNCHANGED <<board, role, boardServer, filter, queries, finalDrop, moved, boardOthers>>
Reads(k) ==
  /\ fetching[k] = "sent"
  /\ fetching' = [fetching EXCEPT ![k] = "read"]
  /\ arriving' = [arriving EXCEPT ![k] = View(k)]
  /\ skipped' = skipped \ {k}
  /\ UNCHANGED <<board, role, boardServer, filter, cache, boardStale, finalDrop, move, moved,
                 boardOthers>>
Delivers(k) ==
  /\ fetching[k] = "read"
  /\ cache' = [cache EXCEPT ![k] = arriving[k]]
  /\ fetching' = [fetching EXCEPT ![k] = "none"]
  /\ arriving' = [arriving EXCEPT ![k] = NoData]
  /\ boardStale' = boardStale \ {k}
  /\ UNCHANGED <<board, role, boardServer, filter, skipped, finalDrop, move, moved, boardOthers>>

(* A colleague moves a card, and the event reaches the tab.                *)
OthersMove(c, to) ==
  /\ boardOthers < MaxForeign
  /\ boardOthers' = boardOthers + 1
  /\ boardServer[c] \notin {to, NoValue}
  /\ boardServer' = [boardServer EXCEPT ![c] = to]
  /\ Invalidate(cache, fetching)
  /\ UNCHANGED <<board, role, filter, cache, finalDrop, move, moved>>
-----------------------------------------------------------------------------
BoardInit ==
  /\ board \in Boards
  /\ role \in {"editor", "viewer"}
  /\ LET first == CHOOSE c \in QueueCards : TRUE
         start == CHOOSE s \in Stages \ Finals : TRUE
     IN  boardServer = [c \in QueueCards |-> IF c = first \/ ~Page.creates THEN start ELSE NoValue]
  /\ filter \in Filters
  /\ cache = [k \in Filters |-> NoData]
  /\ fetching = [k \in Filters |-> IF k = filter THEN "sent" ELSE "none"]
  /\ arriving = EmptyBoard
  /\ boardStale = {} /\ skipped = {}
  /\ finalDrop = NoValue
  /\ move = [m \in Moves |-> Idle]
  /\ moved = 0 /\ boardOthers = 0

Settles == \E m \in Moves : move[m] # Idle /\ (MoveSucceeds(m) \/ MoveFails(m))
Arrives == \E k \in Filters : Reads(k) \/ Delivers(k)
BoardNext ==
  \/ Settles \/ Arrives
  \/ \E m \in Moves : ServerTakes(m) \/ ServerRefuses(m)
  \/ \E c \in QueueCards, s \in Stages : OthersMove(c, s) \/ Drop(c, s) \/ CreateIn(c, s)
  \/ \E f \in Filters : SetFilter(f)
  \/ ConfirmMove \/ CloseDialog

BoardSpec == BoardInit /\ [][BoardNext]_cacheVars
-----------------------------------------------------------------------------
BoardTypeOK ==
  /\ board \in Boards
  /\ role \in {"editor", "viewer"}
  /\ boardServer \in [QueueCards -> Stages \cup {NoValue}]
  /\ filter \in Filters
  /\ boardStale \subseteq Loaded /\ skipped \subseteq Filters
  /\ finalDrop # NoValue => finalDrop[1] \in QueueCards /\ IsFinal(finalDrop[2])
  /\ moved \in 0..MaxMoves /\ boardOthers \in 0..MaxForeign
  /\ \A m \in UnderWay : move[m].state \in {"sent", "taken", "refused"}

(* When everything under way has come to an end, the list on the screen is *)
(* what the server has, and so is every list that is not marked stale:     *)
(* whatever failed, was taken back, overtaken or fetched in between. (Lost *)
(* are only an event that meets a fetch which is not restarted, and a card *)
(* that was created but whose answer never came.)                          *)
Quiet == UnderWay = {} /\ \A k \in Filters : fetching[k] = "none"
QuietBoardIsTrue ==
  Quiet => \A k \in Loaded : k \notin boardStale \cup skipped => cache[k] = View(k)

(* A lone move stays on the screen while it is under way, in every list    *)
(* that had been loaded: no fetch begun before it puts the card back.      *)
OwnMoveStays ==
  moved = 1 /\ boardOthers = 0 => \A m \in UnderWay, k \in Filters :
    move[m].previous[k] # NoData => cache[k][move[m].card] \in {move[m].to, NoValue}

(* No card is moved to a final column but by the dialog, with a comment.   *)
(* (The "+" of a final column creates a card there without one.)           *)
FinalAsksForComment == \A m \in UnderWay : IsFinal(move[m].to) => move[m].kind \in {"status", "create"}

(* A list that is missing or stale is fetched, again and again.            *)
ListIsFresh == cache[filter] # NoData /\ filter \notin boardStale
=============================================================================
