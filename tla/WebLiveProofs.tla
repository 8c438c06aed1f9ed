--------------------------- MODULE WebLiveProofs ---------------------------
(*****************************************************************************)
(* Theorems about the pages of the web client that talk to the server for    *)
(* as long as they are open, BoardCache, RolesPage, ChatPage and             *)
(* Documents, for any cards, rows, dialogs and documents; and about the      *)
(* behaviours of MCWebLive, in which these parts and those of                *)
(* WebSessionProofs are put together.                                        *)
(*****************************************************************************)
EXTENDS MCWebLive, WebSessionProofs

(* BoardCache                                                              *)
Columns == [QueueCards -> Stages \cup {NoValue}]
Lists == [Filters -> Columns \cup {NoData}]
MoveRecord == [state : {"sent", "taken", "refused"}, kind : {"reorder", "status", "create"},
               card : QueueCards, to : Stages, previous : Lists]

(* The types with the data of the queries and of the moves; creating takes *)
(* no snapshot.                                                            *)
BoardData ==
  /\ BoardTypeOK
  /\ cache \in Lists /\ arriving \in Lists
  /\ fetching \in [Filters -> {"none", "sent", "read"}]
  /\ finalDrop # NoValue => finalDrop[2] \in Stages
  /\ move \in [Moves -> MoveRecord \cup {Idle}]
  /\ \A m \in UnderWay : move[m].kind = "create" => move[m].previous = EmptyBoard

(* The tab has not been told yet that the server took a move.              *)
Untold == \E m \in UnderWay : move[m].state = "taken"
(* A list that is neither stale nor skipped is what the server has, unless *)
(* a move is shown or taken of which the end is still to come; and so is   *)
(* what a fetch is bringing.                                               *)
ListsAreTrue ==
  \A k \in Filters :
    /\ fetching[k] = "read" /\ k \notin skipped => arriving[k] = View(k) \/ Untold
    /\ k \in Loaded /\ k \notin boardStale \cup skipped /\ fetching[k] # "read" =>
         cache[k] = View(k) \/ Untold \/ \E m \in UnderWay : move[m].kind # "create"

(* The first move is alone, and no list it changed is fetched under it.    *)
FirstMoveIsAlone ==
  /\ moved = 0 => UnderWay = {}
  /\ moved = 1 => \A m, n \in UnderWay : m = n
  /\ moved = 1 /\ boardOthers = 0 => \A m \in UnderWay, k \in Filters :
       move[m].previous[k] # NoData =>
         /\ k \in Loaded /\ k \notin boardStale /\ fetching[k] = "none"
         /\ cache[k][move[m].card] \in {move[m].to, NoValue}

BoardInv == BoardData /\ FinalAsksForComment /\ ListsAreTrue /\ FirstMoveIsAlone

-----------------------------------------------------------------------------
LEMMA SameBoard ==
  ASSUME board' = board
  PROVE  /\ Filters' = Filters /\ Page' = Page /\ Lists' = Lists /\ MoveRecord' = MoveRecord
         /\ EmptyBoard' = EmptyBoard
         /\ \A c : IsFinal(c)' = IsFinal(c)
<1>1. Filters' = Filters /\ Page' = Page
  BY DEF Filters, Chips, Page
<1> QED
  BY <1>1 DEF Lists, MoveRecord, EmptyBoard, IsFinal

LEMMA SentIsNotIdle == \A x \in MoveRecord : x # Idle /\ x.state # "idle"
BY DEF MoveRecord, Idle

LEMMA FreeMoveIsFree ==
  ASSUME UnderWay # Moves
  PROVE  FreeMove \in Moves /\ move[FreeMove] = Idle
BY DEF UnderWay, FreeMove

(* What is written into a list leaves it one, and loads none.              *)
LEMMA ShownLists ==
  ASSUME BoardAssumption, NEW lists \in Lists, NEW card \in QueueCards, NEW to \in Stages
  PROVE  /\ Shown(lists, card, to) \in Lists
         /\ \A k \in Filters : /\ Shown(lists, card, to)[k] = NoData <=> lists[k] = NoData
                               /\ lists[k] # NoData => Shown(lists, card, to)[k][card] \in {to, NoValue}
<1>1. ASSUME NEW k \in Filters, lists[k] # NoData
      PROVE  /\ Shown(lists, card, to)[k] \in Columns
             /\ Shown(lists, card, to)[k][card] \in {to, NoValue}
  <2>1. lists[k] \in Columns
    BY <1>1 DEF Lists
  <2> QED
    BY <1>1, <2>1 DEF Shown, Columns
<1>2. ASSUME NEW k \in Filters, lists[k] = NoData
      PROVE  Shown(lists, card, to)[k] = NoData
  BY <1>2 DEF Shown
<1>3. \A k \in Filters : Shown(lists, card, to)[k] \in Columns \cup {NoData}
  BY <1>1, <1>2
<1>4. Shown(lists, card, to) \in Lists
  BY <1>3 DEF Shown, Lists
<1>5. NoData \notin Columns
  BY DEF BoardAssumption, Columns
<1> QED
  BY <1>1, <1>2, <1>4, <1>5

LEMMA ListIsColumns ==
  ASSUME BoardData, NEW k \in Filters
  PROVE  View(k) \in Columns
BY DEF BoardData, BoardTypeOK, View, List, Columns

(* After an invalidation every list that is there is stale, and what a     *)
(* fetch has read before counts for nothing.                               *)
LEMMA Invalidated ==
  ASSUME BoardData, NEW lists \in Lists, Invalidate(lists, fetching), board' = board
  PROVE  /\ boardStale' = boardStale \cup {k \in Filters : lists[k] # NoData}
         /\ fetching' \in [Filters -> {"none", "sent", "read"}]
         /\ arriving' \in Lists
         /\ skipped' \subseteq Filters
         /\ \A k \in Filters : fetching'[k] = "read" => k \in skipped'
<1> USE DEF BoardData, BoardTypeOK, Invalidate
<1>1. fetching' \in [Filters -> {"none", "sent", "read"}]
  OBVIOUS
<1>2. arriving' \in Lists
  <2>1. arriving' = [k \in Filters |-> IF fetching'[k] = "read" THEN arriving[k] ELSE NoData]
    OBVIOUS
  <2>2. \A k \in Filters : arriving[k] \in Columns \cup {NoData}
    BY DEF Lists
  <2> QED
    BY <2>1, <2>2 DEF Lists
<1> QED
  BY <1>1, <1>2

(* The list of a settled mutation, and the snapshot it took back.          *)
LEMMA RestoredLists ==
  ASSUME BoardData, NEW m \in UnderWay
  PROVE  /\ move[m] \in MoveRecord
         /\ Restored(m) \in Lists
         /\ \A k \in Filters : Restored(m)[k] = NoData => cache[k] = NoData
         /\ move[m].kind = "create" => Restored(m) = cache
<1> USE DEF BoardData
<1>1. m \in Moves /\ move[m] # Idle /\ move[m] \in MoveRecord
  BY DEF UnderWay
<1>2. move[m].previous \in Lists
  BY <1>1 DEF MoveRecord
<1>3. \A k \in Filters : Restored(m)[k] \in Columns \cup {NoData}
  BY <1>2 DEF Restored, Lists
<1>4. Restored(m) \in Lists
  BY <1>3 DEF Restored, Lists
<1>5. \A k \in Filters : Restored(m)[k] = NoData => cache[k] = NoData
  BY DEF Restored
<1>6. ASSUME move[m].kind = "create" PROVE Restored(m) = cache
  <2>1. move[m].previous = EmptyBoard
    BY <1>6
  <2>2. \A k \in Filters : Restored(m)[k] = cache[k]
    BY <2>1 DEF Restored, EmptyBoard
  <2> QED
    BY <2>2 DEF Restored, Lists
<1> QED
  BY <1>1, <1>4, <1>5, <1>6

(* What every mutation that shows itself at once does.                     *)
LEMMA Mutated ==
  ASSUME BoardAssumption, BoardData, NEW kind \in {"reorder", "status"}, NEW card \in QueueCards, NEW to \in Stages,
         OnMutate(kind, card, to), board' = board
  PROVE  /\ FreeMove \in Moves /\ move[FreeMove] = Idle
         /\ move' = [move EXCEPT ![FreeMove] = Move(kind, card, to)]
         /\ move'[FreeMove].kind = kind /\ move'[FreeMove].card = card /\ move'[FreeMove].to = to
         /\ move'[FreeMove].previous = cache /\ move'[FreeMove].state = "sent"
         /\ move' \in [Moves -> MoveRecord \cup {Idle}]
         /\ \A n \in UnderWay : n # FreeMove /\ move'[n] = move[n]
         /\ UnderWay' = UnderWay \cup {FreeMove}
         /\ moved' = moved + 1 /\ moved' \in 0..MaxMoves
         /\ fetching' = Cancelled /\ arriving' = EmptyBoard /\ boardStale' = {} /\ skipped' = skipped
         /\ cache' = Shown(cache, card, to)
<1> USE DEF BoardData, BoardTypeOK
<1>1. FreeMove \in Moves /\ move[FreeMove] = Idle
  BY FreeMoveIsFree DEF OnMutate
<1>2. Move(kind, card, to) \in MoveRecord
  BY DEF Move, MoveRecord
<1>3. move' = [move EXCEPT ![FreeMove] = Move(kind, card, to)]
  BY DEF OnMutate
<1>4. UnderWay' = UnderWay \cup {FreeMove}
  BY <1>1, <1>2, <1>3, SentIsNotIdle DEF UnderWay, Idle
<1>5. moved' = moved + 1 /\ moved' \in 0..MaxMoves
  BY DEF OnMutate, BoardAssumption
<1>6. move'[FreeMove] = Move(kind, card, to) /\ \A n \in UnderWay : n # FreeMove /\ move'[n] = move[n]
  BY <1>1, <1>3 DEF UnderWay
<1>7. move' \in [Moves -> MoveRecord \cup {Idle}]
  BY <1>1, <1>2, <1>3
<1>8. /\ Move(kind, card, to).kind = kind /\ Move(kind, card, to).card = card
      /\ Move(kind, card, to).to = to /\ Move(kind, card, to).previous = cache
      /\ Move(kind, card, to).state = "sent"
  BY DEF Move
<1> QED
  BY <1>1, <1>2, <1>3, <1>4, <1>5, <1>6, <1>7, <1>8 DEF OnMutate

-----------------------------------------------------------------------------
(* How the moves change: one ends, is answered by the server, or begins.   *)
LEMMA MoveEnds ==
  ASSUME BoardData, NEW m \in UnderWay, MoveSucceeds(m) \/ MoveFails(m)
  PROVE  /\ move' = [move EXCEPT ![m] = Idle] /\ UnderWay' = UnderWay \ {m}
         /\ cache' \in {cache, Restored(m)} /\ moved' = moved
         /\ boardServer' = boardServer /\ boardOthers' = boardOthers
         /\ \/ /\ Invalidate(cache', fetching)
               /\ \A k \in Filters : cache'[k] = NoData => cache[k] = NoData
            \/ /\ UNCHANGED <<fetching, arriving, boardStale, cache>>
               /\ move[m].kind = "create"
               /\ skipped' = IF move[m].state = "taken" THEN Filters ELSE skipped
<1>1. move' = [move EXCEPT ![m] = Idle]
  BY DEF MoveSucceeds, MoveFails, Settled
<1>2. UnderWay' = UnderWay \ {m}
  BY <1>1 DEF UnderWay, BoardData
<1>3. PICK ok \in BOOLEAN : Settled(m, ok)
  BY DEF MoveSucceeds, MoveFails
<1>4. cache' = IF ok THEN cache ELSE Restored(m)
  BY <1>3 DEF Settled
<1>5. CASE move[m].kind # "create" \/ ok
  BY <1>1, <1>2, <1>3, <1>4, <1>5, RestoredLists DEF Settled, MoveSucceeds, MoveFails
<1>6. CASE ~(move[m].kind # "create" \/ ok)
  BY <1>1, <1>2, <1>3, <1>4, <1>6, RestoredLists DEF Settled, MoveSucceeds, MoveFails
<1> QED
  BY <1>5, <1>6

LEMMA MoveAnswered ==
  ASSUME BoardData, NEW m \in Moves, ServerTakes(m) \/ ServerRefuses(m)
  PROVE  /\ m \in UnderWay /\ UnderWay' = UnderWay
         /\ \A n \in Moves \ {m} : move'[n] = move[n]
         /\ move[m].state = "sent" /\ move'[m].state \in {"taken", "refused"}
         /\ ServerTakes(m) => move'[m].state = "taken"
         /\ move'[m].kind = move[m].kind /\ move'[m].card = move[m].card /\ move'[m].to = move[m].to
         /\ move'[m].previous = move[m].previous
         /\ move' \in [Moves -> MoveRecord \cup {Idle}]
<1>1. PICK answer \in {"taken", "refused"} : /\ move' = [move EXCEPT ![m].state = answer]
                                             /\ ServerTakes(m) => answer = "taken"
  BY DEF ServerTakes, ServerRefuses
<1>2. move[m] # Idle /\ move[m] \in MoveRecord /\ move[m].state = "sent"
  BY DEF ServerTakes, ServerRefuses, BoardData
<1>3. [move[m] EXCEPT !.state = answer] \in MoveRecord
  BY <1>2 DEF MoveRecord
<1>4. move'[m] = [move[m] EXCEPT !.state = answer] /\ \A n \in Moves \ {m} : move'[n] = move[n]
  BY <1>1 DEF BoardData
<1>5. UnderWay' = UnderWay /\ m \in UnderWay
  BY <1>2, <1>3, <1>4, SentIsNotIdle DEF UnderWay
<1>6. move' \in [Moves -> MoveRecord \cup {Idle}]
  BY <1>1, <1>3 DEF BoardData
<1> QED
  BY <1>1, <1>2, <1>4, <1>5, <1>6 DEF MoveRecord

LEMMA MoveCreates ==
  ASSUME BoardAssumption, BoardData, NEW c \in QueueCards, NEW s \in Stages, CreateIn(c, s)
  PROVE  /\ FreeMove \in Moves /\ move[FreeMove] = Idle
         /\ move' = [move EXCEPT ![FreeMove] = [Move("create", c, s) EXCEPT !.previous = EmptyBoard]]
         /\ move'[FreeMove].kind = "create" /\ move'[FreeMove].previous = EmptyBoard
         /\ move'[FreeMove].state = "sent"
         /\ move' \in [Moves -> MoveRecord \cup {Idle}]
         /\ \A n \in UnderWay : n # FreeMove /\ move'[n] = move[n]
         /\ UnderWay' = UnderWay \cup {FreeMove}
         /\ moved' = moved + 1 /\ moved' \in 0..MaxMoves
<1>1. FreeMove \in Moves /\ move[FreeMove] = Idle
  BY FreeMoveIsFree DEF CreateIn
<1>2. EmptyBoard \in Lists
  BY DEF EmptyBoard, Lists
<1>3. [Move("create", c, s) EXCEPT !.previous = EmptyBoard] \in MoveRecord
  BY <1>2 DEF Move, MoveRecord
<1>4. move' = [move EXCEPT ![FreeMove] = [Move("create", c, s) EXCEPT !.previous = EmptyBoard]]
  BY DEF CreateIn
<1>5. UnderWay' = UnderWay \cup {FreeMove}
  BY <1>1, <1>3, <1>4, SentIsNotIdle DEF UnderWay, BoardData
<1>6. moved' = moved + 1 /\ moved' \in 0..MaxMoves
  BY DEF CreateIn, BoardAssumption, BoardData, BoardTypeOK
<1>7. /\ move'[FreeMove] = [Move("create", c, s) EXCEPT !.previous = EmptyBoard]
      /\ \A n \in UnderWay : n # FreeMove /\ move'[n] = move[n]
  BY <1>1, <1>4 DEF UnderWay, BoardData
<1>8. move' \in [Moves -> MoveRecord \cup {Idle}]
  BY <1>1, <1>3, <1>4 DEF BoardData
<1>9. /\ [Move("create", c, s) EXCEPT !.previous = EmptyBoard].kind = "create"
      /\ [Move("create", c, s) EXCEPT !.previous = EmptyBoard].previous = EmptyBoard
      /\ [Move("create", c, s) EXCEPT !.previous = EmptyBoard].state = "sent"
  BY DEF Move
<1> QED
  BY <1>1, <1>4, <1>5, <1>6, <1>7, <1>8, <1>9

-----------------------------------------------------------------------------
LEMMA BoardDataStep ==
  ASSUME BoardAssumption, BoardData, BoardNext
  PROVE  BoardData' /\ board' = board
<1>1. board' = board
  BY DEF BoardNext, Settles, Arrives, MoveSucceeds, MoveFails, Reads, Delivers, ServerTakes, ServerRefuses,
         OthersMove, Drop, CreateIn, SetFilter, ConfirmMove, CloseDialog
<1> SUFFICES BoardData'
  BY <1>1
<1> USE SameBoard, <1>1
<1> DEFINE BoardTypes == /\ cache \in Lists /\ arriving \in Lists
                    /\ fetching \in [Filters -> {"none", "sent", "read"}]
                    /\ boardStale \subseteq Loaded /\ skipped \subseteq Filters
           UnderMove == /\ move \in [Moves -> MoveRecord \cup {Idle}]
                     /\ \A m \in UnderWay : move[m].kind = "create" => move[m].previous = EmptyBoard
           Drawn == /\ finalDrop # NoValue => finalDrop[1] \in QueueCards /\ IsFinal(finalDrop[2]) /\ finalDrop[2] \in Stages
                    /\ filter \in Filters
           Stored == /\ boardServer \in [QueueCards -> Stages \cup {NoValue}]
                     /\ moved \in 0..MaxMoves /\ boardOthers \in 0..MaxForeign
<1>2. BoardTypes /\ UnderMove /\ Drawn /\ Stored
  BY DEF BoardData, BoardTypeOK
<1>3. ASSUME BoardTypes', UnderMove', Drawn', Stored', role' = role PROVE BoardData'
  BY <1>3, SentIsNotIdle DEF BoardData, BoardTypeOK, UnderWay, MoveRecord
<1>4. role' = role
  BY DEF BoardNext, Settles, Arrives, MoveSucceeds, MoveFails, Reads, Delivers, ServerTakes, ServerRefuses,
         OthersMove, Drop, CreateIn, SetFilter, ConfirmMove, CloseDialog
<1>5. \A x \in Columns : x # NoData
  BY DEF BoardAssumption, Columns
<1>6. /\ EmptyBoard \in Lists /\ Cancelled \in [Filters -> {"none", "sent", "read"}]
      /\ \A k \in Filters : View(k) \in Columns
  BY ListIsColumns DEF EmptyBoard, Lists, Cancelled
<1>11. ASSUME NEW m \in UnderWay, MoveSucceeds(m) \/ MoveFails(m) PROVE BoardData'
  <2>1. UnderMove'
    BY <1>2, <1>11, MoveEnds DEF UnderWay
  <2>2. Drawn' /\ Stored'
    BY <1>2, <1>11, MoveEnds DEF MoveSucceeds, MoveFails
  <2>3. cache' \in Lists
    BY <1>2, <1>11, MoveEnds, RestoredLists
  <2>4. CASE /\ Invalidate(cache', fetching)
             /\ \A k \in Filters : cache'[k] = NoData => cache[k] = NoData
    BY <1>2, <1>3, <1>4, <2>1, <2>2, <2>3, <2>4, Invalidated DEF Loaded
  <2>5. CASE /\ UNCHANGED <<fetching, arriving, boardStale, cache>>
             /\ skipped' = IF move[m].state = "taken" THEN Filters ELSE skipped
    BY <1>2, <1>3, <1>4, <2>1, <2>2, <2>3, <2>5 DEF Loaded
  <2> QED
    BY <1>3, <1>4, <1>11, <2>1, <2>2, <2>4, <2>5, MoveEnds
<1>12. ASSUME NEW k \in Filters, Reads(k) PROVE BoardData'
  <2>1. UnderMove' /\ Drawn' /\ Stored'
    BY <1>2, <1>12 DEF Reads, UnderWay
  <2>2. BoardTypes'
    BY <1>2, <1>6, <1>12 DEF Reads, Lists, Loaded
  <2> QED
    BY <1>3, <1>4, <2>1, <2>2
<1>13. ASSUME NEW k \in Filters, Delivers(k) PROVE BoardData'
  <2>1. UnderMove' /\ Drawn' /\ Stored'
    BY <1>2, <1>13 DEF Delivers, UnderWay
  <2>2. BoardTypes'
    BY <1>2, <1>6, <1>13 DEF Delivers, Lists, Loaded
  <2> QED
    BY <1>3, <1>4, <2>1, <2>2
<1>14. ASSUME NEW m \in Moves, ServerTakes(m) \/ ServerRefuses(m) PROVE BoardData'
  <2>1. UnderMove'
    BY <1>2, <1>14, MoveAnswered DEF UnderWay
  <2>2. move[m] \in MoveRecord
    BY <1>2, <1>14 DEF ServerTakes, ServerRefuses
  <2>3. BoardTypes' /\ Drawn'
    BY <1>2, <1>14 DEF ServerTakes, ServerRefuses, queries, Loaded
  <2>4. Stored'
    BY <1>2, <1>14, <2>2 DEF ServerTakes, ServerRefuses, MoveRecord
  <2> QED
    BY <1>3, <1>4, <2>1, <2>3, <2>4
<1>15. ASSUME NEW c \in QueueCards, NEW s \in Stages, OthersMove(c, s) PROVE BoardData'
  <2>1. UnderMove' /\ Drawn' /\ Stored'
    BY <1>2, <1>15 DEF OthersMove, UnderWay, BoardAssumption
  <2>2. Invalidate(cache, fetching) /\ cache' = cache
    BY <1>15 DEF OthersMove
  <2>3. BoardTypes'
    BY <1>2, <2>2, Invalidated DEF Loaded
  <2> QED
    BY <1>3, <1>4, <2>1, <2>3
<1>16. ASSUME NEW kind \in {"reorder", "status"}, NEW card \in QueueCards, NEW to \in Stages,
              OnMutate(kind, card, to), boardServer' = boardServer, filter' = filter, boardOthers' = boardOthers,
              finalDrop' = finalDrop
       PROVE  BoardData'
  <2>1. UnderMove'
    BY <1>2, <1>16, Mutated
  <2>2. Drawn' /\ Stored'
    BY <1>2, <1>16, Mutated
  <2>3. BoardTypes'
    BY SMTT(60), <1>2, <1>6, <1>16, Mutated, ShownLists
  <2> QED
    BY <1>3, <1>4, <2>1, <2>2, <2>3
<1>17. ASSUME NEW c \in QueueCards, NEW s \in Stages, CreateIn(c, s) PROVE BoardData'
  <2>1. UnderMove'
    BY <1>2, <1>17, MoveCreates
  <2>2. Drawn' /\ Stored' /\ BoardTypes'
    BY <1>2, <1>17, MoveCreates DEF CreateIn, queries, Loaded
  <2> QED
    BY <1>3, <1>4, <2>1, <2>2
<1>18. ASSUME NEW f \in Filters, SetFilter(f) PROVE BoardData'
  BY <1>2, <1>3, <1>4, <1>18 DEF SetFilter, UnderWay, Loaded
<1>19. ASSUME CloseDialog PROVE BoardData'
  BY <1>2, <1>3, <1>4, <1>19 DEF CloseDialog, UnderWay, Loaded, queries
<1>20. ASSUME NEW c \in QueueCards, NEW s \in Stages, Drop(c, s) PROVE BoardData'
  <2>1. CASE IsFinal(s)
    BY <1>2, <1>3, <1>4, <1>20, <2>1 DEF Drop, UnderWay, Loaded, queries
  <2>2. CASE ~IsFinal(s)
    BY <1>16, <1>20, <2>2 DEF Drop
  <2> QED
    BY <2>1, <2>2
<1>21. ASSUME ConfirmMove PROVE BoardData'
  BY <1>2, <1>16, <1>21 DEF ConfirmMove
<1> QED
  BY <1>11, <1>12, <1>13, <1>14, <1>15, <1>17, <1>18, <1>19, <1>20, <1>21 DEF BoardNext, Settles, Arrives, UnderWay

LEMMA FinalAsksStep ==
  ASSUME BoardAssumption, BoardData, BoardNext, FinalAsksForComment
  PROVE  FinalAsksForComment'
<1> USE SameBoard, BoardDataStep DEF FinalAsksForComment
<1>1. ASSUME NEW m \in UnderWay, MoveSucceeds(m) \/ MoveFails(m) PROVE FinalAsksForComment'
  BY <1>1, MoveEnds DEF BoardData, UnderWay
<1>2. ASSUME NEW m \in Moves, ServerTakes(m) \/ ServerRefuses(m) PROVE FinalAsksForComment'
  BY <1>2, MoveAnswered DEF UnderWay
<1>3. ASSUME NEW c \in QueueCards, NEW s \in Stages, Drop(c, s) PROVE FinalAsksForComment'
  <2>1. CASE IsFinal(s)
    BY <1>3, <2>1 DEF Drop, UnderWay
  <2>2. CASE ~IsFinal(s)
    BY <1>3, <2>2, Mutated DEF Drop, BoardData
  <2> QED
    BY <2>1, <2>2
<1>4. ASSUME ConfirmMove PROVE FinalAsksForComment'
  BY <1>4, Mutated DEF ConfirmMove, BoardData, BoardTypeOK
<1>5. ASSUME NEW c \in QueueCards, NEW s \in Stages, CreateIn(c, s) PROVE FinalAsksForComment'
  BY <1>5, MoveCreates DEF BoardData
<1>6. ASSUME UNCHANGED move PROVE FinalAsksForComment'
  BY <1>6 DEF UnderWay
<1> QED
  BY <1>1, <1>2, <1>3, <1>4, <1>5, <1>6 DEF BoardNext, Settles, Arrives, UnderWay, Reads, Delivers, OthersMove,
     SetFilter, CloseDialog

LEMMA ListsTrueStep ==
  ASSUME BoardAssumption, BoardData, BoardNext, ListsAreTrue
  PROVE  ListsAreTrue'
<1> USE SameBoard, BoardDataStep
<1> DEFINE Fetched(k) == fetching[k] = "read" /\ k \notin skipped => arriving[k] = View(k) \/ Untold
           FreshList(k) == cache[k] # NoData /\ k \notin boardStale \cup skipped /\ fetching[k] # "read"
           Mutating == \E m \in UnderWay : move[m].kind # "create"
           True(k) == FreshList(k) => cache[k] = View(k) \/ Untold \/ Mutating
<1>1. \A k \in Filters : Fetched(k) /\ True(k)
  BY DEF ListsAreTrue, Loaded
<1>2. ASSUME \A k \in Filters : Fetched(k)' /\ True(k)' PROVE ListsAreTrue'
  BY <1>2 DEF ListsAreTrue, Loaded
<1>3. boardServer' = boardServer => \A k \in Filters : View(k)' = View(k)
  BY DEF View, List
<1>4. UnderWay' = UnderWay /\ move' = move => (Untold' <=> Untold) /\ (Mutating' <=> Mutating)
  BY DEF Untold
<1>5. UnderWay \subseteq Moves /\ \A m \in UnderWay : move[m] \in MoveRecord
  BY DEF UnderWay, BoardData
(* Nothing read before an invalidation counts, and no list is fresh.       *)
<1>6. ASSUME Invalidate(cache', fetching), cache' \in Lists PROVE ListsAreTrue'
  <2>1. \A k \in Filters : /\ fetching'[k] = "read" => k \in skipped'
                           /\ cache'[k] # NoData => k \in boardStale'
    BY <1>6, Invalidated
  <2> QED
    BY <1>2, <2>1
<1>11. ASSUME NEW m \in UnderWay, MoveSucceeds(m) \/ MoveFails(m) PROVE ListsAreTrue'
  <2>1. cache' \in Lists
    BY DEF BoardData
  <2>2. CASE /\ UNCHANGED <<fetching, arriving, boardStale, cache>>
             /\ move[m].kind = "create"
             /\ skipped' = IF move[m].state = "taken" THEN Filters ELSE skipped
    <3>1. CASE move[m].state = "taken"
      BY <1>2, <2>2, <3>1
    <3>2. CASE move[m].state # "taken"
      <4>1. UnderWay' = UnderWay \ {m} /\ move' = [move EXCEPT ![m] = Idle] /\ boardServer' = boardServer
        BY <1>11, MoveEnds
      <4>2. \A n \in UnderWay' : move'[n] = move[n]
        BY <1>5, <4>1 DEF BoardData
      <4>3. Untold => Untold'
        BY <3>2, <4>1, <4>2 DEF Untold
      <4>4. Mutating => Mutating'
        BY <2>2, <4>1, <4>2
      <4> QED
        BY <1>1, <1>2, <1>3, <2>2, <3>2, <4>1, <4>3, <4>4
    <3> QED
      BY <3>1, <3>2
  <2> QED
    BY <1>6, <1>11, <2>1, <2>2, MoveEnds
<1>12. ASSUME NEW k \in Filters, Reads(k) PROVE ListsAreTrue'
  <2>1. /\ UNCHANGED <<boardServer, cache, boardStale, move, board>> /\ skipped' = skipped \ {k}
        /\ fetching' = [fetching EXCEPT ![k] = "read"] /\ arriving' = [arriving EXCEPT ![k] = View(k)]
    BY <1>12 DEF Reads
  <2>2. UnderWay' = UnderWay
    BY <2>1 DEF UnderWay
  <2>3. \A j \in Filters : IF j = k THEN fetching'[j] = "read" /\ arriving'[j] = View(j)
                           ELSE /\ fetching'[j] = fetching[j] /\ arriving'[j] = arriving[j]
                                /\ j \in skipped' <=> j \in skipped
    BY <2>1 DEF BoardData, Lists
  <2> QED
    BY <1>1, <1>2, <1>3, <1>4, <2>1, <2>2, <2>3
<1>13. ASSUME NEW k \in Filters, Delivers(k) PROVE ListsAreTrue'
  <2>1. /\ UNCHANGED <<boardServer, skipped, move, board>> /\ boardStale' = boardStale \ {k}
        /\ cache' = [cache EXCEPT ![k] = arriving[k]]
        /\ fetching' = [fetching EXCEPT ![k] = "none"] /\ arriving' = [arriving EXCEPT ![k] = NoData]
        /\ fetching[k] = "read"
    BY <1>13 DEF Delivers
  <2>2. UnderWay' = UnderWay
    BY <2>1 DEF UnderWay
  <2>3. \A j \in Filters : IF j = k THEN fetching'[j] = "none" /\ cache'[j] = arriving[j]
                           ELSE /\ fetching'[j] = fetching[j] /\ arriving'[j] = arriving[j]
                                /\ cache'[j] = cache[j] /\ (j \in boardStale' <=> j \in boardStale)
    BY <2>1 DEF BoardData, Lists
  <2> QED
    BY <1>1, <1>2, <1>3, <1>4, <2>1, <2>2, <2>3
<1>14. ASSUME NEW m \in Moves, ServerTakes(m) PROVE ListsAreTrue'
  <2>1. Untold'
    BY <1>14, MoveAnswered DEF Untold
  <2> QED
    BY <1>2, <2>1
<1>15. ASSUME NEW m \in Moves, ServerRefuses(m) PROVE ListsAreTrue'
  <2>1. /\ UnderWay' = UnderWay /\ move[m].state = "sent" /\ move'[m].kind = move[m].kind
        /\ \A n \in Moves \ {m} : move'[n] = move[n]
    BY <1>15, MoveAnswered
  <2>2. (Untold => Untold') /\ (Mutating => Mutating')
    BY <1>5, <2>1 DEF Untold
  <2>3. UNCHANGED <<boardServer, cache, fetching, arriving, boardStale, skipped>>
    BY <1>15 DEF ServerRefuses, queries
  <2> QED
    BY <1>1, <1>2, <1>3, <2>2, <2>3
<1>16. ASSUME NEW c \in QueueCards, NEW s \in Stages, OthersMove(c, s) PROVE ListsAreTrue'
  BY <1>6, <1>16 DEF OthersMove, BoardData
<1>17. ASSUME NEW kind \in {"reorder", "status"}, NEW card \in QueueCards, NEW to \in Stages,
              OnMutate(kind, card, to)
       PROVE  ListsAreTrue'
  <2>1. Mutating' /\ \A k \in Filters : fetching'[k] = "none"
    BY <1>17, Mutated DEF Cancelled
  <2> QED
    BY <1>2, <2>1
<1>18. ASSUME NEW c \in QueueCards, NEW s \in Stages, CreateIn(c, s) PROVE ListsAreTrue'
  <2>1. (Untold => Untold') /\ (Mutating => Mutating')
    BY <1>18, MoveCreates DEF Untold
  <2>2. UNCHANGED <<boardServer, cache, fetching, arriving, boardStale, skipped>>
    BY <1>18 DEF CreateIn, queries
  <2> QED
    BY <1>1, <1>2, <1>3, <2>1, <2>2
<1>19. ASSUME UNCHANGED <<boardServer, cache, arriving, boardStale, skipped, move>>,
              \A k \in Filters : fetching'[k] = "read" <=> fetching[k] = "read"
       PROVE  ListsAreTrue'
  BY <1>1, <1>2, <1>3, <1>4, <1>19 DEF UnderWay
<1>20. ASSUME NEW f \in Filters, SetFilter(f) PROVE ListsAreTrue'
  <2>1. UNCHANGED <<boardServer, cache, arriving, boardStale, skipped, move>>
    BY <1>20 DEF SetFilter
  <2>2. \A k \in Filters : fetching'[k] = "read" <=> fetching[k] = "read"
    BY <1>20 DEF SetFilter, Load, BoardData
  <2> QED
    BY <1>19, <2>1, <2>2
<1>21. ASSUME NEW c \in QueueCards, NEW s \in Stages, Drop(c, s) PROVE ListsAreTrue'
  BY <1>17, <1>19, <1>21 DEF Drop, queries
<1> QED
  BY <1>11, <1>12, <1>13, <1>14, <1>15, <1>16, <1>17, <1>18, <1>19, <1>20, <1>21
     DEF BoardNext, Settles, Arrives, UnderWay, ConfirmMove, CloseDialog, queries, BoardData, BoardTypeOK

LEMMA FirstMoveStep ==
  ASSUME BoardAssumption, BoardData, BoardNext, FirstMoveIsAlone
  PROVE  FirstMoveIsAlone'
<1> USE SameBoard, BoardDataStep
<1>0. /\ UnderWay \subseteq Moves /\ \A m \in UnderWay : move[m] \in MoveRecord
      /\ moved \in Nat /\ boardOthers \in Nat
  BY DEF UnderWay, BoardData, BoardTypeOK, BoardAssumption
(* A step that begins no move and fetches nothing that is there and fresh. *)
<1>1. ASSUME moved' = moved, UnderWay' \subseteq UnderWay,
             \A m \in UnderWay' : /\ move'[m].previous = move[m].previous
                                  /\ move'[m].card = move[m].card /\ move'[m].to = move[m].to,
             moved = 1 /\ boardOthers' = 0 /\ UnderWay' # {} =>
               /\ boardOthers = 0
               /\ \A k \in Filters : k \in Loaded /\ k \notin boardStale /\ fetching[k] = "none" =>
                    cache'[k] = cache[k] /\ k \notin boardStale' /\ fetching'[k] = "none"
      PROVE  FirstMoveIsAlone'
  <2>1. moved' = 0 => UnderWay' = {}
    BY <1>1 DEF FirstMoveIsAlone
  <2>2. moved' = 1 => \A m, n \in UnderWay' : m = n
    BY <1>1 DEF FirstMoveIsAlone
  <2>3. ASSUME moved' = 1, boardOthers' = 0, NEW m \in UnderWay', NEW k \in Filters, move'[m].previous[k] # NoData
        PROVE  /\ k \in Loaded' /\ k \notin boardStale' /\ fetching'[k] = "none"
               /\ cache'[k][move'[m].card] \in {move'[m].to, NoValue}
    <3>1. /\ k \in Loaded /\ k \notin boardStale /\ fetching[k] = "none"
          /\ cache[k][move[m].card] \in {move[m].to, NoValue}
      BY <1>1, <2>3 DEF FirstMoveIsAlone
    <3> QED
      BY <1>1, <2>3, <3>1 DEF Loaded
  <2> QED
    BY <2>1, <2>2, <2>3 DEF FirstMoveIsAlone
<1>11. ASSUME NEW m \in UnderWay, MoveSucceeds(m) \/ MoveFails(m) PROVE FirstMoveIsAlone'
  <2>1. /\ UnderWay' = UnderWay \ {m} /\ moved' = moved /\ \A n \in UnderWay' : move'[n] = move[n]
    BY <1>0, <1>11, MoveEnds DEF BoardData
  <2>2. moved = 1 => UnderWay' = {}
    BY <2>1 DEF FirstMoveIsAlone
  <2> QED
    BY <1>1, <2>1, <2>2
<1>12. ASSUME NEW k \in Filters, Reads(k) PROVE FirstMoveIsAlone'
  BY <1>1, <1>12 DEF Reads, UnderWay, BoardData
<1>13. ASSUME NEW k \in Filters, Delivers(k) PROVE FirstMoveIsAlone'
  BY <1>1, <1>13 DEF Delivers, UnderWay, BoardData, Lists
<1>14. ASSUME NEW m \in Moves, ServerTakes(m) \/ ServerRefuses(m) PROVE FirstMoveIsAlone'
  <2>1. UNCHANGED <<cache, fetching, boardStale, moved, boardOthers>>
    BY <1>14 DEF ServerTakes, ServerRefuses, queries
  <2> QED
    BY <1>0, <1>1, <1>14, <2>1, MoveAnswered
<1>15. ASSUME NEW c \in QueueCards, NEW s \in Stages, OthersMove(c, s) PROVE FirstMoveIsAlone'
  <2>1. boardOthers' # 0 /\ moved' = moved /\ move' = move /\ UnderWay' = UnderWay
    BY <1>0, <1>15 DEF OthersMove, UnderWay
  <2> QED
    BY <1>1, <2>1
<1>16. ASSUME NEW kind \in {"reorder", "status"}, NEW card \in QueueCards, NEW to \in Stages,
              OnMutate(kind, card, to)
       PROVE  FirstMoveIsAlone'
  <2>1. moved' = moved + 1 /\ UnderWay' = UnderWay \cup {FreeMove}
    BY <1>16, Mutated
  <2>2. moved' = 1 => UnderWay = {}
    BY <1>0, <2>1 DEF FirstMoveIsAlone
  <2>3. \A k \in Filters : cache[k] # NoData =>
          /\ cache'[k] # NoData /\ cache'[k][card] \in {to, NoValue}
          /\ fetching'[k] = "none" /\ k \notin boardStale'
    <3>1. cache \in Lists /\ cache' = Shown(cache, card, to) /\ fetching' = Cancelled /\ boardStale' = {}
      BY <1>16, Mutated DEF BoardData
    <3> QED
      BY <3>1, ShownLists DEF Cancelled
  <2>4. move'[FreeMove].previous = cache /\ move'[FreeMove].card = card /\ move'[FreeMove].to = to
    BY <1>16, Mutated
  <2> QED
    BY <1>0, <2>1, <2>2, <2>3, <2>4 DEF FirstMoveIsAlone, Loaded
<1>17. ASSUME NEW c \in QueueCards, NEW s \in Stages, CreateIn(c, s) PROVE FirstMoveIsAlone'
  <2>1. moved' = moved + 1 /\ UnderWay' = UnderWay \cup {FreeMove} /\ move'[FreeMove].previous = EmptyBoard
    BY <1>17, MoveCreates
  <2>2. moved' = 1 => UnderWay = {}
    BY <1>0, <2>1 DEF FirstMoveIsAlone
  <2> QED
    BY <1>0, <2>1, <2>2 DEF FirstMoveIsAlone, EmptyBoard
<1>18. ASSUME NEW f \in Filters, SetFilter(f) PROVE FirstMoveIsAlone'
  <2>1. \A k \in Filters : k \in Loaded /\ k \notin boardStale /\ fetching[k] = "none" => fetching'[k] = "none"
    BY <1>18 DEF SetFilter, Load, Loaded, BoardData
  <2> QED
    BY <1>1, <1>18, <2>1 DEF SetFilter, UnderWay
<1>19. ASSUME UNCHANGED <<cache, fetching, boardStale, moved, boardOthers, move>> PROVE FirstMoveIsAlone'
  BY <1>1, <1>19 DEF UnderWay
<1>20. ASSUME NEW c \in QueueCards, NEW s \in Stages, Drop(c, s) PROVE FirstMoveIsAlone'
  BY <1>16, <1>19, <1>20 DEF Drop, queries
<1>21. ASSUME ConfirmMove PROVE FirstMoveIsAlone'
  BY <1>16, <1>21 DEF ConfirmMove, BoardData, BoardTypeOK
<1>22. ASSUME CloseDialog PROVE FirstMoveIsAlone'
  BY <1>19, <1>22 DEF CloseDialog, queries
<1> QED
  BY <1>11, <1>12, <1>13, <1>14, <1>15, <1>17, <1>18, <1>20, <1>21, <1>22
     DEF BoardNext, Settles, Arrives, UnderWay
-----------------------------------------------------------------------------
LEMMA BoardStarts ==
  ASSUME BoardAssumption, BoardInit
  PROVE  BoardInv
<1>1. UnderWay = {}
  BY DEF BoardInit, UnderWay
<1>2. \A k \in Filters : cache[k] = NoData /\ fetching[k] # "read"
  BY DEF BoardInit
<1>3. /\ cache \in Lists /\ arriving \in Lists /\ fetching \in [Filters -> {"none", "sent", "read"}]
      /\ move \in [Moves -> MoveRecord \cup {Idle}]
  BY DEF BoardInit, Lists, EmptyBoard
<1>4. boardServer \in [QueueCards -> Stages \cup {NoValue}]
  BY DEF BoardAssumption, BoardInit
<1>5. moved \in 0..MaxMoves /\ boardOthers \in 0..MaxForeign
  BY DEF BoardAssumption, BoardInit
<1>6. BoardData
  BY <1>1, <1>3, <1>4, <1>5 DEF BoardInit, BoardData, BoardTypeOK
<1> QED
  BY <1>1, <1>2, <1>6 DEF BoardInit, BoardInv, FinalAsksForComment, ListsAreTrue, FirstMoveIsAlone, Loaded

(* Every list that is neither stale nor skipped is what the server has,    *)
(* but for moves that are still under way; the first move is alone, and no *)
(* list it changed is fetched under it; a card comes to a final column     *)
(* only by the dialog.                                                     *)
THEOREM BoardInvariant == BoardSpec => []BoardInv
<1>1. BoardInit => BoardInv
  BY BoardAssumption, BoardStarts
<1>2. BoardInv /\ [BoardNext]_cacheVars => BoardInv'
  <2>1. CASE BoardInv /\ BoardNext
    BY <2>1, BoardAssumption, BoardDataStep, FinalAsksStep, ListsTrueStep, FirstMoveStep DEF BoardInv
  <2>2. CASE BoardInv /\ UNCHANGED cacheVars
    BY <2>2, SameBoard DEF cacheVars, queries, BoardInv, BoardData, BoardTypeOK, FinalAsksForComment, ListsAreTrue,
       FirstMoveIsAlone, Loaded, UnderWay, View, List, Untold
  <2> QED
    BY <2>1, <2>2
<1> QED
  BY <1>1, <1>2, PTL DEF BoardSpec

(* Every variable of a board keeps its type.                               *)
THEOREM BoardTyped == BoardSpec => []BoardTypeOK
<1>1. BoardInv => BoardTypeOK
  BY DEF BoardInv, BoardData
<1> QED
  BY <1>1, BoardInvariant, PTL

(* When no move, fetch or event is under way any more, every list of a     *)
(* board shows what the server has, for any number of cards, stages, moves *)
(* and filters: whatever failed, was taken back or overtook.               *)
THEOREM QuietBoardAlwaysTrue == BoardSpec => []QuietBoardIsTrue
<1>1. BoardInv => QuietBoardIsTrue
  BY DEF BoardInv, ListsAreTrue, QuietBoardIsTrue, Quiet, Loaded, Untold
<1> QED
  BY <1>1, BoardInvariant, PTL

(* A card that is being moved stays where it was put in every list, until  *)
(* the server has answered: no fetch that began before puts it back.       *)
THEOREM OwnMoveAlwaysStays == BoardSpec => []OwnMoveStays
<1>1. BoardInv => OwnMoveStays
  BY DEF BoardInv, FirstMoveIsAlone, OwnMoveStays
<1> QED
  BY <1>1, BoardInvariant, PTL

(* No card of a board that asks for a comment comes to a final column but  *)
(* by the dialog that asks for it.                                         *)
THEOREM FinalAlwaysAsks == BoardSpec => []FinalAsksForComment
<1>1. BoardInv => FinalAsksForComment
  BY DEF BoardInv
<1> QED
  BY <1>1, BoardInvariant, PTL

-----------------------------------------------------------------------------
(* RolesPage                                                               *)
Roles == {"admin", "staff"}
Persons == [role : Roles, active : BOOLEAN, invited : BOOLEAN]
Forms == [role : Roles, active : BOOLEAN]
RolePatches == [role : Roles]
ActivePatches == [active : BOOLEAN]

(* What may be sent with an operation: nothing but the dialog and the      *)
(* switch of a row touches the activity of a person.                       *)
Sendable(op, patch) ==
  \/ op = "role" /\ patch \in RolePatches
  \/ op = "deactivate" /\ patch = [active |-> FALSE]
  \/ op = "edit" /\ patch \in Forms \cup ActivePatches
  \/ op \in {"resend", "delete"}

PersonType == person # NoPerson => person \in Persons
ListedType == listedPerson # NoPerson => listedPerson \in Persons
FormType == personForm # <<>> => personForm \in Forms
RequestType == request # <<>> => Sendable(request[1], request[2])
(* Who is dismissed still has an account, without an invitation.           *)
DismissedInv == dismissed \in BOOLEAN /\ (dismissed => person # NoPerson /\ ~person.invited)

RolesInv == PersonType /\ ListedType /\ FormType /\ RequestType /\ DismissedInv

-----------------------------------------------------------------------------
(* update_user keeps the types; a role alone changes neither activity nor  *)
(* invitation, and whoever is saved as inactive has no invitation.         *)
LEMMA UpdatedRole ==
  ASSUME NEW p \in Persons, NEW patch \in RolePatches
  PROVE  /\ UpdateUser(p, patch) \in Persons
         /\ UpdateUser(p, patch).active = p.active
         /\ UpdateUser(p, patch).invited = p.invited
<1> DEFINE q == [f \in DOMAIN p |-> IF f \in DOMAIN patch THEN patch[f] ELSE p[f]]
<1>1. DOMAIN p = {"role", "active", "invited"} /\ DOMAIN patch = {"role"} /\ patch.role \in Roles
  BY DEF Persons, RolePatches
<1>2. q = [role |-> patch.role, active |-> p.active, invited |-> p.invited]
  BY <1>1
<1>3. UpdateUser(p, patch) = q
  BY <1>1 DEF UpdateUser
<1> QED
  BY <1>1, <1>2, <1>3 DEF Persons

LEMMA UpdatedActive ==
  ASSUME NEW p \in Persons, NEW patch \in Forms \cup ActivePatches
  PROVE  /\ UpdateUser(p, patch) \in Persons
         /\ ~UpdateUser(p, patch).active => ~UpdateUser(p, patch).invited
<1> DEFINE q == [f \in DOMAIN p |-> IF f \in DOMAIN patch THEN patch[f] ELSE p[f]]
           asked == IF patch \in Forms THEN patch.role ELSE p.role
<1>1. /\ DOMAIN p = {"role", "active", "invited"}
      /\ patch \in Forms => DOMAIN patch = {"role", "active"}
      /\ patch \notin Forms => DOMAIN patch = {"active"}
      /\ patch.active \in BOOLEAN /\ asked \in Roles /\ p.invited \in BOOLEAN
  BY DEF Persons, Forms, ActivePatches
<1>2. q = [role |-> asked, active |-> patch.active, invited |-> p.invited]
  BY <1>1
<1>3. "active" \in DOMAIN patch
  BY <1>1
<1>4. CASE patch.active
  <2>1. UpdateUser(p, patch) = q
    BY <1>3, <1>4 DEF UpdateUser
  <2> QED
    BY <1>1, <1>2, <1>4, <2>1 DEF Persons
<1>5. CASE ~patch.active
  <2>1. UpdateUser(p, patch) = [q EXCEPT !.invited = FALSE]
    BY <1>3, <1>5 DEF UpdateUser
  <2>2. UpdateUser(p, patch) = [role |-> asked, active |-> patch.active, invited |-> FALSE]
    BY <1>2, <2>1
  <2> QED
    BY <1>1, <2>2 DEF Persons
<1> QED
  BY <1>4, <1>5

(* Every change of the account, from whichever administrator.              *)
LEMMA ChangeInv ==
  ASSUME RolesInv, NEW op, NEW patch, Sendable(op, patch), Change(op, patch)
  PROVE  PersonType' /\ DismissedInv'
<1>1. CASE person = NoPerson
  BY <1>1 DEF RolesInv, Change, PersonType, DismissedInv
<1>2. CASE person # NoPerson /\ op = "delete"
  BY <1>2 DEF RolesInv, Change, PersonAfter, PersonType, DismissedInv
<1>3. CASE person # NoPerson /\ op = "resend"
  <2>1. person' = IF person.active THEN person ELSE [person EXCEPT !.invited = TRUE]
    BY <1>3 DEF Change, PersonAfter
  <2>2. person \in Persons
    BY <1>3 DEF RolesInv, PersonType
  <2>3. person' \in Persons /\ person'.active = person.active
        /\ (person.active => person'.invited = person.invited)
    BY <2>1, <2>2 DEF Persons
  <2>4. dismissed' \in BOOLEAN /\ (dismissed' => person.active /\ ~person'.active)
    BY <1>3 DEF Change
  <2> QED
    BY <2>3, <2>4 DEF PersonType, DismissedInv
<1>4. CASE person # NoPerson /\ op \notin {"delete", "resend"}
  <2>1. person' = UpdateUser(person, patch)
    BY <1>4 DEF Change, PersonAfter
  <2>2. person \in Persons
    BY <1>4 DEF RolesInv, PersonType
  <2>3. CASE op = "role"
    <3>1. patch \in RolePatches
      BY <2>3 DEF Sendable
    <3>2. person' \in Persons /\ person'.active = person.active /\ person'.invited = person.invited
      BY <2>1, <2>2, <3>1, UpdatedRole
    <3>3. dismissed' \in BOOLEAN /\ (dismissed' => dismissed /\ person' # NoPerson)
      BY <1>4, <3>2 DEF Change
    <3> QED
      BY <3>2, <3>3 DEF RolesInv, PersonType, DismissedInv
  <2>4. CASE op # "role"
    <3>1. patch \in Forms \cup ActivePatches
      <4>1. [active |-> FALSE] \in ActivePatches
        BY DEF ActivePatches
      <4> QED
        BY <1>4, <2>4, <4>1 DEF Sendable
    <3>2. person' \in Persons /\ (~person'.active => ~person'.invited)
      BY <2>1, <2>2, <3>1, UpdatedActive
    <3>3. dismissed' \in BOOLEAN /\ (dismissed' => ~person'.active /\ person' # NoPerson)
      BY <1>4 DEF Change
    <3> QED
      BY <3>2, <3>3 DEF PersonType, DismissedInv
  <2> QED
    BY <2>3, <2>4
<1> QED
  BY <1>1, <1>2, <1>3, <1>4

-----------------------------------------------------------------------------
LEMMA RolesInitInv == RolesInit => RolesInv
<1> SUFFICES ASSUME RolesInit PROVE RolesInv
  OBVIOUS
<1>1. PICK on \in BOOLEAN : person = [role |-> "staff", active |-> on, invited |-> ~on]
  BY DEF RolesInit
<1>2. person \in Persons /\ listedPerson = person
  BY <1>1 DEF RolesInit, Persons, Roles
<1>3. personForm = <<>> /\ request = <<>> /\ dismissed = FALSE
  BY DEF RolesInit
<1> QED
  BY <1>2, <1>3 DEF RolesInv, PersonType, ListedType, FormType, RequestType, DismissedInv

(* Clicks in a row and in its dialogs change nothing but what the page     *)
(* keeps of the person, and send only what may be sent.                    *)
LEMMA ClickInv ==
  ASSUME RolesInv,
         \/ \E op \in {"role", "edit", "delete", "deactivate", "resend"} : ClickRow(op)
         \/ EditForm \/ SaveForm \/ ConfirmDelete \/ CloseEdit
  PROVE  RolesInv'
<1>1. UNCHANGED <<person, listedPerson, dismissed>>
  BY DEF ClickRow, EditForm, SaveForm, ConfirmDelete, CloseEdit
<1>2. PersonType' /\ ListedType' /\ DismissedInv'
  BY <1>1 DEF RolesInv, PersonType, ListedType, DismissedInv
<1>3. ASSUME NEW op \in {"role", "edit", "delete", "deactivate", "resend"}, ClickRow(op)
      PROVE  FormType' /\ RequestType'
  <2>1. listedPerson \in Persons
    BY <1>3 DEF RolesInv, ListedType, ClickRow
  <2>2. CASE op = "edit"
    <3>1. personForm' = [role |-> listedPerson.role, active |-> listedPerson.active] /\ request' = request
      BY <1>3, <2>2 DEF ClickRow
    <3> QED
      BY <2>1, <3>1 DEF RolesInv, FormType, RequestType, Forms, Persons
  <2>3. CASE op = "delete"
    BY <1>3, <2>3 DEF ClickRow, RolesInv, FormType, RequestType
  <2>4. CASE op \notin {"edit", "delete"}
    <3>1. personForm' = personForm /\ request' = <<op, Patch(op), "sent">>
      BY <1>3, <2>4 DEF ClickRow
    <3>2. Sendable(op, Patch(op))
      <4>1. CASE op = "role"
        <5>1. Patch(op) = [role |-> IF listedPerson.role = "admin" THEN "staff" ELSE "admin"]
          BY <4>1 DEF Patch
        <5> QED
          BY <4>1, <5>1 DEF Sendable, RolePatches, Roles
      <4>2. CASE op = "deactivate"
        BY <4>2 DEF Sendable, Patch
      <4>3. CASE op = "resend"
        BY <4>3 DEF Sendable
      <4> QED
        BY <2>4, <4>1, <4>2, <4>3
    <3>3. request'[1] = op /\ request'[2] = Patch(op)
      BY <3>1
    <3> QED
      BY <3>1, <3>2, <3>3 DEF RolesInv, FormType, RequestType
  <2> QED
    BY <2>2, <2>3, <2>4
<1>4. ASSUME EditForm PROVE FormType' /\ RequestType'
  BY <1>4 DEF EditForm, RolesInv, FormType, RequestType, Forms, Roles
<1>5. ASSUME SaveForm PROVE FormType' /\ RequestType'
  <2>1. personForm \in Forms /\ personForm' = personForm
    BY <1>5 DEF SaveForm, RolesInv, FormType
  <2>2. request' = <<"edit", personForm, "sent">>
    BY <1>5 DEF SaveForm, Patch, EditPayload
  <2>3. Sendable(request'[1], request'[2])
    BY <2>1, <2>2 DEF Sendable
  <2> QED
    BY <2>1, <2>3 DEF FormType, RequestType
<1>6. ASSUME ConfirmDelete PROVE FormType' /\ RequestType'
  <2>1. request' = <<"delete", <<>>, "sent">> /\ personForm' = personForm
    BY <1>6 DEF ConfirmDelete
  <2>2. Sendable(request'[1], request'[2])
    BY <2>1 DEF Sendable
  <2> QED
    BY <2>1, <2>2 DEF RolesInv, FormType, RequestType
<1>7. ASSUME CloseEdit PROVE FormType' /\ RequestType'
  BY <1>7 DEF CloseEdit, RolesInv, FormType, RequestType
<1> QED
  BY <1>2, <1>3, <1>4, <1>5, <1>6, <1>7 DEF RolesInv

LEMMA ServeInv == ASSUME RolesInv, ServeRequest PROVE RolesInv'
<1>1. Sendable(request[1], request[2]) /\ Change(request[1], request[2])
  BY DEF RolesInv, RequestType, ServeRequest
<1>2. PersonType' /\ DismissedInv'
  BY <1>1, ChangeInv
<1>3. request' = [request EXCEPT ![3] = "saved"]
      /\ UNCHANGED <<listedPerson, personForm>>
  BY DEF ServeRequest
<1>4. Sendable(request'[1], request'[2])
  BY <1>1, <1>3 DEF Sendable
<1> QED
  BY <1>2, <1>3, <1>4 DEF RolesInv, ListedType, FormType, RequestType

LEMMA PeerInv ==
  ASSUME RolesInv, NEW op, NEW patch, Sendable(op, patch), PeerChanges(op, patch)
  PROVE  RolesInv'
<1>1. PersonType' /\ DismissedInv'
  BY ChangeInv DEF PeerChanges
<1> QED
  BY <1>1 DEF PeerChanges, RolesInv, ListedType, FormType, RequestType

(* What is done in the other tab does not touch the account.               *)
LEMMA MatrixInv ==
  ASSUME RolesInv, UNCHANGED personVars
  PROVE  RolesInv'
  BY DEF personVars, RolesInv, PersonType, ListedType, FormType, RequestType, DismissedInv

LEMMA RolesStepInv == RolesInv /\ [RolesNext]_rolesVars => RolesInv'
<1> SUFFICES ASSUME RolesInv, [RolesNext]_rolesVars PROVE RolesInv'
  OBVIOUS
<1>1. CASE \/ \E row \in MatrixRows, col \in MatrixRoles : TogglePermission(row, col) \/ PeerToggles(row, col)
           \/ ResetPermissions \/ PollPermissions \/ ReadMatrix \/ MatrixArrives
           \/ \E j \in toggles : ServeToggle(j) \/ ToggleSaved(j) \/ ToggleFailed(j)
           \/ UNCHANGED rolesVars
  <2>1. UNCHANGED personVars
    BY <1>1, Zenon DEF TogglePermission, PeerToggles, ResetPermissions, PollPermissions, ReadMatrix,
                       MatrixArrives, ServeToggle, ToggleSaved, ToggleFailed, rolesVars
  <2> QED
    BY <2>1, MatrixInv
<1>2. CASE \/ \E op \in {"role", "edit", "delete", "deactivate", "resend"} : ClickRow(op)
           \/ EditForm \/ SaveForm \/ ConfirmDelete \/ CloseEdit
  BY <1>2, ClickInv
<1>3. CASE ServeRequest
  BY <1>3, ServeInv
<1>4. CASE RequestSucceeds \/ RequestFails \/ ReadList
  BY <1>4 DEF RequestSucceeds, RequestFails, ReadList, RolesInv, PersonType, ListedType, FormType,
              RequestType, DismissedInv
<1>5. CASE ActivateInvite
  BY <1>5 DEF ActivateInvite, RolesInv, PersonType, ListedType, FormType, RequestType, DismissedInv,
              Persons
<1>6. CASE \/ PeerChanges("deactivate", [active |-> FALSE]) \/ PeerChanges("resend", <<>>)
           \/ PeerChanges("edit", [active |-> TRUE]) \/ PeerChanges("delete", <<>>)
  <2>1. /\ Sendable("deactivate", [active |-> FALSE]) /\ Sendable("resend", <<>>)
        /\ Sendable("delete", <<>>)
    BY DEF Sendable
  <2>2. Sendable("edit", [active |-> TRUE])
    BY DEF Sendable, ActivePatches
  <2> QED
    BY <1>6, <2>1, <2>2, PeerInv
<1> QED
  BY <1>1, <1>2, <1>3, <1>4, <1>5, <1>6 DEF RolesNext

LEMMA RolesAlwaysInv == RolesSpec => []RolesInv
  BY RolesInitInv, RolesStepInv, PTL DEF RolesSpec

-----------------------------------------------------------------------------
(* The account keeps its type, whatever is saved over whatever.            *)
THEOREM PersonTyped == RolesSpec => []PersonType
<1>1. RolesInv => PersonType
  BY DEF RolesInv
<1> QED
  BY <1>1, RolesAlwaysInv, PTL

(* Nobody who was dismissed holds an invitation from before: for any       *)
(* number of operations of both administrators, in any order, with any     *)
(* answers lost.                                                           *)
THEOREM DismissedAlwaysOut == RolesSpec => []DismissedStaysOut
<1>1. RolesInv => DismissedStaysOut
  BY DEF RolesInv, DismissedInv, DismissedStaysOut
<1> QED
  BY <1>1, RolesAlwaysInv, PTL

Matrices == [MatrixRows -> [MatrixRoles -> BOOLEAN]]
Toggles == [op : {"toggle", "reset"}, id : Nat, row : MatrixRows,
            body : [MatrixRoles -> BOOLEAN] \cup {<<>>}, before : Matrices \cup {NoMatrix},
            state : {"sent", "saved"}]

MatrixData ==
  /\ matrix \in Matrices /\ shownMatrix \in Matrices \cup {NoMatrix}
  /\ matrixFetch \in Matrices \cup {NoRead, Reading} /\ matrixMissed \in BOOLEAN
  /\ toggles \subseteq Toggles /\ \A j \in toggles : j.op = "toggle" => j.body \in [MatrixRoles -> BOOLEAN]
  /\ edits \in Nat

(* What a fetch has read is what the server has, unless somebody changes it *)
(* of which the page will be told.                                         *)
FetchIsTrue ==
  tab = "roles" /\ toggles = {} /\ ~matrixMissed => matrixFetch \in {NoRead, Reading, matrix}

MatrixQuiet == MatrixData /\ FetchIsTrue /\ QuietMatrixIsTrue

(* One dialog at a time.                                                   *)
OneDialog == ~(personForm # <<>> /\ personAsk) /\ personAsk \in BOOLEAN

-----------------------------------------------------------------------------
(* A cell of a matrix is turned over.                                      *)
LEMMA TurnedOver ==
  ASSUME NEW mx \in Matrices, NEW row \in MatrixRows, NEW col \in MatrixRoles
  PROVE  /\ [mx EXCEPT ![row][col] = ~@] \in Matrices
         /\ [mx EXCEPT ![row][col] = ~@][row] \in [MatrixRoles -> BOOLEAN]
<1>1. mx[row] \in [MatrixRoles -> BOOLEAN]
  BY DEF Matrices
<1>2. [mx[row] EXCEPT ![col] = ~@] \in [MatrixRoles -> BOOLEAN]
  BY <1>1
<1>3. [mx EXCEPT ![row][col] = ~@] = [mx EXCEPT ![row] = [mx[row] EXCEPT ![col] = ~@]]
  OBVIOUS
<1> QED
  BY <1>2, <1>3 DEF Matrices

LEMMA DefaultIsMatrix == DefaultPermissions \in Matrices
BY DEF DefaultPermissions, Matrices

LEMMA MatrixStep ==
  ASSUME RolesAssumption, MatrixQuiet, RolesNext
  PROVE  MatrixQuiet'
<1> USE DefaultIsMatrix DEF MatrixQuiet, MatrixData, FetchIsTrue, QuietMatrixIsTrue
<1>0. /\ NoRead # Reading /\ NoRead \notin Matrices /\ Reading \notin Matrices
      /\ (CHOOSE r \in MatrixRows : TRUE) \in MatrixRows
  BY DEF RolesAssumption, Matrices
<1>1. ASSUME NEW row \in MatrixRows, NEW col \in MatrixRoles, TogglePermission(row, col) PROVE MatrixQuiet'
  <2>1. CASE shownMatrix = NoMatrix
    BY <1>0, <1>1, <2>1 DEF TogglePermission
  <2>2. CASE shownMatrix # NoMatrix
    <3> DEFINE next == [shownMatrix EXCEPT ![row][col] = ~@]
               new == [op |-> "toggle", id |-> edits, row |-> row, body |-> next[row],
                       before |-> shownMatrix, state |-> "sent"]
    <3>1. next \in Matrices /\ next[row] \in [MatrixRoles -> BOOLEAN]
      BY <2>2, TurnedOver
    <3>2. new \in Toggles /\ new.body = next[row]
      BY <3>1 DEF Toggles
    <3>3. /\ shownMatrix' = next /\ matrixFetch' = NoRead /\ toggles' = toggles \cup {new}
          /\ UNCHANGED <<matrix, matrixMissed>> /\ edits' = edits + 1
      BY <1>1, <2>2 DEF TogglePermission
    <3> HIDE DEF next, new
    <3> QED
      BY <1>0, <3>1, <3>2, <3>3
  <2> QED
    BY <2>1, <2>2
<1>2. ASSUME ResetPermissions PROVE MatrixQuiet'
  <2> DEFINE new == [op |-> "reset", id |-> edits, row |-> CHOOSE r \in MatrixRows : TRUE,
                     body |-> <<>>, before |-> shownMatrix, state |-> "sent"]
  <2>1. new \in Toggles /\ new.op = "reset"
    BY <1>0 DEF Toggles
  <2>2. /\ shownMatrix' = DefaultPermissions /\ matrixFetch' = NoRead /\ toggles' = toggles \cup {new}
        /\ UNCHANGED <<matrix, matrixMissed>> /\ edits' = edits + 1
    BY <1>2 DEF ResetPermissions
  <2> HIDE DEF new
  <2> QED
    BY <1>0, <2>1, <2>2
<1>3. ASSUME NEW j \in toggles, ServeToggle(j) PROVE MatrixQuiet'
  <2>1. j \in Toggles /\ j.op \in {"toggle", "reset"} /\ j.row \in MatrixRows
    BY DEF Toggles
  <2>2. [j EXCEPT !.state = "saved"] \in Toggles /\ [j EXCEPT !.state = "saved"].op = j.op
        /\ [j EXCEPT !.state = "saved"].body = j.body
    BY <2>1 DEF Toggles
  <2>3. matrix' \in Matrices
    BY <1>3, <2>1 DEF ServeToggle, Matrices
  <2>4. /\ toggles' = (toggles \ {j}) \cup {[j EXCEPT !.state = "saved"]}
        /\ UNCHANGED <<tab, shownMatrix, matrixFetch, matrixMissed, edits>>
    BY <1>3 DEF ServeToggle
  <2> QED
    BY <2>2, <2>3, <2>4
<1>4. ASSUME NEW j \in toggles, ToggleSaved(j) \/ ToggleFailed(j) PROVE MatrixQuiet'
  <2>1. j.before \in Matrices \cup {NoMatrix}
    BY DEF Toggles
  <2>2. /\ toggles' = toggles \ {j} /\ matrixFetch' = Reading /\ UNCHANGED <<matrix, matrixMissed, edits>>
        /\ shownMatrix' \in Matrices \cup {NoMatrix}
    BY <1>4, <2>1 DEF ToggleSaved, ToggleFailed, AfterToggle
  <2> QED
    BY <1>0, <2>2
<1>5. ASSUME PollPermissions \/ ReadMatrix \/ MatrixArrives PROVE MatrixQuiet'
  BY <1>0, <1>5 DEF PollPermissions, ReadMatrix, MatrixArrives
<1>6. ASSUME NEW row \in MatrixRows, NEW col \in MatrixRoles, PeerToggles(row, col) PROVE MatrixQuiet'
  BY <1>6, TurnedOver DEF PeerToggles
<1>7. ASSUME NEW op, ClickRow(op) PROVE MatrixQuiet'
  <2>1. UNCHANGED <<tab, matrixVars>> /\ (edits' = edits \/ edits' = edits + 1)
    <3>1. CASE op = "edit"
      BY <1>7, <3>1 DEF ClickRow
    <3>2. CASE op = "delete"
      BY <1>7, <3>2 DEF ClickRow
    <3>3. CASE op \notin {"edit", "delete"}
      BY <1>7, <3>3 DEF ClickRow
    <3> QED
      BY <3>1, <3>2, <3>3
  <2> QED
    BY <2>1 DEF matrixVars
<1>8. ASSUME \/ EditForm \/ SaveForm \/ ConfirmDelete \/ CloseEdit
             \/ ServeRequest \/ RequestSucceeds \/ RequestFails \/ ReadList \/ ActivateInvite
             \/ \E op, patch : PeerChanges(op, patch)
      PROVE  MatrixQuiet'
  <2>1. UNCHANGED <<tab, matrixVars>> /\ (edits' = edits \/ edits' = edits + 1)
    BY <1>8, Zenon DEF EditForm, SaveForm, ConfirmDelete, CloseEdit, ServeRequest, RequestSucceeds, RequestFails, ReadList,
       ActivateInvite, PeerChanges
  <2> QED
    BY <2>1 DEF matrixVars
<1> QED
  BY <1>1, <1>2, <1>3, <1>4, <1>5, <1>6, <1>7, <1>8 DEF RolesNext

LEMMA DialogStep ==
  ASSUME OneDialog, RolesNext
  PROVE  OneDialog'
<1>1. ASSUME NEW op, ClickRow(op) PROVE OneDialog'
  <2>1. CASE op = "edit"
    BY <1>1, <2>1 DEF ClickRow, OneDialog
  <2>2. CASE op = "delete"
    BY <1>1, <2>2 DEF ClickRow, OneDialog
  <2>3. CASE op \notin {"edit", "delete"}
    BY <1>1, <2>3 DEF ClickRow, OneDialog
  <2> QED
    BY <2>1, <2>2, <2>3
<1>2. ASSUME EditForm \/ CloseEdit \/ RequestSucceeds PROVE OneDialog'
  <2>1. CASE EditForm
    <3>1. ~personAsk /\ personAsk \in BOOLEAN /\ personAsk' = personAsk
      BY <2>1 DEF EditForm, OneDialog
    <3> QED
      BY <3>1 DEF OneDialog
  <2>2. CASE CloseEdit \/ RequestSucceeds
    <3>1. personAsk' = FALSE
      BY <2>2 DEF CloseEdit, RequestSucceeds
    <3> QED
      BY <3>1 DEF OneDialog
  <2> QED
    BY <1>2, <2>1, <2>2
<1>3. ASSUME UNCHANGED <<personForm, personAsk>> PROVE OneDialog'
  BY <1>3 DEF OneDialog
<1>4. ASSUME ~\E op : ClickRow(op), ~(EditForm \/ CloseEdit \/ RequestSucceeds) PROVE UNCHANGED <<personForm, personAsk>>
  BY <1>4, Zenon DEF RolesNext, TogglePermission, PeerToggles, ResetPermissions, PollPermissions, ReadMatrix,
     MatrixArrives, ServeToggle, ToggleSaved, ToggleFailed, SaveForm, ConfirmDelete, ServeRequest, RequestFails,
     ReadList, ActivateInvite, PeerChanges, personVars
<1> QED
  BY <1>1, <1>2, <1>3, <1>4

LEMMA MatrixAlwaysQuiet == RolesSpec => [](MatrixQuiet /\ OneDialog)
<1>1. RolesInit => MatrixQuiet /\ OneDialog
  <2> HAVE RolesInit
  <2>1. matrix \in Matrices
    <3> DEFINE NothingAllowed == [row \in MatrixRows |-> [who \in MatrixRoles |-> FALSE]]
    <3>1. NothingAllowed \in Matrices
      <4>1. \A row \in MatrixRows : [who \in MatrixRoles |-> FALSE] \in [MatrixRoles -> BOOLEAN]
        OBVIOUS
      <4> QED
        BY <4>1 DEF Matrices
    <3>2. matrix = DefaultPermissions \/ matrix = NothingAllowed
      BY DEF RolesInit
    <3> QED
      BY <3>1, <3>2, DefaultIsMatrix
  <2>2. /\ shownMatrix \in {NoMatrix, matrix} /\ toggles = {} /\ matrixMissed = FALSE /\ edits = 0
        /\ matrixFetch = IF tab = "roles" /\ shownMatrix = NoMatrix THEN Reading ELSE NoRead
        /\ personForm = <<>> /\ personAsk = FALSE
    BY DEF RolesInit
  <2>3. OneDialog
    BY <2>2 DEF OneDialog
  <2>4. MatrixData
    BY <2>1, <2>2 DEF MatrixData
  <2>5. FetchIsTrue /\ QuietMatrixIsTrue
    BY <2>1, <2>2, RolesAssumption DEF FetchIsTrue, QuietMatrixIsTrue
  <2> QED
    BY <2>3, <2>4, <2>5 DEF MatrixQuiet
<1>2. MatrixQuiet /\ OneDialog /\ [RolesNext]_rolesVars => MatrixQuiet' /\ OneDialog'
  <2>1. CASE MatrixQuiet /\ OneDialog /\ UNCHANGED rolesVars
    BY <2>1 DEF rolesVars, matrixVars, personVars, MatrixQuiet, MatrixData, FetchIsTrue, QuietMatrixIsTrue, OneDialog
  <2> QED
    BY <2>1, RolesAssumption, MatrixStep, DialogStep
<1> QED
  BY <1>1, <1>2, PTL DEF RolesSpec

(* When nothing is under way, the matrix of rights on the page is the one  *)
(* the server has, for any rows and roles and any number of toggles,       *)
(* resets, failures and changes of the other administrator.                *)
THEOREM QuietMatrixAlwaysTrue == RolesSpec => []QuietMatrixIsTrue
<1>1. MatrixQuiet => QuietMatrixIsTrue
  BY DEF MatrixQuiet
<1> QED
  BY <1>1, MatrixAlwaysQuiet, PTL

(* Every variable of the page keeps its type.                              *)
THEOREM RolesTyped == RolesSpec => []RolesTypeOK
<1>1. MatrixQuiet /\ OneDialog /\ RolesInv => RolesTypeOK
  BY DEF MatrixQuiet, MatrixData, OneDialog, RolesInv, PersonType, DismissedInv, RolesTypeOK, Matrices, Persons, Roles
<1> QED
  BY <1>1, MatrixAlwaysQuiet, RolesAlwaysInv, PTL

-----------------------------------------------------------------------------
(* ChatPage                                                                *)
DialogRecord == [in : BOOLEAN, made : BOOLEAN, own : BOOLEAN, posts : Nat, touched : Nat, read : Nat,
                 muted : BOOLEAN, hidden : BOOLEAN, card : Nat]
DeedRecord == [kind : OwnKinds \cup {"mark"}, dialog : Dialogs, upTo : Nat,
               state : {"sent", "served", "refused"}, id : Nat]
NewsRecord == [kind : PeerKinds, dialog : Dialogs]
FeedMarks == (Nat \X Nat) \cup {NoFeed}

ChatData ==
  /\ dialog \in [Dialogs -> DialogRecord]
  /\ feed \in [Dialogs -> FeedMarks] /\ feedAnswer \in [Dialogs -> FeedMarks]
  /\ feedSent \in [Dialogs -> {"none", "sent", "read"}]
  /\ deeds \subseteq DeedRecord /\ chatNews \subseteq NewsRecord /\ done \in Nat
  /\ {listSent, chatMissed, wide, archive} \subseteq BOOLEAN
  /\ chatList = [d \in DOMAIN chatList |-> chatList[d]] /\ DOMAIN chatList \subseteq Dialogs
  /\ opened \in DOMAIN chatList \cup {NoDialog}
  /\ feedStale \subseteq {d \in Dialogs : feed[d] # NoFeed}

(* No message is read, fetched or marked before it is written.             *)
ReadIsPosted ==
  /\ \A d \in Dialogs : /\ dialog[d].read <= dialog[d].posts
                        /\ feed[d] # NoFeed => feed[d][1] <= dialog[d].posts
                        /\ feedAnswer[d] # NoFeed => feedAnswer[d][1] <= dialog[d].posts
  /\ \A j \in deeds : j.upTo <= dialog[j.dialog].posts

(* The list will be fetched: it is, an event or an answer will say so.     *)
ListWillCome ==
  \/ listSent \/ chatMissed \/ chatNews # {}
  \/ \E j \in deeds : j.state = "served" /\ j.kind \notin {"touch", "reply"}
(* A reply fetches the list by the mark that follows its answer.           *)
Replied(d) ==
  \E j \in deeds : j.dialog = d /\ \/ j.kind = "reply" /\ j.state = "served"
                                   \/ j.kind = "mark" /\ j.state = "sent"
RowIsTrue(d) ==
  /\ d \in DOMAIN chatList <=> d \in DOMAIN Listing
  /\ d \in DOMAIN chatList => chatList[d] = Listing[d]
ListIsTrue ==
  ListWillCome \/ \A d \in Dialogs : /\ RowIsTrue(d) \/ Replied(d)
                                     /\ d \in DOMAIN chatList => dialog[d].in

(* The feed of a dialog changed, and the page will be told.                *)
FeedNews(d) ==
  \/ chatMissed
  \/ \E n \in chatNews : n.dialog = d /\ n.kind \in {"message_created", "message_updated"}
  \/ \E j \in deeds : j.dialog = d /\ j.state = "served" /\ j.kind \in {"post", "reply", "touch"}
FeedsAreTrue ==
  \A d \in Dialogs :
    /\ feed[d] \in {NoFeed, FeedOf(d)} \/ d \in feedStale \/ FeedNews(d)
    /\ feedSent[d] = "read" => feedAnswer[d] = FeedOf(d) \/ FeedNews(d)

ChatInv == ChatData /\ ReadIsPosted /\ ListIsTrue /\ FeedsAreTrue
-----------------------------------------------------------------------------
LEMMA TwoNumbers ==
  ASSUME NEW r \in DialogRecord, NEW p \in Nat, NEW q \in Nat
  PROVE  /\ [r EXCEPT !.posts = p, !.read = q, !.hidden = FALSE] \in DialogRecord
         /\ [r EXCEPT !.touched = p, !.read = q, !.hidden = FALSE] \in DialogRecord
         /\ [r EXCEPT !.posts = p, !.hidden = FALSE] \in DialogRecord
         /\ [r EXCEPT !.own = TRUE, !.card = p] \in DialogRecord
         /\ [r EXCEPT !.in = TRUE, !.own = FALSE, !.card = p] \in DialogRecord
         /\ [r EXCEPT !.in = TRUE, !.made = TRUE, !.own = TRUE, !.card = p] \in DialogRecord
<1> DEFINE Hid(x) == [x EXCEPT !.hidden = FALSE]
           Rd(x) == [x EXCEPT !.read = q]
           Ps(x) == [x EXCEPT !.posts = p]
           Tc(x) == [x EXCEPT !.touched = p]
           Cd(x) == [x EXCEPT !.card = p]
           In(x) == [x EXCEPT !.in = TRUE]
           Md(x) == [x EXCEPT !.made = TRUE]
           Ow(x) == [x EXCEPT !.own = TRUE]
           No(x) == [x EXCEPT !.own = FALSE]
<1>1. \A x \in DialogRecord : /\ Hid(x) \in DialogRecord /\ Rd(x) \in DialogRecord
                              /\ Ps(x) \in DialogRecord /\ Tc(x) \in DialogRecord
                              /\ Cd(x) \in DialogRecord /\ In(x) \in DialogRecord
                              /\ Md(x) \in DialogRecord /\ Ow(x) \in DialogRecord
                              /\ No(x) \in DialogRecord
  BY DEF DialogRecord
<1>2. /\ Hid(Rd(Ps(r))) \in DialogRecord /\ Hid(Rd(Tc(r))) \in DialogRecord
      /\ Hid(Ps(r)) \in DialogRecord /\ Cd(Ow(r)) \in DialogRecord
      /\ Cd(No(In(r))) \in DialogRecord /\ Cd(Ow(Md(In(r)))) \in DialogRecord
  <2> HIDE DEF Hid, Rd, Ps, Tc, Cd, In, Md, Ow, No
  <2> QED BY <1>1
<1> QED BY <1>2, Zenon

LEMMA EffectIsRecord ==
  ASSUME NEW r \in DialogRecord, NEW k \in OwnKinds \cup {"mark"}, NEW u \in Nat
  PROVE  ChatEffect(k, u, r) \in DialogRecord
<1> DEFINE p == r.posts + 1  t == r.touched + 1
<1>0. p \in Nat /\ t \in Nat /\ r.posts \in Nat BY DEF DialogRecord
<1>1. CASE k = "post"
  <2>1. ChatEffect(k, u, r) = [r EXCEPT !.posts = p, !.read = p, !.hidden = FALSE] BY <1>1 DEF ChatEffect
  <2>2. [r EXCEPT !.posts = p, !.read = p, !.hidden = FALSE] \in DialogRecord BY <1>0, TwoNumbers, Zenon
  <2> QED BY <2>1, <2>2, Zenon
<1>2. CASE k = "reply"
  <2>1. ChatEffect(k, u, r) = [r EXCEPT !.touched = t, !.read = r.posts, !.hidden = FALSE] BY <1>2 DEF ChatEffect
  <2>2. [r EXCEPT !.touched = t, !.read = r.posts, !.hidden = FALSE] \in DialogRecord BY <1>0, TwoNumbers, Zenon
  <2> QED BY <2>1, <2>2, Zenon
<1>3. CASE k = "touch" BY <1>3 DEF ChatEffect, DialogRecord
<1>4. CASE k = "mark" BY <1>4 DEF ChatEffect, DialogRecord, MarkRead
<1>5. CASE k \in {"mute", "unmute"} BY <1>5 DEF ChatEffect, DialogRecord
<1>6. CASE k \in {"archive", "unarchive"} BY <1>6 DEF ChatEffect, DialogRecord
<1>7. CASE k = "manage" BY <1>7 DEF ChatEffect, DialogRecord
<1>8. CASE k = "create"
  <2>1. ChatEffect(k, u, r) \in {r, [r EXCEPT !.in = TRUE, !.made = TRUE, !.own = TRUE, !.card = 1]}
    BY <1>8 DEF ChatEffect
  <2> HIDE DEF p, t
  <2> QED BY ZenonT(60), <2>1, <1>0, TwoNumbers
<1>9. CASE k \in {"leave", "delete"} BY <1>9 DEF ChatEffect, DialogRecord
<1> QED BY <1>1, <1>2, <1>3, <1>4, <1>5, <1>6, <1>7, <1>8, <1>9 DEF OwnKinds

(* What a deed does to a dialog: nothing is taken back from it.            *)
LEMMA EffectKeeps ==
  ASSUME NEW r \in DialogRecord, NEW k \in OwnKinds \cup {"mark"}, NEW u \in Nat, u <= r.posts,
         r.read <= r.posts
  PROVE  LET e == ChatEffect(k, u, r) IN
         /\ e.posts >= r.posts /\ e.read >= r.read /\ e.read <= e.posts
         /\ k \notin {"post", "reply", "touch"} => e.posts = r.posts /\ e.touched = r.touched
         /\ k = "touch" => /\ e.in = r.in /\ e.read = r.read /\ e.muted = r.muted
                           /\ e.hidden = r.hidden /\ e.card = r.card /\ e.posts = r.posts
         /\ k = "reply" => e.in = r.in
<1> DEFINE p == r.posts + 1  t == r.touched + 1
<1>0. p \in Nat /\ t \in Nat /\ r.posts \in Nat /\ r.read \in Nat BY DEF DialogRecord
<1>1. CASE k = "post"
  <2>1. ChatEffect(k, u, r) = [r EXCEPT !.posts = p, !.read = p, !.hidden = FALSE] BY <1>1 DEF ChatEffect
  <2>2. ChatEffect(k, u, r).posts = p /\ ChatEffect(k, u, r).read = p
    <3> HIDE DEF p
    <3> QED BY <2>1, <1>0 DEF DialogRecord
  <2> QED BY <2>2, <1>0, <1>1
<1>2. CASE k = "reply"
  <2>1. ChatEffect(k, u, r) = [r EXCEPT !.touched = t, !.read = r.posts, !.hidden = FALSE] BY <1>2 DEF ChatEffect
  <2>2. /\ ChatEffect(k, u, r).posts = r.posts /\ ChatEffect(k, u, r).read = r.posts
        /\ ChatEffect(k, u, r).in = r.in
    <3> HIDE DEF t
    <3> QED BY <2>1, <1>0 DEF DialogRecord
  <2> QED BY <2>2, <1>0, <1>2
<1>3. CASE k = "touch" BY <1>3 DEF ChatEffect, DialogRecord
<1>4. CASE k = "mark"
  <2>1. ChatEffect(k, u, r) = MarkRead(r, u) BY <1>4 DEF ChatEffect
  <2>2. /\ MarkRead(r, u).posts = r.posts /\ MarkRead(r, u).touched = r.touched
        /\ MarkRead(r, u).read >= r.read /\ MarkRead(r, u).read <= r.posts
    BY <1>0 DEF MarkRead, DialogRecord
  <2> QED BY <2>1, <2>2, <1>0, <1>4
<1>5. CASE k \in {"mute", "unmute"}
  <2>1. ChatEffect(k, u, r) = [r EXCEPT !.muted = (k = "mute")] BY <1>5 DEF ChatEffect
  <2>2. /\ ChatEffect(k, u, r).posts = r.posts /\ ChatEffect(k, u, r).read = r.read
        /\ ChatEffect(k, u, r).touched = r.touched
    BY <2>1, <1>0 DEF DialogRecord
  <2> QED BY <2>2, <1>0, <1>5
<1>6. CASE k \in {"archive", "unarchive"}
  <2>1. ChatEffect(k, u, r) = [r EXCEPT !.hidden = (k = "archive")] BY <1>6 DEF ChatEffect
  <2>2. /\ ChatEffect(k, u, r).posts = r.posts /\ ChatEffect(k, u, r).read = r.read
        /\ ChatEffect(k, u, r).touched = r.touched
    BY <2>1, <1>0 DEF DialogRecord
  <2> QED BY <2>2, <1>0, <1>6
<1>7. CASE k = "manage" BY <1>7 DEF ChatEffect, DialogRecord
<1>8. CASE k = "create"
  <2>1. ChatEffect(k, u, r) \in {r, [r EXCEPT !.in = TRUE, !.made = TRUE, !.own = TRUE, !.card = 1]}
    BY <1>8 DEF ChatEffect
  <2>2. /\ ChatEffect(k, u, r).posts = r.posts /\ ChatEffect(k, u, r).read = r.read
        /\ ChatEffect(k, u, r).touched = r.touched
    BY <2>1, <1>0 DEF DialogRecord
  <2> QED BY <2>2, <1>0, <1>8
<1>9. CASE k \in {"leave", "delete"}
  <2>1. ChatEffect(k, u, r) = [r EXCEPT !.in = FALSE] BY <1>9 DEF ChatEffect
  <2>2. /\ ChatEffect(k, u, r).posts = r.posts /\ ChatEffect(k, u, r).read = r.read
        /\ ChatEffect(k, u, r).touched = r.touched
    BY <2>1, <1>0 DEF DialogRecord
  <2> QED BY <2>2, <1>0, <1>9
<1> QED BY <1>1, <1>2, <1>3, <1>4, <1>5, <1>6, <1>7, <1>8, <1>9 DEF OwnKinds

LEMMA PeerEffectKeeps ==
  ASSUME NEW r \in DialogRecord, NEW k \in PeerKinds, r.read <= r.posts
  PROVE  LET e == PeerEffect(k, r) IN
         /\ e \in DialogRecord
         /\ e.posts >= r.posts /\ e.read = r.read
         /\ k \notin {"message_created", "message_updated"} => e.posts = r.posts /\ e.touched = r.touched
<1> DEFINE p == r.posts + 1  c == r.card + 1
<1>0. p \in Nat /\ c \in Nat /\ r.posts \in Nat /\ r.read \in Nat BY DEF DialogRecord
<1>1. CASE k = "message_created"
  <2>1. PeerEffect(k, r) = [r EXCEPT !.posts = p, !.hidden = FALSE] BY <1>1 DEF PeerEffect
  <2>2. PeerEffect(k, r).posts = p /\ PeerEffect(k, r).read = r.read
    <3> HIDE DEF p
    <3> QED BY <2>1, <1>0 DEF DialogRecord
  <2>3. [r EXCEPT !.posts = p, !.hidden = FALSE] \in DialogRecord BY <1>0, TwoNumbers, Zenon
  <2>4. PeerEffect(k, r) \in DialogRecord BY <2>1, <2>3, Zenon
  <2> HIDE DEF p
  <2> QED BY <2>2, <2>4, <1>0, <1>1 DEF p
<1>2. CASE k = "message_updated" BY <1>2 DEF PeerEffect, DialogRecord
<1>3. CASE k = "renamed" BY <1>3 DEF PeerEffect, DialogRecord
<1>4. CASE k = "owner_left"
  <2>1. PeerEffect(k, r) = [r EXCEPT !.own = TRUE, !.card = c] BY <1>4 DEF PeerEffect
  <2>2. /\ PeerEffect(k, r).posts = r.posts /\ PeerEffect(k, r).read = r.read
        /\ PeerEffect(k, r).touched = r.touched
    <3> HIDE DEF c
    <3> QED BY <2>1, <1>0 DEF DialogRecord
  <2>3. [r EXCEPT !.own = TRUE, !.card = c] \in DialogRecord BY <1>0, TwoNumbers, Zenon
  <2>4. PeerEffect(k, r) \in DialogRecord BY <2>1, <2>3, Zenon
  <2> HIDE DEF c
  <2> QED BY <2>2, <2>4, <1>0, <1>4
<1>5. CASE k = "member_added"
  <2>1. PeerEffect(k, r) = [r EXCEPT !.in = TRUE, !.own = FALSE, !.card = c] BY <1>5 DEF PeerEffect
  <2>2. /\ PeerEffect(k, r).posts = r.posts /\ PeerEffect(k, r).read = r.read
        /\ PeerEffect(k, r).touched = r.touched
    <3> HIDE DEF c
    <3> QED BY <2>1, <1>0 DEF DialogRecord
  <2>3. [r EXCEPT !.in = TRUE, !.own = FALSE, !.card = c] \in DialogRecord BY <1>0, TwoNumbers, Zenon
  <2>4. PeerEffect(k, r) \in DialogRecord BY <2>1, <2>3, Zenon
  <2> HIDE DEF c
  <2> QED BY <2>2, <2>4, <1>0, <1>5
<1>6. CASE k \in {"member_removed", "deleted"}
  <2>1. PeerEffect(k, r) = [r EXCEPT !.in = FALSE] BY <1>6 DEF PeerEffect
  <2>2. /\ PeerEffect(k, r).posts = r.posts /\ PeerEffect(k, r).read = r.read
        /\ PeerEffect(k, r).touched = r.touched /\ PeerEffect(k, r) \in DialogRecord
    BY <2>1, <1>0 DEF DialogRecord
  <2> QED BY <2>2, <1>0, <1>6
<1> QED BY <1>1, <1>2, <1>3, <1>4, <1>5, <1>6 DEF PeerKinds

(* The deed that is answered, served or begun.                             *)
LEMMA DeedIsRecord ==
  ASSUME NEW j \in DeedRecord
  PROVE  /\ j.kind \in OwnKinds \cup {"mark"} /\ j.dialog \in Dialogs /\ j.upTo \in Nat
         /\ \A s \in {"sent", "served", "refused"}, u \in Nat :
              /\ [j EXCEPT !.state = s] \in DeedRecord
              /\ [j EXCEPT !.state = s, !.upTo = u] \in DeedRecord
              /\ [j EXCEPT !.kind = "mark", !.state = s] \in DeedRecord
<1> USE DEF DeedRecord
<1> QED OBVIOUS

LEMMA NewDeed ==
  ASSUME NEW k \in OwnKinds \cup {"mark"}, NEW d \in Dialogs, NEW u \in Nat, done \in Nat
  PROVE  Deed(k, d, u) \in DeedRecord
<1> HIDE DEF OwnKinds
<1> QED BY DEF Deed, DeedRecord
-----------------------------------------------------------------------------
(* Whatever happens but the reading and the arrival of a feed: feeds stay   *)
(* as they are, and stale or under way unless they are asked for again.    *)
FeedsKeep ==
  /\ feed' = feed /\ feedAnswer' \in [Dialogs -> FeedMarks]
  /\ feedSent' \in [Dialogs -> {"none", "sent", "read"}]
  /\ feedStale \subseteq feedStale' /\ feedStale' \subseteq {d \in Dialogs : feed[d] # NoFeed}
  /\ chatMissed' \in BOOLEAN /\ (chatMissed => chatMissed')
  /\ \A d \in Dialogs : feedSent'[d] = "read" =>
       feedSent[d] = "read" /\ (feedAnswer'[d] = feedAnswer[d] \/ chatMissed')
(* The feed of a dialog is asked for again.                                *)
FeedWillCome(d) ==
  /\ feed[d] = NoFeed \/ d \in feedStale'
  /\ feedSent'[d] = "read" => chatMissed'

LEMMA OpensWhatIsListed ==
  ASSUME NEW d \in Dialogs \cup {NoDialog}, NEW list, NEW x \in ClosesTo(d, list)
  PROVE  x \in DOMAIN list \cup {NoDialog}
BY DEF ClosesTo

LEMMA Mounted ==
  ASSUME ChatData, MountFeed, opened' \in Dialogs \cup {NoDialog}, chatMissed' = chatMissed
  PROVE  FeedsKeep
BY DEF ChatData, MountFeed, FeedsKeep, feedVars

LEMMA FeedInvalidated ==
  ASSUME ChatData, NEW d \in Dialogs, InvalidateFeed(d)
  PROVE  FeedsKeep /\ FeedWillCome(d)
<1>1. \A e \in Dialogs : feedSent'[e] = IF e = d /\ Restarts(d) THEN "sent" ELSE feedSent[e]
  BY DEF ChatData, InvalidateFeed
<1>2. \A e \in Dialogs : feedAnswer'[e] = IF e = d /\ Restarts(d) THEN NoFeed ELSE feedAnswer[e]
  BY DEF ChatData, InvalidateFeed
<1>3. /\ feedSent' \in [Dialogs -> {"none", "sent", "read"}]
      /\ feedAnswer' \in [Dialogs -> FeedMarks]
  BY DEF ChatData, InvalidateFeed, FeedMarks
<1>4. /\ feedStale \subseteq feedStale' /\ feedStale' \subseteq {e \in Dialogs : feed[e] # NoFeed}
      /\ feed[d] = NoFeed \/ d \in feedStale'
  BY DEF ChatData, InvalidateFeed
<1>5. /\ chatMissed' \in BOOLEAN /\ (chatMissed => chatMissed')
      /\ feedSent[d] = "read" => chatMissed' \/ Restarts(d)
  BY DEF ChatData, InvalidateFeed
<1> QED BY <1>1, <1>2, <1>3, <1>4, <1>5 DEF FeedsKeep, FeedWillCome, InvalidateFeed

LEMMA ChatInvalidated ==
  ASSUME ChatData, NEW d \in Dialogs, NEW what \in SUBSET {"list", "feed"}, ChatInvalidate(d, what),
         opened' = opened
  PROVE  /\ FeedsKeep /\ chatList' = chatList /\ listSent' \in BOOLEAN
         /\ "list" \in what \/ listSent => listSent'
         /\ "feed" \in what => FeedWillCome(d)
<1>1. FeedsKeep /\ ("feed" \in what => FeedWillCome(d))
  <2>1. CASE "feed" \in what BY <2>1, FeedInvalidated DEF ChatInvalidate
  <2>2. CASE "feed" \notin what BY <2>2 DEF ChatInvalidate, FeedsKeep, ChatData, feedVars
  <2> QED BY <2>1, <2>2
<1>2. chatList' = chatList /\ (listSent' = listSent \/ listSent' = TRUE) /\ ("list" \in what => listSent')
  BY DEF ChatInvalidate, InvalidateList, listVars
<1>3. listSent' \in BOOLEAN
  <2>1. listSent \in BOOLEAN BY DEF ChatData
  <2> QED BY <1>2, <2>1
<1>4. "list" \in what \/ listSent => listSent' BY <1>2, Zenon
<1> QED BY <1>1, <1>2, <1>3, <1>4, Zenon

LEMMA FeedsAreKept ==
  ASSUME ChatData, ChatNext, ~\E d \in Dialogs : ReadFeed(d) \/ FeedArrives(d)
  PROVE  FeedsKeep
<1> USE DEF ChatData
<1>0. ASSUME UNCHANGED feedVars, chatMissed' \in BOOLEAN, chatMissed => chatMissed' PROVE FeedsKeep
  BY <1>0 DEF FeedsKeep, feedVars
<1>1. CASE DialogsArrive
  <2>1. opened' \in Dialogs \cup {NoDialog} BY <1>1, OpensWhatIsListed DEF DialogsArrive, Listing
  <2> QED BY <1>1, <2>1, Mounted DEF DialogsArrive
<1>2. CASE MarkTimerFires BY <1>0, <1>2 DEF MarkTimerFires
<1>3. CASE BackToList BY <1>0, <1>3 DEF BackToList
<1>4. ASSUME NEW d \in Dialogs, OpenDialog(d) PROVE FeedsKeep BY <1>4, Mounted DEF OpenDialog
<1>5. ASSUME NEW d \in Dialogs, PickHit(d) PROVE FeedsKeep
  <2>1. opened' \in Dialogs \cup {NoDialog} BY <1>5, OpensWhatIsListed DEF PickHit
  <2> QED BY <1>5, <2>1, Mounted DEF PickHit
<1>6. ASSUME NEW d \in Dialogs, NEW k \in OwnKinds, Act(k, d) PROVE FeedsKeep
  BY <1>0, <1>6 DEF Act
<1>7. ASSUME NEW d \in Dialogs, NEW k \in PeerKinds, PeerActs(k, d) PROVE FeedsKeep
  BY <1>0, <1>7 DEF PeerActs
<1>8. ASSUME NEW j \in deeds, ServeDeed(j) PROVE FeedsKeep BY <1>0, <1>8 DEF ServeDeed
<1>9. ASSUME NEW j \in deeds, DeedDone(j) PROVE FeedsKeep
  <2>0. j.dialog \in Dialogs BY DEF DeedRecord
  <2>1. CASE opened' = opened
    <3>1. MakesStale(j.kind) \in SUBSET {"list", "feed"}
      BY DEF MakesStale, PostMakesStale, TouchMakesStale, SettingMakesStale
    <3> QED BY <2>0, <2>1, <3>1, <1>9, ChatInvalidated DEF DeedDone
  <2>2. CASE opened' # opened
    <3>1. opened' \in Dialogs \cup {NoDialog}
      BY <2>0, <1>9, OpensWhatIsListed DEF DeedDone, AfterDeed
    <3> QED BY <3>1, <2>2, <1>9, Mounted DEF DeedDone
  <2> QED BY <2>1, <2>2
<1>10. ASSUME NEW j \in deeds, DeedFails(j) PROVE FeedsKeep BY <1>0, <1>10 DEF DeedFails
<1>11. ASSUME NEW n \in chatNews, Event(n) PROVE FeedsKeep
  <2>0. n.dialog \in Dialogs BY DEF NewsRecord
  <2>1. CASE EventCloses(n.kind) /\ n.dialog = opened
    <3>1. opened' \in Dialogs \cup {NoDialog}
      BY <2>1, <1>11, OpensWhatIsListed DEF Event
    <3> QED BY <3>1, <2>1, <1>11, Mounted DEF Event
  <2>2. CASE ~(EventCloses(n.kind) /\ n.dialog = opened)
    <3>1. EventMakesStale(n.kind) \in SUBSET {"list", "feed"} BY DEF EventMakesStale
    <3> QED BY <2>0, <2>2, <3>1, <1>11, ChatInvalidated DEF Event
  <2> QED BY <2>1, <2>2
<1> QED BY <1>1, <1>2, <1>3, <1>4, <1>5, <1>6, <1>7, <1>8, <1>9, <1>10, <1>11 DEF ChatNext
-----------------------------------------------------------------------------

LEMMA ChatDataStep == ChatData /\ ReadIsPosted /\ [ChatNext]_chatVars => ChatData'
<1> SUFFICES ASSUME ChatData, ReadIsPosted, [ChatNext]_chatVars PROVE ChatData' OBVIOUS
<1> DEFINE D == dialog \in [Dialogs -> DialogRecord]
           J == deeds \subseteq DeedRecord /\ done \in Nat
           N == chatNews \subseteq NewsRecord
           L == /\ chatList = [d \in DOMAIN chatList |-> chatList[d]] /\ DOMAIN chatList \subseteq Dialogs
                /\ opened \in DOMAIN chatList \cup {NoDialog}
           F == /\ feed \in [Dialogs -> FeedMarks] /\ feedAnswer \in [Dialogs -> FeedMarks]
                /\ feedSent \in [Dialogs -> {"none", "sent", "read"}]
                /\ feedStale \subseteq {d \in Dialogs : feed[d] # NoFeed}
           B == {listSent, chatMissed, wide, archive} \subseteq BOOLEAN
<1>0. D /\ J /\ N /\ L /\ F /\ B BY DEF ChatData
<1>1. CASE ~\E d \in Dialogs : ReadFeed(d) \/ FeedArrives(d)
  <2>1. CASE UNCHANGED chatVars
    BY <2>1, <1>0 DEF chatVars, listVars, feedVars, ChatData
  <2>2. CASE ChatNext
    <3>0. FeedsKeep BY <1>1, <2>2, FeedsAreKept
    <3>1. F' BY <3>0, <1>0 DEF FeedsKeep
    <3>2. (D /\ J /\ N /\ L /\ B)'
      <4>1. CASE DialogsArrive
        <5>1. L'
          <6>1. opened' \in DOMAIN Listing \cup {NoDialog}
            BY <4>1, <1>0, OpensWhatIsListed DEF DialogsArrive
          <6> QED BY <4>1, <6>1 DEF DialogsArrive, Listing
        <5> QED BY <4>1, <5>1, <1>0 DEF DialogsArrive
      <4>2. CASE MarkTimerFires
        <5>0. opened \in Dialogs /\ Last \in Nat
          BY <4>2, <1>0, ChatAssumption DEF MarkTimerFires, Last, Unmarked, FeedMarks
        <5>1. Deed("mark", opened, Last) \in DeedRecord BY <5>0, <1>0, NewDeed
        <5>2. J' BY <4>2, <5>1, <1>0 DEF MarkTimerFires
        <5> QED BY <4>2, <5>2, <1>0 DEF MarkTimerFires, listVars
      <4>3. CASE BackToList BY <4>3, <1>0 DEF BackToList, listVars
      <4>4. ASSUME NEW d \in Dialogs, OpenDialog(d) PROVE (D /\ J /\ N /\ L /\ B)'
        BY <4>4, <1>0 DEF OpenDialog, listVars
      <4>5. ASSUME NEW d \in Dialogs, PickHit(d) PROVE (D /\ J /\ N /\ L /\ B)'
        <5>1. opened' \in DOMAIN chatList \cup {NoDialog} BY <4>5, OpensWhatIsListed DEF PickHit
        <5> QED BY <4>5, <5>1, <1>0 DEF PickHit, listVars
      <4>6. ASSUME NEW d \in Dialogs, NEW k \in OwnKinds, Act(k, d) PROVE (D /\ J /\ N /\ L /\ B)'
        <5>1. Deed(k, d, 0) \in DeedRecord BY <1>0, NewDeed
        <5>2. J' BY <4>6, <5>1, <1>0 DEF Act
        <5> QED BY <4>6, <5>2, <1>0 DEF Act, listVars
      <4>7. ASSUME NEW d \in Dialogs, NEW k \in PeerKinds, PeerActs(k, d) PROVE (D /\ J /\ N /\ L /\ B)'
        <5>1. PeerEffect(k, dialog[d]) \in DialogRecord
          BY <1>0, PeerEffectKeeps DEF ReadIsPosted
        <5>2. D' BY <4>7, <5>1, <1>0 DEF PeerActs
        <5>3. N' BY <4>7, <1>0 DEF PeerActs, NewsRecord
        <5> QED BY <4>7, <5>2, <5>3, <1>0 DEF PeerActs, listVars
      <4>8. ASSUME NEW j \in deeds, ServeDeed(j) PROVE (D /\ J /\ N /\ L /\ B)'
        <5>0. j \in DeedRecord BY <1>0
        <5>1. CASE Accepts(j.kind, j.dialog)
          <6>1. ChatEffect(j.kind, j.upTo, dialog[j.dialog]) \in DialogRecord
            BY <1>0, <5>0, DeedIsRecord, EffectIsRecord
          <6>2. D' BY <4>8, <5>1, <6>1, <1>0 DEF ServeDeed
          <6>3. dialog'[j.dialog].posts \in Nat BY <6>2, <5>0, DeedIsRecord DEF DialogRecord
          <6>4. PICK u \in Nat : deeds' = (deeds \ {j}) \cup {[j EXCEPT !.state = "served", !.upTo = u]}
            <7>1. CASE j.kind \in {"post", "reply"} BY <7>1, <4>8, <5>1, <6>3 DEF ServeDeed
            <7>2. CASE j.kind \notin {"post", "reply"}
              BY <7>2, <4>8, <5>1, <5>0, DeedIsRecord DEF ServeDeed
            <7> QED BY <7>1, <7>2
          <6>5. J' BY <6>4, <5>0, <4>8, <1>0, DeedIsRecord DEF ServeDeed
          <6> QED BY <4>8, <6>2, <6>5, <1>0 DEF ServeDeed, listVars
        <5>2. CASE ~Accepts(j.kind, j.dialog)
          <6>1. [j EXCEPT !.state = "refused"] \in DeedRecord BY <5>0, DeedIsRecord
          <6>2. deeds' = (deeds \ {j}) \cup {[j EXCEPT !.state = "refused"]} /\ UNCHANGED dialog
            BY <5>2, <4>8 DEF ServeDeed
          <6>3. J' BY <6>1, <6>2, <4>8, <1>0 DEF ServeDeed
          <6> QED BY <4>8, <6>2, <6>3, <1>0 DEF ServeDeed, listVars
        <5> QED BY <5>1, <5>2
      <4>9. ASSUME NEW j \in deeds, DeedDone(j) PROVE (D /\ J /\ N /\ L /\ B)'
        <5>0. j \in DeedRecord BY <1>0
        <5>1. [j EXCEPT !.kind = "mark", !.state = "sent"] \in DeedRecord BY <5>0, DeedIsRecord
        <5>2. J' BY <4>9, <5>1, <1>0 DEF DeedDone
        <5>3. opened' \in DOMAIN chatList \cup {NoDialog}
          BY <4>9, <5>0, <1>0, DeedIsRecord, OpensWhatIsListed DEF DeedDone, AfterDeed
        <5>4. chatList' = chatList /\ (listSent' = listSent \/ listSent' = TRUE)
          BY <4>9 DEF DeedDone, ChatInvalidate, InvalidateList, listVars
        <5>5. listSent' \in BOOLEAN /\ chatMissed' \in BOOLEAN BY <5>4, <3>0, <1>0 DEF FeedsKeep
        <5> QED BY <4>9, <5>2, <5>3, <5>4, <5>5, <1>0 DEF DeedDone
      <4>10. ASSUME NEW j \in deeds, DeedFails(j) PROVE (D /\ J /\ N /\ L /\ B)'
        <5>1. chatMissed' \in BOOLEAN BY <3>0 DEF FeedsKeep
        <5> QED BY <4>10, <5>1, <1>0 DEF DeedFails, listVars
      <4>11. ASSUME NEW n \in chatNews, Event(n) PROVE (D /\ J /\ N /\ L /\ B)'
        <5>1. opened' \in DOMAIN chatList \cup {NoDialog}
          BY <4>11, <1>0, OpensWhatIsListed DEF Event
        <5>2. chatList' = chatList /\ (listSent' = listSent \/ listSent' = TRUE)
          BY <4>11 DEF Event, ChatInvalidate, InvalidateList, listVars
        <5>3. listSent' \in BOOLEAN /\ chatMissed' \in BOOLEAN BY <5>2, <3>0, <1>0 DEF FeedsKeep
        <5> QED BY <4>11, <5>1, <5>2, <5>3, <1>0 DEF Event
      <4> QED BY <1>1, <2>2, <4>1, <4>2, <4>3, <4>4, <4>5, <4>6, <4>7, <4>8, <4>9, <4>10, <4>11
          DEF ChatNext
    <3> QED BY <3>1, <3>2 DEF ChatData
  <2> QED BY <2>1, <2>2
<1>2. ASSUME NEW d \in Dialogs, ReadFeed(d) PROVE ChatData'
  <2>1. FeedOf(d) \in FeedMarks BY <1>0 DEF FeedOf, DialogRecord, FeedMarks
  <2>2. F' BY <1>0, <1>2, <2>1 DEF ReadFeed
  <2>3. (D /\ J /\ N /\ L /\ B)' BY <1>0, <1>2 DEF ReadFeed, listVars
  <2> QED BY <2>2, <2>3 DEF ChatData
<1>3. ASSUME NEW d \in Dialogs, FeedArrives(d) PROVE ChatData'
  <2>1. \A e \in Dialogs \ {d} : feed'[e] = feed[e] BY <1>0, <1>3 DEF FeedArrives
  <2>2. F' BY <1>0, <1>3, <2>1 DEF FeedArrives, FeedMarks
  <2>3. (D /\ J /\ N /\ L /\ B)' BY <1>0, <1>3 DEF FeedArrives, listVars
  <2> QED BY <2>2, <2>3 DEF ChatData
<1> QED BY <1>1, <1>2, <1>3
-----------------------------------------------------------------------------
(* The dialog one step changes, and how.                                   *)
LEMMA ServedDialog ==
  ASSUME ChatData, ReadIsPosted, NEW j \in deeds, ServeDeed(j), Accepts(j.kind, j.dialog),
         NEW d \in Dialogs
  PROVE  dialog'[d] = IF d = j.dialog THEN ChatEffect(j.kind, j.upTo, dialog[d]) ELSE dialog[d]
<1>1. j.dialog \in Dialogs BY DEF ChatData, DeedRecord
<1> QED BY <1>1 DEF ServeDeed, ChatData

LEMMA PeersDialog ==
  ASSUME ChatData, NEW e \in Dialogs, NEW k \in PeerKinds, PeerActs(k, e), NEW d \in Dialogs
  PROVE  dialog'[d] = IF d = e THEN PeerEffect(k, dialog[d]) ELSE dialog[d]
BY DEF PeerActs, ChatData

LEMMA OtherDialogs ==
  ASSUME ChatNext, ~\E j \in deeds : ServeDeed(j) /\ Accepts(j.kind, j.dialog),
         ~\E d \in Dialogs, k \in PeerKinds : PeerActs(k, d)
  PROVE  UNCHANGED dialog
BY DEF ChatNext, DialogsArrive, MarkTimerFires, BackToList, ReadFeed, FeedArrives, OpenDialog, PickHit,
       Act, ServeDeed, DeedDone, DeedFails, Event

LEMMA DialogsGrow ==
  ASSUME ChatData, ReadIsPosted, [ChatNext]_chatVars, NEW d \in Dialogs
  PROVE  /\ dialog'[d].posts >= dialog[d].posts /\ dialog'[d].read >= dialog[d].read
         /\ dialog'[d].read <= dialog'[d].posts
<1>0. /\ dialog[d] \in DialogRecord /\ dialog[d].read <= dialog[d].posts
      /\ dialog[d].posts \in Nat /\ dialog[d].read \in Nat
  BY DEF ChatData, ReadIsPosted, DialogRecord
<1>1. ASSUME NEW j \in deeds, ServeDeed(j), Accepts(j.kind, j.dialog)
      PROVE  /\ dialog'[d].posts >= dialog[d].posts /\ dialog'[d].read >= dialog[d].read
             /\ dialog'[d].read <= dialog'[d].posts
  <2>1. j \in DeedRecord /\ j.upTo <= dialog[j.dialog].posts BY DEF ChatData, ReadIsPosted
  <2>2. CASE d = j.dialog
    <3>1. dialog'[d] = ChatEffect(j.kind, j.upTo, dialog[d]) BY <1>1, <2>2, ServedDialog
    <3>2. j.kind \in OwnKinds \cup {"mark"} /\ j.upTo \in Nat /\ j.upTo <= dialog[d].posts
      BY <2>1, <2>2, DeedIsRecord
    <3>3. LET e == ChatEffect(j.kind, j.upTo, dialog[d])
          IN  e.posts >= dialog[d].posts /\ e.read >= dialog[d].read /\ e.read <= e.posts
      <4> HIDE DEF OwnKinds
      <4> QED BY <3>2, <1>0, EffectKeeps
    <3> QED BY <3>1, <3>3
  <2>3. CASE d # j.dialog
    <3>1. dialog'[d] = dialog[d] BY <1>1, <2>3, ServedDialog
    <3> QED BY <3>1, <1>0
  <2> QED BY <2>2, <2>3
<1>2. ASSUME NEW e \in Dialogs, NEW k \in PeerKinds, PeerActs(k, e)
      PROVE  /\ dialog'[d].posts >= dialog[d].posts /\ dialog'[d].read >= dialog[d].read
             /\ dialog'[d].read <= dialog'[d].posts
  <2>1. PeerEffect(k, dialog[d]).posts \in Nat BY <1>0, PeerEffectKeeps DEF DialogRecord
  <2>2. CASE d = e
    <3>1. dialog'[d] = PeerEffect(k, dialog[d]) BY <1>2, <2>2, PeersDialog
    <3> QED BY <3>1, <2>1, <1>0, PeerEffectKeeps
  <2>3. CASE d # e
    <3>1. dialog'[d] = dialog[d] BY <1>2, <2>3, PeersDialog
    <3> QED BY <3>1, <1>0
  <2> QED BY <2>2, <2>3
<1>3. CASE UNCHANGED dialog BY <1>3, <1>0
<1> QED BY <1>1, <1>2, <1>3, OtherDialogs DEF chatVars

LEMMA ReadPostedStep == ChatData /\ ReadIsPosted /\ [ChatNext]_chatVars => ReadIsPosted'
<1> SUFFICES ASSUME ChatData, ReadIsPosted, [ChatNext]_chatVars PROVE ReadIsPosted' OBVIOUS
<1>0. ChatData' BY ChatDataStep
<1>1. \A d \in Dialogs : /\ dialog[d].posts \in Nat /\ dialog'[d].posts \in Nat
                         /\ dialog'[d].posts >= dialog[d].posts /\ dialog'[d].read <= dialog'[d].posts
  BY <1>0, DialogsGrow DEF ChatData, DialogRecord
<1>2. ASSUME NEW d \in Dialogs, NEW m \in FeedMarks, m # NoFeed, m[1] <= dialog[d].posts
      PROVE  m[1] <= dialog'[d].posts
  BY <1>1, <1>2 DEF FeedMarks
<1>3. ASSUME NEW d \in Dialogs
      PROVE  /\ feed'[d] # NoFeed => feed'[d][1] <= dialog'[d].posts
             /\ feedAnswer'[d] # NoFeed => feedAnswer'[d][1] <= dialog'[d].posts
  <2>0. /\ feed[d] \in FeedMarks /\ feedAnswer[d] \in FeedMarks
        /\ feed[d] # NoFeed => feed[d][1] <= dialog[d].posts
        /\ feedAnswer[d] # NoFeed => feedAnswer[d][1] <= dialog[d].posts
    BY DEF ChatData, ReadIsPosted
  <2>1. ASSUME feed'[d] \in {feed[d], feedAnswer[d], FeedOf(d), NoFeed},
               feedAnswer'[d] \in {feedAnswer[d], FeedOf(d), NoFeed}
        PROVE  /\ feed'[d] # NoFeed => feed'[d][1] <= dialog'[d].posts
               /\ feedAnswer'[d] # NoFeed => feedAnswer'[d][1] <= dialog'[d].posts
    <3>1. FeedOf(d) \in FeedMarks /\ FeedOf(d)[1] <= dialog[d].posts
      BY <1>1 DEF FeedOf, FeedMarks, ChatData, DialogRecord
    <3>2. ASSUME NEW m \in {feed[d], feedAnswer[d], FeedOf(d), NoFeed}, m # NoFeed
          PROVE  m[1] <= dialog'[d].posts
      <4>1. m \in FeedMarks /\ m[1] <= dialog[d].posts
        <5>1. CASE m = feed[d] BY <5>1, <2>0, <3>2
        <5>2. CASE m = feedAnswer[d] BY <5>2, <2>0, <3>2
        <5>3. CASE m = FeedOf(d) BY <5>3, <3>1
        <5> QED BY <5>1, <5>2, <5>3, <3>2
      <4> QED BY <4>1, <3>2, <1>2
    <3> QED BY <2>1, <3>2
  <2>2. ASSUME NEW e \in Dialogs, ReadFeed(e)
        PROVE  feed'[d] = feed[d] /\ feedAnswer'[d] \in {feedAnswer[d], FeedOf(d)} /\ UNCHANGED dialog
    BY <2>2 DEF ReadFeed, ChatData
  <2>4. ASSUME NEW e \in Dialogs, FeedArrives(e)
        PROVE  feed'[d] \in {feed[d], feedAnswer[d]} /\ feedAnswer'[d] \in {feedAnswer[d], NoFeed}
    BY <2>4 DEF FeedArrives, ChatData
  <2>5. CASE ~\E e \in Dialogs : ReadFeed(e) \/ FeedArrives(e)
    <3>1. feed' = feed
      <4>1. CASE ChatNext BY <4>1, <2>5, FeedsAreKept DEF FeedsKeep
      <4> QED BY <4>1 DEF chatVars, feedVars
    <3>2. feedAnswer'[d] \in {feedAnswer[d], NoFeed}
      <4>1. CASE feedAnswer' = feedAnswer BY <4>1
      <4>2. CASE \E e \in Dialogs : InvalidateFeed(e) BY <4>2 DEF InvalidateFeed, ChatData
      <4>3. ASSUME NEW j \in deeds, DeedDone(j), opened' = opened
            PROVE  feedAnswer' = feedAnswer \/ InvalidateFeed(j.dialog)
        BY <4>3 DEF DeedDone, ChatInvalidate, feedVars
      <4>4. ASSUME NEW n \in chatNews, Event(n), ~(EventCloses(n.kind) /\ n.dialog = opened)
            PROVE  feedAnswer' = feedAnswer \/ InvalidateFeed(n.dialog)
        BY <4>4 DEF Event, ChatInvalidate, feedVars
      <4>5. (\A j \in deeds : j.dialog \in Dialogs) /\ \A n \in chatNews : n.dialog \in Dialogs
        BY DEF ChatData, DeedRecord, NewsRecord
      <4>6. CASE UNCHANGED feedVars \/ MountFeed BY <4>6, <4>1 DEF MountFeed, feedVars
      <4>7. ASSUME NEW j \in deeds, DeedDone(j), opened' # opened PROVE MountFeed
        BY <4>7 DEF DeedDone
      <4>8. ASSUME NEW n \in chatNews, Event(n), EventCloses(n.kind) /\ n.dialog = opened PROVE MountFeed
        BY <4>8 DEF Event
      <4>9. CASE (\E j \in deeds : DeedDone(j)) \/ \E n \in chatNews : Event(n)
        BY <4>1, <4>2, <4>3, <4>4, <4>5, <4>6, <4>7, <4>8, <4>9
      <4>10. CASE ~((\E j \in deeds : DeedDone(j)) \/ \E n \in chatNews : Event(n))
        <5>1. UNCHANGED feedVars \/ MountFeed
          BY <4>10, <2>5 DEF ChatNext, chatVars, DialogsArrive, MarkTimerFires, BackToList, OpenDialog,
             PickHit, Act, PeerActs, ServeDeed, DeedFails
        <5> QED BY <5>1, <4>6
      <4> QED BY <4>9, <4>10
    <3> QED BY <3>1, <3>2, <2>1
  <2> QED BY <2>1, <2>2, <2>4, <2>5
<1>4. ASSUME NEW j \in deeds' PROVE j.upTo <= dialog'[j.dialog].posts
  <2>0. j \in DeedRecord /\ j.dialog \in Dialogs /\ j.upTo \in Nat BY <1>0 DEF ChatData, DeedRecord
  <2>1. CASE \E i \in deeds : i.dialog = j.dialog /\ j.upTo = i.upTo
    <3>1. j.upTo <= dialog[j.dialog].posts BY <2>1 DEF ReadIsPosted
    <3> QED BY <3>1, <2>0, <1>1
  <2>2. CASE j.upTo = 0 BY <2>2, <2>0, <1>1
  <2>3. CASE j.upTo = dialog'[j.dialog].posts BY <2>3, <2>0, <1>1
  <2>4. ASSUME MarkTimerFires, j \notin deeds PROVE j.upTo <= dialog[j.dialog].posts
    <3>1. j = Deed("mark", opened, Last) BY <2>4 DEF MarkTimerFires
    <3>2. j.dialog = opened /\ j.upTo = Last BY <3>1 DEF Deed
    <3> QED BY <3>2, <2>0, <2>4 DEF Last, MarkTimerFires, ReadIsPosted
  <2>5. ASSUME NEW d \in Dialogs, NEW k \in OwnKinds, Act(k, d), j \notin deeds PROVE j.upTo = 0
    BY <2>5 DEF Act, Deed
  <2>6. ASSUME NEW i \in deeds, ServeDeed(i), j \notin deeds
        PROVE  j.dialog = i.dialog /\ j.upTo \in {i.upTo, dialog'[i.dialog].posts}
    <3>0. i \in DeedRecord BY DEF ChatData
    <3>1. CASE Accepts(i.kind, i.dialog)
      <4>1. PICK u \in {i.upTo, dialog'[i.dialog].posts} : j = [i EXCEPT !.state = "served", !.upTo = u]
        BY <3>1, <2>6 DEF ServeDeed
      <4> QED BY <4>1, <3>0 DEF DeedRecord
    <3>2. CASE ~Accepts(i.kind, i.dialog)
      <4>1. j = [i EXCEPT !.state = "refused"] BY <3>2, <2>6 DEF ServeDeed
      <4> QED BY <4>1, <3>0 DEF DeedRecord
    <3> QED BY <3>1, <3>2
  <2>7. ASSUME NEW i \in deeds, DeedDone(i), j \notin deeds PROVE j.dialog = i.dialog /\ j.upTo = i.upTo
    <3>0. i \in DeedRecord BY DEF ChatData
    <3> QED BY <3>0, <2>7 DEF DeedDone, DeedRecord
  <2>8. CASE j \in deeds BY <2>8, <2>1
  <2>9. ASSUME j \notin deeds
        PROVE  \/ MarkTimerFires \/ \E d \in Dialogs, k \in OwnKinds : Act(k, d)
               \/ \E i \in deeds : ServeDeed(i) \/ DeedDone(i)
    BY <2>9 DEF ChatNext, chatVars, DialogsArrive, BackToList, ReadFeed, FeedArrives, OpenDialog,
             PickHit, PeerActs, DeedFails, Event
  <2> QED BY <2>0, <2>1, <2>2, <2>3, <2>4, <2>5, <2>6, <2>7, <2>8, <2>9, <1>1
<1>5. \A d \in Dialogs : dialog'[d].read <= dialog'[d].posts BY <1>1
<1> QED BY <1>3, <1>4, <1>5 DEF ReadIsPosted
-----------------------------------------------------------------------------
LEMMA ListIsTrueStep == ChatData /\ ReadIsPosted /\ ListIsTrue /\ [ChatNext]_chatVars => ListIsTrue'
<1> SUFFICES ASSUME ChatData, ReadIsPosted, ListIsTrue, [ChatNext]_chatVars PROVE ListIsTrue' OBVIOUS
<1> DEFINE Truly(d) == /\ RowIsTrue(d) \/ Replied(d)
                       /\ d \in DOMAIN chatList => dialog[d].in
<1>0. /\ ListWillCome \/ \A d \in Dialogs : Truly(d)
      /\ dialog \in [Dialogs -> DialogRecord] /\ DOMAIN chatList \subseteq Dialogs
      /\ \A j \in deeds : j \in DeedRecord /\ j.dialog \in Dialogs
  BY DEF ListIsTrue, ChatData, DeedRecord
<1>1. SUFFICES ListWillCome' \/ \A d \in Dialogs : Truly(d)' BY DEF ListIsTrue
<1> HIDE DEF Truly
(* What happens to neither the list nor the dialogs nor what is under way.  *)
<1>2. ASSUME UNCHANGED <<dialog, archive, chatList>>, listSent => listSent', chatMissed => chatMissed',
             chatNews' = chatNews,
             \A j \in deeds : j \in deeds' \/ j.state = "refused"
                              \/ (j.state = "served" /\ j.kind = "touch")
      PROVE  ListWillCome' \/ \A d \in Dialogs : Truly(d)'
  <2>1. CASE ListWillCome BY <2>1, <1>2 DEF ListWillCome
  <2>2. CASE \A d \in Dialogs : Truly(d)
    <3>1. \A d \in Dialogs : RowIsTrue(d)' <=> RowIsTrue(d) BY <1>2 DEF RowIsTrue, Listing
    <3>2. \A d \in Dialogs : Replied(d) => Replied(d)' BY <1>2 DEF Replied
    <3> QED BY <2>2, <3>1, <3>2, <1>2 DEF Truly
  <2> QED BY <1>0, <2>1, <2>2
<1>3. CASE UNCHANGED chatVars BY <1>2, <1>3 DEF chatVars, listVars
<1>4. CASE DialogsArrive
  <2>1. \A d \in Dialogs : RowIsTrue(d)' BY <1>4 DEF DialogsArrive, RowIsTrue, Listing
  <2>2. \A d \in DOMAIN chatList' : dialog'[d].in BY <1>4 DEF DialogsArrive, Listing
  <2> QED BY <2>1, <2>2 DEF Truly
<1>5. CASE MarkTimerFires BY <1>5, <1>2 DEF MarkTimerFires, listVars
<1>6. CASE BackToList BY <1>6, <1>2 DEF BackToList, listVars
<1>7. ASSUME NEW d \in Dialogs, ReadFeed(d) \/ FeedArrives(d) \/ OpenDialog(d) \/ PickHit(d)
      PROVE  ListWillCome' \/ \A e \in Dialogs : Truly(e)'
  BY <1>7, <1>2 DEF ReadFeed, FeedArrives, OpenDialog, PickHit, listVars
<1>8. ASSUME NEW d \in Dialogs, NEW k \in OwnKinds, Act(k, d)
      PROVE  ListWillCome' \/ \A e \in Dialogs : Truly(e)'
  BY <1>8, <1>2 DEF Act, listVars
<1>9. ASSUME NEW d \in Dialogs, NEW k \in PeerKinds, PeerActs(k, d) PROVE ListWillCome'
  BY <1>9 DEF PeerActs, ListWillCome
<1>10. ASSUME NEW j \in deeds, ServeDeed(j)
       PROVE  ListWillCome' \/ \A e \in Dialogs : Truly(e)'
  <2>0. /\ j \in DeedRecord /\ j.dialog \in Dialogs /\ j.state = "sent"
        /\ j.kind \in OwnKinds \cup {"mark"} /\ j.upTo \in Nat
    BY <1>0, <1>10, DeedIsRecord DEF ServeDeed
  <2>1. UNCHANGED <<archive, chatList, listSent, chatMissed, chatNews>>
    BY <1>10 DEF ServeDeed, listVars
  <2>2. \A i \in deeds \ {j} : i \in deeds' BY <1>10 DEF ServeDeed
  <2>3. CASE ListWillCome
    <3>1. \A i \in deeds : i.state = "served" => i # j BY <2>0
    <3> QED BY <2>3, <2>1, <2>2, <3>1 DEF ListWillCome
  <2>4. CASE ~Accepts(j.kind, j.dialog) /\ j.kind = "mark" /\ \A d \in Dialogs : Truly(d)
    <3>1. UNCHANGED dialog BY <2>4, <1>10 DEF ServeDeed
    <3>2. j.dialog \notin DOMAIN chatList /\ ~dialog[j.dialog].in
      BY <2>0, <2>4 DEF Accepts, Truly
    <3>3. \A d \in Dialogs : RowIsTrue(d)' <=> RowIsTrue(d) BY <2>1, <3>1 DEF RowIsTrue, Listing
    <3>4. RowIsTrue(j.dialog) BY <3>2 DEF RowIsTrue, Listing
    <3>5. \A d \in Dialogs \ {j.dialog} : Replied(d) => Replied(d)' BY <2>2 DEF Replied
    <3> QED BY <2>1, <2>4, <3>1, <3>3, <3>4, <3>5 DEF Truly
  <2>5. CASE ~Accepts(j.kind, j.dialog) /\ j.kind # "mark" /\ \A d \in Dialogs : Truly(d)
    <3>1. UNCHANGED dialog BY <2>5, <1>10 DEF ServeDeed
    <3>3. \A d \in Dialogs : RowIsTrue(d)' <=> RowIsTrue(d) BY <2>1, <3>1 DEF RowIsTrue, Listing
    <3>5. \A d \in Dialogs : Replied(d) => Replied(d)' BY <2>0, <2>2, <2>5 DEF Replied
    <3> QED BY <2>1, <2>5, <3>1, <3>3, <3>5 DEF Truly
  <2>6. CASE Accepts(j.kind, j.dialog) /\ \A d \in Dialogs : Truly(d)
    <3>0. PICK u \in {j.upTo, dialog'[j.dialog].posts} : [j EXCEPT !.state = "served", !.upTo = u] \in deeds'
      BY <2>6, <1>10 DEF ServeDeed
    <3>1. PICK i \in deeds' : i.kind = j.kind /\ i.state = "served" /\ i.dialog = j.dialog
      <4> DEFINE i == [j EXCEPT !.state = "served", !.upTo = u]
      <4>1. i.kind = j.kind /\ i.state = "served" /\ i.dialog = j.dialog BY <2>0 DEF DeedRecord
      <4> QED BY <3>0, <4>1
    <3>2. CASE j.kind \notin {"touch", "reply"} BY <3>1, <3>2 DEF ListWillCome
    <3>3. CASE j.kind \in {"touch", "reply"}
      <4>0. dialog[j.dialog] \in DialogRecord /\ dialog[j.dialog].read <= dialog[j.dialog].posts
            /\ j.upTo <= dialog[j.dialog].posts
        BY <1>0, <2>0 DEF ReadIsPosted
      <4>1. \A d \in Dialogs \ {j.dialog} : dialog'[d] = dialog[d] BY <2>6, <1>10, ServedDialog
      <4>2. dialog'[j.dialog] = ChatEffect(j.kind, j.upTo, dialog[j.dialog])
        BY <2>0, <2>6, <1>10, ServedDialog
      <4>3. dialog'[j.dialog].in = dialog[j.dialog].in
        <5> HIDE DEF OwnKinds
        <5> QED BY <3>3, <4>0, <4>2, <2>0, EffectKeeps
      <4>4. \A d \in Dialogs \ {j.dialog} : RowIsTrue(d)' <=> RowIsTrue(d)
        BY <2>1, <4>1 DEF RowIsTrue, Listing
      <4>5. \A d \in Dialogs : Replied(d) => Replied(d)' BY <2>0, <2>2, <3>3 DEF Replied
      <4>6. RowIsTrue(j.dialog)' \/ Replied(j.dialog)'
        <5>1. CASE j.kind = "reply" BY <3>1, <5>1 DEF Replied
        <5>2. CASE j.kind = "touch"
          <6> DEFINE q == j.dialog
          <6>1. /\ dialog'[q].in = dialog[q].in /\ dialog'[q].read = dialog[q].read
                /\ dialog'[q].muted = dialog[q].muted /\ dialog'[q].hidden = dialog[q].hidden
                /\ dialog'[q].card = dialog[q].card /\ dialog'[q].posts = dialog[q].posts
            <7> HIDE DEF OwnKinds
            <7> QED BY <5>2, <4>0, <4>2, <2>0, EffectKeeps
          <6>2. RowIsTrue(q) => RowIsTrue(q)' BY <2>0, <2>1, <6>1 DEF RowIsTrue, Listing
          <6> QED BY <6>2, <4>5, <2>6, <2>0 DEF Truly
        <5> QED BY <5>1, <5>2, <3>3
      <4> QED BY <2>1, <2>6, <4>1, <4>3, <4>4, <4>5, <4>6 DEF Truly
    <3> QED BY <3>2, <3>3
  <2> QED BY <1>0, <2>3, <2>4, <2>5, <2>6
<1>11. ASSUME NEW j \in deeds, DeedDone(j)
       PROVE  ListWillCome' \/ \A e \in Dialogs : Truly(e)'
  <2>0. j \in DeedRecord /\ j.dialog \in Dialogs /\ j.state = "served" BY <1>0, <1>11 DEF DeedDone
  <2>1. CASE j.kind \notin {"touch", "reply"}
    <3>1. "list" \in MakesStale(j.kind)
      BY <2>1 DEF MakesStale, PostMakesStale, SettingMakesStale
    <3>2. listSent' = TRUE BY <3>1, <1>11 DEF DeedDone, ChatInvalidate, InvalidateList
    <3> QED BY <3>2 DEF ListWillCome
  <2>2. CASE j.kind \in {"touch", "reply"}
    <3>1. opened' = opened /\ "list" \notin MakesStale(j.kind)
      BY <2>2, <1>11 DEF DeedDone, AfterDeed, MakesStale, PostMakesStale, TouchMakesStale
    <3>2. UNCHANGED <<dialog, archive, chatList, listSent, chatNews>>
      BY <3>1, <1>11 DEF DeedDone, ChatInvalidate, listVars
    <3>3. chatMissed => chatMissed'
      <4>1. MakesStale(j.kind) \in SUBSET {"list", "feed"}
        BY DEF MakesStale, PostMakesStale, TouchMakesStale, SettingMakesStale
      <4> QED BY <3>1, <4>1, <2>0, <1>11, ChatInvalidated DEF DeedDone, FeedsKeep
    <3>4. \A i \in deeds \ {j} : i \in deeds' BY <1>11 DEF DeedDone
    <3>5. CASE j.kind = "touch" BY <3>2, <3>3, <3>4, <3>5, <2>0, <1>2
    <3>6. CASE ListWillCome BY <3>6, <3>2, <3>3, <3>4, <2>2 DEF ListWillCome
    <3>7. CASE j.kind = "reply" /\ \A d \in Dialogs : Truly(d)
      <4>1. [j EXCEPT !.kind = "mark", !.state = "sent"] \in deeds' BY <3>7, <1>11 DEF DeedDone
      <4>2. Replied(j.dialog)' BY <4>1, <2>0 DEF Replied, DeedRecord
      <4>3. \A d \in Dialogs : Replied(d) => Replied(d)' BY <4>2, <3>4 DEF Replied
      <4>4. \A d \in Dialogs : RowIsTrue(d)' <=> RowIsTrue(d) BY <3>2 DEF RowIsTrue, Listing
      <4> QED BY <3>7, <3>2, <4>3, <4>4 DEF Truly
    <3> QED BY <2>2, <3>5, <3>6, <3>7, <1>0
  <2> QED BY <2>1, <2>2
<1>12. ASSUME NEW j \in deeds, DeedFails(j)
       PROVE  ListWillCome' \/ \A e \in Dialogs : Truly(e)'
  <2>1. CASE j.state = "served"
    BY <2>1, <1>12 DEF DeedFails, ListWillCome
  <2>2. CASE j.state # "served"
    <3>1. UNCHANGED <<dialog, archive, chatList, listSent, chatNews>> /\ (chatMissed => chatMissed')
      BY <1>12 DEF DeedFails, listVars
    <3>2. j.state = "refused" /\ deeds' = deeds \ {j} BY <2>2, <1>12 DEF DeedFails
    <3> QED BY <3>1, <3>2, <1>2
  <2> QED BY <2>1, <2>2
<1>13. ASSUME NEW n \in chatNews, Event(n) PROVE ListWillCome'
  <2>1. listSent' = TRUE BY <1>13 DEF Event, ChatInvalidate, InvalidateList, EventMakesStale
  <2> QED BY <2>1 DEF ListWillCome
<1> QED BY <1>3, <1>4, <1>5, <1>6, <1>7, <1>8, <1>9, <1>10, <1>11, <1>12, <1>13 DEF ChatNext
-----------------------------------------------------------------------------
FeedIsTrue(d) ==
  /\ feed[d] \in {NoFeed, FeedOf(d)} \/ d \in feedStale \/ FeedNews(d)
  /\ feedSent[d] = "read" => feedAnswer[d] = FeedOf(d) \/ FeedNews(d)

(* The feed of a dialog nobody writes to stays what it is.                 *)
LEMMA FeedStays ==
  ASSUME FeedsKeep, NEW d \in Dialogs, FeedIsTrue(d), FeedOf(d)' = FeedOf(d),
         FeedNews(d) => FeedNews(d)'
  PROVE  FeedIsTrue(d)'
<1>1. chatMissed' => FeedNews(d)' BY DEF FeedNews
<1> QED BY <1>1 DEF FeedsKeep, FeedIsTrue

LEMMA FeedsTrueStep == ChatData /\ ReadIsPosted /\ FeedsAreTrue /\ [ChatNext]_chatVars => FeedsAreTrue'
<1> SUFFICES ASSUME ChatData, ReadIsPosted, FeedsAreTrue, [ChatNext]_chatVars, NEW d \in Dialogs
             PROVE  FeedIsTrue(d)'
  BY DEF FeedsAreTrue, FeedIsTrue
<1>0. /\ FeedIsTrue(d) /\ \A j \in deeds : j \in DeedRecord /\ j.dialog \in Dialogs
      /\ \A n \in chatNews : n.kind \in PeerKinds /\ n.dialog \in Dialogs
      /\ \A e \in Dialogs : dialog[e] \in DialogRecord /\ dialog[e].read <= dialog[e].posts
  BY DEF FeedsAreTrue, FeedIsTrue, ChatData, DeedRecord, NewsRecord, ReadIsPosted
<1>1. CASE UNCHANGED chatVars
  <2>1. FeedOf(d)' = FeedOf(d) /\ (FeedNews(d)' <=> FeedNews(d)) BY <1>1 DEF chatVars, FeedOf, FeedNews
  <2> QED BY <1>0, <1>1, <2>1 DEF chatVars, feedVars, FeedIsTrue
<1>2. ASSUME NEW e \in Dialogs, ReadFeed(e) PROVE FeedIsTrue(d)'
  <2>1. FeedOf(d)' = FeedOf(d) /\ (FeedNews(d)' <=> FeedNews(d)) BY <1>2 DEF ReadFeed, FeedOf, FeedNews
  <2>2. feedSent'[d] = "read" => feedAnswer'[d] = FeedOf(d) \/ (feedSent[d] = "read" /\ feedAnswer'[d] = feedAnswer[d])
    BY <1>2 DEF ReadFeed, ChatData
  <2> QED BY <1>0, <1>2, <2>1, <2>2 DEF ReadFeed, FeedIsTrue
<1>3. ASSUME NEW e \in Dialogs, FeedArrives(e) PROVE FeedIsTrue(d)'
  <2>1. FeedOf(d)' = FeedOf(d) /\ (FeedNews(d)' <=> FeedNews(d)) BY <1>3 DEF FeedArrives, FeedOf, FeedNews
  <2>2. CASE d = e BY <1>0, <1>3, <2>1, <2>2 DEF FeedArrives, FeedIsTrue, ChatData
  <2>3. CASE d # e BY <1>0, <1>3, <2>1, <2>3 DEF FeedArrives, FeedIsTrue, ChatData
  <2> QED BY <2>2, <2>3
<1>4. CASE ~UNCHANGED chatVars /\ ~\E e \in Dialogs : ReadFeed(e) \/ FeedArrives(e)
  <2>0. ChatNext /\ FeedsKeep BY <1>4, FeedsAreKept
  <2>1. ASSUME UNCHANGED dialog PROVE FeedOf(d)' = FeedOf(d) BY <2>1 DEF FeedOf
  <2>2. ASSUME UNCHANGED chatNews, \A j \in deeds : j \in deeds' \/ j.state # "served"
        PROVE  FeedNews(d) => FeedNews(d)'
    BY <2>0, <2>2 DEF FeedNews, FeedsKeep
  <2>3. CASE DialogsArrive \/ MarkTimerFires \/ BackToList
    BY <1>0, <2>0, <2>1, <2>2, <2>3, FeedStays DEF DialogsArrive, MarkTimerFires, BackToList
  <2>4. ASSUME NEW e \in Dialogs, OpenDialog(e) \/ PickHit(e) PROVE FeedIsTrue(d)'
    BY <1>0, <2>0, <2>1, <2>2, <2>4, FeedStays DEF OpenDialog, PickHit
  <2>5. ASSUME NEW e \in Dialogs, NEW k \in OwnKinds, Act(k, e) PROVE FeedIsTrue(d)'
    BY <1>0, <2>0, <2>1, <2>2, <2>5, FeedStays DEF Act
  <2>6. ASSUME NEW e \in Dialogs, NEW k \in PeerKinds, PeerActs(k, e) PROVE FeedIsTrue(d)'
    <3>0. chatNews' = chatNews \cup {[kind |-> k, dialog |-> e]} /\ deeds' = deeds /\ chatMissed' = chatMissed
      BY <2>6 DEF PeerActs
    <3>1. FeedNews(d) => FeedNews(d)' BY <3>0 DEF FeedNews
    <3>2. CASE d = e /\ k \in {"message_created", "message_updated"}
      <4> DEFINE n == [kind |-> k, dialog |-> e]
      <4>0. n.kind = k /\ n.dialog = e /\ n \in chatNews' BY <3>0
      <4>1. FeedNews(d)'
        <5> HIDE DEF n
        <5> QED BY <4>0, <3>2 DEF FeedNews
      <4> QED BY <4>1 DEF FeedIsTrue
    <3>3. CASE d # e \/ k \notin {"message_created", "message_updated"}
      <4>1. FeedOf(d)' = FeedOf(d)
        <5>1. CASE d # e BY <5>1, <2>6, PeersDialog DEF FeedOf
        <5>2. CASE d = e /\ k \notin {"message_created", "message_updated"}
          <6>1. dialog'[d] = PeerEffect(k, dialog[d]) BY <5>2, <2>6, PeersDialog
          <6>2. dialog'[d].posts = dialog[d].posts /\ dialog'[d].touched = dialog[d].touched
            BY <6>1, <5>2, <1>0, PeerEffectKeeps
          <6> QED BY <6>2 DEF FeedOf
        <5> QED BY <5>1, <5>2, <3>3
      <4> QED BY <4>1, <3>1, <1>0, <2>0, FeedStays
    <3> QED BY <3>2, <3>3
  <2>7. ASSUME NEW j \in deeds, ServeDeed(j) PROVE FeedIsTrue(d)'
    <3>0. /\ j \in DeedRecord /\ j.dialog \in Dialogs /\ j.state = "sent"
          /\ j.kind \in OwnKinds \cup {"mark"} /\ j.upTo \in Nat /\ j.upTo <= dialog[j.dialog].posts
      BY <1>0, <2>7, DeedIsRecord DEF ServeDeed, ReadIsPosted
    <3>1. FeedNews(d) => FeedNews(d)' BY <2>2, <2>7, <3>0 DEF ServeDeed
    <3>2. CASE ~Accepts(j.kind, j.dialog)
      <4>1. UNCHANGED dialog BY <3>2, <2>7 DEF ServeDeed
      <4> QED BY <4>1, <2>1, <3>1, <1>0, <2>0, FeedStays
    <3>3. CASE Accepts(j.kind, j.dialog) /\ d = j.dialog /\ j.kind \in {"post", "reply", "touch"}
      <4>0. PICK u \in {j.upTo, dialog'[j.dialog].posts} : [j EXCEPT !.state = "served", !.upTo = u] \in deeds'
        BY <3>3, <2>7 DEF ServeDeed
      <4>1. FeedNews(d)' BY <4>0, <3>0, <3>3 DEF FeedNews, DeedRecord
      <4> QED BY <4>1 DEF FeedIsTrue
    <3>4. CASE Accepts(j.kind, j.dialog) /\ (d # j.dialog \/ j.kind \notin {"post", "reply", "touch"})
      <4>1. FeedOf(d)' = FeedOf(d)
        <5>1. CASE d # j.dialog BY <5>1, <3>4, <2>7, ServedDialog DEF FeedOf
        <5>2. CASE d = j.dialog
          <6>1. dialog'[d] = ChatEffect(j.kind, j.upTo, dialog[d]) BY <5>2, <3>4, <2>7, ServedDialog
          <6>2. dialog'[d].posts = dialog[d].posts /\ dialog'[d].touched = dialog[d].touched
            <7> HIDE DEF OwnKinds
            <7> QED BY SMTT(60), <6>1, <5>2, <3>4, <3>0, <1>0, EffectKeeps
          <6> QED BY <6>2 DEF FeedOf
        <5> QED BY <5>1, <5>2
      <4> QED BY <4>1, <3>1, <1>0, <2>0, FeedStays
    <3> QED BY <3>2, <3>3, <3>4
  <2>8. ASSUME NEW j \in deeds, DeedDone(j) PROVE FeedIsTrue(d)'
    <3>0. /\ j \in DeedRecord /\ j.dialog \in Dialogs /\ UNCHANGED <<dialog, chatNews>>
          /\ \A i \in deeds \ {j} : i \in deeds'
      BY <1>0, <2>8 DEF DeedDone
    <3>1. CASE d = j.dialog /\ j.kind \in {"post", "reply", "touch"}
      <4>1. opened' = opened /\ "feed" \in MakesStale(j.kind)
        BY <3>1, <2>8 DEF DeedDone, AfterDeed, MakesStale, PostMakesStale, TouchMakesStale
      <4>2. MakesStale(j.kind) \in SUBSET {"list", "feed"}
        BY DEF MakesStale, PostMakesStale, TouchMakesStale, SettingMakesStale
      <4>3. FeedWillCome(d) BY <4>1, <4>2, <3>0, <3>1, <2>8, ChatInvalidated DEF DeedDone
      <4>4. chatMissed' => FeedNews(d)' BY DEF FeedNews
      <4> QED BY <4>3, <4>4, <2>0 DEF FeedWillCome, FeedIsTrue, FeedsKeep
    <3>2. CASE d # j.dialog \/ j.kind \notin {"post", "reply", "touch"}
      <4>1. FeedNews(d) => FeedNews(d)' BY <3>0, <3>2, <2>0 DEF FeedNews, FeedsKeep
      <4> QED BY <4>1, <3>0, <2>1, <1>0, <2>0, FeedStays
    <3> QED BY <3>1, <3>2
  <2>9. ASSUME NEW j \in deeds, DeedFails(j) PROVE FeedIsTrue(d)'
    <3>1. CASE j.state = "served" BY <3>1, <2>9 DEF DeedFails, FeedIsTrue, FeedNews
    <3>2. CASE j.state # "served" BY <3>2, <2>9, <2>1, <2>2, <1>0, <2>0, FeedStays DEF DeedFails
    <3> QED BY <3>1, <3>2
  <2>10. ASSUME NEW n \in chatNews, Event(n) PROVE FeedIsTrue(d)'
    <3>0. UNCHANGED <<dialog, deeds>> /\ chatNews' = chatNews \ {n} /\ n.dialog \in Dialogs
      BY <1>0, <2>10 DEF Event
    <3>1. CASE d = n.dialog /\ n.kind \in {"message_created", "message_updated"}
      <4>1. ~EventCloses(n.kind) /\ "feed" \in EventMakesStale(n.kind) BY <3>1 DEF EventCloses, EventMakesStale
      <4>2. EventMakesStale(n.kind) \in SUBSET {"list", "feed"} BY DEF EventMakesStale
      <4>3. FeedWillCome(d) BY <4>1, <4>2, <3>0, <3>1, <2>10, ChatInvalidated DEF Event
      <4>4. chatMissed' => FeedNews(d)' BY DEF FeedNews
      <4> QED BY <4>3, <4>4, <2>0 DEF FeedWillCome, FeedIsTrue, FeedsKeep
    <3>2. CASE d # n.dialog \/ n.kind \notin {"message_created", "message_updated"}
      <4>1. FeedNews(d) => FeedNews(d)' BY <3>0, <3>2, <2>0 DEF FeedNews, FeedsKeep
      <4> QED BY <4>1, <3>0, <2>1, <1>0, <2>0, FeedStays
    <3> QED BY <3>1, <3>2
  <2> QED BY <1>4, <2>0, <2>3, <2>4, <2>5, <2>6, <2>7, <2>8, <2>9, <2>10 DEF ChatNext
<1> QED BY <1>1, <1>2, <1>3, <1>4

LEMMA ChatStarts == ChatInit => ChatInv
<1> SUFFICES ASSUME ChatInit PROVE ChatInv OBVIOUS
<1>1. NoOne \in DialogRecord /\ \A b \in BOOLEAN : ExistingDialogs(b) \in DialogRecord
  <2>1. NoOne \in DialogRecord BY DEF NoOne, DialogRecord
  <2>2. ASSUME NEW b \in BOOLEAN PROVE ExistingDialogs(b) \in DialogRecord
    <3> DEFINE In(x) == [x EXCEPT !.in = TRUE]
               Md(x) == [x EXCEPT !.made = b]
               Ow(x) == [x EXCEPT !.own = b]
               Ps(x) == [x EXCEPT !.posts = 1]
               Cd(x) == [x EXCEPT !.card = 1]
    <3>1. \A x \in DialogRecord : /\ In(x) \in DialogRecord /\ Md(x) \in DialogRecord
                                  /\ Ow(x) \in DialogRecord /\ Ps(x) \in DialogRecord
                                  /\ Cd(x) \in DialogRecord
      BY DEF DialogRecord
    <3>2. Cd(Ps(Ow(Md(In(NoOne))))) \in DialogRecord
      <4> HIDE DEF In, Md, Ow, Ps, Cd
      <4> QED BY <2>1, <3>1
    <3>3. Cd(Ps(Ow(Md(In(NoOne))))) = ExistingDialogs(b) BY Zenon DEF ExistingDialogs
    <3> HIDE DEF In, Md, Ow, Ps, Cd
    <3> QED BY <3>2, <3>3
  <2> QED BY <2>1, <2>2
<1>2. PICK old \in SUBSET Dialogs, mine \in BOOLEAN :
        dialog = [d \in Dialogs |-> IF d \in old THEN ExistingDialogs(mine) ELSE NoOne]
  BY DEF ChatInit
<1>3. dialog \in [Dialogs -> DialogRecord] BY <1>1, <1>2
<1>4. \A d \in Dialogs : dialog[d].read = 0 /\ dialog[d].posts \in Nat
  BY <1>2, <1>3 DEF ExistingDialogs, NoOne, DialogRecord
<1>5. ChatData BY <1>3 DEF ChatInit, ChatData, FeedMarks, Listing
<1>6. ReadIsPosted BY <1>4 DEF ChatInit, ReadIsPosted
<1>7. ListIsTrue BY DEF ChatInit, ListIsTrue, RowIsTrue, Listing
<1>8. FeedsAreTrue BY DEF ChatInit, FeedsAreTrue
<1> QED BY <1>5, <1>6, <1>7, <1>8 DEF ChatInv

(* The list and the feeds show what the server has or will be fetched      *)
(* again, and nothing is read, fetched or marked before it is written.     *)
THEOREM ChatInvariant == ChatSpec => []ChatInv
<1>1. ChatInit => ChatInv BY ChatStarts
<1>2. ChatInv /\ [ChatNext]_chatVars => ChatInv'
  BY ChatDataStep, ReadPostedStep, ListIsTrueStep, FeedsTrueStep DEF ChatInv
<1> QED BY <1>1, <1>2, PTL DEF ChatSpec

(* Every variable of the chat keeps its type.                              *)
THEOREM ChatTyped == ChatSpec => []ChatTypeOK
<1>1. ChatInv => ChatTypeOK BY ChatAssumption DEF ChatInv, ChatData, ReadIsPosted, ChatTypeOK
<1> QED BY <1>1, ChatInvariant, PTL

(* When no request, event or fetch is under way any more, the list of      *)
(* dialogs and every feed on the page show what the server has, for any    *)
(* number of dialogs, deeds of this user and deeds of the others.          *)
THEOREM QuietChatAlwaysTrue == ChatSpec => []QuietChatIsTrue
<1>1. ChatInv => QuietChatIsTrue
  <2> SUFFICES ASSUME ChatInv, ~listSent /\ deeds = {} /\ chatNews = {} /\ ~chatMissed
               PROVE  /\ chatList = Listing
                      /\ opened # NoDialog /\ feedSent[opened] = "none" /\ opened \notin feedStale =>
                           feed[opened] \in {NoFeed, FeedOf(opened)}
    BY DEF QuietChatIsTrue
  <2>1. ~ListWillCome /\ \A d \in Dialogs : ~Replied(d) /\ ~FeedNews(d)
    BY DEF ListWillCome, Replied, FeedNews
  <2>2. \A d \in Dialogs : RowIsTrue(d) BY <2>1 DEF ChatInv, ListIsTrue
  <2>3. DOMAIN Listing \subseteq Dialogs /\ Listing = [d \in DOMAIN Listing |-> Listing[d]] BY DEF Listing
  <2>4. DOMAIN chatList \subseteq Dialogs /\ chatList = [d \in DOMAIN chatList |-> chatList[d]]
    BY DEF ChatInv, ChatData
  <2>5. DOMAIN chatList = DOMAIN Listing /\ \A d \in DOMAIN Listing : chatList[d] = Listing[d]
    BY <2>2, <2>3, <2>4 DEF RowIsTrue
  <2>6. chatList = Listing
    <3> HIDE DEF ChatInv
    <3> QED BY <2>3, <2>4, <2>5
  <2>7. opened # NoDialog => opened \in Dialogs BY DEF ChatInv, ChatData
  <2> QED BY <2>1, <2>6, <2>7 DEF ChatInv, FeedsAreTrue
<1> QED BY <1>1, ChatInvariant, PTL

(* What a person has read of a dialog only grows while they are in it: a   *)
(* mark that is late never takes it back.                                  *)
THEOREM ReadAlwaysGrows == ChatSpec => ReadNeverGoesBack
<1>1. ChatInv /\ [ChatNext]_chatVars => \A d \in Dialogs : dialog'[d].read >= dialog[d].read
  BY DialogsGrow DEF ChatInv
<1> QED BY <1>1, ChatInvariant, PTL DEF ChatSpec, ReadNeverGoesBack

-----------------------------------------------------------------------------
(* Documents                                                               *)
DocValue == DocRecord \cup {NoDocument}
Store == [DocIds -> DocValue]
Place == [section : DocSections, parent : Folders \cup {RootFolder}]
Patches == [words : BOOLEAN, text : BOOLEAN, on : BOOLEAN]
JobRecord == [op : DocOps, ids : SUBSET DocIds, to : Place, patch : Patches,
              copy : DocIds \cup {NoDocument}, state : {"sent", "done", "failed"}, result : DocRecord]
GoodJob(j) == j.ids # {} /\ (j.op = "duplicate" => j.copy \in DocIds /\ j.copy \in born /\ j.copy \notin Legacy)

DocsData ==
  /\ docs \in Store /\ shelf \in Store
  /\ docJobs \subseteq JobRecord /\ \A j \in docJobs : GoodJob(j)
  /\ shelfLoad \in [phase : {"none", "asked", "served", "loaded", "failed"}, seen : Store]
  /\ pending \subseteq Papers /\ docUploads \subseteq Papers /\ legacy \subseteq Legacy
  /\ selected \subseteq DocIds /\ Legacy \subseteq born
  /\ sync \in [phase : {"idle", "legacy", "pending"}, left : SUBSET Papers]
  /\ sync.phase = "legacy" => sync.left \subseteq legacy
  /\ place \in [scope : DocSections \cup {AnyPlace}, folder : Folders \cup {RootFolder}, view : {"list", "grid"}]
  /\ note \in [doc : Notes \cup {NoDocument}, open : BOOLEAN, typed : BOOLEAN]
  /\ note.open \/ note.typed => note.doc \in Notes

(* Two copies never have one id.                                           *)
OneCopy == \A i, j \in docJobs : i.op = "duplicate" /\ j.op = "duplicate" /\ i.copy = j.copy => i = j

(* The document whose record an answer brings.                             *)
Target(j) == IF j.op = "duplicate" THEN j.copy ELSE CHOOSE d \in j.ids : TRUE
HasFile(x) == x # NoDocument /\ x.file
(* Something in this tab says that the file of the document is stored.     *)
Claimed(d) ==
  \/ HasFile(shelf[d]) \/ HasFile(shelfLoad.seen[d])
  \/ \E j \in docJobs : j.state = "done" /\ Target(j) = d /\ j.result.file
ClaimsAreTrue == \A d \in DocIds : Claimed(d) => docs[d] = NoDocument \/ docs[d].file

(* An id that is still to be used: a document will be created under it.    *)
NotYet(d) == d \notin born \/ d \in legacy
             \/ \E j \in docJobs : j.op = "duplicate" /\ j.state = "sent" /\ j.copy = d
Nowhere(d) == docs[d] = NoDocument /\ shelf[d] = NoDocument /\ shelfLoad.seen[d] = NoDocument
NewIsNowhere == \A d \in DocIds : NotYet(d) => Nowhere(d) /\ ~Claimed(d)

DocsInv == DocsData /\ OneCopy /\ NewIsNowhere /\ ClaimsAreTrue
-----------------------------------------------------------------------------
(* What a step may do to one document.                                     *)
DocKept(d) ==
  /\ Claimed(d)' => Claimed(d) \/ HasFile(docs'[d])
  /\ HasFile(docs[d]) /\ docs'[d] # NoDocument => HasFile(docs'[d])
  /\ docs[d] = NoDocument /\ docs'[d] # NoDocument => NotYet(d)
  /\ NotYet(d)' => NotYet(d) /\ (Nowhere(d) => Nowhere(d)')

LEMMA KeptIsEnough ==
  ASSUME NewIsNowhere, ClaimsAreTrue, \A d \in DocIds : DocKept(d)
  PROVE  NewIsNowhere' /\ ClaimsAreTrue'
<1>1. NewIsNowhere'
  <2> SUFFICES ASSUME NEW d \in DocIds, NotYet(d)' PROVE Nowhere(d)' /\ ~Claimed(d)' BY DEF NewIsNowhere
  <2>1. Nowhere(d)' /\ ~Claimed(d) BY DEF DocKept, NewIsNowhere
  <2>2. ~HasFile(docs'[d]) BY <2>1 DEF Nowhere, HasFile
  <2> QED BY <2>1, <2>2 DEF DocKept
<1>2. ClaimsAreTrue'
  <2> SUFFICES ASSUME NEW d \in DocIds, Claimed(d)' PROVE docs'[d] = NoDocument \/ docs'[d].file
    BY DEF ClaimsAreTrue
  <2>1. CASE HasFile(docs'[d]) BY <2>1 DEF HasFile
  <2>2. CASE Claimed(d)
    <3>1. docs[d] = NoDocument \/ HasFile(docs[d]) BY <2>2 DEF ClaimsAreTrue, HasFile
    <3>2. ~NotYet(d) BY <2>2 DEF NewIsNowhere
    <3> QED BY <3>1, <3>2 DEF DocKept, HasFile
  <2> QED BY <2>1, <2>2 DEF DocKept
<1> QED BY <1>1, <1>2

(* Documents, requests and ids stay as they are.                           *)
LEMMA NothingMoves ==
  ASSUME UNCHANGED <<docs, shelf, docJobs, born, legacy>>, shelfLoad'.seen = shelfLoad.seen, NEW d \in DocIds
  PROVE  DocKept(d)
BY DEF DocKept, Claimed, NotYet, Nowhere, Target, HasFile

LEMMA OneRequestMore ==
  ASSUME UNCHANGED <<docs, legacy>>, shelfLoad' = shelfLoad, born \subseteq born',
         NEW j, docJobs' = docJobs \cup {j}, j.state = "sent",
         NEW d \in DocIds, shelf'[d] = shelf[d] \/ (shelf[d] # NoDocument /\ shelf'[d].file = shelf[d].file),
         j.op = "duplicate" /\ j.copy = d => d \notin born
  PROVE  DocKept(d)
<1>1. HasFile(shelf'[d]) => HasFile(shelf[d]) BY DEF HasFile
<1>2. Claimed(d)' => Claimed(d)
  BY <1>1 DEF Claimed, Target, HasFile
<1>3. NotYet(d)' => NotYet(d) BY DEF NotYet
<1>4. Nowhere(d) => Nowhere(d)' BY DEF Nowhere
<1> QED BY <1>2, <1>3, <1>4 DEF DocKept

LEMMA FilesAttached ==
  ASSUME DocsData, NEW e \in DocIds, NEW ok \in BOOLEAN, Attached(e, ok),
         UNCHANGED <<docJobs, born, legacy, shelfLoad>>, NEW d \in DocIds
  PROVE  /\ DocKept(d) /\ docs' \in Store /\ shelf' \in Store
         /\ pending' \subseteq pending
<1>0. docs \in Store /\ shelf \in Store /\ NoDocument \notin DocRecord BY DocumentsAssumption DEF DocsData
<1>1. CASE ~(ok /\ MayWrite(e))
  BY <1>0, <1>1, NothingMoves DEF Attached
<1>2. CASE ok /\ MayWrite(e)
  <2>1. docs[e] \in DocRecord BY <1>0, <1>2 DEF MayWrite, Store, DocValue
  <2>2. [docs[e] EXCEPT !.file = TRUE] \in DocRecord /\ [docs[e] EXCEPT !.file = TRUE].file
    BY <2>1 DEF DocRecord
  <2>3. docs' = [docs EXCEPT ![e] = [docs[e] EXCEPT !.file = TRUE]] BY <1>2 DEF Attached
  <2>4. docs' \in Store /\ HasFile(docs'[e]) /\ (d # e => docs'[d] = docs[d])
    BY <1>0, <2>2, <2>3 DEF Store, DocValue, HasFile
  <2>5. CASE shelf[e] = NoDocument
    <3>1. shelf' = shelf BY <1>2, <2>5 DEF Attached
    <3>2. Claimed(d)' => Claimed(d) BY <3>1 DEF Claimed, Target, HasFile
    <3>3. NotYet(d)' <=> NotYet(d) BY DEF NotYet
    <3>4. docs[e] # NoDocument BY <1>2 DEF MayWrite
    <3> QED BY <1>0, <2>4, <3>1, <3>2, <3>3, <3>4, <1>2 DEF DocKept, Nowhere, Attached
  <2>6. CASE shelf[e] # NoDocument
    <3>1. shelf[e] \in DocRecord BY <1>0, <2>6 DEF Store, DocValue
    <3>2. [shelf[e] EXCEPT !.file = TRUE] \in DocRecord BY <3>1 DEF DocRecord
    <3>3. shelf' = [shelf EXCEPT ![e] = [shelf[e] EXCEPT !.file = TRUE]] BY <1>2, <2>6 DEF Attached
    <3>4. shelf' \in Store /\ (d # e => shelf'[d] = shelf[d])
      BY <1>0, <3>2, <3>3 DEF Store, DocValue
    <3>5. Claimed(d)' => Claimed(d) \/ HasFile(docs'[d]) BY <2>4, <3>4 DEF Claimed, Target, HasFile
    <3>6. NotYet(d)' <=> NotYet(d) BY DEF NotYet
    <3>7. docs[e] # NoDocument BY <1>2 DEF MayWrite
    <3> QED BY <1>0, <2>4, <3>4, <3>5, <3>6, <3>7, <1>2 DEF DocKept, Nowhere, Attached
  <2> QED BY <2>5, <2>6
<1> QED BY <1>1, <1>2
-----------------------------------------------------------------------------
LEMMA NoResultIsRecord == NoResult \in DocRecord
<1>1. (CHOOSE s \in DocSections : TRUE) \in DocSections BY DocumentsAssumption
<1> QED BY <1>1 DEF NoResult, DocRecord

LEMMA MovedRecord ==
  ASSUME NEW store \in Store, NEW d \in DocIds, store[d] # NoDocument, NEW to \in Place
  PROVE  /\ Moved(store, d, to) \in Store /\ Moved(store, d, to)[d] \in DocRecord
         /\ Moved(store, d, to)[d].file = store[d].file
<1> DEFINE S(r) == [r EXCEPT !.section = to.section]
           P(r) == [r EXCEPT !.parent = to.parent]
<1>1. store[d] \in DocRecord BY DEF Store, DocValue
<1>2. \A r \in DocRecord : /\ S(r) \in DocRecord /\ S(r).file = r.file
                           /\ P(r) \in DocRecord /\ P(r).file = r.file
  BY DEF DocRecord, Place
<1>3. Moved(store, d, to) = [store EXCEPT ![d] = P(S(store[d]))]
  <2>1. \A q : P(S(q)) = [q EXCEPT !.section = to.section, !.parent = to.parent] BY Zenon
  <2> DEFINE A == [store EXCEPT ![d] = S(@)]
  <2>2. A[d] = S(store[d]) /\ A \in [DocIds -> DocValue]
    <3> HIDE DEF S
    <3> QED BY <1>1, <1>2 DEF Store, DocValue
  <2>3. Moved(store, d, to) = [A EXCEPT ![d] = P(@)] BY Zenon DEF Moved
  <2> HIDE DEF S, P
  <2> QED BY <2>2, <2>3, <1>1, <1>2 DEF Store, DocValue
<1>4. P(S(store[d])) \in DocRecord /\ P(S(store[d])).file = store[d].file
  <2> HIDE DEF S, P
  <2> QED BY <1>1, <1>2
<1> HIDE DEF S, P
<1> QED BY <1>3, <1>4 DEF Store, DocValue

LEMMA EditedRecord ==
  ASSUME NEW store \in Store, NEW d \in DocIds, store[d] # NoDocument, NEW patch \in Patches
  PROVE  /\ Edited(store, d, patch) \in Store /\ Edited(store, d, patch)[d] \in DocRecord
         /\ Edited(store, d, patch)[d].file = store[d].file
         /\ \A e \in DocIds \ {d} : Edited(store, d, patch)[e] = store[e]
<1> DEFINE W(r) == [r EXCEPT !.words = patch.words]
           T(r) == [r EXCEPT !.text = d \in Notes /\ patch.text]
<1>1. store[d] \in DocRecord BY DEF Store, DocValue
<1>2. \A r \in DocRecord : /\ W(r) \in DocRecord /\ W(r).file = r.file
                           /\ T(r) \in DocRecord /\ T(r).file = r.file
  BY DEF DocRecord, Patches
<1>3. Edited(store, d, patch) = [store EXCEPT ![d] = T(W(store[d]))]
  <2> DEFINE A == [store EXCEPT ![d] = W(@)]
  <2>2. A[d] = W(store[d]) /\ A \in [DocIds -> DocValue]
    <3> HIDE DEF W
    <3> QED BY <1>1, <1>2 DEF Store, DocValue
  <2>3. Edited(store, d, patch) = [A EXCEPT ![d] = T(@)] BY Zenon DEF Edited
  <2> HIDE DEF W, T
  <2> QED BY <2>2, <2>3, <1>1, <1>2 DEF Store, DocValue
<1>4. T(W(store[d])) \in DocRecord /\ T(W(store[d])).file = store[d].file
  <2> HIDE DEF W, T
  <2> QED BY <1>1, <1>2
<1> HIDE DEF W, T
<1> QED BY <1>3, <1>4 DEF Store, DocValue

LEMMA IconSet ==
  ASSUME NEW store \in Store, NEW d \in DocIds, store[d] # NoDocument
  PROVE  /\ [store EXCEPT ![d].icon = TRUE] \in Store
         /\ [store EXCEPT ![d].icon = TRUE][d] \in DocRecord
         /\ [store EXCEPT ![d].icon = TRUE][d].file = store[d].file
         /\ \A e \in DocIds \ {d} : [store EXCEPT ![d].icon = TRUE][e] = store[e]
<1> DEFINE I(r) == [r EXCEPT !.icon = TRUE]
<1>1. store[d] \in DocRecord BY DEF Store, DocValue
<1>2. I(store[d]) \in DocRecord /\ I(store[d]).file = store[d].file BY <1>1 DEF DocRecord
<1>3. [store EXCEPT ![d].icon = TRUE] = [store EXCEPT ![d] = I(@)] OBVIOUS
<1> HIDE DEF I
<1> QED BY <1>1, <1>2, <1>3 DEF Store, DocValue

LEMMA JobParts ==
  ASSUME DocsData, NEW j \in docJobs
  PROVE  /\ j \in JobRecord /\ j.op \in DocOps /\ j.to \in Place /\ j.patch \in Patches /\ j.result \in DocRecord
         /\ (CHOOSE d \in j.ids : TRUE) \in j.ids /\ j.ids \subseteq DocIds
         /\ Target(j) \in DocIds /\ (j.op = "duplicate" => j.copy \in DocIds /\ j.copy \in born /\ j.copy \notin Legacy)
BY DEF DocsData, JobRecord, GoodJob, Target

(* What the server does keeps every stored file, and makes no document     *)
(* but a copy.                                                             *)
LEMMA EffectKeepsFiles ==
  ASSUME DocsData, NEW j \in docJobs, DocAccepted(j), NEW d \in DocIds
  PROVE  LET E == DocEffect(docs, j) IN
         /\ E \in Store
         /\ ~(j.op = "duplicate" /\ d = j.copy) =>
              /\ HasFile(docs[d]) /\ E[d] # NoDocument => HasFile(E[d])
              /\ docs[d] = NoDocument => E[d] = NoDocument
<1> DEFINE E == DocEffect(docs, j)
           c == CHOOSE e \in j.ids : TRUE
           Kept == E \in Store /\ (HasFile(docs[d]) /\ E[d] # NoDocument => HasFile(E[d]))
                   /\ (docs[d] = NoDocument => E[d] = NoDocument)
<1>0. /\ docs \in Store /\ c \in j.ids /\ j.ids \subseteq DocIds /\ j.op \in DocOps
      /\ j.to \in Place /\ j.patch \in Patches /\ NoDocument \notin DocRecord
  BY JobParts, DocumentsAssumption DEF DocsData
<1>1. CASE j.op \in {"form", "note"}
  <2>1. E = Edited(docs, c, j.patch) BY <1>1 DEF DocEffect
  <2>2. docs[c] # NoDocument BY <1>0, <1>1 DEF DocAccepted, MayWrite
  <2> HIDE DEF c, E
  <2> QED BY <1>0, <1>1, <2>1, <2>2, EditedRecord DEF E, HasFile
<1>2. CASE j.op \in {"delete", "bulk delete"}
  <2>1. PICK gone : E = Without(docs, gone) BY <1>2 DEF DocEffect
  <2> HIDE DEF E
  <2>2. E \in Store /\ E[d] \in {docs[d], NoDocument} BY <2>1, <1>0 DEF Without, Store, DocValue
  <2> QED BY <1>2, <2>2 DEF E, HasFile
<1>3. CASE j.op \in {"move", "bulk move"}
  <2> DEFINE movable == {e \in {e \in j.ids : MayWrite(e)} : ValidParent(e, j.to.section, j.to.parent)}
  <2>1. E = [e \in DocIds |-> IF e \in movable THEN Moved(docs, e, j.to)[e] ELSE docs[e]]
    BY <1>3 DEF DocEffect
  <2>2. \A e \in movable : docs[e] # NoDocument /\ e \in DocIds BY <1>0 DEF MayWrite
  <2> HIDE DEF E, movable
  <2>3. \A e \in movable : Moved(docs, e, j.to)[e] \in DocRecord /\ Moved(docs, e, j.to)[e].file = docs[e].file
    BY <1>0, <2>2, MovedRecord
  <2>4. E \in Store BY <2>1, <2>3, <1>0 DEF Store, DocValue
  <2>5. E[d] = IF d \in movable THEN Moved(docs, d, j.to)[d] ELSE docs[d] BY <2>1
  <2> QED BY <1>0, <1>3, <2>2, <2>3, <2>4, <2>5 DEF E, HasFile
<1>4. CASE j.op = "duplicate"
  <2>1. E = [docs EXCEPT ![j.copy] = docs[c]] BY <1>4 DEF DocEffect
  <2> HIDE DEF E, c
  <2>2. E \in Store /\ (d # j.copy => E[d] = docs[d]) BY <2>1, <1>0 DEF Store
  <2> QED BY <1>4, <2>2 DEF E
<1>5. CASE j.op = "emoji"
  <2>1. E = [docs EXCEPT ![c].icon = TRUE] BY <1>5 DEF DocEffect
  <2>2. docs[c] # NoDocument BY <1>0, <1>5 DEF DocAccepted, MayWrite
  <2> HIDE DEF E, c
  <2>3. c \in DocIds BY <1>0
  <2>4. /\ E \in Store /\ E[c] \in DocRecord /\ E[c].file = docs[c].file
        /\ \A e \in DocIds \ {c} : E[e] = docs[e]
    BY ZenonT(60), <1>0, <2>1, <2>2, <2>3, IconSet
  <2>5. Kept BY <1>0, <2>2, <2>3, <2>4 DEF HasFile
  <2> QED BY <2>5 DEF E
<1>6. CASE j.op = "star"
  <2>1. E = docs BY <1>6 DEF DocEffect
  <2> QED BY <1>0, <1>6, <2>1
<1> QED BY <1>0, <1>1, <1>2, <1>3, <1>4, <1>5, <1>6 DEF DocOps
-----------------------------------------------------------------------------
LEMMA JobServed ==
  ASSUME DocsData, OneCopy, NewIsNowhere, NEW j \in docJobs, ServeJob(j)
  PROVE  /\ docs' \in Store /\ \A d \in DocIds : DocKept(d)
         /\ \E i \in JobRecord : /\ docJobs' = (docJobs \ {j}) \cup {i} /\ i.state # "sent"
                                 /\ i.op = j.op /\ i.ids = j.ids /\ i.copy = j.copy
<1>0. /\ j \in JobRecord /\ j.op \in DocOps /\ Target(j) \in DocIds /\ j.state = "sent"
      /\ docs \in Store /\ UNCHANGED <<shelf, shelfLoad, born, legacy>>
      /\ j.op = "duplicate" => j.copy \in DocIds
  BY JobParts DEF ServeJob, DocsData
<1>1. CASE ~DocAccepted(j)
  <2> DEFINE i == [j EXCEPT !.state = "failed"]
  <2>1. docJobs' = (docJobs \ {j}) \cup {i} /\ UNCHANGED docs BY <1>1 DEF ServeJob
  <2>2. i \in JobRecord /\ i.state = "failed" /\ i.op = j.op /\ i.ids = j.ids /\ i.copy = j.copy
    BY <1>0 DEF JobRecord
  <2> HIDE DEF i
  <2>3. ASSUME NEW d \in DocIds PROVE DocKept(d)
    <3>1. Claimed(d)' => Claimed(d) BY <1>0, <2>1, <2>2 DEF Claimed, Target, HasFile
    <3>2. NotYet(d)' => NotYet(d) BY <1>0, <2>1, <2>2 DEF NotYet
    <3> QED BY <3>1, <3>2, <1>0, <2>1 DEF DocKept, Nowhere
  <2> QED BY <1>0, <2>1, <2>2, <2>3
<1>2. CASE DocAccepted(j)
  <2> DEFINE E == DocEffect(docs, j)
             r == IF E[Target(j)] = NoDocument THEN NoResult ELSE E[Target(j)]
             i == [j EXCEPT !.state = "done", !.result = r]
  <2>1. docs' = E /\ docJobs' = (docJobs \ {j}) \cup {i}
    BY <1>2 DEF ServeJob, Target
  <2>2. E \in Store BY <1>0, <1>2, EffectKeepsFiles
  <2>3. r \in DocRecord BY <1>0, <2>2, NoResultIsRecord DEF Store, DocValue
  <2>4. i \in JobRecord /\ i.state = "done" /\ i.op = j.op /\ i.ids = j.ids /\ i.copy = j.copy /\ i.result = r
    <3> HIDE DEF r
    <3> QED BY <1>0, <2>3 DEF JobRecord
  <2>5. r.file => HasFile(E[Target(j)]) BY DEF NoResult, HasFile
  <2>6. Target(i) = Target(j)
    <3> HIDE DEF i
    <3> QED BY <2>4 DEF Target
  <2>7. ASSUME NEW d \in DocIds PROVE DocKept(d)
    <3>1. ~(j.op = "duplicate" /\ d = j.copy) =>
             /\ HasFile(docs[d]) /\ E[d] # NoDocument => HasFile(E[d])
             /\ docs[d] = NoDocument => E[d] = NoDocument
      BY <1>2, EffectKeepsFiles
    <3> HIDE DEF E, i
    <3>2. Claimed(d)' => Claimed(d) \/ HasFile(docs'[d])
      <4> SUFFICES ASSUME Claimed(d)' PROVE Claimed(d) \/ HasFile(docs'[d]) OBVIOUS
      <4>1. CASE HasFile(shelf[d]) \/ HasFile(shelfLoad.seen[d]) BY <4>1 DEF Claimed
      <4>2. ASSUME NEW k \in docJobs', k.state = "done" /\ Target(k)' = d /\ k.result.file
            PROVE  Claimed(d) \/ HasFile(docs'[d])
        <5>1. CASE k \in docJobs BY <4>2, <5>1 DEF Claimed, Target
        <5>2. CASE k = i BY <4>2, <5>2, <2>1, <2>4, <2>5, <2>6 DEF Target
        <5> QED BY <5>1, <5>2, <2>1
      <4> QED BY <4>1, <4>2, <1>0 DEF Claimed, HasFile
    <3>3. NotYet(d)' => NotYet(d) BY <1>0, <2>1, <2>4 DEF NotYet
    <3>4. CASE j.op = "duplicate" /\ d = j.copy
      <4>1. NotYet(d) BY <3>4, <1>0 DEF NotYet
      <4>2. docs[d] = NoDocument BY <4>1 DEF NewIsNowhere, Nowhere
      <4>3. ~NotYet(d)'
        <5>1. d \in born /\ d \notin legacy BY <3>4, JobParts DEF DocsData
        <5>2. \A k \in docJobs \ {j} : ~(k.op = "duplicate" /\ k.copy = d) BY <3>4 DEF OneCopy
        <5> QED BY <5>1, <5>2, <1>0, <2>1, <2>4 DEF NotYet
      <4> QED BY <4>1, <4>2, <4>3, <3>2 DEF DocKept, HasFile
    <3>5. CASE ~(j.op = "duplicate" /\ d = j.copy)
      <4>1. Nowhere(d) => Nowhere(d)' BY <3>1, <3>5, <1>0, <2>1 DEF Nowhere
      <4> QED BY <3>1, <3>2, <3>3, <3>5, <4>1, <2>1 DEF DocKept
    <3> QED BY <3>4, <3>5
  <2> HIDE DEF i, E
  <2> QED BY <2>1, <2>2, <2>4, <2>7
<1> QED BY <1>1, <1>2

LEMMA JobLost ==
  ASSUME DocsData, NEW j \in docJobs, LoseJob(j)
  PROVE  /\ \A d \in DocIds : DocKept(d)
         /\ \E i \in JobRecord : /\ docJobs' = (docJobs \ {j}) \cup {i} /\ i.state = "failed"
                                 /\ i.op = j.op /\ i.ids = j.ids /\ i.copy = j.copy
<1> DEFINE i == [j EXCEPT !.state = "failed"]
<1>1. docJobs' = (docJobs \ {j}) \cup {i} /\ UNCHANGED <<docs, shelf, shelfLoad, born, legacy>>
  BY DEF LoseJob
<1>2. i \in JobRecord /\ i.state = "failed" /\ i.op = j.op /\ i.ids = j.ids /\ i.copy = j.copy
  BY JobParts DEF JobRecord
<1> HIDE DEF i
<1>3. ASSUME NEW d \in DocIds PROVE DocKept(d)
  <2>1. Claimed(d)' => Claimed(d) BY <1>1, <1>2 DEF Claimed, Target, HasFile
  <2>2. NotYet(d)' => NotYet(d) BY <1>1, <1>2 DEF NotYet
  <2> QED BY <2>1, <2>2, <1>1 DEF DocKept, Nowhere
<1> QED BY <1>1, <1>2, <1>3

(* What the store makes of an answer.                                      *)
LEMMA AnswerStored ==
  ASSUME DocsData, NEW j \in docJobs, j.state = "done"
  PROVE  /\ DocStored(j) \in Store
         /\ \A d \in DocIds : /\ HasFile(DocStored(j)[d]) => Claimed(d)
                              /\ shelf[d] = NoDocument /\ DocStored(j)[d] # NoDocument =>
                                   j.op = "duplicate" /\ d = j.copy
<1> DEFINE S == DocStored(j)
           c == CHOOSE e \in j.ids : TRUE
           held == j.ids \cap Filled(shelf)
<1>0. /\ shelf \in Store /\ c \in j.ids /\ j.ids \subseteq DocIds /\ j.op \in DocOps
      /\ j.to \in Place /\ j.result \in DocRecord /\ NoDocument \notin DocRecord
      /\ j.op = "duplicate" => j.copy \in DocIds
      /\ j.result.file => Claimed(Target(j))
  BY JobParts, DocumentsAssumption DEF DocsData, Claimed
<1>f. \A d \in DocIds : HasFile(shelf[d]) => Claimed(d) BY DEF Claimed
<1> DEFINE Fine == /\ S \in Store
                   /\ \A d \in DocIds : /\ HasFile(S[d]) => Claimed(d)
                                        /\ shelf[d] = NoDocument /\ S[d] # NoDocument =>
                                             j.op = "duplicate" /\ d = j.copy
<1>1. CASE j.op \in {"delete", "bulk delete"}
  <2>1. PICK gone : S = Without(shelf, gone) BY <1>1 DEF DocStored
  <2> HIDE DEF S
  <2>2. S \in Store /\ \A d \in DocIds : S[d] \in {shelf[d], NoDocument}
    BY <2>1, <1>0 DEF Without, Store, DocValue
  <2>3. Fine BY <1>f, <2>2 DEF HasFile
  <2> QED BY <2>3 DEF S
<1>2. CASE j.op = "bulk move"
  <2>1. S = [d \in DocIds |-> IF d \in held THEN Moved(shelf, d, j.to)[d] ELSE shelf[d]]
    BY <1>2 DEF DocStored
  <2> HIDE DEF S
  <2>2. \A e \in held : shelf[e] # NoDocument /\ e \in DocIds BY <1>0 DEF Filled
  <2> HIDE DEF held
  <2>3. \A e \in held : Moved(shelf, e, j.to)[e] \in DocRecord /\ Moved(shelf, e, j.to)[e].file = shelf[e].file
    BY <1>0, <2>2, MovedRecord
  <2>4. S \in Store BY <2>1, <2>3, <1>0 DEF Store, DocValue
  <2>5. \A d \in DocIds : S[d] = IF d \in held THEN Moved(shelf, d, j.to)[d] ELSE shelf[d] BY <2>1
  <2>6. Fine BY <1>0, <1>f, <2>2, <2>3, <2>4, <2>5 DEF HasFile
  <2> QED BY <2>6 DEF S
<1>3. CASE j.op = "duplicate"
  <2>1. S = [shelf EXCEPT ![j.copy] = j.result] BY <1>3 DEF DocStored
  <2>2. Target(j) = j.copy BY <1>3 DEF Target
  <2> HIDE DEF S
  <2>3. S \in Store /\ \A d \in DocIds : S[d] = IF d = j.copy THEN j.result ELSE shelf[d]
    BY <1>0, <1>3, <2>1 DEF Store, DocValue
  <2>4. Fine BY <1>0, <1>3, <1>f, <2>2, <2>3 DEF HasFile
  <2> QED BY <2>4 DEF S
<1>4. CASE j.op \in {"emoji", "star"}
  <2>1. S = shelf BY <1>4 DEF DocStored
  <2> HIDE DEF S
  <2>2. Fine BY <1>0, <1>f, <2>1
  <2> QED BY <2>2 DEF S
<1>5. CASE j.op \in {"form", "note", "move"}
  <2>1. S = IF c \in held THEN [shelf EXCEPT ![c] = j.result] ELSE shelf BY <1>5 DEF DocStored
  <2>2. Target(j) = c /\ (c \in held => shelf[c] # NoDocument) /\ c \in DocIds BY <1>0, <1>5 DEF Target, Filled
  <2> HIDE DEF S, held, c
  <2>3. S \in Store /\ \A d \in DocIds : S[d] = IF d = c /\ c \in held THEN j.result ELSE shelf[d]
    BY <1>0, <2>1, <2>2 DEF Store, DocValue
  <2>4. Fine BY <1>0, <1>f, <2>2, <2>3 DEF HasFile
  <2> QED BY <2>4 DEF S
<1> QED BY <1>0, <1>1, <1>2, <1>3, <1>4, <1>5 DEF DocOps

LEMMA JobAnswered ==
  ASSUME DocsData, OneCopy, NEW j \in docJobs, AnswerJob(j)
  PROVE  shelf' \in Store /\ \A d \in DocIds : DocKept(d)
<1>0. /\ docJobs' = docJobs \ {j} /\ UNCHANGED <<docs, shelfLoad, born, legacy>> /\ j.state # "sent"
  BY DEF AnswerJob
<1>1. CASE j.state # "done"
  <2>1. shelf' = shelf BY <1>1 DEF AnswerJob
  <2>2. ASSUME NEW d \in DocIds PROVE DocKept(d)
    <3>1. (Claimed(d)' => Claimed(d)) /\ (NotYet(d)' => NotYet(d))
      BY <1>0, <2>1 DEF Claimed, Target, HasFile, NotYet
    <3> QED BY <3>1, <1>0, <2>1 DEF DocKept, Nowhere
  <2> QED BY <2>1, <2>2 DEF DocsData
<1>2. CASE j.state = "done"
  <2>1. shelf' = DocStored(j) BY <1>2 DEF AnswerJob
  <2>2. ASSUME NEW d \in DocIds PROVE DocKept(d)
    <3>0. HasFile(shelf'[d]) => Claimed(d) BY <1>2, <2>1, AnswerStored
    <3>1. Claimed(d)' => Claimed(d) BY <1>0, <3>0 DEF Claimed, Target, HasFile
    <3>2. NotYet(d)' => NotYet(d) BY <1>0 DEF NotYet
    <3>3. ASSUME NotYet(d)', Nowhere(d) PROVE Nowhere(d)'
      <4>1. shelf'[d] # NoDocument => j.op = "duplicate" /\ d = j.copy
        BY <1>2, <2>1, <3>3, AnswerStored DEF Nowhere
      <4>2. ~(j.op = "duplicate" /\ d = j.copy)
        <5> SUFFICES ASSUME j.op = "duplicate", d = j.copy PROVE FALSE OBVIOUS
        <5>1. d \in born /\ d \notin legacy BY JobParts DEF DocsData
        <5>2. \A k \in docJobs' : ~(k.op = "duplicate" /\ k.copy = d) BY <1>0 DEF OneCopy
        <5> QED BY <5>1, <5>2, <3>3, <1>0 DEF NotYet
      <4> QED BY <4>1, <4>2, <3>3, <1>0 DEF Nowhere
    <3> QED BY <3>1, <3>2, <3>3, <1>0 DEF DocKept
  <2> QED BY <1>2, <2>1, <2>2, AnswerStored
<1> QED BY <1>1, <1>2

LEMMA NewDocument ==
  ASSUME DocsData, NewIsNowhere, NEW e \in DocIds, Created(e), UNCHANGED <<docJobs, legacy, shelfLoad>>
  PROVE  docs' \in Store /\ shelf' \in Store /\ \A d \in DocIds : DocKept(d)
<1> DEFINE A(r) == [r EXCEPT !.section = Here.section]
           B(r) == [r EXCEPT !.parent = Here.parent]
           item == B(A(NoResult))
<1>0. /\ docs \in Store /\ shelf \in Store /\ e \notin born /\ born' = born \cup {e}
      /\ NoDocument \notin DocRecord
  BY DocumentsAssumption DEF DocsData, Created, Fresh
<1>1. Here.section \in DocSections /\ Here.parent \in Folders \cup {RootFolder}
  <2>1. (CHOOSE s \in DocSections : TRUE) \in DocSections BY DocumentsAssumption
  <2> QED BY <2>1 DEF Here, DocsData
<1>2. \A r \in DocRecord : /\ A(r) \in DocRecord /\ A(r).file = r.file
                           /\ B(r) \in DocRecord /\ B(r).file = r.file
  <2> HIDE DEF Here
  <2> QED BY <1>1 DEF DocRecord
<1>3. item = [NoResult EXCEPT !.section = Here.section, !.parent = Here.parent] BY Zenon
<1>4. item \in DocRecord /\ ~item.file
  <2>1. NoResult.file = FALSE BY DEF NoResult
  <2> HIDE DEF A, B
  <2> QED BY <1>2, <2>1, NoResultIsRecord
<1>5. docs' = [docs EXCEPT ![e] = item] /\ shelf' = [shelf EXCEPT ![e] = item]
  BY <1>3 DEF Created
<1> HIDE DEF item, A, B
<1>6. docs' \in Store /\ shelf' \in Store BY <1>0, <1>4, <1>5 DEF Store, DocValue
<1>7. ASSUME NEW d \in DocIds PROVE DocKept(d)
  <2>1. CASE d # e
    <3>1. docs'[d] = docs[d] /\ shelf'[d] = shelf[d] BY <1>0, <1>5, <2>1
    <3>2. (Claimed(d)' => Claimed(d)) /\ (NotYet(d)' => NotYet(d))
      BY <3>1, <1>0 DEF Claimed, Target, HasFile, NotYet
    <3> QED BY <3>1, <3>2 DEF DocKept, Nowhere
  <2>2. CASE d = e
    <3>1. docs'[d] = item /\ shelf'[d] = item BY <1>0, <1>5, <2>2 DEF Store
    <3>2. NotYet(d) BY <1>0, <2>2 DEF NotYet
    <3>3. Claimed(d)' => Claimed(d) BY <3>1, <1>4 DEF Claimed, Target, HasFile
    <3>4. docs[d] = NoDocument BY <3>2 DEF NewIsNowhere, Nowhere
    <3>5. ~NotYet(d)'
      <4>1. d \notin legacy BY <1>0, <2>2 DEF DocsData
      <4>2. \A k \in docJobs : k.op = "duplicate" => k.copy # d BY <1>0, <2>2, JobParts
      <4> QED BY <1>0, <2>2, <4>1, <4>2 DEF NotYet
    <3> QED BY <3>2, <3>3, <3>4, <3>5 DEF DocKept, HasFile
  <2> QED BY <2>1, <2>2
<1> QED BY <1>6, <1>7

LEMMA LegacyTried ==
  ASSUME DocsData, OneCopy, NewIsNowhere, NEW e \in DocIds, NEW created \in BOOLEAN, NEW sent \in BOOLEAN,
         SyncLegacy(e, created, sent)
  PROVE  docs' \in Store /\ shelf' \in Store /\ \A d \in DocIds : DocKept(d)
<1> DEFINE item == [NoResult EXCEPT !.file = sent]
<1>0. /\ docs \in Store /\ shelf \in Store /\ UNCHANGED <<docJobs, shelfLoad, born>>
      /\ legacy' = legacy \ {e} /\ e \in legacy /\ NoDocument \notin DocRecord
  BY DocumentsAssumption DEF DocsData, SyncLegacy
<1>1. item \in DocRecord /\ item.file = sent BY NoResultIsRecord DEF DocRecord
<1>2. docs' = (IF created THEN [docs EXCEPT ![e] = item] ELSE docs)
      /\ shelf' = (IF created THEN [shelf EXCEPT ![e] = item] ELSE shelf)
  BY DEF SyncLegacy
<1> HIDE DEF item
<1>3. docs' \in Store /\ shelf' \in Store BY <1>0, <1>1, <1>2 DEF Store, DocValue
<1>4. NotYet(e) /\ docs[e] = NoDocument BY <1>0 DEF NotYet, NewIsNowhere, Nowhere
<1>5. ~NotYet(e)'
  <2>1. e \in born /\ e \in Legacy BY <1>0 DEF DocsData
  <2>2. \A k \in docJobs : k.op = "duplicate" => k.copy # e BY <2>1, JobParts
  <2> QED BY <2>1, <2>2, <1>0 DEF NotYet
<1>6. ASSUME NEW d \in DocIds PROVE DocKept(d)
  <2>1. CASE d # e
    <3>1. docs'[d] = docs[d] /\ shelf'[d] = shelf[d] BY <1>0, <1>2, <2>1 DEF Store
    <3>2. (Claimed(d)' => Claimed(d)) /\ (NotYet(d)' => NotYet(d))
      BY <3>1, <1>0 DEF Claimed, Target, HasFile, NotYet
    <3> QED BY <3>1, <3>2, <1>0 DEF DocKept, Nowhere
  <2>2. CASE d = e
    <3>1. shelf'[d] = shelf[d] \/ shelf'[d] = docs'[d] BY <1>0, <1>2, <2>2 DEF Store
    <3>2. Claimed(d)' => Claimed(d) \/ HasFile(docs'[d]) BY <3>1, <1>0 DEF Claimed, Target, HasFile
    <3> QED BY <3>2, <2>2, <1>4, <1>5 DEF DocKept, HasFile
  <2> QED BY <2>1, <2>2
<1> QED BY <1>3, <1>6

(* The requests of the user: everything but the requests themselves stays. *)
AsksFor(op, ids, copy) ==
  \E j \in JobRecord : /\ docJobs' = docJobs \cup {j} /\ j.state = "sent" /\ j.op = op /\ op \in DocOps
                       /\ j.ids = ids /\ ids # {} /\ j.copy = copy
UserAsks ==
  \E op \in DocOps, ids \in SUBSET DocIds, copy \in DocIds \cup {NoDocument} :
     AsksFor(op, ids, copy) /\ (op = "duplicate" => copy \in DocIds /\ copy \notin born /\ copy \in born')

LEMMA PlaceIsHere == DocsData => Here \in Place
<1> SUFFICES ASSUME DocsData PROVE Here \in Place OBVIOUS
<1>1. (CHOOSE s \in DocSections : TRUE) \in DocSections BY DocumentsAssumption
<1> QED BY <1>1 DEF Here, DocsData, Place

LEMMA RequestsOfTheUser ==
  ASSUME DocsData,
         \/ Autosave
         \/ \E d \in DocIds :
              \/ Remove(d) \/ ToggleFavorite(d) \/ SetEmoji(d)
              \/ \E words \in BOOLEAN : EditByForm(d, words)
              \/ \E s \in DocSections, f \in Folders \cup {RootFolder} : MoveTo(d, s, f)
              \/ \E copy \in DocIds : Duplicate(d, copy)
         \/ \E op \in {"bulk delete", "bulk move"}, s \in DocSections : BulkRequest(op, s)
  PROVE  UserAsks
<1>0. Here \in Place /\ NoPatch \in Patches
      /\ \A b \in BOOLEAN : FormPatch(b) \in Patches /\ [NoPatch EXCEPT !.on = b] \in Patches
  BY PlaceIsHere DEF NoPatch, FormPatch, Patches
<1>p. \A s \in DocSections, f \in Folders \cup {RootFolder} : [section |-> s, parent |-> f] \in Place
  BY DEF Place
<1>a. ASSUME NEW op \in DocOps, NEW ids \in SUBSET DocIds, ids # {}, NEW to \in Place,
             NEW patch \in Patches, NEW copy \in DocIds \cup {NoDocument},
             op = "duplicate" => copy \in DocIds /\ copy \notin born /\ copy \in born',
             DocAsk(op, ids, to, patch, copy)
      PROVE  UserAsks
  <2> DEFINE j == [op |-> op, ids |-> ids, to |-> to, patch |-> patch, copy |-> copy, state |-> "sent",
                   result |-> NoResult]
  <2>1. j \in JobRecord BY NoResultIsRecord DEF JobRecord
  <2>2. docJobs' = docJobs \cup {j} BY <1>a DEF DocAsk
  <2>3. j.state = "sent" /\ j.op = op /\ j.ids = ids /\ j.copy = copy OBVIOUS
  <2> HIDE DEF j
  <2>4. AsksFor(op, ids, copy) BY <1>a, <2>1, <2>2, <2>3 DEF AsksFor
  <2> QED BY <2>4, <1>a DEF UserAsks
<1>1. CASE Autosave
  <2>1. note.doc \in DocIds BY <1>1 DEF DocsData, Autosave, DocIds
  <2>2. [words |-> FALSE, text |-> TRUE, on |-> FALSE] \in Patches BY DEF Patches
  <2> HIDE DEF DocsData
  <2> QED BY <1>0, <1>1, <1>a, <2>1, <2>2 DEF Autosave, DocOps
<1> HIDE DEF DocsData
<1>2. ASSUME NEW d \in DocIds, Remove(d) PROVE UserAsks BY <1>0, <1>2, <1>a DEF Remove, DocOps
<1>3. ASSUME NEW d \in DocIds, ToggleFavorite(d) PROVE UserAsks
  <2>1. (d \notin starred.shelf) \in BOOLEAN OBVIOUS
  <2>2. [NoPatch EXCEPT !.on = d \notin starred.shelf] \in Patches BY <2>1 DEF NoPatch, Patches
  <2> QED BY <1>0, <1>3, <1>a, <2>2 DEF ToggleFavorite, DocOps
<1>4. ASSUME NEW d \in DocIds, SetEmoji(d) PROVE UserAsks BY <1>0, <1>4, <1>a DEF SetEmoji, DocOps
<1>5. ASSUME NEW d \in DocIds, NEW words \in BOOLEAN, EditByForm(d, words) PROVE UserAsks
  BY <1>0, <1>5, <1>a DEF EditByForm, DocOps
<1>6. ASSUME NEW d \in DocIds, NEW s \in DocSections, NEW f \in Folders \cup {RootFolder}, MoveTo(d, s, f)
      PROVE UserAsks
  BY <1>0, <1>p, <1>6, <1>a DEF MoveTo, DocOps
<1>7. ASSUME NEW d \in DocIds, NEW copy \in DocIds, Duplicate(d, copy) PROVE UserAsks
  BY <1>0, <1>7, <1>a DEF Duplicate, Fresh, DocOps
<1>8. ASSUME NEW op \in {"bulk delete", "bulk move"}, NEW s \in DocSections, BulkRequest(op, s)
      PROVE UserAsks
  <2>1. selected # {}
    BY <1>8 DEF BulkRequest, DocOffered, BulkBar, ListRow, GridCard, ItemMenu
  <2>2. selected \in SUBSET DocIds BY DEF DocsData
  <2> QED BY ZenonT(60), <1>0, <1>p, <1>8, <1>a, <2>1, <2>2 DEF BulkRequest, DocOps
<1> QED BY <1>1, <1>2, <1>3, <1>4, <1>5, <1>6, <1>7, <1>8
-----------------------------------------------------------------------------
RequestOnly(d) == Remove(d) \/ ToggleFavorite(d) \/ SetEmoji(d)
                  \/ (\E words \in BOOLEAN : EditByForm(d, words))
                  \/ (\E s \in DocSections, f \in Folders \cup {RootFolder} : MoveTo(d, s, f))
                  \/ \E copy \in DocIds : Duplicate(d, copy)
IsRequest == \/ Autosave \/ \E d \in DocIds : RequestOnly(d)
             \/ \E op \in {"bulk delete", "bulk move"}, s \in DocSections : BulkRequest(op, s)

LEMMA RequestFrame ==
  ASSUME DocsData, IsRequest
  PROVE  /\ UserAsks /\ UNCHANGED <<docs, legacy, shelfLoad, pending, docUploads, selected, sync, place>>
         /\ born \subseteq born' /\ shelf' \in Store
         /\ note' \in [doc : Notes \cup {NoDocument}, open : BOOLEAN, typed : BOOLEAN]
         /\ note'.open \/ note'.typed => note'.doc \in Notes
         /\ \A d \in DocIds : shelf'[d] = shelf[d] \/ (shelf[d] # NoDocument /\ shelf'[d].file = shelf[d].file)
<1>1. UserAsks BY RequestsOfTheUser DEF IsRequest, RequestOnly
<1>2. /\ UNCHANGED <<docs, legacy, shelfLoad, pending, docUploads, selected, sync, place>>
      /\ born \subseteq born'
  BY DEF IsRequest, RequestOnly, Autosave, Remove, ToggleFavorite, SetEmoji, EditByForm, MoveTo, Duplicate,
         BulkRequest
<1>3. /\ shelf' \in Store
      /\ \A d \in DocIds : shelf'[d] = shelf[d] \/ (shelf[d] # NoDocument /\ shelf'[d].file = shelf[d].file)
  <2>1. shelf \in Store BY DEF DocsData
  <2>2. CASE UNCHANGED shelf BY <2>1, <2>2
  <2>3. ASSUME NEW d \in DocIds, SetEmoji(d)
        PROVE  /\ shelf' \in Store
               /\ \A e \in DocIds : shelf'[e] = shelf[e] \/ (shelf[e] # NoDocument /\ shelf'[e].file = shelf[e].file)
    <3>1. shelf[d] # NoDocument /\ shelf' = [shelf EXCEPT ![d].icon = TRUE]
      BY <2>3 DEF SetEmoji, Listed, Filled
    <3>2. /\ [shelf EXCEPT ![d].icon = TRUE] \in Store
          /\ [shelf EXCEPT ![d].icon = TRUE][d].file = shelf[d].file
          /\ \A e \in DocIds \ {d} : [shelf EXCEPT ![d].icon = TRUE][e] = shelf[e]
      BY <2>1, <3>1, IconSet
    <3> QED BY <3>1, <3>2
  <2> QED BY <2>2, <2>3 DEF IsRequest, RequestOnly, Autosave, Remove, ToggleFavorite, EditByForm, MoveTo,
         Duplicate, BulkRequest
<1>4. /\ note' \in [doc : Notes \cup {NoDocument}, open : BOOLEAN, typed : BOOLEAN]
      /\ note'.open \/ note'.typed => note'.doc \in Notes
  <2>1. CASE Autosave BY <2>1 DEF Autosave, DocsData
  <2>2. CASE UNCHANGED note BY <2>2 DEF DocsData
  <2> QED BY <2>1, <2>2 DEF IsRequest, RequestOnly, Remove, ToggleFavorite, SetEmoji, EditByForm, MoveTo,
         Duplicate, BulkRequest
<1> QED BY <1>1, <1>2, <1>3, <1>4

LEMMA DocsKept ==
  ASSUME DocsInv, DocumentsNext, NEW d \in DocIds
  PROVE  DocKept(d)
<1>0. DocsData /\ OneCopy /\ NewIsNowhere BY DEF DocsInv
<1>1. CASE AskLoad \/ ServeLoad
  <2>1. /\ UNCHANGED <<docs, shelf, docJobs, born, legacy>> /\ shelfLoad'.seen = docs
    BY <1>1 DEF AskLoad, ServeLoad
  <2>2. Claimed(d)' => Claimed(d) \/ HasFile(docs'[d]) BY <2>1 DEF Claimed, Target, HasFile
  <2>3. NotYet(d)' <=> NotYet(d) BY <2>1 DEF NotYet
  <2> QED BY <2>1, <2>2, <2>3 DEF DocKept, Nowhere
<1>2. CASE ArriveLoad
  <2>1. /\ UNCHANGED <<docs, docJobs, born, legacy>> /\ shelfLoad'.seen = shelfLoad.seen
        /\ shelf' = shelfLoad.seen
    BY <1>2 DEF ArriveLoad
  <2>2. Claimed(d)' => Claimed(d) BY <2>1 DEF Claimed, Target, HasFile
  <2>3. NotYet(d)' <=> NotYet(d) BY <2>1 DEF NotYet
  <2> QED BY <2>1, <2>2, <2>3 DEF DocKept, Nowhere
<1>3. CASE FailLoad \/ Revisit
  <2>1. [shelfLoad EXCEPT !.phase = "failed"].seen = shelfLoad.seen
        /\ [shelfLoad EXCEPT !.phase = "none"].seen = shelfLoad.seen
    BY <1>0 DEF DocsData
  <2>2. UNCHANGED <<docs, shelf, docJobs, born, legacy>> /\ shelfLoad'.seen = shelfLoad.seen
    BY <1>3, <2>1 DEF FailLoad, Revisit
  <2> QED BY <2>2, NothingMoves
<1>4. CASE SyncTurns \/ SyncEnds \/ SwitchView \/ TypeNote \/ CloseNote
  BY <1>4, NothingMoves DEF SyncTurns, SyncEnds, SwitchView, TypeNote, CloseNote
<1>5. ASSUME NEW e \in DocIds, NEW created \in BOOLEAN, NEW sent \in BOOLEAN,
             SyncLegacy(e, created, sent) PROVE DocKept(d)
  BY <1>0, <1>5, LegacyTried
<1>6. ASSUME NEW e \in DocIds, NEW ok \in BOOLEAN, SyncPending(e, ok) \/ UploadEnds(e, ok) PROVE DocKept(d)
  BY <1>0, <1>6, FilesAttached DEF SyncPending, UploadEnds
<1>7. ASSUME NEW j \in docJobs, ServeJob(j) PROVE DocKept(d) BY <1>0, <1>7, JobServed
<1>8. ASSUME NEW j \in docJobs, LoseJob(j) PROVE DocKept(d) BY <1>0, <1>8, JobLost
<1>9. ASSUME NEW j \in docJobs, AnswerJob(j) PROVE DocKept(d) BY <1>0, <1>9, JobAnswered
<1>10. ASSUME NEW scope \in DocSections \cup {AnyPlace}, NEW f \in Folders \cup {RootFolder}, Enter(scope, f)
       PROVE DocKept(d)
  BY <1>10, NothingMoves DEF Enter
<1>11. ASSUME NEW e \in DocIds, Tick(e) \/ AttachFile(e) \/ OpenNote(e) PROVE DocKept(d)
  BY <1>11, NothingMoves DEF Tick, AttachFile, OpenNote
<1>12. ASSUME NEW e \in DocIds, CreateDocument(e) \/ UploadDocument(e) PROVE DocKept(d)
  BY <1>0, <1>12, NewDocument DEF CreateDocument, UploadDocument
<1>13. CASE IsRequest
  <2>1. /\ UserAsks /\ UNCHANGED <<docs, legacy, shelfLoad>> /\ born \subseteq born'
        /\ shelf'[d] = shelf[d] \/ (shelf[d] # NoDocument /\ shelf'[d].file = shelf[d].file)
    BY <1>0, <1>13, RequestFrame
  <2>2. PICK j \in JobRecord : /\ docJobs' = docJobs \cup {j} /\ j.state = "sent"
                               /\ j.op = "duplicate" => j.copy \notin born
    BY <2>1 DEF UserAsks, AsksFor
  <2> QED BY <2>1, <2>2, OneRequestMore
<1> QED BY <1>1, <1>2, <1>3, <1>4, <1>5, <1>6, <1>7, <1>8, <1>9, <1>10, <1>11, <1>12, <1>13
        DEF DocumentsNext, DocumentsBackground, DocumentsUser, SyncGoesOn, IsRequest, RequestOnly

(* One request gives place to the next state of it, or a new one joins.    *)
LEMMA JobsStay ==
  ASSUME DocsData, OneCopy, NewIsNowhere, DocumentsNext
  PROVE  docJobs' \subseteq JobRecord /\ (\A j \in docJobs' : GoodJob(j)') /\ OneCopy'
<1>0. docJobs \subseteq JobRecord /\ \A j \in docJobs : GoodJob(j) BY DEF DocsData
<1>1. born \subseteq born'
  BY RequestFrame DEF DocumentsNext, DocumentsBackground, DocumentsUser, IsRequest, RequestOnly, AskLoad,
     ServeLoad, ArriveLoad, FailLoad, SyncGoesOn, SyncTurns, SyncEnds, SyncLegacy, SyncPending, UploadEnds,
     ServeJob, LoseJob, AnswerJob, Revisit, SwitchView, TypeNote, CloseNote, Enter, Tick, CreateDocument,
     UploadDocument, Created, AttachFile, OpenNote
<1>2. ASSUME docJobs' \subseteq docJobs PROVE docJobs' \subseteq JobRecord /\ (\A j \in docJobs' : GoodJob(j)') /\ OneCopy'
  BY <1>0, <1>1, <1>2 DEF GoodJob, OneCopy
<1>3. ASSUME NEW j \in docJobs, NEW i \in JobRecord, docJobs' = (docJobs \ {j}) \cup {i},
             i.op = j.op /\ i.ids = j.ids /\ i.copy = j.copy
      PROVE  docJobs' \subseteq JobRecord /\ (\A k \in docJobs' : GoodJob(k)') /\ OneCopy'
  <2>1. GoodJob(i)' BY <1>0, <1>1, <1>3 DEF GoodJob
  <2>2. \A k \in docJobs : GoodJob(k)' BY <1>0, <1>1 DEF GoodJob
  <2>3. OneCopy' BY <1>3 DEF OneCopy
  <2> QED BY <1>0, <1>3, <2>1, <2>2, <2>3
<1>4. ASSUME UserAsks PROVE docJobs' \subseteq JobRecord /\ (\A j \in docJobs' : GoodJob(j)') /\ OneCopy'
  <2>1. PICK i \in JobRecord : /\ docJobs' = docJobs \cup {i} /\ i.ids # {}
                               /\ i.op = "duplicate" => i.copy \in DocIds /\ i.copy \notin born /\ i.copy \in born'
    BY <1>4 DEF UserAsks, AsksFor
  <2>2. GoodJob(i)' BY <2>1 DEF GoodJob, DocsData
  <2>3. \A k \in docJobs : GoodJob(k)' BY <1>0, <1>1 DEF GoodJob
  <2>4. OneCopy'
    <3>1. i.op = "duplicate" => \A k \in docJobs : ~(k.op = "duplicate" /\ k.copy = i.copy)
      BY <1>0, <2>1 DEF GoodJob
    <3> QED BY <2>1, <3>1 DEF OneCopy
  <2> QED BY <1>0, <2>1, <2>2, <2>3, <2>4
<1>5. CASE IsRequest BY <1>4, <1>5, RequestFrame
<1>6. ASSUME NEW j \in docJobs, ServeJob(j) \/ LoseJob(j)
      PROVE  docJobs' \subseteq JobRecord /\ (\A k \in docJobs' : GoodJob(k)') /\ OneCopy'
  <2>1. \E i \in JobRecord : /\ docJobs' = (docJobs \ {j}) \cup {i}
                             /\ i.op = j.op /\ i.ids = j.ids /\ i.copy = j.copy
    BY <1>6, JobServed, JobLost
  <2> QED BY <2>1, <1>3
<1>7. ASSUME NEW j \in docJobs, AnswerJob(j)
      PROVE  docJobs' \subseteq JobRecord /\ (\A k \in docJobs' : GoodJob(k)') /\ OneCopy'
  BY <1>7, <1>2 DEF AnswerJob
<1>8. CASE UNCHANGED docJobs BY <1>8, <1>2
<1> QED BY <1>5, <1>6, <1>7, <1>8
  DEF DocumentsNext, DocumentsBackground, DocumentsUser, IsRequest, RequestOnly, AskLoad,
     ServeLoad, ArriveLoad, FailLoad, SyncGoesOn, SyncTurns, SyncEnds, SyncLegacy, SyncPending, UploadEnds,
     Revisit, SwitchView, TypeNote, CloseNote, Enter, Tick, CreateDocument,
     UploadDocument, AttachFile, OpenNote

Places == [scope : DocSections \cup {AnyPlace}, folder : Folders \cup {RootFolder}, view : {"list", "grid"}]
LEMMA PlaceChanged ==
  ASSUME NEW p \in Places, NEW s \in DocSections \cup {AnyPlace}, NEW f \in Folders \cup {RootFolder}
  PROVE  [p EXCEPT !.scope = s, !.folder = f] \in Places
<1> DEFINE A(x) == [x EXCEPT !.scope = s]
           B(x) == [x EXCEPT !.folder = f]
<1>1. \A x \in Places : A(x) \in Places /\ B(x) \in Places BY DEF Places
<1>2. B(A(p)) \in Places
  <2> HIDE DEF A, B
  <2> QED BY <1>1
<1> QED BY <1>2, Zenon

LEMMA DocsDataStep ==
  ASSUME DocsInv, [DocumentsNext]_documentsVars
  PROVE  DocsData'
<1> DEFINE ST == docs \in Store /\ shelf \in Store
           JB == docJobs \subseteq JobRecord /\ \A j \in docJobs : GoodJob(j)
           LD == shelfLoad \in [phase : {"none", "asked", "served", "loaded", "failed"}, seen : Store]
           FI == pending \subseteq Papers /\ docUploads \subseteq Papers /\ legacy \subseteq Legacy
                 /\ selected \subseteq DocIds /\ Legacy \subseteq born
           SY == sync \in [phase : {"idle", "legacy", "pending"}, left : SUBSET Papers]
                 /\ (sync.phase = "legacy" => sync.left \subseteq legacy)
           PL == place \in [scope : DocSections \cup {AnyPlace}, folder : Folders \cup {RootFolder},
                            view : {"list", "grid"}]
           NT == note \in [doc : Notes \cup {NoDocument}, open : BOOLEAN, typed : BOOLEAN]
                 /\ (note.open \/ note.typed => note.doc \in Notes)
           Rest == LD /\ FI /\ SY /\ PL /\ NT
<1>0. DocsData /\ OneCopy /\ NewIsNowhere /\ ST /\ JB /\ LD /\ FI /\ SY /\ PL /\ NT
  BY DEF DocsInv, DocsData
<1>1. CASE UNCHANGED documentsVars BY <1>0, <1>1 DEF documentsVars, DocsData, GoodJob
<1>2. CASE DocumentsNext
  <2>1. JB' BY <1>0, <1>2, JobsStay
  <2>2. SUFFICES ST' /\ Rest' BY <2>1 DEF DocsData
  <2> HIDE DEF DocsInv
  <2>3. CASE AskLoad \/ ServeLoad
    <3>1. LD' BY <1>0, <2>3 DEF AskLoad, ServeLoad
    <3> QED BY <3>1, <1>0, <2>3 DEF AskLoad, ServeLoad
  <2>4. CASE ArriveLoad
    <3>1. shelfLoad.seen \in Store BY <1>0
    <3>2. ST' BY <3>1, <1>0, <2>4 DEF ArriveLoad
    <3>3. LD' BY <3>1, <2>4 DEF ArriveLoad
    <3>4. SY'
      <4>1. legacy \in SUBSET Papers BY <1>0, DocumentsAssumption
      <4> QED BY <4>1, <1>0, <2>4 DEF ArriveLoad, StartedSync
    <3> QED BY <3>2, <3>3, <3>4, <1>0, <2>4 DEF ArriveLoad
  <2>5. CASE FailLoad
    <3>1. LD' BY <1>0, <2>5 DEF FailLoad
    <3> QED BY <3>1, <1>0, <2>5 DEF FailLoad
  <2>6. CASE Revisit
    <3>1. LD' BY <1>0, <2>6 DEF Revisit
    <3>2. SY'
      <4>1. legacy \in SUBSET Papers BY <1>0, DocumentsAssumption
      <4> QED BY <4>1, <1>0, <2>6 DEF Revisit, StartedSync
    <3>3. PL'
      BY <1>0, <2>6, PlaceChanged DEF Revisit, Places
    <3>4. NT' BY <2>6 DEF Revisit, NoteClosed
    <3> QED BY <3>1, <3>2, <3>3, <3>4, <1>0, <2>6 DEF Revisit
  <2>7. CASE SyncTurns
    <3>1. SY' BY <1>0, <2>7 DEF SyncTurns
    <3> QED BY <3>1, <1>0, <2>7 DEF SyncTurns
  <2>8. CASE SyncEnds
    <3>1. SY' BY <2>8 DEF SyncEnds, IdleSync
    <3> QED BY <3>1, <1>0, <2>8 DEF SyncEnds
  <2>9. ASSUME NEW e \in DocIds, NEW created \in BOOLEAN, NEW sent \in BOOLEAN, SyncLegacy(e, created, sent)
        PROVE  ST' /\ Rest'
    <3>1. ST' BY <1>0, <2>9, LegacyTried
    <3>2. e \in Papers BY <1>0, <2>9 DEF SyncLegacy
    <3>3. SY' BY <1>0, <2>9 DEF SyncLegacy
    <3>4. FI' BY <1>0, <2>9, <3>2 DEF SyncLegacy
    <3> QED BY <3>1, <3>3, <3>4, <1>0, <2>9 DEF SyncLegacy
  <2>10. ASSUME NEW e \in DocIds, NEW ok \in BOOLEAN, SyncPending(e, ok) PROVE ST' /\ Rest'
    <3>1. ST' /\ pending' \subseteq pending BY <1>0, <2>10, FilesAttached DEF SyncPending
    <3>2. SY' BY <1>0, <2>10 DEF SyncPending
    <3> QED BY <3>1, <3>2, <1>0, <2>10 DEF SyncPending
  <2>11. ASSUME NEW e \in DocIds, NEW ok \in BOOLEAN, UploadEnds(e, ok) PROVE ST' /\ Rest'
    <3>1. ST' /\ pending' \subseteq pending BY <1>0, <2>11, FilesAttached DEF UploadEnds
    <3> QED BY <3>1, <1>0, <2>11 DEF UploadEnds
  <2>12. ASSUME NEW j \in docJobs, ServeJob(j) PROVE ST' /\ Rest'
    <3>1. docs' \in Store BY <1>0, <2>12, JobServed
    <3> QED BY ZenonT(60), <3>1, <1>0, <2>12 DEF ServeJob
  <2>13. ASSUME NEW j \in docJobs, LoseJob(j) PROVE ST' /\ Rest' BY <1>0, <2>13 DEF LoseJob
  <2>14. ASSUME NEW j \in docJobs, AnswerJob(j) PROVE ST' /\ Rest'
    <3>1. shelf' \in Store BY <1>0, <2>14, JobAnswered
    <3> QED BY ZenonT(60), <3>1, <1>0, <2>14 DEF AnswerJob
  <2>15. ASSUME NEW scope \in DocSections \cup {AnyPlace}, NEW f \in Folders \cup {RootFolder}, Enter(scope, f)
         PROVE ST' /\ Rest'
    <3>3. PL' BY <1>0, <2>15, PlaceChanged DEF Enter, Places
    <3> QED BY <3>3, <1>0, <2>15 DEF Enter
  <2>16. CASE SwitchView
    <3>1. PL' BY <1>0, <2>16 DEF SwitchView
    <3> QED BY <3>1, <1>0, <2>16 DEF SwitchView
  <2>17. CASE TypeNote \/ CloseNote
    <3>1. NT' BY <1>0, <2>17 DEF TypeNote, CloseNote
    <3> QED BY <3>1, <1>0, <2>17 DEF TypeNote, CloseNote
  <2>18. ASSUME NEW e \in DocIds, Tick(e) \/ AttachFile(e) PROVE ST' /\ Rest'
    BY <1>0, <2>18 DEF Tick, AttachFile
  <2>19. ASSUME NEW e \in DocIds, OpenNote(e) PROVE ST' /\ Rest'
    <3>1. NT' BY <2>19 DEF OpenNote
    <3> QED BY <3>1, <1>0, <2>19 DEF OpenNote
  <2>20. ASSUME NEW e \in DocIds, CreateDocument(e) PROVE ST' /\ Rest'
    <3>1. ST' BY <1>0, <2>20, NewDocument DEF CreateDocument
    <3>2. NT' BY <1>0, <2>20 DEF CreateDocument
    <3> QED BY <3>1, <3>2, <1>0, <2>20 DEF CreateDocument, Created
  <2>21. ASSUME NEW e \in DocIds, UploadDocument(e) PROVE ST' /\ Rest'
    <3>1. ST' BY <1>0, <2>21, NewDocument DEF UploadDocument
    <3> QED BY <3>1, <1>0, <2>21 DEF UploadDocument, Created
  <2>22. CASE IsRequest
    <3>1. /\ UNCHANGED <<docs, legacy, shelfLoad, pending, docUploads, selected, sync, place>>
          /\ born \subseteq born' /\ shelf' \in Store /\ NT'
      BY <1>0, <2>22, RequestFrame
    <3> QED BY <3>1, <1>0
  <2> QED BY <1>2, <2>3, <2>4, <2>5, <2>6, <2>7, <2>8, <2>9, <2>10, <2>11, <2>12, <2>13, <2>14, <2>15,
          <2>16, <2>17, <2>18, <2>19, <2>20, <2>21, <2>22
          DEF DocumentsNext, DocumentsBackground, DocumentsUser, SyncGoesOn, IsRequest, RequestOnly
<1> QED BY <1>1, <1>2

LEMMA DocumentsStart == DocumentsInit => DocsInv
<1> SUFFICES ASSUME DocumentsInit PROVE DocsInv OBVIOUS
<1>1. docs \in Store BY NoResultIsRecord DEF DocumentsInit, Store, DocValue
<1>2. /\ shelf = [d \in DocIds |-> NoDocument] /\ shelf \in Store
      /\ shelfLoad = [phase |-> "none", seen |-> docs] /\ docJobs = {} /\ legacy = Legacy
      /\ born = Foreign \cup Folders \cup Legacy /\ pending = {} /\ docUploads = {} /\ selected = {}
      /\ sync = IdleSync /\ note = NoteClosed
      /\ place = [scope |-> AnyPlace, folder |-> RootFolder, view |-> "list"]
  BY DEF DocumentsInit, Store, DocValue
<1>3. \A d \in DocIds : docs[d] # NoDocument => docs[d] = NoResult /\ d \in Foreign \cup Folders
  BY DEF DocumentsInit
<1>4. DocsData BY <1>1, <1>2 DEF DocsData, IdleSync, NoteClosed
<1>5. OneCopy BY <1>2 DEF OneCopy
<1>6. ASSUME NEW d \in DocIds PROVE ~Claimed(d)
  <2>1. shelf[d] = NoDocument /\ shelfLoad.seen[d] = docs[d] BY <1>2
  <2>2. ~HasFile(docs[d])
    <3>1. NoResult.file = FALSE BY DEF NoResult
    <3> QED BY <1>3, <3>1 DEF HasFile
  <2> QED BY <1>2, <2>1, <2>2 DEF Claimed, HasFile
<1>7. ASSUME NEW d \in DocIds, NotYet(d) PROVE Nowhere(d)
  <2>1. d \notin Foreign \cup Folders BY <1>2, <1>7, DocumentsAssumption DEF NotYet
  <2> QED BY <1>2, <1>3, <2>1 DEF Nowhere
<1> QED BY <1>4, <1>5, <1>6, <1>7 DEF DocsInv, NewIsNowhere, ClaimsAreTrue

(* A new document is nowhere before it is made, no two copies have one id, *)
(* and whatever this tab says is stored is stored.                         *)
THEOREM DocsInvariant == DocumentsSpec => []DocsInv
<1>1. DocumentsInit => DocsInv BY DocumentsStart
<1>2. DocsInv /\ [DocumentsNext]_documentsVars => DocsInv'
  <2> SUFFICES ASSUME DocsInv, [DocumentsNext]_documentsVars PROVE DocsInv' OBVIOUS
  <2>1. DocsData' BY DocsDataStep
  <2>2. CASE DocumentsNext
    <3>1. OneCopy' BY <2>2, JobsStay DEF DocsInv
    <3>2. NewIsNowhere' /\ ClaimsAreTrue' BY <2>2, DocsKept, KeptIsEnough DEF DocsInv
    <3> QED BY <2>1, <3>1, <3>2 DEF DocsInv
  <2>3. CASE UNCHANGED documentsVars
    <3>1. \A d \in DocIds : (Claimed(d)' <=> Claimed(d)) /\ (NotYet(d)' <=> NotYet(d)) /\ (Nowhere(d)' <=> Nowhere(d))
      BY <2>3 DEF documentsVars, Claimed, NotYet, Nowhere, Target, HasFile
    <3> QED BY <2>1, <2>3, <3>1 DEF documentsVars, DocsInv, OneCopy, NewIsNowhere, ClaimsAreTrue
  <2> QED BY <2>2, <2>3
<1> QED BY <1>1, <1>2, PTL DEF DocumentsSpec

(* Every variable of the documents keeps its type.                         *)
THEOREM DocumentsTyped == DocumentsSpec => []DocumentsTypeOK
<1>1. DocsInv => DocumentsTypeOK BY DEF DocsInv, DocsData, DocumentsTypeOK, Store, DocValue
<1> QED BY <1>1, DocsInvariant, PTL

(* A document the tab shows as stored is stored by the server, for any     *)
(* folders, notes and papers: whichever uploads, answers or parts of a     *)
(* synchronisation are lost.                                               *)
THEOREM StoredAlwaysStored == DocumentsSpec => []StoredIsStored
<1>1. DocsInv => StoredIsStored
  BY DEF DocsInv, ClaimsAreTrue, Claimed, HasFile, StoredIsStored, DocIds
<1> QED BY <1>1, DocsInvariant, PTL

-----------------------------------------------------------------------------
(* The parts together. The page a behaviour is about does not change, and  *)
(* what is not on it stays as it was, so a behaviour of the client is one  *)
(* of every part: what is proved of a part holds in it.                    *)
LEMMA PageStays == LiveSpec => [](page \in LivePages)
<1>1. LiveInit => page \in LivePages
  BY DEF LiveInit
<1>2. page \in LivePages /\ [LiveNext]_liveVars => (page \in LivePages)'
  BY DEF LiveNext, liveVars
<1> QED
  BY <1>1, <1>2, PTL DEF LiveSpec

LEMMA PartsStart ==
  LiveInit => /\ RealtimeInit /\ SessionInit /\ SocketInit /\ DocumentsInit
              /\ BoardInit /\ RolesInit /\ ChatInit
  BY DEF LiveInit

LEMMA PartsStep ==
  [LiveNext]_liveVars =>
    /\ [RealtimeNext]_realtimeVars /\ [SessionNext]_sessionVars /\ [BoardNext]_cacheVars
    /\ [RolesNext]_rolesVars /\ [SocketNext]_socketVars /\ [ChatNext]_chatVars
    /\ [DocumentsNext]_documentsVars
  BY Zenon DEF LiveNext, liveVars

(* A behaviour of the client is one of each of its parts: the channel, the *)
(* session, a board, the matrix of rights, the socket of a meeting room,   *)
(* the chat and the documents.                                             *)
THEOREM LiveImplementsItsParts ==
  LiveSpec => /\ RealtimeSpec /\ SessionSpec /\ BoardSpec /\ RolesSpec
              /\ SocketSpec /\ ChatSpec /\ DocumentsSpec
<1>1. LiveSpec => RealtimeSpec
  BY PartsStart, PartsStep, PTL DEF LiveSpec, RealtimeSpec
<1>2. LiveSpec => SessionSpec
  BY PartsStart, PartsStep, PTL DEF LiveSpec, SessionSpec
<1>3. LiveSpec => BoardSpec
  BY PartsStart, PartsStep, PTL DEF LiveSpec, BoardSpec
<1>4. LiveSpec => RolesSpec
  BY PartsStart, PartsStep, PTL DEF LiveSpec, RolesSpec
<1>5. LiveSpec => SocketSpec
  BY PartsStart, PartsStep, PTL DEF LiveSpec, SocketSpec
<1>6. LiveSpec => ChatSpec
  BY PartsStart, PartsStep, PTL DEF LiveSpec, ChatSpec
<1>7. LiveSpec => DocumentsSpec
  BY PartsStart, PartsStep, PTL DEF LiveSpec, DocumentsSpec
<1> QED
  BY <1>1, <1>2, <1>3, <1>4, <1>5, <1>6, <1>7

(* The page in front keeps the types of its part.                          *)
THEOREM LiveTyped == LiveSpec => []LiveTypeOK
<1>1. LiveSpec => [](/\ RealtimeTypeOK /\ SessionTypeOK /\ BoardTypeOK /\ RolesTypeOK
                     /\ SocketTypeOK /\ ChatTypeOK /\ DocumentsTypeOK)
  BY LiveImplementsItsParts, RealtimeTyped, SessionTyped, BoardTyped, RolesTyped, SocketTyped,
     ChatTyped, DocumentsTyped, PTL
<1>2. page \in LivePages /\ (/\ RealtimeTypeOK /\ SessionTypeOK /\ BoardTypeOK /\ RolesTypeOK
                             /\ SocketTypeOK /\ ChatTypeOK /\ DocumentsTypeOK) => LiveTypeOK
  BY DEF LivePages, LiveTypeOK
<1> QED
  BY <1>1, <1>2, PageStays, PTL

(* In every behaviour of the client what it was told is what it shows: who *)
(* is online, the data of events that reached it, nothing of anybody when  *)
(* nobody is signed in, and no document as stored that is not.             *)
THEOREM LiveDataAlwaysTrue == LiveSpec => []LiveDataIsTrue
<1>1. PresenceIsTrue /\ DeliveredIsShown /\ SignedOutIsEmpty /\ StoredIsStored => LiveDataIsTrue
  BY DEF LiveDataIsTrue
<1> QED
  BY <1>1, LiveImplementsItsParts, PresenceAlwaysTrue, DeliveredAlwaysShown, SignedOutAlwaysEmpty,
     StoredAlwaysStored, PTL

(* In every behaviour of the client a board, the matrix of rights and the  *)
(* chat show what the server has as soon as nothing is under way.          *)
THEOREM QuietPagesAlwaysTrue == LiveSpec => []QuietPagesAreTrue
<1>1. QuietBoardIsTrue /\ QuietMatrixIsTrue /\ QuietChatIsTrue => QuietPagesAreTrue
  BY DEF QuietPagesAreTrue
<1> QED
  BY <1>1, LiveImplementsItsParts, QuietBoardAlwaysTrue, QuietMatrixAlwaysTrue, QuietChatAlwaysTrue, PTL

(* In every behaviour of the client a card stays where it is being moved,  *)
(* and comes to a final column only by the dialog that asks for a comment. *)
THEOREM MovesAlwaysHonest == LiveSpec => []MovesAreHonest
<1>1. OwnMoveStays /\ FinalAsksForComment => MovesAreHonest
  BY DEF MovesAreHonest
<1> QED
  BY <1>1, LiveImplementsItsParts, OwnMoveAlwaysStays, FinalAlwaysAsks, PTL

(* In every behaviour of the client segments stay on the screen, marks of  *)
(* what was read stay, and a displaced room waits to be opened again.      *)
THEOREM NothingShownIsEverLost == LiveSpec => NothingShownIsLost
  BY LiveImplementsItsParts, ShownAlwaysStays, ReadAlwaysGrows, DisplacedAlwaysWaits, PTL
     DEF NothingShownIsLost
=============================================================================
