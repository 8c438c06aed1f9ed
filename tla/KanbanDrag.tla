----------------------------- MODULE KanbanDrag -----------------------------
(***************************************************************************)
(* Dragging a card on a board (components/kanban): where a drop puts the   *)
(* card, which preview is shown meanwhile, and which changes of order and  *)
(* column are handed to onReorder in the end. The items of the board may   *)
(* be refetched in the middle of a drag.                                   *)
(***************************************************************************)
EXTENDS Naturals, FiniteSets, SequencesExt

CONSTANTS
  BoardCards,    \* cards, numbers: the place in the array decides between equal orders
  BoardColumns,  \* columns, in the array statuses
  NoBoardCard,
  MaxDrops,      \* bound: drops
  MaxRefetches   \* bound: changes of the board by others

ASSUME DragAssumption ==
  /\ BoardCards \subseteq Nat /\ IsFiniteSet(BoardCards) /\ BoardColumns # {}
  /\ BoardCards \cap BoardColumns = {} /\ NoBoardCard \notin BoardCards \cup BoardColumns
  /\ {MaxDrops, MaxRefetches} \subseteq Nat

VARIABLES
  items,      \* the cards as the page has them: column and kanbanOrder
  activeId,
  preview,    \* previewItems, NoCard when null
  lastOver,   \* the key of the last drag-over: what is under the pointer, and which half
  refetched,  \* items changed since the drag began
  drops, refetches

drag == <<activeId, preview, lastOver>>
dragVars == <<items, drag, refetched, drops, refetches>>

PlaceCard(column, order) == [column |-> column, order |-> order]
Targets == BoardCards \cup BoardColumns
Halves == {0, 1}   \* getKanbanInsertModifier: upper or lower half
NoOver == <<NoBoardCard, 0>>

(* getColumnItems: sorted by kanbanOrder.                                  *)
InColumn(l, col) == {c \in BoardCards : l[c].column = col}
Above(l, a, b) == l[a].order < l[b].order \/ (l[a].order = l[b].order /\ a < b)
ColumnItems(l, col) ==
  CHOOSE s \in SetToSeqs(InColumn(l, col)) : \A i, j \in DOMAIN s : i < j => Above(l, s[i], s[j])
Position(s, c) == CHOOSE i \in DOMAIN s : s[i] = c

(* What the indices of a list become in a layout.                          *)
Numbered(l, s, col) ==
  [c \in BoardCards |-> IF c \in Range(s) THEN PlaceCard(col, Position(s, c) - 1) ELSE l[c]]
ClampIndex(i, low, high) == IF i < low THEN low ELSE IF i > high THEN high ELSE i

(* Fault: the place the card leaves is counted twice.                      *)
SameColumnIndexUnshifted(old, over, half, length) == ClampIndex(over + half, 0, length - 1)
(* resolveSameColumnIndex, with indices from 0.                            *)
SameColumnIndex(old, over, half, length) ==
  LET new == ClampIndex(over + half, 0, length - 1) IN IF old < new THEN new - 1 ELSE new
ArrayMove(s, old, new) == InsertAt(RemoveAt(s, old + 1), new + 1, s[old + 1])

ResolveColumn(l, over) == IF over \in BoardColumns THEN over ELSE l[over].column

(* computeKanbanReorder within a column: l itself when nothing moves.      *)
MoveWithin(l, card, over, half) ==
  LET col == l[card].column
      column == ColumnItems(l, col)
      old == Position(column, card) - 1
      new == IF over \in BoardColumns THEN Len(column) - 1
             ELSE SameColumnIndex(old, Position(column, over) - 1, half, Len(column))
  IN IF old = new THEN l ELSE Numbered(l, ArrayMove(column, old, new), col)

(* ... and into another column.                                            *)
MoveAcross(l, card, over, half) ==
  LET from == l[card].column
      to == ResolveColumn(l, over)
      source == ColumnItems(l, from)
      dest == ColumnItems(l, to)
      index == IF over \in BoardColumns THEN Len(dest)
               ELSE ClampIndex(Position(dest, over) - 1 + half, 0, Len(dest))
  IN Numbered(Numbered(l, RemoveAt(source, Position(source, card)), from),
              InsertAt(dest, index + 1, card), to)

ComputeReorder(l, card, over, half) ==
  IF ResolveColumn(l, over) = l[card].column
  THEN MoveWithin(l, card, over, half) ELSE MoveAcross(l, card, over, half)

(* applyKanbanPreview.                                                     *)
Preview(l, card, over, half) == IF card = over THEN l ELSE ComputeReorder(l, card, over, half)

(* diffKanbanUpdates: the cards whose column or order differ.              *)
Updates(l, new) == {<<c, new[c]>> : c \in {d \in BoardCards : new[d] # l[d]}}
DropApplied(l, updates) ==
  [c \in BoardCards |-> IF \E u \in updates : u[1] = c
                        THEN (CHOOSE u \in updates : u[1] = c)[2] ELSE l[c]]
-----------------------------------------------------------------------------
(* A full board as the server numbers it.                                  *)
Compact(l) == \A col \in BoardColumns : {l[c].order : c \in InColumn(l, col)} = 0..(Cardinality(InColumn(l, col)) - 1)
BoardStates ==
  {l \in [BoardCards -> [column : BoardColumns, order : 0..(Cardinality(BoardCards) - 1)]] : Compact(l)}

DragInit ==
  /\ items = [c \in BoardCards |-> PlaceCard(CHOOSE col \in BoardColumns : TRUE, Cardinality({d \in BoardCards : d < c}))]
  /\ activeId = NoBoardCard /\ preview = NoBoardCard /\ lastOver = NoOver
  /\ refetched = FALSE /\ drops = 0 /\ refetches = 0

HandleStart(card) ==
  /\ activeId = NoBoardCard /\ drops < MaxDrops
  /\ activeId' = card
  /\ preview' = NoBoardCard /\ lastOver' = NoOver /\ refetched' = FALSE
  /\ UNCHANGED <<items, drops, refetches>>

HandleOver(over, half) ==
  /\ activeId # NoBoardCard
  /\ lastOver # <<over, half>>
  /\ lastOver' = <<over, half>>
  /\ LET next == Preview(items, activeId, over, half) IN
     preview' = IF next = items THEN NoBoardCard ELSE next
  /\ UNCHANGED <<items, activeId, refetched, drops, refetches>>

(* The preview is what is sent; without one the drop is computed, for a    *)
(* column from the card the pointer was over last.                         *)
DropTarget(over) ==
  IF over \in BoardColumns /\ lastOver[1] \notin {NoBoardCard, activeId} THEN lastOver[1] ELSE over
DropOf(over, half) ==
  CASE preview # NoBoardCard -> preview
    [] preview = NoBoardCard /\ over \in {NoBoardCard, activeId} -> items
    [] OTHER -> ComputeReorder(items, activeId, DropTarget(over), half)
Ended == activeId' = NoBoardCard /\ preview' = NoBoardCard /\ lastOver' = NoOver

(* handleEnd, and the order the server stores.                             *)
HandleEnd(over, half) ==
  /\ activeId # NoBoardCard
  /\ items' = DropApplied(items, Updates(items, DropOf(over, half)))
  /\ drops' = drops + 1
  /\ Ended
  /\ UNCHANGED <<refetched, refetches>>

HandleCancel ==
  /\ activeId # NoBoardCard
  /\ Ended
  /\ UNCHANGED <<items, refetched, drops, refetches>>

(* A colleague moves a card and the board is fetched again; the effect on  *)
(* items drops the preview only when nothing is being dragged.             *)
ItemsChange ==
  /\ refetches < MaxRefetches
  /\ refetches' = refetches + 1
  /\ \E c \in BoardCards : \E over \in Targets \ {c} : items' = ComputeReorder(items, c, over, 0)
  /\ preview' = IF activeId = NoBoardCard THEN NoBoardCard ELSE preview
  /\ refetched' = TRUE
  /\ UNCHANGED <<activeId, lastOver, drops>>

(* Where the pointer can be at the drop: off the board, over what the last *)
(* event named, or beside it in its column.                                *)
Under == {NoBoardCard, lastOver[1]} \cup (IF lastOver[1] \in BoardCards THEN {items[lastOver[1]].column} ELSE {})

DragNext ==
  \/ \E c \in BoardCards : HandleStart(c)
  \/ \E over \in Targets, half \in Halves : HandleOver(over, half)
  \/ \E over \in Under, half \in Halves : HandleEnd(over, half)
  \/ HandleCancel \/ ItemsChange

DragSpec == DragInit /\ [][DragNext]_dragVars
-----------------------------------------------------------------------------
DragTypeOK ==
  /\ items \in BoardStates
  /\ activeId \in BoardCards \cup {NoBoardCard}
  /\ preview # NoBoardCard => activeId # NoBoardCard
  /\ lastOver[1] \in Targets \cup {NoBoardCard} /\ lastOver[2] \in Halves
  /\ refetched \in BOOLEAN /\ drops \in 0..MaxDrops /\ refetches \in 0..MaxRefetches

(* A drop changes the column of no card but the dragged one, and keeps the *)
(* others in their order, unless the board was refetched during the drag.  *)
OthersKeepTheirOrder ==
  [][drops' = drops + 1 /\ ~refetched =>
       \A c, d \in BoardCards \ {activeId} :
         /\ items'[c].column = items[c].column
         /\ items[c].column = items[d].column /\ Above(items, c, d) => Above(items', c, d)]_dragVars

(* The lower half of the last card of the own column: the index is kept    *)
(* within the column before one is taken off for the card that leaves.     *)
BelowTheLast(l, card, over, half) ==
  /\ half = 1 /\ l[over].column = l[card].column
  /\ \A c \in InColumn(l, l[over].column) : ~Above(l, over, c)
Lands(l, card, over, half) ==
  LET column == ColumnItems(ComputeReorder(l, card, over, half), l[over].column)
  IN /\ card \in Range(column)
     /\ Position(column, card) + (1 - half) = Position(column, over) + half

(* The card lands beside the card that is under the pointer, above it or   *)
(* below as the half says, with one exception: dropped on the lower half   *)
(* of the last card of its own column it lands above that card, so it can  *)
(* be made the last one only by dropping it on the column itself.          *)
LandsUnderThePointer ==
  \A card \in BoardCards, half \in Halves : \A over \in BoardCards \ {card} :
    ~BelowTheLast(items, card, over, half) => Lands(items, card, over, half)

-----------------------------------------------------------------------------
(* What the code does not give; see the README.                            *)

(* The same of every card, the last one of the own column as well.         *)
DropsLandEverywhere ==
  \A card \in BoardCards, half \in Halves : \A over \in BoardCards \ {card} :
    Lands(items, card, over, half)
=============================================================================
