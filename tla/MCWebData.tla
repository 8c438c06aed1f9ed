------------------------------ MODULE MCWebData ------------------------------
(***************************************************************************)
(* Model checking of the pages of the web client on which records are      *)
(* shown and changed: the form of a record, its page, its comments, the    *)
(* boards' drag and drop, the calendar and the notifications.              *)
(*                                                                         *)
(* The parts share no state. page says which one a behaviour is about, the *)
(* others stay as they are at the start, so the reachable states are the   *)
(* sum of theirs and one run of TLC explores them all.                     *)
(***************************************************************************)
EXTENDS RecordForm, KanbanDrag, CardPages, Calendar, Comments, Notifications

VARIABLE page

DataPages == {"form", "drag", "card", "calendar", "comments", "bell"}
dataVars == <<page, recordVars, dragVars, cardVars, calVars, commentVars, bellVars>>

(* A part that is not looked at starts in one of its initial states.       *)
RecordAtRest == entity = "task" /\ field = "title" /\ saved = Nothing
CardAtRest == cardPage = "task" /\ cardRole = "admin" /\ ~mine /\ granted = {}
CalendarAtRest == \A e \in CalEvents : calStore[e] = NoEvent
CommentsAtRest == cardOpen = (CHOOSE k \in CommentCards : TRUE) /\ \A c \in CommentIds : comments[c] = NoComment
BellAtRest == notices = <<>>

DataInit ==
  /\ page \in DataPages
  /\ DragInit
  /\ RecordInit /\ (page = "form" \/ RecordAtRest)
  /\ CardInit /\ (page = "card" \/ CardAtRest)
  /\ CalInit /\ (page = "calendar" \/ CalendarAtRest)
  /\ CommentsInit /\ (page = "comments" \/ CommentsAtRest)
  /\ BellInit /\ (page = "bell" \/ BellAtRest)

DataNext ==
  /\ UNCHANGED page
  /\ \/ /\ page = "form" /\ RecordNext
        /\ UNCHANGED <<dragVars, cardVars, calVars, commentVars, bellVars>>
     \/ /\ page = "drag" /\ DragNext
        /\ UNCHANGED <<recordVars, cardVars, calVars, commentVars, bellVars>>
     \/ /\ page = "card" /\ CardNext
        /\ UNCHANGED <<recordVars, dragVars, calVars, commentVars, bellVars>>
     \/ /\ page = "calendar" /\ CalNext
        /\ UNCHANGED <<recordVars, dragVars, cardVars, commentVars, bellVars>>
     \/ /\ page = "comments" /\ CommentsNext
        /\ UNCHANGED <<recordVars, dragVars, cardVars, calVars, bellVars>>
     \/ /\ page = "bell" /\ BellNext
        /\ UNCHANGED <<recordVars, dragVars, cardVars, calVars, commentVars>>

DataSpec == DataInit /\ [][DataNext]_dataVars
-----------------------------------------------------------------------------
(* The type invariants of the parts.                                       *)
DataTypeOK ==
  CASE page = "form" -> RecordTypeOK
    [] page = "drag" -> DragTypeOK
    [] page = "card" -> CardTypeOK
    [] page = "calendar" -> CalendarTypeOK
    [] page = "comments" -> CommentsTypeOK
    [] page = "bell" -> BellTypeOK

(* What is on the screen lies where it should, and does what it says: a    *)
(* drop puts the card where the pointer is (except on the lower half of    *)
(* the last card of its own column), events at the same time stand beside  *)
(* each other, none over another, and what the page of a record offers the *)
(* server serves (except tenders, which are offered to roles that may not  *)
(* change them, conversions of a lead without the right to add a contact   *)
(* or repeated, and copies of a candidate with an email or a phone).       *)
ScreenIsRight ==
  /\ page = "drag" => LandsUnderThePointer
  /\ page = "calendar" => OverlappingAreSideBySide
  /\ page = "card" => OfferedIsServed

(* When nothing is under way any more, the page of a record, the calendar, *)
(* the comments and the notifications show what the server has; and a      *)
(* comment is stored once, as it was typed. Excepted are changes the       *)
(* client is not told of, and changes it is told of while the first load   *)
(* is under way and already read by the server.                            *)
QuietRecordsAreTrue ==
  /\ page = "card" => QuietCardIsTrue
  /\ page = "calendar" => QuietCalendarIsTrue
  /\ page = "comments" => QuietCommentsAreTrue /\ TypedIsStoredOnce
  /\ page = "bell" => QuietBellIsTrue

(* What nobody meant to change stays as it is: the other fields of a form, *)
(* what was typed while a resume was read, the other cards of a board, the *)
(* length and the day of an event that is dragged.                         *)
OthersWorkSurvives == UntouchedSurvives /\ ImportKeepsTyped /\ OthersKeepTheirOrder /\ DragStaysInItsDay
=============================================================================
