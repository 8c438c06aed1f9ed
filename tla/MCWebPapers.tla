----------------------------- MODULE MCWebPapers -----------------------------
(***************************************************************************)
(* Model checking of the pages of the web client that make or sign         *)
(* something: the page of a screening meeting, the field a chat message is *)
(* written in, the page of the personnel officer and the one on which an   *)
(* employee signs.                                                         *)
(*                                                                         *)
(* As in MCWebLive and MCWebData, page says which part a behaviour is      *)
(* about; the others stay as they are at the start.                        *)
(***************************************************************************)
EXTENDS ScreeningRoom, ChatComposer, HrDesk, SignPage, TLC

VARIABLE page

PapersPages == {"meeting", "composer", "desk", "signing"}
papersVars == <<page, roomVars, composerVars, deskVars, signVars>>

(* A part that is not looked at starts in one of its initial states.       *)
RoomAtRest == side = "plan"
DeskAtRest == staffCard.edo = "active" /\ \A d \in DeskPapers : papers[d] = NoPaper
SignAtRest == door = "crm"

PapersInit ==
  /\ page \in PapersPages
  /\ ComposerInit
  /\ RoomInit /\ (page = "meeting" \/ RoomAtRest)
  /\ DeskInit /\ (page = "desk" \/ DeskAtRest)
  /\ SignInit /\ (page = "signing" \/ SignAtRest)

PapersNext ==
  /\ UNCHANGED page
  /\ \/ /\ page = "meeting" /\ RoomNext
        /\ UNCHANGED <<composerVars, deskVars, signVars>>
     \/ /\ page = "composer" /\ ComposerNext
        /\ UNCHANGED <<roomVars, deskVars, signVars>>
     \/ /\ page = "desk" /\ DeskNext
        /\ UNCHANGED <<roomVars, composerVars, signVars>>
     \/ /\ page = "signing" /\ SignNext
        /\ UNCHANGED <<roomVars, composerVars, deskVars>>

PapersSpec == PapersInit /\ [][PapersNext]_papersVars

(* Documents are alike.                                                    *)
PapersSymmetry == Permutations(SignPapers)
-----------------------------------------------------------------------------
(* The type invariants of the parts.                                       *)
PapersTypeOK ==
  CASE page = "meeting" -> RoomTypeOK
    [] page = "composer" -> ComposerTypeOK
    [] page = "desk" -> DeskTypeOK
    [] page = "signing" -> SignTypeOK

(* The recording of a meeting survives everything that may happen on its   *)
(* way to the store, the player plays it and no other, and the plan of     *)
(* questions shows what was marked.                                        *)
RecordingIsKept == SoleTakeIsKept /\ PlaysTheAttached /\ QuietPlanIsTrue

(* What is offered, on the page of the officer and to the employee who     *)
(* signs, is what may still be done, and what waits is listed.             *)
OfferedIsHonest ==
  /\ page = "desk" => QuietDeskIsTrue /\ OpenDialogIsOffered /\ FreshButtonsWork
  /\ page = "signing" => ListedWaits
=============================================================================
