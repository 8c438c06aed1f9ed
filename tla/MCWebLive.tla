------------------------------ MODULE MCWebLive ------------------------------
(***************************************************************************)
(* Model checking of the parts of the web client that talk to the server   *)
(* for as long as they are open: channel, session, boards, matrix of       *)
(* rights, socket of the meeting room, chat and documents.                 *)
(*                                                                         *)
(* The parts share no state. page says which one a behaviour is about, the *)
(* others stay as they are at the start, so the reachable states are the   *)
(* sum of theirs and one run of TLC explores them all.                     *)
(***************************************************************************)
EXTENDS RealtimeClient, AuthSession, BoardCache, RolesPage, ScreeningSocket, ChatPage, Documents

VARIABLE page

LivePages == {"channel", "session", "board", "roles", "room", "chat", "documents"}
liveVars == <<page, realtimeVars, sessionVars, cacheVars, rolesVars, socketVars, chatVars,
              documentsVars>>

(* The first card passes the filters of this model.                        *)
MCPasses(f, c) == f = "all" \/ c = CHOOSE x \in QueueCards : TRUE
(* The desktop page, and the archive on a telephone.                       *)
MCScreens == {<<TRUE, FALSE>>, <<FALSE, TRUE>>}

(* The archive is looked at by the owner of a group, the other dialogs by  *)
(* a member.                                                               *)
ChatStart ==
  /\ \A d \in Dialogs : dialog[d].in => dialog[d].own = archive
  /\ archive => \A d \in Dialogs : dialog[d].in => d \in Groups

(* A part that is not looked at starts in one of its initial states.       *)
BoardAtRest == board = "tasks" /\ role = "viewer" /\ filter = "all"
RolesAtRest == tab = "users" /\ matrix = DefaultPermissions /\ shownMatrix = NoMatrix /\ person.active
ChatAtRest == wide /\ \A d \in Dialogs : dialog[d] = IF d \in Groups THEN ExistingDialogs(TRUE) ELSE NoOne

LiveInit ==
  /\ page \in LivePages
  /\ RealtimeInit /\ SessionInit /\ SocketInit /\ DocumentsInit
  /\ BoardInit /\ (page = "board" \/ BoardAtRest)
  /\ RolesInit /\ (page = "roles" \/ RolesAtRest)
  /\ ChatInit /\ IF page = "chat" THEN ChatStart ELSE ChatAtRest

LiveNext ==
  /\ UNCHANGED page
  /\ \/ /\ page = "channel" /\ RealtimeNext
        /\ UNCHANGED <<sessionVars, cacheVars, rolesVars, socketVars, chatVars, documentsVars>>
     \/ /\ page = "session" /\ SessionNext
        /\ UNCHANGED <<realtimeVars, cacheVars, rolesVars, socketVars, chatVars, documentsVars>>
     \/ /\ page = "board" /\ BoardNext
        /\ UNCHANGED <<realtimeVars, sessionVars, rolesVars, socketVars, chatVars, documentsVars>>
     \/ /\ page = "roles" /\ RolesNext
        /\ UNCHANGED <<realtimeVars, sessionVars, cacheVars, socketVars, chatVars, documentsVars>>
     \/ /\ page = "room" /\ SocketNext
        /\ UNCHANGED <<realtimeVars, sessionVars, cacheVars, rolesVars, chatVars, documentsVars>>
     \/ /\ page = "chat" /\ ChatNext
        /\ UNCHANGED <<realtimeVars, sessionVars, cacheVars, rolesVars, socketVars, documentsVars>>
     \/ /\ page = "documents" /\ DocumentsNext
        /\ UNCHANGED <<realtimeVars, sessionVars, cacheVars, rolesVars, socketVars, chatVars>>

(* Fairness, in the behaviours that are about the part: the event loop runs *)
(* effects, timers and listeners; handshakes and requests end, with an     *)
(* answer or without; events are delivered. Nobody has to sign in, to open,*)
(* change or say anything.                                                 *)
LiveFairness ==
  /\ WF_realtimeVars(page = "channel" /\ (TokenEffect \/ ReconnectTimer \/ \E s \in Sockets : CloseEvent(s)))
  /\ WF_realtimeVars(page = "channel" /\ \E s \in Sockets : Accept(s))
  /\ \A q \in Requests : WF_sessionVars(page = "session" /\ Answers(q))
  /\ WF_cacheVars(page = "board" /\ (Settles \/ Arrives))
  /\ WF_rolesVars(page = "roles" /\ (PollPermissions \/ ReadMatrix \/ MatrixArrives \/ \E j \in toggles : ToggleSaved(j) \/ ToggleFailed(j)))
  /\ WF_socketVars(page = "room" /\ \E t \in RoomTabs : ConnectionGoesOn(t))
  /\ WF_chatVars(page = "chat" /\ (\/ DialogsArrive \/ \E n \in chatNews : Event(n)
                                   \/ \E j \in deeds : DeedDone(j) \/ DeedFails(j)))
  /\ WF_documentsVars(page = "documents" /\ SyncGoesOn)

LiveSpec == LiveInit /\ [][LiveNext]_liveVars
FairLiveSpec == LiveSpec /\ LiveFairness
-----------------------------------------------------------------------------
(* The type invariants of the parts.                                       *)
LiveTypeOK ==
  CASE page = "channel" -> RealtimeTypeOK
    [] page = "session" -> SessionTypeOK
    [] page = "board" -> BoardTypeOK
    [] page = "roles" -> RolesTypeOK
    [] page = "room" -> SocketTypeOK
    [] page = "chat" -> ChatTypeOK
    [] page = "documents" -> DocumentsTypeOK

(* What the tab was told is what it shows: colleagues online, the data the *)
(* events were about, and nothing of them when nobody is signed in; and a  *)
(* document it shows as stored is stored, not left in this tab for good.   *)
LiveDataIsTrue == PresenceIsTrue /\ DeliveredIsShown /\ SignedOutIsEmpty /\ StoredIsStored

(* When nothing is under way any more, board, matrix and chat show what    *)
(* the server has, whatever failed, overtook or was taken back before.     *)
QuietPagesAreTrue == QuietBoardIsTrue /\ QuietMatrixIsTrue /\ QuietChatIsTrue

(* A card that is being moved stays where it was put in every list, and    *)
(* none comes to a final column but by the dialog that asks for a comment. *)
MovesAreHonest == OwnMoveStays /\ FinalAsksForComment

(* What was there stays: segments on the screen of a meeting, marks that a *)
(* message was read; and so does a room that was displaced by another tab. *)
NothingShownIsLost == ShownStaysShown /\ ReadNeverGoesBack /\ DisplacedWaits

(* What happens again and again in each part.                              *)
Moving ==
  CASE page = "channel" -> ConnectedOrOut
    [] page = "session" -> MeIsAnswered
    [] page = "board" -> ListIsFresh
    [] page = "roles" -> MatrixIsCurrent
    [] page = "room" -> NoRoomIsBetween
    [] page = "chat" -> NoLostDialogIsOpen
    [] page = "documents" -> SyncRests
(* No part waits for ever for a connection, an answer, a fetch, a timer.   *)
NoPageIsStuck == []<>Moving
=============================================================================
