------------------------------ MODULE RolesPage ------------------------------
(***************************************************************************)
(* The page "Roles and access": an administrator manages one person of the *)
(* team (first tab) or the matrix of rights (second tab), next to another  *)
(* administrator who does the same. The two tabs share nothing; Init picks *)
(* one.                                                                    *)
(***************************************************************************)
EXTENDS Naturals

CONSTANTS
  MatrixRows, MatrixRoles,   \* a cell of the matrix: a right and a role
  NoMatrix,     \* the matrix has not been fetched yet
  NoRead,       \* nothing is being fetched
  Reading,      \* a fetch the server has not answered yet
  NoPerson,     \* the account does not exist
  MaxEdits,     \* bound: operations of this administrator
  MaxPeer       \* bound: operations of the other one

ASSUME RolesAssumption ==
  /\ {MaxEdits, MaxPeer} \subseteq Nat /\ MatrixRows # {}
  /\ NoRead # Reading /\ {NoRead, Reading} \cap [MatrixRows -> [MatrixRoles -> BOOLEAN]] = {}

VARIABLES
  tab,
  matrix,       \* the rights in the database
  shownMatrix,  \* the matrix in the query cache
  matrixFetch,
  toggles,      \* mutations of the matrix under way
  matrixMissed,       \* auxiliary: the other one changed the matrix after the last read
  person,       \* the account in the database
  listedPerson,       \* the account in the list of users
  listFetch,
  personForm,   \* the dialog "edit"
  personAsk,    \* the dialog "delete"
  request,      \* the mutation of the account under way
  dismissed,    \* auxiliary: deactivated, and not invited or activated again since
  edits, peerEdits

matrixVars == <<matrix, shownMatrix, matrixFetch, toggles, matrixMissed>>
personVars == <<person, listedPerson, listFetch, personForm, personAsk, request, dismissed>>
rolesVars == <<tab, matrixVars, personVars, edits, peerEdits>>
-----------------------------------------------------------------------------
(* The matrix. Before it has been fetched the defaults are in force.       *)
DefaultPermissions == [row \in MatrixRows |-> [role \in MatrixRoles |-> TRUE]]
ShownPermissions == IF shownMatrix = NoMatrix THEN DefaultPermissions ELSE shownMatrix

(* A cell is clicked, also while others are being saved: the whole row is  *)
(* sent as the cache has it after this click.                              *)
TogglePermission(row, role) ==
  /\ tab = "roles" /\ edits < MaxEdits
  /\ ~\E j \in toggles : j.op = "reset"
  /\ edits' = edits + 1
  /\ IF shownMatrix = NoMatrix
     THEN matrixFetch' = Reading /\ UNCHANGED <<shownMatrix, toggles>>
     ELSE LET next == [shownMatrix EXCEPT ![row][role] = ~@] IN
          /\ shownMatrix' = next /\ matrixFetch' = NoRead
          /\ toggles' = toggles \cup {[op |-> "toggle", id |-> edits, row |-> row, body |-> next[row],
                                       before |-> shownMatrix, state |-> "sent"]}
  /\ UNCHANGED <<tab, matrix, matrixMissed, personVars, peerEdits>>

ResetPermissions ==
  /\ tab = "roles" /\ edits < MaxEdits
  /\ ~\E j \in toggles : j.op = "reset"
  /\ edits' = edits + 1
  /\ shownMatrix' = DefaultPermissions /\ matrixFetch' = NoRead
  /\ toggles' = toggles \cup {[op |-> "reset", id |-> edits, row |-> CHOOSE r \in MatrixRows : TRUE,
                               body |-> <<>>, before |-> shownMatrix, state |-> "sent"]}
  /\ UNCHANGED <<tab, matrix, matrixMissed, personVars, peerEdits>>

(* The requests may reach the server in any order.                         *)
ServeToggle(j) ==
  /\ j \in toggles /\ j.state = "sent"
  /\ matrix' = IF j.op = "reset" THEN DefaultPermissions ELSE [matrix EXCEPT ![j.row] = j.body]
  /\ toggles' = (toggles \ {j}) \cup {[j EXCEPT !.state = "saved"]}
  /\ UNCHANGED <<tab, shownMatrix, matrixFetch, matrixMissed, personVars, edits, peerEdits>>

(* Fault: a matrix that was taken back is not fetched again.                *)
AfterToggleQuietly == NoRead
(* onSuccess and onSettled: the matrix is fetched again either way.        *)
AfterToggle == Reading
ToggleSaved(j) ==
  /\ j \in toggles /\ j.state = "saved"
  /\ toggles' = toggles \ {j}
  /\ shownMatrix' = IF j.op = "reset" THEN DefaultPermissions ELSE shownMatrix
  /\ matrixFetch' = Reading
  /\ UNCHANGED <<tab, matrix, matrixMissed, personVars, edits, peerEdits>>
(* onError, also when only the answer is lost: back to the matrix the page *)
(* showed before this click.                                               *)
ToggleFailed(j) ==
  /\ j \in toggles
  /\ toggles' = toggles \ {j}
  /\ shownMatrix' = IF j.before = NoMatrix THEN shownMatrix ELSE j.before
  /\ matrixFetch' = AfterToggle
  /\ UNCHANGED <<tab, matrix, matrixMissed, personVars, edits, peerEdits>>

(* Every minute, when the page is opened and after every change.           *)
PollPermissions ==
  /\ tab = "roles" /\ matrixFetch = NoRead /\ matrixMissed
  /\ matrixFetch' = Reading
  /\ UNCHANGED <<tab, matrix, shownMatrix, toggles, matrixMissed, personVars, edits, peerEdits>>
ReadMatrix ==
  /\ matrixFetch = Reading
  /\ matrixFetch' = matrix /\ matrixMissed' = FALSE
  /\ UNCHANGED <<tab, matrix, shownMatrix, toggles, personVars, edits, peerEdits>>
MatrixArrives ==
  /\ matrixFetch \notin {NoRead, Reading}
  /\ shownMatrix' = matrixFetch /\ matrixFetch' = NoRead
  /\ UNCHANGED <<tab, matrix, toggles, matrixMissed, personVars, edits, peerEdits>>
PeerToggles(row, role) ==
  /\ tab = "roles" /\ peerEdits < MaxPeer
  /\ matrix' = [matrix EXCEPT ![row][role] = ~@]
  /\ matrixMissed' = TRUE /\ peerEdits' = peerEdits + 1
  /\ UNCHANGED <<tab, shownMatrix, matrixFetch, toggles, personVars, edits>>
-----------------------------------------------------------------------------
(* The team. What the row of a person offers; nobody changes his own role, *)
(* activity or account, but the person here is somebody else.              *)
RowOffers(p) ==
  {"role", "edit", "delete"} \cup IF p.active THEN {"deactivate"} ELSE {"resend"}

(* What the dialog sends: the whole form.                                  *)
EditPayload(form) == form
Patch(op) ==
  CASE op = "role" -> [role |-> IF listedPerson.role = "admin" THEN "staff" ELSE "admin"]
    [] op = "deactivate" -> [active |-> FALSE]
    [] op = "edit" -> EditPayload(personForm)
    [] OTHER -> <<>>

ClickRow(op) ==
  /\ tab = "users" /\ listedPerson # NoPerson /\ request = <<>>
  /\ personForm = <<>> /\ ~personAsk
  /\ op \in RowOffers(listedPerson)
  /\ CASE op = "edit" -> /\ personForm' = [role |-> listedPerson.role, active |-> listedPerson.active]
                         /\ UNCHANGED <<personAsk, request, edits>>
       [] op = "delete" -> personAsk' = TRUE /\ UNCHANGED <<personForm, request, edits>>
       [] OTHER -> /\ edits < MaxEdits /\ edits' = edits + 1
                   /\ request' = <<op, Patch(op), "sent">>
                   /\ UNCHANGED <<personForm, personAsk>>
  /\ UNCHANGED <<tab, matrixVars, person, listedPerson, listFetch, dismissed, peerEdits>>

EditForm ==
  /\ personForm # <<>> /\ request = <<>>
  /\ \E role \in {"admin", "staff"}, active \in BOOLEAN : personForm' = [role |-> role, active |-> active]
  /\ UNCHANGED <<tab, matrixVars, person, listedPerson, listFetch, personAsk, request, dismissed,
                 edits, peerEdits>>
SaveForm ==
  /\ personForm # <<>> /\ request = <<>> /\ edits < MaxEdits
  /\ edits' = edits + 1
  /\ request' = <<"edit", Patch("edit"), "sent">>
  /\ UNCHANGED <<tab, matrixVars, person, listedPerson, listFetch, personForm, personAsk,
                 dismissed, peerEdits>>
ConfirmDelete ==
  /\ personAsk /\ request = <<>> /\ edits < MaxEdits
  /\ edits' = edits + 1
  /\ request' = <<"delete", <<>>, "sent">>
  /\ UNCHANGED <<tab, matrixVars, person, listedPerson, listFetch, personForm, personAsk,
                 dismissed, peerEdits>>
CloseEdit ==
  /\ request = <<>> /\ (personForm # <<>> \/ personAsk)
  /\ personForm' = <<>> /\ personAsk' = FALSE
  /\ UNCHANGED <<tab, matrixVars, person, listedPerson, listFetch, request, dismissed, edits,
                 peerEdits>>

(* Fault: the invitation survives.                                          *)
UpdateKeepsInvite(p, patch) == [f \in DOMAIN p |-> IF f \in DOMAIN patch THEN patch[f] ELSE p[f]]
(* update_user: whoever is saved as inactive loses the pending invitation. *)
UpdateUser(p, patch) ==
  LET q == [f \in DOMAIN p |-> IF f \in DOMAIN patch THEN patch[f] ELSE p[f]] IN
  IF "active" \in DOMAIN patch /\ ~patch.active THEN [q EXCEPT !.invited = FALSE] ELSE q
PersonAfter(op, patch, p) ==
  CASE op = "delete" -> NoPerson
    [] op = "resend" -> IF p.active THEN p ELSE [p EXCEPT !.invited = TRUE]
    [] OTHER -> UpdateUser(p, patch)
Change(op, patch) ==
  /\ person' = IF person = NoPerson THEN person ELSE PersonAfter(op, patch, person)
  /\ dismissed' =
       IF person' = NoPerson \/ person = NoPerson THEN FALSE
       ELSE \/ person.active /\ ~person'.active
            \/ dismissed /\ ~person'.active /\ op # "resend"

ServeRequest ==
  /\ request # <<>> /\ request[3] = "sent"
  /\ Change(request[1], request[2])
  /\ request' = [request EXCEPT ![3] = "saved"]
  /\ UNCHANGED <<tab, matrixVars, listedPerson, listFetch, personForm, personAsk, edits, peerEdits>>
RequestSucceeds ==
  /\ request # <<>> /\ request[3] = "saved"
  /\ request' = <<>> /\ listFetch' = Reading
  /\ personForm' = <<>> /\ personAsk' = FALSE
  /\ UNCHANGED <<tab, matrixVars, person, listedPerson, dismissed, edits, peerEdits>>
RequestFails ==
  /\ request # <<>>
  /\ request' = <<>>
  /\ UNCHANGED <<tab, matrixVars, person, listedPerson, listFetch, personForm, personAsk,
                 dismissed, edits, peerEdits>>
ReadList ==
  /\ tab = "users" /\ listFetch = Reading
  /\ listedPerson' = person /\ listFetch' = NoRead
  /\ UNCHANGED <<tab, matrixVars, person, personForm, personAsk, request, dismissed, edits,
                 peerEdits>>

(* The newcomer follows a link that still works and chooses a password.    *)
ActivateInvite ==
  /\ tab = "users" /\ person # NoPerson
  /\ person.invited /\ ~person.active
  /\ person' = [person EXCEPT !.active = TRUE, !.invited = FALSE]
  /\ dismissed' = FALSE
  /\ UNCHANGED <<tab, matrixVars, listedPerson, listFetch, personForm, personAsk, request, edits,
                 peerEdits>>
PeerChanges(op, patch) ==
  /\ tab = "users" /\ person # NoPerson /\ peerEdits < MaxPeer
  /\ Change(op, patch) /\ peerEdits' = peerEdits + 1
  /\ UNCHANGED <<tab, matrixVars, listedPerson, listFetch, personForm, personAsk, request, edits>>
-----------------------------------------------------------------------------
(* An account is created with a password, or with an invitation.           *)
RolesInit ==
  /\ tab \in {"users", "roles"}
  /\ matrix \in {DefaultPermissions, [row \in MatrixRows |-> [role \in MatrixRoles |-> FALSE]]}
  /\ shownMatrix \in {NoMatrix, matrix}
  /\ matrixFetch = (IF tab = "roles" /\ shownMatrix = NoMatrix THEN Reading ELSE NoRead)
  /\ toggles = {} /\ matrixMissed = FALSE
  /\ \E active \in BOOLEAN : person = [role |-> "staff", active |-> active, invited |-> ~active]
  /\ listedPerson = person /\ listFetch = NoRead
  /\ personForm = <<>> /\ personAsk = FALSE /\ request = <<>> /\ dismissed = FALSE
  /\ edits = 0 /\ peerEdits = 0

RolesNext ==
  \/ \E row \in MatrixRows, role \in MatrixRoles : TogglePermission(row, role) \/ PeerToggles(row, role)
  \/ ResetPermissions \/ PollPermissions \/ ReadMatrix \/ MatrixArrives
  \/ \E j \in toggles : ServeToggle(j) \/ ToggleSaved(j) \/ ToggleFailed(j)
  \/ \E op \in {"role", "edit", "delete", "deactivate", "resend"} : ClickRow(op)
  \/ EditForm \/ SaveForm \/ ConfirmDelete \/ CloseEdit
  \/ ServeRequest \/ RequestSucceeds \/ RequestFails \/ ReadList \/ ActivateInvite
  \/ PeerChanges("deactivate", [active |-> FALSE]) \/ PeerChanges("resend", <<>>)
  \/ PeerChanges("edit", [active |-> TRUE]) \/ PeerChanges("delete", <<>>)

RolesSpec == RolesInit /\ [][RolesNext]_rolesVars
-----------------------------------------------------------------------------
RolesTypeOK ==
  /\ \A row \in MatrixRows : matrix[row] \in [MatrixRoles -> BOOLEAN]
  /\ person # NoPerson => person \in [role : {"admin", "staff"}, active : BOOLEAN, invited : BOOLEAN]
  /\ ~(personForm # <<>> /\ personAsk)
  /\ {matrixMissed, personAsk, dismissed} \subseteq BOOLEAN

(* Whatever was clicked and whatever failed, the matrix that decides what  *)
(* the pages offer becomes the one of the server again and again.          *)
MatrixIsCurrent == tab = "roles" => shownMatrix = matrix
(* ... and it already is once nothing is under way.                        *)
QuietMatrixIsTrue ==
  tab = "roles" /\ toggles = {} /\ matrixFetch = NoRead /\ ~matrixMissed => shownMatrix = matrix

(* Whoever was deactivated does not come back by a link that was sent      *)
(* before (users/service.py, the comment in update_user).                  *)
DismissedStaysOut == dismissed => ~person.invited

(* "Called at activation, at resending and at deactivation": an invitation *)
(* does not die of anything else.                                          *)
InvitesEndAsDocumented ==
  [][/\ person # NoPerson /\ person' # NoPerson
     /\ person.invited /\ ~person'.invited
     => person.active # person'.active]_rolesVars
=============================================================================
