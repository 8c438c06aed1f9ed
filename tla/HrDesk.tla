------------------------------- MODULE HrDesk -------------------------------
(***************************************************************************)
(* The page of the personnel officer (hr-docs): the sheet of an employee,  *)
(* the sheet of a document, the list with its bulk sending, the journal    *)
(* and the dialog that creates documents from a template.                  *)
(*                                                                         *)
(* The page keeps a copy of what each query read (desk). A mutation that   *)
(* succeeds makes every query of the section read again; a refused one     *)
(* does not, and no event tells the page what the employee does.           *)
(*                                                                         *)
(* One employee with a labour contract, some of their documents; the       *)
(* consent package is part of the card. The officer may sign for the       *)
(* employer. Personnel types kept on paper only have no buttons but the    *)
(* downloads, which change nothing.                                        *)
(***************************************************************************)
EXTENDS Naturals, FiniteSets

CONSTANTS DeskPapers,      \* ids of documents
          DeskStaff, NoStaff,   \* employees the creating dialog may choose, nobody
          NoPaper, NoDeskDialog,
          NoDeskRead, DeskReading,
          MaxDeskClicks,   \* requests of the officer in one behaviour
          MaxDeskOthers,   \* acts of the employee and of the clock
          MaxDeskPicks     \* choices of an employee in the creating dialog

EdoStatuses == {"not_invited", "notified", "consent_signed", "active", "refused", "key_revoked"}
PaperStatuses == {"draft", "frozen", "awaiting_employer", "sent", "viewed", "signed", "rejected",
                  "expired", "cancelled"}
PackageStatuses == {"none", "sent", "viewed", "expired", "cancelled", "signed"}

DeskCard == [edo : EdoStatuses, pkg : PackageStatuses, key : BOOLEAN, phone : BOOLEAN,
             works : BOOLEAN]
DeskPaper == [type : {"bilateral", "unilateral"}, status : PaperStatuses, sent : BOOLEAN,
              by : SUBSET {"employee", "employer"}]
(* What a query may bring: a document, or the card with its counters.      *)
DeskSight == DeskPaper \cup {NoPaper}
               \cup [card : DeskCard, waiting : SUBSET DeskPapers, journal : Nat]

ASSUME DeskAssumption ==
  /\ MaxDeskClicks \in Nat /\ MaxDeskOthers \in Nat /\ MaxDeskPicks \in Nat
  /\ "card" \notin DeskPapers /\ NoPaper \notin DeskPaper
  /\ NoDeskRead # DeskReading /\ {NoDeskRead, DeskReading} \cap [seen : DeskSight] = {}

VARIABLES staffCard,        \* the server: the card of the employee
          papers,      \* the server: the documents of the employee
          journal,     \* the server: how many events the protocol has
          desk,        \* what the page shows of each object
          deskReads,   \* the reads in flight
          deskJobs,    \* the requests in flight
          deskDialog,  \* the dialog that is open on each object
          ticked,      \* documents ticked in the list
          template,    \* the creating dialog: the first employee, the prefilled field
          unseen,      \* objects that changed in a way the page cannot know of
          deskClicks, deskOthers, deskPicks

deskServer == <<staffCard, papers, journal>>
deskVars == <<staffCard, papers, journal, desk, deskReads, deskJobs, deskDialog, ticked, template,
              unseen, deskClicks, deskOthers, deskPicks>>

(***************************************************************************)
(* What the page offers                                                    *)
(***************************************************************************)
(* The buttons of an employee's sheet.                                     *)
CardOffers(c) ==
    {op \in {"invite", "consent", "refuse", "revoke", "phone", "edit"} :
       CASE op = "invite" -> c.edo \in {"not_invited", "notified", "refused"}
         [] op = "consent" -> c.edo \in {"notified", "refused"} /\ c.pkg # "none"
         [] op = "refuse" -> c.edo \in {"not_invited", "notified"}
         [] op = "revoke" -> c.key
         [] op = "phone" -> c.phone
         [] OTHER -> TRUE}

(* The buttons of a document's sheet, given when there is one to remind.   *)
PaperButtons(p, remindable) ==
    {op \in {"freeze", "sign", "send", "remind", "paper", "cancel"} :
       CASE op = "freeze" -> p.status = "draft"
         [] op = "sign" -> p.status = "awaiting_employer" /\ "employer" \notin p.by
         [] op = "send" -> p.status = "frozen"
         [] op = "remind" -> p.status \in remindable
         [] op = "paper" -> /\ p.status \in {"frozen", "sent", "viewed", "expired"}
                            /\ "employee" \notin p.by
         [] OTHER -> p.status \notin {"signed", "rejected", "cancelled"}}

PaperOffers(p) == PaperButtons(p, {"sent", "viewed"})

(* The operations a dialog confirms; the other ones start with the click.  *)
CardDialogs == {"consent", "revoke", "phone", "edit"}
PaperDialogs == {"sign", "paper", "cancel"}

(* The list sends the ticked documents it shows as ready.                  *)
Sendable == {d \in ticked : desk[d] # NoPaper /\ desk[d].status = "frozen"}

(***************************************************************************)
(* The server                                                              *)
(***************************************************************************)
CardAccepts(c, op) ==
    CASE op = "invite" -> c.works /\ c.phone /\ c.edo \in {"not_invited", "notified", "refused"}
      [] op = "consent" -> c.edo \in {"notified", "refused"} /\ c.pkg \in {"sent", "viewed", "expired"}
      [] op = "refuse" -> c.edo \notin {"active", "consent_signed", "key_revoked"}
      [] op = "revoke" -> c.key
      [] OTHER -> TRUE

(* An invitation keeps a package that still waits, and makes one otherwise.*)
CardAfter(c, op) ==
    CASE op = "invite" -> [c EXCEPT !.edo = "notified",
                                    !.pkg = IF @ \in {"sent", "viewed"} THEN @ ELSE "sent"]
      [] op = "consent" -> [c EXCEPT !.edo = "consent_signed", !.pkg = "signed"]
      [] op = "refuse" -> [c EXCEPT !.edo = "refused"]
      [] op = "revoke" -> [c EXCEPT !.edo = "key_revoked", !.key = FALSE]
      [] op = "phone" -> [c EXCEPT !.edo = IF c.key THEN "key_revoked"
                                           ELSE IF @ = "notified" THEN "not_invited" ELSE @,
                                   !.pkg = IF c.edo = "notified" THEN "none" ELSE @,
                                   !.key = FALSE]
      [] OTHER -> c

EmployeeReady == staffCard.edo = "active" /\ staffCard.key

PaperAccepts(p, op) ==
    CASE op = "freeze" -> p.status = "draft"
      [] op = "sign" -> /\ p.type = "bilateral" /\ p.status = "awaiting_employer"
                        /\ "employer" \notin p.by
      [] op = "send" -> p.status = "frozen" /\ EmployeeReady
      [] op = "remind" -> p.status \in {"sent", "viewed"}
      [] op = "paper" -> p.status \in {"frozen", "sent", "viewed", "expired"}
      [] OTHER -> p.status \notin {"signed", "rejected", "cancelled"}

(* The status the signatures of a document give it.                        *)
Completion(p, by) ==
    LET employer == p.type = "bilateral" => "employer" \in by
    IN  CASE "employee" \in by /\ employer -> "signed"
          [] "employee" \in by /\ ~employer -> "awaiting_employer"
          [] "employee" \notin by /\ employer /\ ~p.sent -> "frozen"
          [] OTHER -> p.status

SignedAlso(p, role) == [p EXCEPT !.by = @ \cup {role}, !.status = Completion(p, p.by \cup {role})]

PaperAfter(p, op) ==
    CASE op = "freeze" ->
           [p EXCEPT !.status = IF p.type = "bilateral" THEN "awaiting_employer" ELSE "frozen"]
      [] op = "sign" -> SignedAlso(p, "employer")
      [] op = "send" -> [p EXCEPT !.status = "sent", !.sent = TRUE]
      [] op = "paper" -> SignedAlso(p, "employee")
      [] op = "cancel" -> [p EXCEPT !.status = "cancelled"]
      [] OTHER -> p

(***************************************************************************)
(* The queries of the page                                                 *)
(***************************************************************************)
(* The card, its counters and the journal are read as one.                 *)
DeskObjects == DeskPapers \cup {"card"}

(* The card counts the documents that wait for the employee.               *)
Waiting == {d \in DeskPapers : papers[d] # NoPaper /\ papers[d].status \in {"sent", "viewed"}}

Truth(o) == IF o = "card" THEN [card |-> staffCard, waiting |-> Waiting, journal |-> journal]
            ELSE papers[o]

(* Fault: a mutation has only its own object read again.                   *)
ReadAgainOwn(objects) == [o \in DeskObjects |-> IF o \in objects THEN DeskReading ELSE deskReads[o]]

(* A mutation that succeeds has everything of the section read again; a   *)
(* read in flight is given up for the new one.                             *)
ReadAgain(objects) == [o \in DeskObjects |-> DeskReading]

ServeDeskRead(o) ==
    /\ deskReads[o] = DeskReading
    /\ deskReads' = [deskReads EXCEPT ![o] = [seen |-> Truth(o)]]
    /\ unseen' = unseen \ {o}
    /\ UNCHANGED <<staffCard, papers, journal, desk, deskJobs, deskDialog, ticked, template,
                   deskClicks,
                   deskOthers, deskPicks>>

(* Fault: the sheet of a document stays mounted when its status changes.   *)
DeskDialogStays(o, seen) == deskDialog[o]

(* The sheet of a document is mounted anew when its status changes, and a *)
(* dialog that was open on it is gone; the sheet of an employee stays.     *)
DialogAfter(o, seen) ==
    IF o \in DeskPapers /\ desk[o] # NoPaper /\ seen # desk[o] /\ seen.status # desk[o].status
    THEN NoDeskDialog ELSE deskDialog[o]

ArriveDeskRead(o) ==
    /\ deskReads[o] \notin {NoDeskRead, DeskReading}
    /\ LET seen == deskReads[o].seen IN
         /\ desk' = [desk EXCEPT ![o] = seen]
         /\ deskDialog' = [deskDialog EXCEPT ![o] = DialogAfter(o, seen)]
    /\ deskReads' = [deskReads EXCEPT ![o] = NoDeskRead]
    /\ UNCHANGED <<staffCard, papers, journal, deskJobs, ticked, template, unseen, deskClicks,
                   deskOthers, deskPicks>>

(***************************************************************************)
(* The officer                                                             *)
(***************************************************************************)
DeskOffers(o) == IF o = "card" THEN CardOffers(desk[o].card)
                 ELSE IF desk[o] = NoPaper THEN {} ELSE PaperOffers(desk[o])

(* A button whose request is in flight is disabled.                        *)
DeskAsk(op, objects) ==
    /\ deskClicks < MaxDeskClicks
    /\ ~\E j \in deskJobs : j.op = op /\ j.objects = objects
    /\ deskClicks' = deskClicks + 1
    /\ deskJobs' = deskJobs \cup {[op |-> op, objects |-> objects, state |-> "sent"]}

DeskClick(o, op) ==
    /\ op \in DeskOffers(o) \ (CardDialogs \cup PaperDialogs)
    /\ DeskAsk(op, {o})
    /\ UNCHANGED <<staffCard, papers, journal, desk, deskReads, deskDialog, ticked, template,
                   unseen,
                   deskOthers, deskPicks>>

OpenDeskDialog(o, op) ==
    /\ op \in DeskOffers(o) \cap (CardDialogs \cup PaperDialogs)
    /\ deskDialog[o] = NoDeskDialog
    /\ deskDialog' = [deskDialog EXCEPT ![o] = op]
    /\ UNCHANGED <<staffCard, papers, journal, desk, deskReads, deskJobs, ticked, template, unseen,
                   deskClicks, deskOthers, deskPicks>>

ConfirmDeskDialog(o) ==
    /\ deskDialog[o] # NoDeskDialog
    /\ DeskAsk(deskDialog[o], {o})
    /\ UNCHANGED <<staffCard, papers, journal, desk, deskReads, deskDialog, ticked, template,
                   unseen,
                   deskOthers, deskPicks>>

CancelDeskDialog(o) ==
    /\ deskDialog[o] # NoDeskDialog
    /\ deskDialog' = [deskDialog EXCEPT ![o] = NoDeskDialog]
    /\ UNCHANGED <<staffCard, papers, journal, desk, deskReads, deskJobs, ticked, template, unseen,
                   deskClicks, deskOthers, deskPicks>>

(* The list has a box for a document it shows as ready to be sent; the    *)
(* ticks stay when a document stops being ready.                           *)
TickPaper(d) ==
    /\ desk[d] # NoPaper /\ desk[d].status = "frozen"
    /\ ticked' = IF d \in ticked THEN ticked \ {d} ELSE ticked \cup {d}
    /\ UNCHANGED <<staffCard, papers, journal, desk, deskReads, deskJobs, deskDialog, template,
                   unseen,
                   deskClicks, deskOthers, deskPicks>>

BulkSend ==
    /\ Sendable # {}
    /\ DeskAsk("send", Sendable)
    /\ UNCHANGED <<staffCard, papers, journal, desk, deskReads, deskDialog, ticked, template,
                   unseen,
                   deskOthers, deskPicks>>

(* Choosing the employees of a new document fills a field that is empty   *)
(* with what the card of the first one says.                               *)
Prefilled(field, e) == IF field = NoStaff THEN e ELSE field

PickStaff(e) ==
    /\ deskPicks < MaxDeskPicks
    /\ e # template.first
    /\ template' = [first |-> e, field |-> Prefilled(template.field, e)]
    /\ deskPicks' = deskPicks + 1
    /\ UNCHANGED <<staffCard, papers, journal, desk, deskReads, deskJobs, deskDialog, ticked,
                   unseen,
                   deskClicks, deskOthers>>

(* A document of a type, as a draft or frozen at once. The dialog closes  *)
(* with the answer and keeps its fields.                                   *)
CreatePaper(d, type, freeze) ==
    /\ template.first # NoStaff
    /\ papers[d] = NoPaper /\ deskClicks < MaxDeskClicks
    /\ LET draft == [type |-> type, status |-> "draft", sent |-> FALSE, by |-> {}] IN
         papers' = [papers EXCEPT ![d] = IF freeze THEN PaperAfter(draft, "freeze") ELSE draft]
    /\ journal' = journal + 1
    /\ deskClicks' = deskClicks + 1
    /\ template' = [template EXCEPT !.first = NoStaff]
    /\ deskJobs' = deskJobs \cup {[op |-> "create", objects |-> {d}, state |-> "done"]}
    /\ UNCHANGED <<staffCard, desk, deskReads, deskDialog, ticked, unseen, deskOthers, deskPicks>>

(* A file made elsewhere is frozen as it is uploaded.                      *)
UploadPaper(d, type) ==
    /\ papers[d] = NoPaper /\ deskClicks < MaxDeskClicks
    /\ papers' = [papers EXCEPT ![d] =
                    PaperAfter([type |-> type, status |-> "draft", sent |-> FALSE, by |-> {}],
                               "freeze")]
    /\ journal' = journal + 1
    /\ deskClicks' = deskClicks + 1
    /\ deskJobs' = deskJobs \cup {[op |-> "upload", objects |-> {d}, state |-> "done"]}
    /\ UNCHANGED <<staffCard, desk, deskReads, deskDialog, ticked, template, unseen, deskOthers,
                   deskPicks>>

(***************************************************************************)
(* Requests                                                                *)
(***************************************************************************)
DeskAccepts(j) == \A o \in j.objects : IF o = "card" THEN CardAccepts(staffCard, j.op)
                                       ELSE papers[o] # NoPaper /\ PaperAccepts(papers[o], j.op)

(* A request about several documents is done for all of them or refused.  *)
ServeDeskJob(j) ==
    /\ j.state = "sent"
    /\ IF DeskAccepts(j)
       THEN /\ staffCard' = IF "card" \in j.objects THEN CardAfter(staffCard, j.op) ELSE staffCard
            /\ papers' = [d \in DeskPapers |-> IF d \in j.objects THEN PaperAfter(papers[d], j.op)
                                               ELSE papers[d]]
            /\ journal' = journal + 1
            /\ deskJobs' = (deskJobs \ {j}) \cup {[j EXCEPT !.state = "done"]}
       ELSE /\ deskJobs' = (deskJobs \ {j}) \cup {[j EXCEPT !.state = "failed"]}
            /\ UNCHANGED deskServer
    /\ UNCHANGED <<desk, deskReads, deskDialog, ticked, template, unseen, deskClicks, deskOthers,
                   deskPicks>>

(* The network may lose a request or an answer: what was done stays done  *)
(* and nothing is read again.                                              *)
LoseDeskJob(j) ==
    /\ j.state # "failed"
    /\ deskJobs' = (deskJobs \ {j}) \cup {[j EXCEPT !.state = "failed"]}
    /\ unseen' = IF j.state = "done" THEN DeskObjects ELSE unseen
    /\ UNCHANGED <<staffCard, papers, journal, desk, deskReads, deskDialog, ticked, template,
                   deskClicks,
                   deskOthers, deskPicks>>

AnswerDeskJob(j) ==
    /\ j.state \in {"done", "failed"}
    /\ deskJobs' = deskJobs \ {j}
    /\ IF j.state = "done"
       THEN /\ deskReads' = ReadAgain(j.objects)
            /\ deskDialog' = [o \in DeskObjects |-> IF o \in j.objects /\ deskDialog[o] = j.op
                                                    THEN NoDeskDialog ELSE deskDialog[o]]
            /\ ticked' = IF j.op = "send" /\ j.objects \subseteq ticked THEN {} ELSE ticked
       ELSE UNCHANGED <<deskReads, deskDialog, ticked>>
    /\ UNCHANGED <<staffCard, papers, journal, desk, template, unseen, deskClicks, deskOthers,
                   deskPicks>>

(***************************************************************************)
(* The employee and the clock                                              *)
(***************************************************************************)
DeskOther(objects) ==
    /\ deskOthers < MaxDeskOthers
    /\ deskOthers' = deskOthers + 1
    /\ journal' = journal + 1
    /\ unseen' = unseen \cup objects \cup {"card"}
    /\ UNCHANGED <<desk, deskReads, deskJobs, deskDialog, ticked, template, deskClicks, deskPicks>>

EmployeeGetsKey ==
    /\ staffCard.edo \in {"consent_signed", "key_revoked"}
    /\ staffCard' = [staffCard EXCEPT !.edo = "active", !.key = TRUE]
    /\ papers' = papers
    /\ DeskOther({})

EmployeeActs(d) ==
    /\ papers[d] # NoPaper /\ papers[d].status \in {"sent", "viewed"}
    /\ \/ papers' = [papers EXCEPT ![d].status = "viewed"] /\ papers[d].status = "sent"
       \/ papers' = [papers EXCEPT ![d] = SignedAlso(papers[d], "employee")] /\ EmployeeReady
       \/ papers' = [papers EXCEPT ![d].status = "rejected"]
       \/ papers' = [papers EXCEPT ![d].status = "expired"]
    /\ staffCard' = staffCard
    /\ DeskOther({d})

-----------------------------------------------------------------------------
DeskInit ==
    /\ staffCard \in {[edo |-> "not_invited", pkg |-> "none", key |-> FALSE, phone |-> TRUE, works |-> TRUE],
                 [edo |-> "notified", pkg |-> "sent", key |-> FALSE, phone |-> TRUE, works |-> FALSE],
                 [edo |-> "active", pkg |-> "signed", key |-> TRUE, phone |-> TRUE, works |-> TRUE]}
    /\ papers \in [DeskPapers -> {NoPaper, [type |-> "bilateral", status |-> "draft",
                                            sent |-> FALSE, by |-> {}]}]
    /\ journal = 0
    /\ desk = [o \in DeskObjects |-> Truth(o)]
    /\ deskReads = [o \in DeskObjects |-> NoDeskRead]
    /\ deskDialog = [o \in DeskObjects |-> NoDeskDialog]
    /\ deskJobs = {} /\ ticked = {} /\ unseen = {}
    /\ template = [first |-> NoStaff, field |-> NoStaff]
    /\ deskClicks = 0 /\ deskOthers = 0 /\ deskPicks = 0

DeskNext ==
    \/ \E o \in DeskObjects :
         \/ ServeDeskRead(o) \/ ArriveDeskRead(o) \/ ConfirmDeskDialog(o) \/ CancelDeskDialog(o)
         \/ \E op \in DeskOffers(o) : DeskClick(o, op) \/ OpenDeskDialog(o, op)
    \/ \E d \in DeskPapers : TickPaper(d) \/ EmployeeActs(d)
    \/ \E d \in DeskPapers, type \in {"bilateral", "unilateral"}, freeze \in BOOLEAN :
         CreatePaper(d, type, freeze) \/ (freeze /\ UploadPaper(d, type))
    \/ BulkSend \/ EmployeeGetsKey
    \/ \E e \in DeskStaff : PickStaff(e)
    \/ \E j \in deskJobs : ServeDeskJob(j) \/ LoseDeskJob(j) \/ AnswerDeskJob(j)

DeskFairness ==
    \A o \in DeskObjects : WF_deskVars(ServeDeskRead(o)) /\ WF_deskVars(ArriveDeskRead(o))

DeskSpec == DeskInit /\ [][DeskNext]_deskVars /\ DeskFairness
-----------------------------------------------------------------------------
DeskTypeOK ==
    /\ staffCard \in DeskCard
    /\ papers \in [DeskPapers -> DeskPaper \cup {NoPaper}]
    /\ journal \in Nat
    /\ template \in [first : DeskStaff \cup {NoStaff}, field : DeskStaff \cup {NoStaff}]
    /\ unseen \subseteq DeskObjects /\ ticked \subseteq DeskPapers

(* When nothing is in flight the page is right about everything but what  *)
(* the employee did, or a lost answer hides: whatever the officer did,    *)
(* the sheets, the list, the counters and the journal show it.            *)
QuietDeskIsTrue ==
    deskJobs = {} =>
        \A o \in DeskObjects \ unseen : deskReads[o] = NoDeskRead => desk[o] = Truth(o)

(* A dialog open on a document asks for something the document, as it is  *)
(* shown, may still have done to it.                                       *)
OpenDialogIsOffered ==
    \A d \in DeskPapers : deskDialog[d] # NoDeskDialog => deskDialog[d] \in DeskOffers(d)

(* A button of a sheet that shows the truth is served, except where the   *)
(* employee is not ready: dismissed or without a number for an invitation,*)
(* without a key for sending, the package cancelled for the consent.      *)
FreshButtonsWork ==
    /\ \A op \in DeskOffers("card") :
         (desk["card"].card = staffCard /\ ~CardAccepts(staffCard, op)) =>
             \/ op = "invite" /\ ~(staffCard.works /\ staffCard.phone)
             \/ op = "consent" /\ staffCard.pkg = "cancelled"
    /\ \A d \in DeskPapers : \A op \in DeskOffers(d) :
         (desk[d] = papers[d] /\ ~PaperAccepts(papers[d], op)) => op = "send" /\ ~EmployeeReady

(* The fields of a new document are filled from the card of the employee  *)
(* it is for.                                                              *)
PrefilledFromTheCard == template.first # NoStaff => template.field = template.first
=============================================================================
