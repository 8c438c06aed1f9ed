----------------------------- MODULE RecordForm -----------------------------
(***************************************************************************)
(* One field of one record, from the database to the edit form and back    *)
(* (the forms of candidates, vacancies, leads, tenders, clients, contacts  *)
(* and tasks, the sheets that open them and the handlers that turn the     *)
(* form into a payload). The fields of a form do not depend on each other, *)
(* but for the deal of a vacancy; Init picks the record and the field.     *)
(***************************************************************************)
EXTENDS Naturals

CONSTANTS
  Values,       \* what a field can hold
  Blank,        \* nothing: an empty text, no row, null, a zero
  Incomplete,   \* rows one of which lacks something required
  Absent,       \* the payload has no such key
  Nothing,      \* no record, no form, no payload
  MaxOthers,    \* bound: saves by colleagues
  MaxSaves      \* bound: saves by this user

ASSUME RecordAssumption ==
  /\ {Blank, Incomplete, Absent, Nothing} \cap Values = {}
  /\ Blank \notin {Incomplete, Absent, Nothing}
  /\ Incomplete \notin {Absent, Nothing} /\ Absent # Nothing
  /\ Values # {} /\ {MaxOthers, MaxSaves} \subseteq Nat

VARIABLES
  entity, field,
  saved,       \* the field in the database
  deal,        \* engagement type of the vacancy in the database
  seen,        \* the record in the query cache: its value and deal
  form,        \* the field in the form
  formDeal,
  base,        \* auxiliary: the record's field when the form was opened
  touched,     \* auxiliary: the user changed the field in this form, or the deal
  sent,        \* the payload under way
  importing,   \* a document is being recognised for this form
  others, saves

record == <<saved, deal, others>>
sheet == <<form, formDeal, base, touched>>
recordVars == <<entity, field, record, seen, sheet, sent, importing, saves>>
-----------------------------------------------------------------------------
(* The fields of the forms, section by section.                            *)
CandidateWho == {"engagementType", "fullName", "role", "grade", "experienceYears"}
CandidateTerms == {"format", "rateMonth", "employmentType", "recruiterId"}
CandidateContacts == {"birthday", "location", "telegram", "phone", "email"}
CandidateTexts == {"summary", "stack"}
SkillCategoriesSection == {"skillCategories"}
ExperienceSection == {"experience"}
EducationSection == {"education"}
CertificationsSection == {"certifications"}
LanguagesSection == {"languages"}
(* A row is added empty; only a skill category comes with a title.         *)
Rows == ExperienceSection \cup EducationSection \cup CertificationsSection \cup LanguagesSection

VacancyMain == {"title", "clientId", "project", "grade", "format"}
VacancyTerms == {"salaryMax", "rateClient", "positions", "priority"}
VacancyPeople == {"deadline", "accountManagerId"}
VacancyRecruiters == {"recruiterIds"}
VacancyTexts == {"stack", "description", "requirements"}

LeadContacts == {"company", "industry", "website", "contactName", "contactPosition", "phone",
                 "email", "telegram"}
LeadDeal == {"source", "expectedValue", "nextContactDate", "priority", "accountManagerId", "note"}
TenderMain == {"title", "customer", "law", "priority", "registryNumber", "platform"}
TenderTerms == {"nmck", "ourPrice", "submissionDeadline", "accountManagerId", "url"}
ClientForm == {"name", "industry", "clientKind", "currency", "telegramChat", "accountManagerId",
               "status"}
LegalEntities == {"legalEntities"}
ContactForm == {"name", "role", "email", "phone", "telegram", "birthday"}
TaskForm == {"title", "description", "priority", "assigneeId", "dueDate"}

Fields == [
  candidate |-> CandidateWho \cup CandidateTerms \cup CandidateContacts \cup CandidateTexts
                  \cup SkillCategoriesSection \cup Rows,
  vacancy |-> VacancyMain \cup VacancyTerms \cup VacancyPeople \cup VacancyRecruiters \cup VacancyTexts,
  lead |-> LeadContacts \cup LeadDeal, tender |-> TenderMain \cup TenderTerms, client |-> ClientForm \cup LegalEntities,
  contact |-> ContactForm, task |-> TaskForm]
Entities == DOMAIN Fields

(* The schemas: what must be filled in.                                    *)
CandidateSchema == {"fullName", "role", "engagementType", "grade", "format", "employmentType",
                    "recruiterId"}
VacancySchema == {"title", "clientId", "grade", "format", "priority", "positions", "accountManagerId"}
LeadSchema == {"company", "priority"}
TenderSchema == {"title", "customer", "law", "priority"}
ClientSchema == {"name", "industry", "clientKind", "currency", "accountManagerId", "status",
                 "legalEntities"}
ContactSchema == {"name", "role"}
TaskSchema == {"title", "priority"}
Required == [candidate |-> CandidateSchema, vacancy |-> VacancySchema, lead |-> LeadSchema,
             tender |-> TenderSchema, client |-> ClientSchema, contact |-> ContactSchema,
             task |-> TaskSchema]
(* A vacancy of the outstaff kind needs an hourly rate.                    *)
Complete(value, kind) ==
  /\ value # Incomplete
  /\ value = Blank => field \notin Required[entity]
  /\ entity = "vacancy" /\ field = "rateClient" /\ kind = "outstaff" => value # Blank

(* What an empty form holds.                                               *)
CandidateDefaults == {"engagementType", "grade", "format", "employmentType"}
VacancyDefaults == {"grade", "format", "priority", "positions"}
OtherDefaults == {"priority", "law", "clientKind", "currency", "status", "legalEntities"}
Default ==
  LET preset == CASE entity = "candidate" -> CandidateDefaults
                  [] entity = "vacancy" -> VacancyDefaults
                  [] OTHER -> OtherDefaults
  IN  CASE field = "legalEntities" -> Incomplete
        [] field # "legalEntities" /\ field \in preset -> CHOOSE v \in Values : TRUE
        [] OTHER -> Blank
-----------------------------------------------------------------------------
(* Fault: toFormValues does not read the field.                            *)
ToFormValuesForgets(value) == IF field \in {"location", "note", "url"} THEN Blank ELSE value
(* toFormValues, leadToForm, tenderToForm, taskToForm: null becomes empty. *)
ToFormValues(value) == value

(* Payloads. What the handlers of candidates, vacancies and contacts leave *)
(* out when it is empty is not sent at all.                                *)
CandidatePayload == {"birthday", "telegram", "phone", "email", "summary"}
VacancyPayload == {"project", "description", "requirements"}
ContactPayload == {"email", "phone", "telegram", "birthday"}
Omitted == CASE entity = "candidate" -> CandidatePayload
             [] entity = "vacancy" -> VacancyPayload
             [] entity = "contact" -> ContactPayload
             [] OTHER -> {}
(* The rate is for outstaff, the salary for agency vacancies.              *)
ByDeal(value, kind) ==
  IF entity = "vacancy" /\ <<field, kind>> \in {<<"rateClient", "agency">>, <<"salaryMax", "outstaff">>}
  THEN Blank ELSE value
Payload ==
  IF form = Blank /\ field \in Omitted THEN Absent ELSE ByDeal(form, formDeal)

(* What the server makes of a payload: a key that is not sent changes      *)
(* nothing, but a contact is replaced as a whole.                          *)
Stored(payload) ==
  CASE payload # Absent -> payload
    [] payload = Absent /\ (saved = Nothing \/ entity = "contact") -> Blank
    [] OTHER -> saved
-----------------------------------------------------------------------------
Open(value, kind, was) ==
  /\ form' = value /\ formDeal' = kind
  /\ base' = was /\ touched' = FALSE
  /\ UNCHANGED <<entity, field, record, seen, sent, importing, saves>>

(* The edit sheet: the form takes its values when it is mounted and never  *)
(* again.                                                                  *)
OpenEdit ==
  /\ form = Nothing /\ saved # Nothing
  /\ Open(ToFormValues(seen.value), seen.deal, seen.value)

(* The sheets "create" of the menu, the lists and the boards.              *)
OpenCreate ==
  /\ form = Nothing /\ saved = Nothing
  /\ Open(Default, "outstaff", Default)

(* Closing loses what was typed, also while a save is under way; a         *)
(* document that is still being recognised is lost with the form.          *)
CloseSheet ==
  /\ form # Nothing
  /\ form' = Nothing /\ importing' = FALSE
  /\ UNCHANGED <<entity, field, record, seen, formDeal, base, touched, sent, saves>>

Type(v) ==
  /\ form \notin {Nothing, v}
  /\ v = Incomplete => field \in Rows \cup LegalEntities
  /\ form' = v /\ touched' = TRUE
  /\ UNCHANGED <<entity, field, record, seen, formDeal, base, sent, importing, saves>>

SwitchDeal ==
  /\ form # Nothing /\ entity = "vacancy"
  /\ formDeal' = IF formDeal = "agency" THEN "outstaff" ELSE "agency"
  /\ touched' = TRUE
  /\ UNCHANGED <<entity, field, record, seen, form, base, sent, importing, saves>>

(* The recruiter who edits or creates a candidate without one becomes it.  *)
AutoRecruiter ==
  /\ entity = "candidate" /\ field = "recruiterId"
  /\ form = Blank /\ base = Blank
  /\ \E me \in Values : form' = me
  /\ touched' = TRUE
  /\ UNCHANGED <<entity, field, record, seen, formDeal, base, sent, importing, saves>>

(* A new vacancy takes the manager of its client, again whenever the list  *)
(* of clients has been fetched, over a manager chosen by hand as well.     *)
AutoManager(manager) ==
  /\ entity = "vacancy" /\ field = "accountManagerId"
  /\ form \notin {Nothing, manager} /\ base = Blank
  /\ form' = manager /\ touched' = TRUE
  /\ UNCHANGED <<entity, field, record, seen, formDeal, base, sent, importing, saves>>
-----------------------------------------------------------------------------
(* Recognition of a resume or a brief. The user goes on typing meanwhile.  *)
ResumeFields == Fields["candidate"] \ {"engagementType", "employmentType", "recruiterId"}
BriefFields == {"title", "project", "grade", "format", "priority", "deadline", "rateClient",
                "stack", "description", "requirements"}
StartImport ==
  /\ form # Nothing /\ ~importing
  /\ \/ entity = "candidate" /\ saved = Nothing /\ field \in ResumeFields
     \/ entity = "vacancy" /\ field \in BriefFields
  /\ importing' = TRUE
  /\ UNCHANGED <<entity, field, record, seen, sheet, sent, saves>>

(* A resume fills what is empty when it arrives; a brief replaces.         *)
Merge(current, found) ==
  IF found # Blank /\ (entity = "vacancy" \/ current = Blank) THEN found ELSE current
Recognised(found) ==
  /\ importing
  /\ importing' = FALSE
  /\ found = Incomplete => field \in Rows
  /\ form' = Merge(form, found)
  /\ touched' = (touched \/ form' # form)
  /\ UNCHANGED <<entity, field, record, seen, formDeal, base, sent, saves>>
-----------------------------------------------------------------------------
(* handleSubmit: the schema, then the mutation; the button is disabled     *)
(* while it is under way.                                                  *)
Submit ==
  /\ form # Nothing /\ sent = Nothing /\ saves < MaxSaves
  /\ Complete(form, formDeal)
  /\ sent' = [state |-> "sent", payload |-> Payload, deal |-> formDeal,
              form |-> form, base |-> base, touched |-> touched]
  /\ saves' = saves + 1
  /\ UNCHANGED <<entity, field, record, seen, sheet, importing>>

ServerSaves ==
  /\ sent # Nothing /\ sent.state = "sent"
  /\ saved' = Stored(sent.payload) /\ deal' = sent.deal
  /\ sent' = [sent EXCEPT !.state = "saved"]
  /\ UNCHANGED <<entity, field, seen, sheet, importing, others, saves>>

(* The answer closes the sheet, whatever form is open in it by then, and   *)
(* the mutation puts the record into the cache.                            *)
Saved ==
  /\ sent # Nothing /\ sent.state = "saved"
  /\ seen' = [value |-> saved, deal |-> deal]
  /\ sent' = Nothing
  /\ form' = Nothing /\ importing' = FALSE
  /\ UNCHANGED <<entity, field, record, formDeal, base, touched, saves>>

(* A refusal, or an answer that is lost, leaves the form as it is.         *)
NotSaved ==
  /\ sent # Nothing
  /\ sent' = Nothing
  /\ seen' = IF saved = Nothing THEN seen ELSE [value |-> saved, deal |-> deal]
  /\ UNCHANGED <<entity, field, record, sheet, importing, saves>>

OthersSave(v) ==
  /\ saved \notin {Nothing, v} /\ others < MaxOthers
  /\ v = ByDeal(v, deal)
  /\ v = Blank => field \notin Required[entity]
  /\ saved' = v /\ others' = others + 1
  /\ UNCHANGED <<entity, field, deal, seen, sheet, sent, importing, saves>>

(* The event of a colleague's save: the query is fetched again.            *)
RefetchRecord ==
  /\ saved # Nothing /\ seen # [value |-> saved, deal |-> deal]
  /\ seen' = [value |-> saved, deal |-> deal]
  /\ UNCHANGED <<entity, field, record, sheet, sent, importing, saves>>
-----------------------------------------------------------------------------
(* A record that exists was complete once; a person it named may be gone.  *)
Detachable == {"recruiterId", "accountManagerId"}
RecordInit ==
  /\ entity \in Entities /\ field \in Fields[entity]
  /\ deal \in IF entity = "vacancy" THEN {"outstaff", "agency"} ELSE {"outstaff"}
  /\ saved \in Values \cup {Blank, Nothing}
  /\ saved = Nothing => deal = "outstaff"
  /\ saved # Nothing => saved = ByDeal(saved, deal) /\ (Complete(saved, deal) \/ field \in Detachable)
  /\ seen = [value |-> saved, deal |-> deal]
  /\ form = Nothing /\ formDeal = "outstaff" /\ base = Blank /\ touched = FALSE
  /\ sent = Nothing /\ importing = FALSE
  /\ others = 0 /\ saves = 0

RecordNext ==
  \/ OpenEdit \/ OpenCreate \/ CloseSheet \/ SwitchDeal
  \/ AutoRecruiter \/ StartImport
  \/ Submit \/ ServerSaves \/ Saved \/ NotSaved \/ RefetchRecord
  \/ \E v \in Values : AutoManager(v)
  \/ \E v \in Values \cup {Blank} : OthersSave(v)
  \/ \E v \in Values \cup {Blank, Incomplete} : Type(v) \/ Recognised(v)

RecordSpec == RecordInit /\ [][RecordNext]_recordVars
-----------------------------------------------------------------------------
(* An empty required field, or a row that lacks something, never reaches   *)
(* the server.                                                             *)
RecordTypeOK ==
  /\ field \in Fields[entity]
  /\ saved \in Values \cup {Blank, Nothing}
  /\ {deal, formDeal} \subseteq {"outstaff", "agency"}
  /\ form \in Values \cup {Blank, Incomplete, Nothing}
  /\ {touched, importing} \subseteq BOOLEAN
  /\ importing => form # Nothing
  /\ sent # Nothing => sent.payload \in Values \cup {Blank, Absent}

(* Saving a form leaves a field alone that the user did not change in it   *)
(* and that was not changed in the database since the form was opened: the *)
(* way into the form and the way back are inverse to each other.           *)
UntouchedSurvives ==
  [][sent # Nothing /\ sent' # Nothing /\ sent.state = "sent" /\ sent'.state = "saved"
       /\ ~sent.touched /\ saved = sent.base => saved' = saved]_recordVars

(* A resume that arrives late replaces nothing the user has typed in the   *)
(* meantime (CandidateForm, the merge "only empty fields").                *)
ImportKeepsTyped ==
  [][importing /\ ~importing' /\ entity = "candidate" /\ form \notin {Blank, Nothing} /\ form' # Nothing
       => form' = form]_recordVars

(* "Changes are saved in the card": a save the server has taken leaves in  *)
(* the database what the form showed (but for a rate or a salary the deal  *)
(* does not have).                                                         *)
EditedIsSaved ==
  [][sent # Nothing /\ sent' # Nothing /\ sent.state = "sent" /\ sent'.state = "saved"
       => saved' = ByDeal(sent.form, sent.deal)]_recordVars

=============================================================================
