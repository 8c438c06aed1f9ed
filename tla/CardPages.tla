------------------------------ MODULE CardPages ------------------------------
(***************************************************************************)
(* The page of one record (candidate, vacancy, lead, tender, client,       *)
(* contact, task): what it offers by the rights the client knows of, what  *)
(* the server makes of it, and the copy of the record in the query cache.  *)
(* An operation is a pair of its name and the right it asks for; the edit  *)
(* form itself is module RecordForm.                                       *)
(***************************************************************************)
EXTENDS Naturals, FiniteSets

CONSTANTS
  Partners,     \* vacancies of the candidate, candidates of the vacancy
  NoCard,       \* no record
  NoFetch,      \* the record is not being fetched
  Asking,       \* it is, and the server has not read it yet
  MaxClicks,    \* bound: operations of this user
  MaxCardOthers    \* bound: changes by colleagues

(* What the properties tell apart of a record; made counts the clients     *)
(* that conversions have created of it.                                    *)
CardRecords == [life : {"active", "archived", "gone"}, status : {"todo", "won"},
                partners : SUBSET Partners, team : SUBSET {"me", "other"},
                contacts : BOOLEAN, made : Nat, linked : BOOLEAN]

ASSUME CardAssumption ==
  /\ MaxClicks \in Nat \ {0} /\ MaxCardOthers \in Nat
  /\ NoCard \notin CardRecords \cup Partners
  /\ NoFetch \notin CardRecords /\ Asking \notin CardRecords /\ NoFetch # Asking

VARIABLES
  cardPage, cardRole,
  mine,        \* the user answers for the record (a task: wrote it)
  granted,     \* the rights of the role on the server
  known,       \* what the client believes them to be
  card,        \* the record in the database
  cardCache,      \* the record in the query cache
  cardFetch,   \* the fetch under way: Asking, or what it read
  asked,       \* the dialog that is open
  jobs,        \* mutations under way
  undo,        \* the partner the toast "detached" offers to attach again
  unsure,      \* auxiliary: a mutation that is not followed by a fetch failed
  cardNews,        \* an event about the record is on its way
  clicks, cardOthers

cardUser == <<cardPage, cardRole, mine, granted>>
cardVars == <<cardUser, known, card, cardCache, cardFetch, asked, jobs, undo, unsure, cardNews, clicks, cardOthers>>
-----------------------------------------------------------------------------
(* What the pages offer, section by section.                               *)
CandidateHeader == {<<"edit", "candidate:edit">>, <<"copy", "candidate:create">>}
CandidateMenu == {<<"archive", "candidate:archive">>, <<"restore", "candidate:archive">>,
                  <<"delete", "candidate:delete_permanent">>}
CandidateBanner == {<<"restore", "candidate:archive">>, <<"status", "candidate:change_status">>}
CandidateVacancies == {<<"attach", "vacancy:edit">>, <<"detach", "vacancy:edit">>}
CandidateScreenings == {<<"screen", "screening:run">>, <<"report", "screening:view_report">>}
CandidateOffers == CandidateHeader \cup CandidateMenu \cup CandidateBanner \cup CandidateVacancies
                     \cup CandidateScreenings

VacancyHeader == {<<"edit", "vacancy:edit">>, <<"delete", "admin or manager">>,
                  <<"copy", "vacancy:create">>, <<"copy team", "vacancy:create">>,
                  <<"copy team", "vacancy:assign_recruiter">>}
VacancyStatus == {<<"status", "vacancy:change_status">>}
JoinedRecruiters == {<<"join", "vacancy:assign_recruiter">>, <<"join", "vacancy:edit">>}
VacancyCandidates == {<<op, "vacancy:edit">> : op \in {"attach", "detach", "score"}}
VacancyOffers == VacancyHeader \cup VacancyStatus \cup JoinedRecruiters \cup VacancyCandidates

LeadHeader == {<<op, "lead:access">> : op \in {"edit", "copy", "delete", "convert"}}
                \cup {<<"convert", "client:create">>}
LeadOffers == LeadHeader \cup {<<"status", "lead:access">>}
TenderOffers == {<<op, "anyone">> : op \in {"edit", "copy", "delete", "status"}}
ClientHeader == {<<"edit", "client:edit">>, <<"copy", "client:create">>, <<"delete", "client:delete">>}
ClientSections == {<<"contact", "client:edit">>, <<"vacancies", "vacancy:view">>}
ClientOffers == ClientHeader \cup ClientSections
ContactOffers == {<<op, "client:edit">> : op \in {"edit", "copy", "delete"}}
TaskHeader == {<<"edit", "not a viewer">>, <<"copy", "not a viewer">>, <<"delete", "author">>}
TaskOffers == TaskHeader \cup {<<"status", "not a viewer">>}

Offers == [candidate |-> CandidateOffers, vacancy |-> VacancyOffers, lead |-> LeadOffers,
           tender |-> TenderOffers, client |-> ClientOffers, contact |-> ContactOffers,
           task |-> TaskOffers]
CardPages == DOMAIN Offers

(* What the server asks for.                                               *)
CandidateGuards == {<<"edit", "candidate:edit">>, <<"copy", "candidate:create">>,
  <<"archive", "candidate:archive">>, <<"restore", "candidate:archive">>,
  <<"delete", "candidate:delete_permanent">>, <<"status", "candidate:change_status">>,
  <<"screen", "screening:run">>, <<"report", "screening:view_report">>}
MatchGuards == {<<op, "vacancy:edit">> : op \in {"attach", "detach", "score"}}
VacancyGuards == {<<"edit", "vacancy:edit">>, <<"copy", "vacancy:create">>,
  <<"copy team", "vacancy:create">>, <<"copy team", "vacancy:assign_recruiter">>,
  <<"join", "vacancy:edit">>, <<"join", "vacancy:assign_recruiter">>,
  <<"status", "vacancy:change_status">>, <<"delete", "admin or manager">>}
LeadGuards == {<<op, "lead:access">> : op \in {"edit", "copy", "delete", "status", "link"}}
ConvertGuards == {<<"client", "client:create">>, <<"contact", "client:edit">>}
TenderGuards == {<<op, "writer">> : op \in {"edit", "copy", "status"}} \cup {<<"delete", "admin or manager">>}
ClientGuards == {<<"edit", "client:edit">>, <<"contact", "client:edit">>, <<"copy", "client:create">>,
  <<"delete", "client:delete">>, <<"vacancies", "vacancy:view">>}
ContactGuards == {<<op, "client:edit">> : op \in {"edit", "copy", "delete"}}
TaskGuards == {<<op, "not a viewer">> : op \in {"edit", "copy", "status"}} \cup {<<"delete", "author">>}
Guards == [candidate |-> CandidateGuards \cup MatchGuards, vacancy |-> VacancyGuards \cup MatchGuards,
           lead |-> LeadGuards \cup ConvertGuards, tender |-> TenderGuards, client |-> ClientGuards,
           contact |-> ContactGuards, task |-> TaskGuards]

(* checkAction: a right of the matrix; the rest goes by the role.          *)
Roles == {"admin", "account_manager", "recruiter", "sales_manager", "viewer"}
RoleTags == {"anyone", "not a viewer", "writer", "admin or manager", "author"}
RoleRights(role) ==
  {right \in RoleTags :
    CASE right = "anyone" -> TRUE
      [] right = "not a viewer" -> role # "viewer"
      [] right = "writer" -> role \in {"admin", "account_manager", "recruiter"}
      [] right = "admin or manager" -> role \in {"admin", "account_manager"}
      [] right = "author" -> role = "admin" \/ mine}
Can(table, op, rights) ==
  \A entry \in table : entry[1] = op => entry[2] \in rights \cup RoleRights(cardRole)

(* An operation the state of the record has room for.                      *)
Possible(op, c) ==
  CASE op = "archive" -> c.life = "active"
    [] op = "restore" -> c.life = "archived"
    [] op = "copy" -> cardPage = "vacancy" => c.team = {}
    [] op = "copy team" -> c.team # {}
    [] op = "join" -> "me" \notin c.team
    [] op = "convert" -> ~c.linked
    [] op = "attach" -> c.partners # Partners
    [] op \in {"detach", "score"} -> c.partners # {}
    [] OTHER -> TRUE
CardOffered(op) ==
  /\ cardCache # NoCard
  /\ op \in {o[1] : o \in Offers[cardPage]}
  /\ Can(Offers[cardPage], op, known)
  /\ Possible(op, cardCache)

(* Converting takes three requests; a lead without a contact person skips  *)
(* the second.                                                             *)
StepsOf(op) == IF op = "convert" THEN {"client", "contact", "link"} ELSE {op}
CardServed(op, c) ==
  /\ c.life # "gone" /\ Possible(op, c)
  /\ Can(Guards[cardPage], op, granted)
  /\ ~(cardPage = "candidate" /\ op = "copy" /\ c.contacts)

CardEffect(step, arg, c) ==
  CASE step = "archive" -> [c EXCEPT !.life = "archived"]
    [] step = "restore" -> [c EXCEPT !.life = "active"]
    [] step = "delete" -> [c EXCEPT !.life = "gone"]
    [] step = "status" -> [c EXCEPT !.status = arg]
    [] step = "join" -> [c EXCEPT !.team = arg]
    [] step = "attach" -> [c EXCEPT !.partners = @ \cup {arg}]
    [] step = "detach" -> [c EXCEPT !.partners = @ \ {arg}]
    [] step = "client" -> [c EXCEPT !.made = @ + 1]
    [] step = "link" -> [c EXCEPT !.linked = TRUE]
    [] OTHER -> c
-----------------------------------------------------------------------------
(* The mutations, and what they are asked with: a whole team of recruiters *)
(* is sent, as the page shows it, with the user added.                     *)
CandidateMutations == {"archive", "restore", "delete", "copy", "status", "attach", "detach"}
VacancyMutations == {"delete", "copy", "copy team", "status", "join", "attach", "detach"}
LeadMutations == {"delete", "copy", "status", "convert"}
TenderMutations == {"delete", "copy", "status"}
ClientMutations == {"delete", "copy"}
ContactMutations == {"delete", "copy"}
TaskMutations == {"delete", "copy", "status"}
Mutations == [candidate |-> CandidateMutations, vacancy |-> VacancyMutations, lead |-> LeadMutations,
              tender |-> TenderMutations, client |-> ClientMutations, contact |-> ContactMutations,
              task |-> TaskMutations]
Args(op) ==
  CASE op = "status" -> {"todo", "won"} \ {cardCache.status}
    [] op = "join" -> {cardCache.team \cup {"me"}}
    [] op = "attach" -> Partners \ cardCache.partners
    [] op = "detach" -> cardCache.partners
    [] OTHER -> {"none"}
(* A dialog asks first, for a status only if it is final.                  *)
CandidateDialogs == {"archive", "delete", "attach"}
VacancyDialogs == {"status", "delete", "attach"}
LeadDialogs == {"status", "convert", "delete"}
TenderDialogs == {"status", "delete"}
ClientDialogs == {"delete"}
ContactDialogs == {"delete"}
TaskDialogs == {"delete"}
CardPageDialogs == [candidate |-> CandidateDialogs, vacancy |-> VacancyDialogs, lead |-> LeadDialogs,
            tender |-> TenderDialogs, client |-> ClientDialogs, contact |-> ContactDialogs,
            task |-> TaskDialogs]
Asks(op, arg) == op \in CardPageDialogs[cardPage] /\ (op = "status" => arg = "won")

(* onMutate of a status shows it at once and cancels the fetches.          *)
CardStart(op, arg) ==
  /\ ~\E j \in jobs : j.op = op
  /\ clicks < MaxClicks /\ clicks' = clicks + 1
  /\ jobs' = jobs \cup {[op |-> op, step |-> CHOOSE st \in StepsOf(op) : st \in {op, "client"},
                        arg |-> arg, before |-> cardCache, state |-> "sent", answer |-> NoCard]}
  /\ IF op = "status"
     THEN cardCache' = [cardCache EXCEPT !.status = arg] /\ cardFetch' = NoFetch
     ELSE UNCHANGED <<cardCache, cardFetch>>

Click(op, arg) ==
  /\ op \in Mutations[cardPage] /\ CardOffered(op) /\ arg \in Args(op) /\ asked = <<>>
  /\ IF Asks(op, arg)
     THEN asked' = <<op, arg>> /\ UNCHANGED <<cardCache, cardFetch, jobs, clicks>>
     ELSE CardStart(op, arg) /\ asked' = asked
  /\ UNCHANGED <<cardUser, known, card, undo, unsure, cardNews, cardOthers>>

(* A right that is withdrawn closes the dialogs of vacancies, clients and  *)
(* contacts and the choice of vacancies, not the others; nor the comment   *)
(* on the final status of a vacancy, which does not look at the right.     *)
ClosedWithTheRight(op) ==
  op = "attach" \/ (op = "delete" /\ cardPage \in {"vacancy", "client", "contact"})
DialogStays(op) == ClosedWithTheRight(op) => Can(Offers[cardPage], op, known)
ConfirmCard ==
  /\ asked # <<>> /\ cardCache # NoCard /\ DialogStays(asked[1])
  /\ CardStart(asked[1], asked[2])
  /\ asked' = IF asked[1] = "attach" THEN <<>> ELSE asked
  /\ UNCHANGED <<cardUser, known, card, undo, unsure, cardNews, cardOthers>>
(* Not while its mutation is under way.                                    *)
Cancel ==
  /\ asked # <<>> /\ ~\E j \in jobs : j.op = asked[1]
  /\ asked' = <<>>
  /\ UNCHANGED <<cardUser, known, card, cardCache, cardFetch, jobs, undo, unsure, cardNews,
                 clicks, cardOthers>>
(* The toast of a detached partner.                                        *)
Undo ==
  /\ undo # NoCard /\ cardCache # NoCard
  /\ CardStart("attach", undo) /\ undo' = NoCard
  /\ UNCHANGED <<cardUser, known, card, asked, unsure, cardNews, cardOthers>>
-----------------------------------------------------------------------------
ServeCardJob(j) ==
  /\ j \in jobs /\ j.state = "sent"
  /\ IF CardServed(j.step, card)
     THEN LET after == CardEffect(j.step, j.arg, card) IN
          card' = after /\ jobs' = (jobs \ {j}) \cup {[j EXCEPT !.state = "done", !.answer = after]}
     ELSE card' = card /\ jobs' = (jobs \ {j}) \cup {[j EXCEPT !.state = "refused"]}
  /\ UNCHANGED <<cardUser, known, cardCache, cardFetch, asked, undo, unsure, cardNews, clicks,
                 cardOthers>>

(* The next request of a conversion, if there is one.                      *)
NextStep(j) ==
  /\ j \in jobs /\ j.state = "done" /\ j.step \in {"client", "contact"}
  /\ jobs' = (jobs \ {j})
       \cup {[j EXCEPT !.state = "sent", !.step = IF @ = "client" /\ card.contacts THEN "contact" ELSE "link"]}
  /\ UNCHANGED <<cardUser, known, card, cardCache, cardFetch, asked, undo, unsure, cardNews,
                 clicks, cardOthers>>

(* The hooks: these answers go into the cache.                             *)
CandidateHooks == {"archive", "restore", "status"}
VacancyHooks == {"join", "status"}
LeadHooks == {"convert", "status"}
TenderHooks == {"status"}
TaskHooks == {"status"}
PutsAnswer(op) ==
  op \in CASE cardPage = "candidate" -> CandidateHooks [] cardPage = "vacancy" -> VacancyHooks
           [] cardPage = "lead" -> LeadHooks           [] cardPage = "tender" -> TenderHooks
           [] cardPage = "task" -> TaskHooks           [] OTHER -> {}

(* Every answer makes the record fetched again; the page leaves for the    *)
(* copy, or with the record.                                               *)
CardSucceeds(j) ==
  /\ j \in jobs /\ j.state = "done" /\ j.step \notin {"client", "contact"}
  /\ jobs' = jobs \ {j}
  /\ asked' = IF asked # <<>> /\ asked[1] = j.op THEN <<>> ELSE asked
  /\ CASE j.op \in {"delete", "copy", "copy team"} -> cardCache' = NoCard /\ cardFetch' = NoFetch
       [] cardCache = NoCard -> UNCHANGED <<cardCache, cardFetch>>
       [] OTHER -> cardCache' = (IF PutsAnswer(j.op) THEN j.answer ELSE cardCache) /\ cardFetch' = Asking
  /\ undo' = IF j.op = "detach" THEN j.arg ELSE undo
  /\ UNCHANGED <<cardUser, known, card, unsure, cardNews, clicks, cardOthers>>

(* A refusal or an answer that is lost: a toast. A status goes back to     *)
(* what the page showed before and is fetched; nothing else is.            *)
CardFails(j) ==
  /\ j \in jobs
  /\ jobs' = jobs \ {j}
  /\ IF j.op = "status" /\ cardCache # NoCard
     THEN cardCache' = j.before /\ cardFetch' = Asking /\ unsure' = unsure
     ELSE /\ unsure' = (unsure \/ j.state = "done" \/ j.step # j.op)
          /\ UNCHANGED <<cardCache, cardFetch>>
  /\ UNCHANGED <<cardUser, known, card, asked, undo, cardNews, clicks, cardOthers>>
-----------------------------------------------------------------------------
ReadCard ==
  /\ cardFetch = Asking
  /\ cardFetch' = card
  /\ UNCHANGED <<cardUser, known, card, cardCache, asked, jobs, undo, unsure, cardNews, clicks,
                 cardOthers>>
\* Fault: the answer "not found" takes the place of the record.
CardArrivesGone ==
  /\ cardFetch \notin {NoFetch, Asking}
  /\ cardFetch' = NoFetch /\ cardCache' = cardFetch
  /\ UNCHANGED <<cardUser, known, card, asked, jobs, undo, unsure, cardNews, clicks, cardOthers>>
CardArrives ==
  /\ cardFetch \notin {NoFetch, Asking}
  /\ cardFetch' = NoFetch
  /\ cardCache' = IF cardFetch.life = "gone" THEN cardCache ELSE cardFetch
  /\ UNCHANGED <<cardUser, known, card, asked, jobs, undo, unsure, cardNews, clicks, cardOthers>>

(* The colleagues archive, delete, move, attach, detach, join and convert; *)
(* only clients and contacts have no events.                               *)
ForeignChange(c) ==
  /\ card.life # "gone" /\ cardOthers < MaxCardOthers
  /\ card' = c /\ cardOthers' = cardOthers + 1
  /\ cardNews' = (cardNews \/ cardPage \notin {"client", "contact"})
  /\ UNCHANGED <<cardUser, known, cardCache, cardFetch, asked, jobs, undo, unsure, clicks>>
EventComes ==
  /\ cardNews /\ cardNews' = FALSE
  /\ cardFetch' = IF cardCache = NoCard THEN cardFetch ELSE Asking
  /\ UNCHANGED <<cardUser, known, card, cardCache, asked, jobs, undo, unsure, clicks, cardOthers>>

(* The matrix of rights is fetched every minute.                           *)
PollMatrix ==
  /\ known # granted /\ known' = granted
  /\ UNCHANGED <<cardUser, card, cardCache, cardFetch, asked, jobs, undo, unsure, cardNews,
                 clicks, cardOthers>>
-----------------------------------------------------------------------------
Features == [candidate |-> {"archive", "restore", "delete", "status", "attach", "detach"},
             vacancy |-> {"delete", "status", "attach", "detach", "join"},
             lead |-> {"delete", "status"}, tender |-> {"delete", "status"},
             client |-> {"delete"}, contact |-> {"delete"}, task |-> {"delete", "status"}]
ForeignArgs(op) ==
  CASE op = "status" -> {"todo", "won"} [] op = "join" -> {card.team \cup {"other"}, {}}
    [] op \in {"attach", "detach"} -> Partners [] OTHER -> {"none"}
RightsOf(p) == {o[2] : o \in Offers[p] \cup Guards[p]} \ RoleTags

(* Records of others are not shown to some roles; whoever opens a page has *)
(* the right to view it. The bounds are spent in full by an administrator; *)
(* the others differ in what they are offered and do one thing.            *)
CardInit ==
  /\ cardPage \in DOMAIN Offers /\ cardRole \in Roles /\ mine \in BOOLEAN
  /\ cardRole = "account_manager" /\ cardPage \in {"vacancy", "lead", "tender"} => mine
  /\ cardRole = "sales_manager" /\ cardPage = "lead" => mine
  /\ cardPage \in {"candidate", "client", "contact"} => ~mine /\ cardRole = "admin"
  /\ granted \in {RightsOf(cardPage)} \cup {RightsOf(cardPage) \ {right} : right \in RightsOf(cardPage)}
  /\ cardPage = "lead" => "lead:access" \in granted
  /\ known \in {granted, RightsOf(cardPage)}
  /\ \E contacts \in BOOLEAN, partners \in {{}, Partners}, team \in {{}, {"other"}} :
       /\ cardPage \notin {"candidate", "lead"} => ~contacts
       /\ cardPage \notin {"candidate", "vacancy"} => partners = {}
       /\ cardPage # "vacancy" => team = {}
       /\ card = [life |-> "active", status |-> "todo", partners |-> partners, team |-> team,
                  contacts |-> contacts, made |-> 0, linked |-> FALSE]
  /\ cardCache = card /\ cardFetch = NoFetch /\ asked = <<>> /\ jobs = {} /\ undo = NoCard
  /\ unsure = FALSE /\ cardNews = FALSE
  /\ LET full == cardRole = "admin" /\ ~mine /\ granted = RightsOf(cardPage) IN
       /\ clicks = IF full THEN 0 ELSE MaxClicks - 1
       /\ cardOthers = IF full THEN 0 ELSE MaxCardOthers

CardNext ==
  \/ \E op \in Mutations[cardPage] : CardOffered(op) /\ \E arg \in Args(op) : Click(op, arg)
  \/ ConfirmCard \/ Cancel \/ Undo
  \/ \E j \in jobs : ServeCardJob(j) \/ NextStep(j) \/ CardSucceeds(j) \/ CardFails(j)
  \/ ReadCard \/ CardArrives \/ EventComes \/ PollMatrix
  \/ \E op \in Features[cardPage] : \E arg \in ForeignArgs(op) :
       CardEffect(op, arg, card) # card /\ ForeignChange(CardEffect(op, arg, card))

CardSpec == CardInit /\ [][CardNext]_cardVars
-----------------------------------------------------------------------------
CardTypeOK ==
  /\ card \in CardRecords /\ cardCache \in CardRecords \cup {NoCard}
  /\ cardFetch \in CardRecords \cup {NoFetch, Asking}
  /\ cardCache # NoCard => cardCache.life # "gone"
  /\ cardCache = NoCard => cardFetch = NoFetch
  /\ \A j, k \in jobs : j.op = k.op => j = k

(* Where the two differ: the page of a tender offers everything to every   *)
(* role, the server asks for a writer or a manager; the conversion of a    *)
(* lead is offered without the right to add the contact, which its second  *)
(* request needs, and is served again when the lead is linked already; a   *)
(* candidate with an email or a phone can never be copied.                 *)
OfferedOtherwise(op) ==
  \/ cardPage = "tender" /\ ~Can(TenderGuards, op, granted)
  \/ op = "convert" /\ ("client:edit" \notin granted \/ card.linked)
  \/ cardPage = "candidate" /\ op = "copy" /\ card.contacts
Agree(op) == CardOffered(op) <=> \A step \in StepsOf(op) : CardServed(step, card)

(* What the page offers is what the server serves, except as just said: an *)
(* operation that is hidden or refused by mistake shows as a difference    *)
(* between the two.                                                        *)
OfferedIsServed ==
  known = granted /\ cardCache # NoCard /\ cardCache = card
    => \A op \in {o[1] : o \in Offers[cardPage]} : OfferedOtherwise(op) \/ Agree(op)

(* Once all answers and events have come, the page shows the record: no    *)
(* answer that is older than another one stays in the cache.               *)
QuietCardIsTrue ==
  /\ cardCache # NoCard /\ card.life # "gone" /\ cardPage \notin {"client", "contact"}
  /\ jobs = {} /\ cardFetch = NoFetch /\ ~cardNews /\ ~unsure
  => cardCache = card

-----------------------------------------------------------------------------
(* What the code does not give; see the README.                            *)

(* The pages offer exactly what the server serves.                         *)
AllOffersAreServed ==
  known = granted /\ cardCache # NoCard /\ cardCache = card
    => \A op \in {o[1] : o \in Offers[cardPage]} : Agree(op)

(* "Disappears from the board and is detached from vacancies".             *)
ArchivedIsDetached == card.life = "archived" => card.partners = {}

(* "So that it is not converted again": one client is made of a lead.      *)
ConvertedOnce == card.made <= 1
=============================================================================
