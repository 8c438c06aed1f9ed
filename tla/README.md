# TLA+ models of the LG CRM

The CRM is a web client (React, TanStack Query), a server (FastAPI and Celery on
Postgres, Redis and S3), a speech-to-text service and a browser extension.  Two
things in it are hard.  On the server: several parties act on the same thing and
a mistake has legal weight or loses work, as in the personnel e-documents and in
the AI screening.  In the client: every page shows a copy of what the server
has, offers what may be done by it, shows some changes before they are accepted,
and hears of the changes of others late, twice or never.  These specifications
follow the code of both.  Server paths below are relative to `src/backend/app`,
client paths to `src/frontend/src`.

## Inventory

| Component | State it keeps | Operations, interaction | What is hard | What makes it correct | Module |
|---|---|---|---|---|---|
| Enrolment (`modules/hr_edo/service.py`, `keys.py`) | the card (`hr_employees`), consent packages, key registry | edit card, invite, register consent, refuse, revoke key, change phone, issue key; calls the crypto-service inside a transaction | outside calls that no rollback undoes, unlocked reads, two ways to change a number | card, registry and crypto-service agree; no key without consent | `HrEnrolment`, `ConsentedKey` |
| Documents and signing (`service.py`, `signing.py`, `tasks.py`) | `hr_documents`, `hr_signatures`, signing sheets | create, freeze, employer signature, send, view, sign a batch by code, reject, cancel, paper signing, expire | one code for many documents with outside calls between them; nightly task against signing | a signed document is complete and has its evidence; outcomes are final | `HrSigning` |
| SMS codes (`otp.py`) | `hr_sign_challenges`, Redis counters | create (supersedes), answer (counts, locks, expires, confirms) | confirmation is durable only with the caller's commit | one answerable code per purpose; a code pays once | `HrOtp` |
| Pages of e-documents (`features/hrEdo`, `endpoints/hr_sign_public.py`) | copies of card and documents, open dialogs, the reader, the code asked for | the officer's buttons; login, polling, reading to the end, one code for several documents, key by code | the employee, the clock and the officer act while a dialog is open | only what may be done is offered, only what was read is signed | `HrDesk`, `SignPage` |
| Screening (`modules/screening`) | status of a screening, segments, report, recording | consent, start, finish, time out, transcribe, analyse, requeue, delete, purge | finish against timeout, late live segments, repeated tasks, S3 beside Postgres | a finished session gets a report of its transcript; no recording without a row | `ScreeningPipeline`, `ScreeningAudio` |
| Meeting room (`endpoints/screening_ws.py`, `features/screening`) | the socket of a tab, the bridge to the speech service of each connection, the transcript on the screen, takes in the memory of the tab, plan of questions | connect, reconnect, displace another tab, park and take over its bridge, backfill; capture, upload, attach, finish, mark questions | displaced connections, failed uploads, a time limit that fires while the recruiter finishes | nothing shown vanishes, no bridge is left open or closed under a meeting, a take reaches the store or is still in the tab | `ScreeningSocket`, `ScreeningBridge`, `ScreeningRoom` |
| Real-time channel (`realtime/`, `lib/realtime.ts`, `features/realtime`) | one socket per tab, reconnect timer, colleagues online, stale queries | start, stop, reconnect, deliver, invalidate | late close events, token changes, echoes of own changes | one socket delivers; what was delivered is shown | `RealtimeClient` |
| Authentication (`modules/auth`, `api/client.ts`, `stores/auth.ts`) | access token per tab, refresh cookie per browser, refresh tokens in Redis | sign in, refresh once for all waiting requests, sign out, change the password, accept an invitation | several requests refused at once, lost answers, tabs that share the cookie | one tab alone is never taken for a thief | `AuthSession` |
| Boards (`components/kanban`, kanban pages, `stores/filters.ts`) | cached list per filter, moves under way, the drag | drop, preview, optimistic move, roll-back, comment before a final column, events | two moves with one refused, fetches that overtake, half-card arithmetic | at rest the board shows the server; a card lies where it was dropped | `BoardCache`, `KanbanDrag` |
| Pages and forms of records (candidates, vacancies, leads, tenders, clients, contacts, tasks) | cached record, open dialog, form | edit, import of a resume, change status, attach, join, archive, convert, delete | a form is saved as a whole minutes after it was filled; rights are computed on both sides | what is offered is served; nobody's work is lost by an untouched field | `CardPages`, `RecordForm` |
| Rights and users (`modules/permissions`, `modules/users`) | matrix of rights, accounts, invitations | toggle, invite, edit, deactivate, delete | a toggle sends its whole row; an old invitation after a dismissal | the matrix shown is the matrix in force; the dismissed stay out | `RolesPage` |
| Chat (`modules/chat`, `features/chat`) | dialogs, feeds, read marks, the field with its files | open, read, post, manage, leave; upload, send | own events are ignored, a dialog disappears while it is open | at rest the page is true; a file goes with its text | `ChatPage`, `ChatComposer` |
| Knowledge base (`modules/documents`, `features/documents`, `stores/documents.ts`) | documents of the server, their copy in the browser, files waiting | create, rename, move, delete, upload, migrate, synchronise | record, upload and attachment are three requests | a stored file is attached; the synchronisation ends | `Documents` |
| Calendar, comments, notifications | events by period, comments by card, the bell | create, drag, note; add, reply, edit, delete; mark read | layout of overlapping events; text in a field while the card changes | events do not cover each other; a text is stored once | `Calendar`, `Comments`, `Notifications` |
| Protocol of events (`modules/hr_edo/evidence.py`) | hash chain of events, advisory lock, row locks | append in the transaction of the operation, verify in batches beside it | concurrent appends, rollbacks, batches, locks taken in different orders | the chain never forks, the verification raises no false alarm, every transaction ends | `HrProtocol` |
| Matching, analytics, worklog, integrations, rates, audit, mail, storage, migrations, speech service, extension, widgets, infrastructure | rows, settings, files | reports, import, presentation | little of what is hard here | - | not modelled |

### How the parts interact

Everything on the server meets in Postgres.  Operations on a card of an employee
take `SELECT ... FOR UPDATE` on its row; operations on a document lock the
document and then insert a protocol event whose foreign key takes `FOR KEY
SHARE` on the card, which waits for anyone holding the card.  An operation
without an outside call is therefore one atomic step, enabled when no
transaction holds the card (`Free(e)`).  Three operations call an outside
service while they hold the card and are split into steps: `issue_key`,
`revoke_key` (also inside `change_phone`) and `confirm_and_sign`.  Between their
steps anything that does not need that card may happen, and a rollback (error,
timeout, crash) may come at each point.

The screening is written in the other style: almost nothing locks.  A request
reads the row of the session, decides, and later commits the columns it changed
over whatever is there; only `finish` looks again under a lock.  Requests, the
sweeper and the Celery tasks meet in that row, in the segments (whose unique
number is the only guard between two writers) and in the report.  Recordings are
objects of the bucket that only their row in `files` leads to.

A page of the client and the server are related by requests and events.  In the
models a request has three moments that anything may come between: it is sent,
the server acts on it, the answer arrives (or is lost).  A fetch has the same:
what it read is old when it arrives.  A change of somebody else is a step of the
server, and its event a step of its own, which reaches the page before or after
any answer.  `invalidateQueries`, `cancelQueries`, `setQueryData` and the
roll-back of a mutation are modelled by what TanStack Query does: an invalidated
query is fetched again only when it is on the screen, a first load that is
cancelled leaves no data, a fetch under way is restarted unless it is the first.

## Modules

On the server:

* `HrOtp`: the table of SMS codes as operators on a function whose domain grows:
  `Challenged` is `create_challenge`, `Answerable`, `OutOfDate`, `WrongAnswer`
  and `Confirmed` are the branches of `confirm_challenge`.  Digits, clock and
  Redis limits are abstracted: an answer is right, wrong or late; a request may
  be refused.
* `ConsentedKey`: the abstract promise of enrolment: consent first, one key at a
  time, no key handed out twice.
* `HrEnrolment`: `edo`, `phone`, `invitable`, `consentDoc`, `activeKey` are
  columns of the card; `pkg` the consent packages with the number printed in
  them; `key` and `revoked` the key registry; `vault` the keys inside the
  crypto-service; `asked` the number `request_key_otp` read before it wrote;
  `tx[e]` the transaction that holds the card.  One action per operation;
  `BeginIssue`, `CreateInVault`, `CommitIssue` and `BeginRevoke`,
  `RevokeInVault`, `CommitRevoke` are the steps of `issue_key` and `revoke_key`.
  Packages are never past due (`invite` sets no `due_at`), so they do not expire.
* `HrSigning`: `doc`, `sigs`, `sheet` are tables; `read` and `alarms` the
  protocol events that are read back or promised; `intact` the files whose hash
  still matches; `made` the signatures the crypto-service made, committed or
  not; `seen` the cards a request read without a lock; `consented`, `current`
  and `used` are the keys as `ConsentedKey` has them, moved by its actions
  (this is the composition: `HrEnrolment` implements that module); `dead` the
  keys the crypto-service refuses, which a rolled-back revocation leaves behind.
  `BeginSign`, `SignOne` per document, then `CommitSign`, `Rollback` or
  `FindTampered` are `confirm_and_sign`.  Document types fall into three
  classes: signed by both with the employer first, by the employee alone, and
  kept on paper.
* `HrProtocol`: the protocol of events under those operations.  There an operation
  is one step and its event a fact; here it is its transaction, which is the
  sequence (`program`) of what it locks and records: `LockRow` is `SELECT ... FOR
  UPDATE`, `ShareRow` a foreign key, and an event is `TakeChainLock`, `ReadPrev`,
  `InsertEvent`, the three awaits of `record_event`.  `log` are committed rows,
  `own` those of a transaction, `Commit` and `Rollback` end it (ids of rolled-back
  rows are gaps), `DeadlockDetected` is Postgres.  `VerifyBatch` is one turn of
  `verify_chain`, between which anything may be committed.  `Forge` and `Remove`
  are somebody who passes the trigger.  The operations are six that differ in the
  order of their locks: `register_consent`, `cancel_document` (of a package),
  `mark_viewed`, the download, `request_sign_challenge`, `confirm_and_sign`.
* `ScreeningPipeline`: one session (sessions share no row): `status`, `consent`,
  `ended`, `audio` are its columns, `age` the time since `updated_at` in the
  thresholds of the code (15 minutes, the processing timeout, three times that),
  `transcript` the origins of its segments, `report`, `notices`.  `pending[a]` is
  what a request read and is about to commit: `Start`, `Finish`, `PollCard` and
  the other operations put it there, `Commit` writes it blindly, `FinishTooLate`
  is the second look of `finish`.  `job[j]` is a Celery task: `BeginTask`,
  `PrepareSegments`, `InsertSegments` are `run_offline_transcription`,
  `ReadForReport`, `PersistReport`, `CloseWithReport`, `AnalysisFails`
  `run_post_analysis`; `Redeliver` and `GiveUp` are retries, late
  acknowledgement and their limit.  `Enqueue` may lose the task.
* `ScreeningAudio`: the recordings of one session: `object` in the bucket, `row`
  in `files`, `linked` the column `audio_file_id`.  Uploading, confirming,
  attaching; `task[t]` is a deletion by hand, of the session, or by the two
  phases of the purge: `DeleteObject` is the call to S3, `DeleteRow` the
  transaction after it, `ObjectStays` a refusal, `Crash` anything worse.
* `ScreeningBridge`: the server's coroutines of one meeting and their bridges to
  the speech service.  `step` is the await each connection waits in, `active`,
  `parkedAt`, `handoffs` are the three dictionaries of `screening_ws.py`
  (`_BRIDGE_HANDOFF` has connections and the meeting as keys, as in the code),
  `timers` the linger tasks.  `Displace` and `Register` are two steps, because
  closing the previous socket waits for its client; `Unregister` and `Release` are
  the halves of `finally`.  `ScreeningSocket`, which looks at the tabs, has the
  displacement as one step.  The connection to the speech service is one step: a
  cancellation in the middle of `SttBridge.connect` is not modelled.

In the client, each against the part of the server it talks to:

* `RealtimeClient`: `socket`, `started`, `reconnectTimer` are the variables of
  `lib/realtime.ts`, `ws` and `inbox` the sockets the browser has and what is on
  its way to them; `TokenEffect` is the effect of `useRealtimeSync`, `CloseEvent`
  the listener that may find another socket than its own.
* `AuthSession`: tabs of one browser; `refreshing` is `refreshPromise` of each
  tab, `req` the requests with the token they carry, `active` and `owner` the
  refresh tokens in Redis; `RotateRefresh` is `rotate_refresh` with its
  revocation of everything when a token is not known.
* `BoardCache`: `cache`, `fetching`, `arriving`, `boardStale` are the queries of
  the lists, `move` the mutations; `Init` picks one of five boards, which differ
  in final columns, dialogs, guards and roles (`Page`).  `KanbanDrag` is the
  arithmetic of a drop, over every board of three cards and two columns.
* `CardPages`: one record of seven kinds.  `Offers` are pairs of an operation and
  the right its button asks for, read off the page; `Guards` the pairs the server
  checks; `StepsOf` the requests an operation sends, `jobs` those under way,
  `asked` the open dialog, `ClosedWithTheRight` the dialogs that a withdrawn right
  closes (the comment on the final status of a vacancy stays open).
* `RecordForm`: one field of one record.  `Fields` lists the fields of all forms,
  `ToFormValues`, `Payload`, `ByDeal`, `Omitted`, `Merge` are the conversions
  between database, form, payload and imported resume, by what they do to a value,
  to an empty one and to one that is absent.
* `RolesPage`: the matrix of rights with its optimistic toggles, and one account
  with invitation, edit, dismissal and deletion, with another administrator.
* `ScreeningSocket`: tabs with the room of one meeting; the server's end of each
  connection (`conn`), the registered one (`streamer`), the bridge; `pipe` the
  messages on the way, in order.  `ScreeningRoom`: the page with its takes,
  handlers and player, or its plan of questions (`side`).  A handler goes through
  the awaits `upload`, `attach`, `end`; a file from the disk (`picked`) has the first
  two of them.
* `ChatPage`: the list, the feeds and the open dialog of one user; `chatNews` are
  events under way.  `ChatComposer`: text, uploads and attachments of one field.
* `Documents`: `docs` on the server, `shelf` in the browser, `pending` files the
  server has not got, `sync` the background synchronisation, `note` the editor.
* `HrDesk`: what the queries read (`desk`, `deskReads`), the dialog that is open
  (`deskDialog`), the requests; `PaperAccepts` is what the server takes.
  `SignPage`: the list, the reader, the step that waits for a code (`signStep`
  with the challenge the dialog knows and the one `CodeStep` knows), the
  challenges of the server.
* `Calendar`, `Comments`, `Notifications`: a query, the requests that change what
  it shows, the fields and sheets of the page, and colleagues.

Model checking: `MCHrEnrolment`, `MCHrSigning`, `MCScreeningPipeline` and
`MCScreeningAudio` give one module its instance, with symmetry where no liveness
is checked.  `MCServerParts` (`HrProtocol`, `ScreeningBridge`,
`ScreeningPipeline`), `MCWebLive`, `MCWebData` and `MCWebPapers` put together
parts that share no state: `part` or `page` says which one a behaviour is about,
the others stay at one of their initial states, so the reachable states are the
sum of those of the parts, not the product. Proofs: `HrEnrolmentProofs`,
`HrSigningProofs`, `ScreeningPipelineProofs`, `ServerPartsProofs` (`HrProtocol`,
`ScreeningAudio`, `ScreeningBridge`), `WebSessionProofs` (`RealtimeClient`,
`AuthSession`, `ScreeningSocket`), `WebLiveProofs` (`BoardCache`, `RolesPage`,
`ChatPage`, `Documents`, `MCWebLive`), `WebDataProofs` (`RecordForm`,
`KanbanDrag`, `CardPages`, `Calendar`, `Comments`, `Notifications`, `MCWebData`),
`WebPapersProofs` (`ChatComposer`, `SignPage`, `HrDesk`, `ScreeningRoom`,
`MCWebPapers`).

A definition whose comment starts with "Fault:" is not part of a specification:
it is a plausible mistake in the definition after it, kept to show that a
property notices it (`PROJECT.json`, "mutants").

## Runs

| Run | Instance | Question |
|---|---|---|
| `enrolment` | 1 employee, 2 numbers, 2 packages, 2 keys, 2 codes, 2 answers | do card, registry and crypto-service agree through every rollback, and is `ConsentedKey` implemented? |
| `enrolment_number` | as `enrolment` | is a key always confirmed on the number it is recorded with? No (below) |
| `signing` | 1 employee, 1 document of each class in turn, 2 keys, 2 codes, 2 answers | completeness, order, evidence and finality |
| `signing_batch` | 1 employee, 2 documents, 1 key, 1 code, 1 answer | does a code sign all its documents or none; is every sent document resolved? |
| `signing_resend` | `SignPage`: 2 documents, 2 challenges, 1 visit | does a code that was asked for again work? No (below) |
| `screening` | 1 request and the sweeper, 2 tasks, 2 texts | do report and transcript stay sound under blind commits and repeated tasks? |
| `server_parts` | 2 transactions on 2 documents, 1 edit behind the trigger, batches of 2; 3 connections, 2 bridges; screening with 1 request and the sweeper, 1 task, 1 text | does the chain stay one chain, is its verification right; is every bridge kept or closed; does every transaction, bridge and session come to its end? |
| `screening_consent` | 2 requests, 1 task | does a session start only with consent? No (below) |
| `audio` | 2 recordings, 1 deletion and the purge | does the row of a recording always outlive the object; do the recordings of a deleted session go? |
| `web_live` | the seven parts of `MCWebLive` | do connections, sessions, boards, rights, meeting rooms, chat and documents come to show what is true, and does nothing wait for ever? |
| `web_data` | the six parts of `MCWebData` | is what a page offers served, what is dropped or laid out right, what others did kept, what is shown at rest true? |
| `web_papers` | the four parts of `MCWebPapers` | do recordings reach the store, is only offered what may be done, is only signed what was read, do files go with their text? |

A property of a run is often the conjunction of the properties of its parts:

| Property | Parts |
|---|---|
| `KeysAreSafe` | `ActiveKeyIsTheLiveOne`, `RevokedKeyCannotSign`, `KeyRestsOnConsent` |
| `CodesAndPackagesHold` | `OneCodeOneKey`, `OnePendingCode`, `NotifiedHasPackage` |
| `HistoryStands` | `PackageOutcomeIsFinal`, `NewPhoneNeedsNewKey` |
| `SignaturesAreOrderly` | `SignedIffComplete`, `EmployerSignsFirst`, `OneSignaturePerRole` |
| `EvidenceIsComplete` | `SignatureHasEvidence`, `AlarmedIsUnsigned`, `SheetIsComplete` |
| `SignedStands` | `SignedWithCurrentKey`, `OutcomeIsFinal` |
| `ReportsAreDue` | `DoneHasReport`, `ReportAfterMeeting` |
| `TextIsKept` | `TranscriptIsKept`, `LiveTextGoesOnRequest` |
| `LogStands` | `VerdictIsRight`, `LogOnlyGrows` (protocol) |
| `ServerPartsEnd` | `TransactionsEnd` (protocol), `NoBridgeIsStranded` (bridges), `SessionsAreResolved`, which is `LiveIsLeft` and `LeftAloneIsResolved` (screening) |
| `LiveDataIsTrue` | `PresenceIsTrue`, `DeliveredIsShown` (channel), `SignedOutIsEmpty` (session), `StoredIsStored` (knowledge base) |
| `QuietPagesAreTrue` | `QuietBoardIsTrue`, `QuietMatrixIsTrue`, `QuietChatIsTrue` |
| `MovesAreHonest` | `OwnMoveStays`, `FinalAsksForComment` (boards) |
| `NothingShownIsLost` | `ShownStaysShown`, `DisplacedWaits` (meeting socket), `ReadNeverGoesBack` (chat) |
| `NoPageIsStuck` | `ConnectedOrOut`, `MeIsAnswered`, `ListIsFresh`, `MatrixIsCurrent`, `NoRoomIsBetween`, `NoLostDialogIsOpen`, `SyncRests`, each again and again |
| `QuietRecordsAreTrue` | `QuietCardIsTrue`, `QuietCalendarIsTrue`, `QuietCommentsAreTrue`, `TypedIsStoredOnce` (comments), `QuietBellIsTrue` |
| `ScreenIsRight` | `OfferedIsServed` (pages of records), `LandsUnderThePointer` (drag), `OverlappingAreSideBySide` (calendar) |
| `OthersWorkSurvives` | `UntouchedSurvives`, `ImportKeepsTyped` (form), `OthersKeepTheirOrder` (drag), `DragStaysInItsDay` (calendar) |
| `RecordingIsKept` | `SoleTakeIsKept`, `PlaysTheAttached`, `QuietPlanIsTrue` (meeting room) |
| `OfferedIsHonest` | `QuietDeskIsTrue`, `OpenDialogIsOffered`, `FreshButtonsWork` (officer), `ListedWaits` (employee) |

`ChainHolds`, `BridgesAreKept`, `SoleTabIsNeverRevoked`, `OneLiveSocket`,
`DismissedStaysOut`, `SignedWasRead` and `FilesGoWithTheirText` stand for
themselves.  What types the variables of `HrProtocol` and `ScreeningBridge` have is
proved and not looked at by a run.

A property that says what a page shows "at rest" (`Quiet...`) holds when no
request, fetch or event of it is under way and nothing was lost that the code
does not undertake to make up for; an auxiliary variable of the module records
such a loss, and the comment at the property names it.  The auxiliary variables are
set by the events that cause the loss, never by comparing what is shown with what
is true: `threadDoubt`, `calDoubt` and `bellDoubt` hold, for each list, that a
colleague changed it or an answer was lost ("untold"), or that a change became
known while a first load was under way whose answer the server had read ("first
load"); `threadLate`, `calLate` and `bellLate` hold the same of the answer on its
way.  `excused` counts the uploads of a take whose answer was lost or that were
begun beside another, and `SoleTakeIsKept` allows one upload more than those.

Exceptions are stated where the code fails, as definitions of their own:
`BelowTheLast` in `LandsUnderThePointer`, `OfferedOtherwise` in `OfferedIsServed`, the
two "first load" races and `excused`.  The section below says what happens there,
and names the properties without the exceptions.

A request of `web_papers` ends in one of three ways: served and answered, not
served, or served with its answer lost.

### Bounds

Identities on the server (packages, documents, keys, codes) are used once, so
their number bounds a behaviour.  Two of each give every case the code
distinguishes: an old and a new package, a revoked key and its successor, a
superseded code and its replacement, a code entered again after a rollback, an
old and a new number.  A batch needs two documents: a first that succeeds and a
second that fails.  One employee is enough for TLC: rows of different employees
meet only in the tables of codes and keys, and that no code or key of one serves
another is part of the theorems, which hold for any number of them.
`MaxAttempts` is 2 where the difference between a counted and a locking answer
matters (`MAX_ATTEMPTS` is larger in the code and enters only through the
comparison).  Two tasks give every pair the session can run in parallel or one
after the other (a full `Jobs` loses the next task, which the code may do too);
two texts tell two recognitions apart; beside one request there is always the
sweeper, and where two people have to meet (`screening_consent`) there are two
requests.  Two recordings are one and its replacement.  Two transactions record up
to four events, enough for a predecessor that is rolled back, a gap, two batches,
and every pair of programs that may wait for each other.  One row is edited or
removed, never two: whoever edits several can hide one edit behind another, since
the hash has no key (below).  Three connections are one that leaves, one that
displaces it and one that displaces that; two bridges are the parked and the new.

In the client every `Max...` bounds what the user or the others do, or what the
network loses; what the program does of itself is not bounded.  The numbers are
small because a page forgets: what matters is how one thing under way meets
another, so one or two own operations, one of somebody else and one loss give
every pair and most triples.  Three sockets are one closing, one open and one
that a late event would open; two requests of a tab and one tab are the waiters
of one refresh; two moves and two filters are needed for a roll-back over a move;
three cards for first, middle and last; two documents and two challenges for a
batch and its repeated code; three files and two slots for a full composer; a
calendar of one day of eight quarters with two events for every way to touch and
to overlap.  At most two attempts to save a recording run at a time, and one file
from the disk is sent (the downloaded copy when a recording is pending).  A card or
a range of the calendar is left only when its fetch has ended.  Only the chip "source" is used of the filters (`UsedChips`), since
chips only make more keys.  `ChatStart` and `MCScreens` look at the chat as a
member at a desk and as the owner of an archived group on a telephone.
`SYMMETRY` is used where no liveness is checked and no operator chooses an element.

Deadlock checking is off: once the bounds are spent the model may stop, and so
may the office.  States: about 556 000 distinct in `web_live`, 1 065 000 in
`web_data`, 1 262 000 in `web_papers`, 260 000 in `server_parts`.

### Fairness

Signing (`HrSigning!Fairness`): only of the program, never of people.  A
signing transaction ends, because all its outside calls have timeouts (weak
fairness of commit or rollback), and the nightly task expires an overdue
document if again and again it is unlocked (strong fairness, because the task
skips locked rows: a signing of the same document every night at that minute
would otherwise starve it).

Screening.  Time passes, the sweeper runs every minute and finds an overdue
meeting (the limits that are 0 to switch it off are positive by default), and its
commits do not fail every time (`ScreeningPipeline!Fairness`); nothing is assumed
of tasks, the queue or people.  The purge runs every day and ends, and S3 and the
database do not refuse it every time (`ScreeningAudio!Fairness`; strong fairness,
because a deletion interrupted by a crash has to begin again).

Protocol and bridges (`MCServerParts!ServerFairness`).  A transaction goes on when
it can again and again: Postgres serves the waiters of a lock in turn, so strong
fairness; and it looks for deadlocks.  The coroutine of a connection goes on, a
socket that was told to close does, timers fire (weak fairness).  Nobody has to
begin a transaction, to connect, or to stop a meeting.

Client (`MCWebLive!LiveFairness`): the event loop runs effects, timers and close
events; a request ends, with an answer or without; an event that was sent
arrives.  All of it is weak fairness, for each part in the behaviours that are
about it; nobody has to sign in, open, press or say anything, and no answer has
to be a success.

## What the code does not give

Three runs look for what the repository says and find that the program does
otherwise:

* `enrolment_number`.  The docstring of `change_phone` promises a new key by
  confirmation of the new number.  `request_key_otp` reads the card without a
  lock and pending codes are not superseded when the number changes: a code sent
  to the old number issues a key recorded with the new one.
* `screening_consent`.  "draft to live requires `consent_confirmed`", says the
  header of `screening/service.py`.  `start` checks it on a row it read earlier
  and writes only `status`; `update` withdraws the consent in between.
* `signing_resend`.  The button says "send the code again".  `CodeStep` keeps the
  new challenge to itself, `SigningFlow` answers with the number of the first one,
  which the server has superseded: the new code is refused, and so is every other
  until the dialog is left.

The modules state more that TLC finds violated; each is a definition that no run
checks, kept because it says where a promise ends.  Put into the .cfg of its
module's run, it shows the behaviour; some need more room than the run gives
(`OnlyGivenUpTokensAreRefused` two tabs, `ChildrenShareSection` and
`RenamedKeepsText` three operations, `PrefilledFromTheCard` two employees and two
picks, `AuthGivesUp` more refusals).

On the server:

* `ConsentPrintsTheNumber` (`HrEnrolment`).  `change_phone` withdraws a package
  that prints an old number only while the card is `notified`.  Invite,
  `refuse_edo`, edit the number (allowed, `refused` is not in `_PHONE_LOCKED`),
  `register_consent` (allowed for `refused`): the consent rests on a package with
  the old number.
* `OneNotice` (`ScreeningPipeline`).  "Notification only with the first report".
  `finish` and `finish_by_timeout` may both end one meeting, because the latter
  takes no lock; both analyses begin without a report, and both notify.
* `ReportIsOfTheText` (`ScreeningPipeline`).  "New segments: rebuild the report".
  A task that dies after committing the segments is repeated, finds them, writes
  none, and keeps the old report.
* `ExpiredIsPurged` (`ScreeningAudio`).  The purge "deletes what is older than the
  threshold".  A recording that its session no longer, or never, pointed to is
  found by neither phase while the session exists; nor is one attached while the
  purge is between its read and its commit, which writes NULL over it.

* `EveryRemovalIsFound` (`HrProtocol`; the header of `evidence.py`).  Whoever passes
  the trigger and removes the last record leaves a chain that verifies; so does
  whoever changes the last one and its hash, which needs no key.  `VerdictIsRight`
  says what is found: an edit that shows in the row or in those after it.
* `NobodyWaitsInACycle` (`HrProtocol`).  `cancel_document` of a package locks
  document, protocol, card, and `register_consent` card, document, protocol; two
  codes lock their documents in the order the callers list them.  Such a cycle
  ends because Postgres aborts one of them (`TransactionsEnd`), which the code
  does not retry.
* `ReleaseWakes` (`ScreeningBridge`).  "The bridge is released: we wake the new
  connection", says the end of `screening_ws`.  The event lies in
  `_BRIDGE_HANDOFF` under the displaced socket and is looked for under the session:
  nobody is woken, and the new connection waits its two seconds out.
  `HandoffsAreRemoved` fails for the same reason: the event is never taken out.
* `OneConnectionServes` (`ScreeningBridge`; the header of `screening_ws.py`, one
  connection per session).  The previous socket is closed before the new one is
  registered, and closing waits: of two that come meanwhile both displace the same
  connection, and both serve, each with a bridge.

In the client:

* `SettlesOnOneConnection` (`RealtimeClient`).  A close event that comes after its
  socket was replaced starts the reconnect timer, the timer opens another socket,
  and the close event of the one it replaced comes later still.
* `OnlyGivenUpTokensAreRefused` (`AuthSession`).  Two tabs that refresh with the
  same cookie: the second presents a token the first has replaced, and every
  session of the user ends (so `SoleTabIsNeverRevoked` is about one tab).
* `EditedIsSaved` (`RecordForm`).  A field that was emptied is left out of the
  payload, so the old value stays.
* `ArchivedIsDetached` (`CardPages`; `CandidateCardPage.tsx`, the text of the
  dialog).  An archived candidate keeps its vacancies.
* `ConvertedOnce` (`CardPages`; `LeadCardPage.tsx`, the comment above the
  conversion).  Client and lead are changed by two requests; when the second
  fails, the lead can be converted again.
* `InvitesEndAsDocumented` (`RolesPage`; `users/service.py`, `_revoke_pending_invites`).
  The form sends `isActive` whether it changed or not, so an edit of somebody who
  is invited but not yet active ends his invitation.
* `GapsAreFilled` (`ScreeningSocket`).  A final segment written to a connection that
  is being displaced is stored and shown in neither tab until the next `hello`.
* `AuthGivesUp` (`ScreeningSocket`).  A refusal whose close frame is lost is
  repeated by the ordinary timer and does not count.
* `StoredOnce` (`ScreeningRoom`; `ScreeningRoomPage.tsx:534-538`, the comment at
  `uploadedFileIdRef`).  An attempt repeated must not "send the same blob again",
  because the first file would stay an orphan.  The page knows the file only from
  the answer to the last of the three requests of `uploadFile`: when the object was
  stored or confirmed and that answer is lost, the next attempt stores it once
  more.  The limit also clears `uploading` while the attempt before it is under
  way, and a second attempt can be pressed beside it.
* `SavedIsStored`, `LossIsWarned` (`ScreeningRoom`).  A capture started again while
  the upload of the previous one is under way is finished with the file of that
  one, and reported as saved.  Between the end of a capture and the failure of its
  upload nothing warns before the page is left.  A file from the disk that is
  attached takes the place of the recording that became pending while it was sent,
  which is dropped without a question.
* `ToldMarkIsShown` (`ScreeningRoom`).  The status of a question is written by
  whichever answer or event comes last: an older one that was overtaken stays.
* `DropsLandEverywhere` (`KanbanDrag`; `utils.ts:36-46`).  The place is clamped to
  the length of the column and only then lowered by one for the card that leaves
  it.  A card dropped on the lower half of the last card of its own column lands
  above that card; it becomes the last one only when it is dropped on the column.
* `AllOffersAreServed` (`CardPages`).  Three differences between the buttons and the
  server: the page of a tender offers everything to every role, while the server
  asks for a writer or a manager; "convert" of a lead is offered without the right
  to add the contact, which the second request needs, and is hidden by
  the page but served when the lead is linked already; the copy of a candidate
  with an email or a phone is always refused, because the copy repeats them.
* `OwnerIsOffered` (`ChatPage`; the header of `MembersSheet.tsx`).  The sheet
  goes by who created the group, the server by who owns it now.
* `ChildrenShareSection`, `RenamedKeepsText`, `TypedIsSent` (`Documents`).  A folder
  that is moved to another section leaves its contents in the old one; renaming a
  note with the form sends the description it had, which is where its text is; a
  note closed before the autosave fires loses what was typed.
* `PrefilledFromTheCard` (`HrDesk`).  Choosing another employee in the creating
  dialog keeps the fields of the first.
* `ShownKeySigns` (`SignPage`).  After a key was issued the card is read again, the
  documents are not: "may sign" stays false until the next poll.
* `ClickCreatesThatDay`, `EndsAfterItsStart`, `NoteIsItsOwn` (`Calendar`).  A click
  in the last hour proposes an event of the next day; the form takes an end before
  the start; an outcome typed for one event is stored with the next one opened.
* `OwnCommentsAreShown` (`Comments`), `OwnEventsAreShown` (`Calendar`), `ToldIsShown`
  (`Notifications`).  What the page stored itself, or the bell was told of, while
  a first load was under way that the server had already read, is not shown:
  `invalidateQueries` begins a fetch anew only for a query that has data, and the
  late answer takes the mark "stale" away.  The old list stays until the next
  change the client is told of, or a visit half a minute later.
* `StoredWhereTyped`, `TypedIsKept` (`Comments`).  A text typed under one card is
  stored under the card that took its place; the field is emptied when the comment
  is sent, so a refused comment is gone.
* `OnlySeenIsMarked` (`Notifications`).  "Mark all as read" also marks what came
  since the list was read, and what the filter hides.

Further hazards that the modules show or leave open: a duplicated tab copies the
client id of `sessionStorage` and takes the events of its twin for its own echo; a
refresh under way at sign-out signs the tab in again; boards of leads and tenders
do not check rights before a drag, and the "+" of a final column creates a card
without a comment; a filtered board numbers its cards as if it were whole; a
late answer closes a form that was opened again; "join" sends the recruiters of the
cached vacancy, all of them; a roll-back of the matrix puts back the whole matrix;
a bulk operation that the server applied in part removes everything from the page;
the event `calendar.event_changed` is sent and nobody listens to it.
## Proofs

`HrEnrolmentProofs` proves, for every set of employees, numbers, packages, keys
and codes and every `MaxAttempts > 0`: type correctness; the safety invariants
of the run `enrolment`; its two action properties; and that `HrEnrolment`
implements `ConsentedKey`.

The invariants are not inductive by themselves, because a transaction in flight
relies on facts the invariants do not mention.  The inductive invariant adds:
what each `tx[e]` may assume while it holds the card (an issue still holds an
answerable code of that employee and `CanIssue`; a created key is in the
crypto-service, live, and in no row; a revocation names the active key and,
after the outside call, that key is revoked there); that the consent document of
a card that consented is a signed package of its own; and that a pending code
has paid for nothing.  One lemma per action shows that it keeps the invariant;
`InvStep` combines them.  The refinement maps the consented cards, `activeKey`
and the domain of the key registry onto `ConsentedKey`: `RegisterConsent`,
`CommitIssue` and `CommitRevoke` are its steps, everything else stutters.

`HrSigningProofs` proves, for batches of any size and any number of employees and
codes: type correctness, every safety invariant of the runs `signing` and
`signing_batch`, and both action properties.  Its inductive invariant has three
parts, because three groups of steps disturb different things.  `RegistryInv`
(documents, signatures, sheets) adds that status, `sent` and class of a document
go together, that only a signature by code has a code, that a sheet exists only
for a signed document, and that an alarmed file is still not intact.
`EvidenceInv` (codes) adds that a pending code has an attempt left.  `TxInv` says
what a signing transaction still holds at each of its steps: an answerable code,
the key of the card, signable documents, and a made signature for each document
done.  `TxKept` is the argument that nobody else can spoil it: every other step
touches only rows of employees who are `Free`.  The steps fall into a few shapes
with one lemma each (`Moved`: documents move without a signature; `Entered`: a
document appears; `SignedNow`: signatures are added); `CommitFacts` collects what
the commit finds and leaves.

`ScreeningPipelineProofs` proves, for any number of requests, tasks and texts,
the invariants and both action properties of the run `screening`.  Blind commits
are why the invariants are not inductive: what is committed was decided in an
earlier state.  The inductive invariant says what survives until then.
`WriteSound`: no request writes "done", and one that writes another finished
status or queues a task, unless it ends the meeting itself, saw it ended, and
`ended` never becomes false.  `TaskSound`: a task runs only for an ended meeting,
one that only closes the session saw a report, and reports never go; one that
deletes a transcript was asked to replace it.  `FinishedEnded` ties status to
`ended`.  `SoundKept` and `Grows` carry these facts over every step; `ReadsKept`,
`DoneKept`, `BecomesKept` and `EnqueueKept` are the shapes the steps fall into.
`TranscriptKept` needs no invariant, only `TranscriptSteps`; `LiveTextKept` needs
`TaskSound`.

`ServerPartsProofs` has three parts.  For the protocol it proves, for any number
of transactions, documents, events and any batch: types, that the chain never
forks (`ChainHolds`), that committed rows stay and newer ones come after them, and
that the verification raises no false alarm and overlooks no single edit.  The
rows of a transaction that is not committed are part of the chain it sees, so the
invariant speaks of both: what is committed is a chain, and so is what each
transaction sees (`AllChained`); only the holder of the lock has rows of its own
(`Locked`), they are newer than all committed ones (`OwnIsNewer`), and what
`record_event` has read is the hash of the last row it sees (`ReadIsLast`).  For
the verification it adds that ids are distinct and every row carries its hash
(`LogIsSound`), and that the verification stands at a row of the log
(`CheckerStands`): a commit puts no row before it, which is where the lock, held
to the end of the transaction, is needed.  That one edit is found follows a
damaged row: an edit leaves one that does not fit its hash or not the row before
it (`RemovalShows`, `ForgeryShows`), what is committed later does not heal it
(`DamageStays`), and a verification that began after the edit has it still ahead
(`EditIsAhead`) until the batch it is in fails (`DamageFails`).

For the parts of screening it proves types and `RowOutlivesObject` for any number of
recordings and deletions, and types and `BridgesAreKept` for any number of
connections and bridges.  For the bridges the strengthening is `FreeHoldNone`: a
connection that waits for a bridge has none, so taking the parked one forgets
none.  For the recordings the strengthening is `GoneIsGone`: a deletion that S3
confirmed is still true when its transaction starts, because a recording is put
into the bucket once, under its own key.

`WebSessionProofs` has the three parts of the client that hold a connection.

The channel of events: one socket is live, a signed-out tab is silent, what was
delivered is shown, and presence is true, for any number of sockets, tokens,
colleagues and faults.  `OneLiveSocket` and `SignedOutIsSilent` need types and each
other (`TokenEffect` closes what `ReconnectTimer` opened).  `DeliveredIsShown`
speaks of moments when nothing is under way; the invariant says why such a moment
is good: `NothingBehind` (unread messages lie only before an open socket) and
`OldIsKnown` (what the tab shows is old only if it is marked stale, an event was
missed, or one is still to be read).  `PresenceIsKnown` says the same of the roster.

Sessions, for any number of tabs on one cookie: a signed-out tab stays empty
(`SignedOutIsEmpty`), because no answer can bring back what was given up
(`NothingComesBack`, `EmptyStays`), tokens have owners (`TokensAreOwned`) and a tab
has one refresh at a time (`OneRefresh`, `WaitersWait`).  `SoleTabIsKnown` adds, for
a browser with one tab and no lost answer, that the token in the cookie is one the
server knows or was told to forget, unless the answer that replaces it is on its
way; this is why a sole tab is never taken for a thief.  The proof showed that a
change of the password by a second tab signs the first one in again; the model
counts a tab as signed out only until a session is opened in the browser.

The socket of a meeting: what a room shows stays, and a displaced tab waits.  Both
are action properties; they need that `killed` and the link go together
(`DownIsKilled`) and the types of what is in the pipes (`SocketData`).

`WebLiveProofs` proves the pages that follow the events.

* Board: the cached lists are the server's but for marked, skipped or moving cards.
  `ListsAreTrue` says it of every moment (a list that is neither stale nor being
  fetched is right, unless the news of a move is still untold), so that
  `QuietBoardIsTrue` is the case of no move under way.  `FirstMoveIsAlone` describes a
  lone move exactly: every fetch begun before it was cancelled.
* Rights: `FetchIsTrue` (an answer that has been read is right, unless a switch is
  under way or an event was missed) gives `QuietMatrixIsTrue`.  A dismissed account stays
  without invitation: an edit form sends what it read long ago, so `RequestType` and
  `FormType` say that only the dialog and the switch of the row send `isActive`, and
  `DismissedInv` that whoever is dismissed has an account without invitation, until
  somebody invites or activates it again.
* Chat: `ListIsTrue` and `FeedsAreTrue` say of list and feed: right, or an answer,
  an own deed or an event is to come that brings a fetch.  `ReadIsPosted` (nothing is
  marked read that was not posted) is what `ReadNeverGoesBack` needs.
* Documents: `StoredIsStored` is about what the browser shows; the claims it makes
  also lie in requests and answers, so `ClaimsAreTrue` speaks of all of them, and
  `NewIsNowhere` of identities not yet given, which no claim mentions.  Most steps
  are a `DocKept`: they make no new claim and take no file away.
* The client: `LiveImplementsItsParts` shows that a behaviour of `MCWebLive` is a
  behaviour of each of its parts (the step of another page leaves its variables
  alone), so the properties of `web_live` follow from those of the parts:
  `LiveTyped`, `LiveDataAlwaysTrue`, `QuietPagesAlwaysTrue`, `MovesAlwaysHonest` and
  the action property `NothingShownIsEverLost`.

`WebDataProofs` proves the pages on which records are shown and changed, for any
number of cards, columns, events, comments and notices.

* Forms: the way into the form and the way back are inverse to each other on what
  the server may hold.  `SavedFits` and `SeenFits` say that what is stored and what
  was read belongs to the deal it is stored with, `FormFits` that a field nobody
  touched shows its base, `SentFits` that a request carries what such a form sends.
* Boards: what `computeKanbanReorder` does is described card by card.
  `ColumnInOrder` says that the items of a column of a full board (its orders are
  0, 1, 2, .. without gaps) are its cards by their orders; `MovesWithin` and
  `MovesAcross` say where every card is after a drop; `ReorderIsBoard` that a full board
  stays full, `ReorderIsOrderly` that the other cards keep their order, `LandsBeside`
  that the card lies where the pointer was.  The invariant `DragInv` says that the
  items are a full board, and what the drop under way would give is one, too.
* Page of a record: `CopyIsTrueOrWaits` (the copy that is shown is the record, or
  something that is still to come will have it read again).  That the server serves
  what is offered, except where `OfferedOtherwise` says so, needs only types:
  `OffersAreGuarded` compares the tables row by row; `ConversionIsServed`,
  `OnlyLeadsConvert` and `TenderIsServed` are the cases beside an exception.
* Calendar: `QuietCalendarIsTrue` is inductive with types, `DetailShowsAnEvent` and
  `CalComing` (the answer on its way that may miss nothing is what the server has). The layout of a day is a recursion over its sorted events
  (`Placings`).  `LaidOut` says what is true after n of them: an event of the last
  cluster ends no later than the cluster and than the last event of its lane, and
  any two that overlap have the same cluster and different lanes; `PlacedBeside`
  and `PlacedApart` are the step in a cluster and at the start of a new one.
* Comments: `TextsHaveOneHome` follows every typed text: it lies in one field, in
  one request, or in one comment, and numbers not yet given lie nowhere.  This is
  why a comment is stored once.  That the list is true rests on `ThreadComing`: the
  answer on its way that may miss nothing is what the server has.
* Notifications: `BellComing` says the same of the answer the bell waits for.
* `PartsKept` puts them together for the properties of `web_data`.

A recursion over data needs an induction, which the library states with an operator
as a parameter.  Here it is a search for the least counterexample: `LeastNat` (a
non-empty set of numbers has a least one) is applied to the set of numbers for
which the claim fails (`PlacingsExist`, `SortedExists`, `AllLaidOut`).

`WebPapersProofs` proves the pages that make or sign something.

* Composer: a file goes with the text it was picked for.  `HereForThis` says it of
  files that still lie in the field or are being uploaded, `WentRightly` of those
  that were sent, `WithinSlots` counts them with the library's facts on finite sets.
* Signing page: only what was read is signed.  The server signs what the challenge
  names, which the page asked for earlier, so the facts are handed down a chain:
  `StepWasRead` (the dialog that waits for a code is about read documents),
  `AskedWasRead` (so is the request on its way, unless its page is gone),
  `SignedWasRead` itself, and `LoginShowsNothing`, because a new visit starts
  without anything read.  `ListedWaits` needs `ListComing` (the list is right, or a
  read, a confirmed answer or a leaving of the page will make it so), `SessionEnds` and
  `KeyIsBlank` (a step for a key is about no document).
* Desk: types, `QuietDeskIsTrue`, `OpenDialogIsOffered` and `FreshButtonsWork`, for
  `DeskInit /\ [][DeskNext]_deskVars`.  What a dialog offers is decided by the shown
  record, what is served by the real one, so `DeskData` carries which statuses and
  signatures occur together; `PapersStay` (a document once made is made for good, so a
  document that is shown exists); `ShownOrComing` (what is shown is true, or its read
  is on its way or due).
* Meeting room: `PlayerInv` and `PlanInv` speak of the player and of the plan alone.
  For the recording, `Sole` follows the one take: it is recorded apart from the
  handlers (`RecordedApart`), uploaded at most once more than is excused, those under
  way counted (`UploadsExcused`), and in the hand of the recorder, a handler, the page or the store,
  or given up by the user (`KeptInHand`).
* `PapersImplementTheirParts` puts them together for the properties of `web_papers`.

The proofs needed the null values of the parts to lie outside the records they
stand for (`NoDialog`, `NoFeed`, `NoData`, `NoRead`, `NoSignJob`, `NoDeskRead`), a
board to have a column that is not final and a card, a matrix to have a row, and
cards, columns and calendar events to be finitely many;
each is a named assumption of its module, which TLC evaluates.

The assumptions are the named ones, which TLC evaluates in the runs: `NoPhone`,
`NoDoc`, `NoKey`, `NoCode` and the other null values are not identities,
`MaxAttempts` is a positive number, the sweeper and the purge are not requests,
the live phrase is not a recognised text, the files of the chat are finitely many,
and the bounds are natural numbers.

Only model-checked:

* liveness (`PendingIsResolved`, `ServerPartsEnd`, `DeletedSessionLeavesNoAudio`,
  `NoPageIsStuck`): fairness and `ENABLED` are beyond the prover.

## Plan

Done: the server models of e-documents, their protocol and screening with their
proofs, the pages of the client with `MCWebLive`, `MCWebData`, `MCWebPapers`, and
the proofs of all their parts.  If the project is continued, in this order:

1. `HrPortal`: links, login codes, sessions and the number they are bound to; the
   cooldown and hourly counters of `otp.py` in Redis with expiry.
2. The live agent of a meeting, with its own queue beside the bridge, and the two
   reads and writes of Redis in `rotate_refresh`.

## Not modelled

On the server: the locks of operations beyond the six of `HrProtocol` (the others
have one of these orders); the limits of SMS codes in Redis; the binding of a
portal session to a number; two tabs that rotate one refresh token between the
look and the removal in Redis; a connection to the speech service that is
cancelled while it is being made; the fan-out of events through Redis (an event
may be lost or late, which is what it can do); the questions and the live agent of
the screening, and a session whose end is moved by finishing it after its draft
expired; matching, analytics, worklog, job boards, exchange rates, audit,
Telegram, migrations, the eager mode of development. Rendering, storage formats,
mail, DTOs, the contents of documents and the cryptography itself are abstracted:
a signature is a fact about document, code and key.  The clock is anything that
may be late.  Document numbers and the fields of a draft are left out, since
nothing else depends on them.

In the client: the pages of analytics, profile, settings, calculator, audit and
integrations, which show one query and send one request; filters, search and
sorting of lists, except as keys of queries; sound, threads and export of the
chat; layout and wording; `api/types.gen.ts` and the mocks, which are generated or
fixtures; the browser extension, the widgets, the speech-to-text service and the
infrastructure.  Refetching after an event was lost is not stated, because the
code does not promise it: `App.tsx` switches the refetch on focus off, and a page
that lost an event learns of the change when it is opened again or polls.
