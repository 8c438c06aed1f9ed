------------------------------ MODULE SignPage ------------------------------
(***************************************************************************)
(* The page where an employee reads and signs documents: inside the CRM    *)
(* (MyDocsPage) or through the link of a letter (SignPortalPage), which    *)
(* asks for a code first. Both show EmployeeDocsView: the documents that   *)
(* wait, a reader for one of them, a dialog that signs several, and the    *)
(* flow that issues a key. All of them end in CodeStep, which sends a      *)
(* six-digit code for a challenge and may ask for a new one.               *)
(*                                                                         *)
(* The digits are not modelled: the employee types the code of the last    *)
(* SMS the step knows of, or something else. What the server checks of a   *)
(* challenge and of a document is what HrOtp and HrSigning say in detail.  *)
(***************************************************************************)
EXTENDS Naturals, FiniteSets

CONSTANTS SignPapers,     \* documents that wait for the employee
          SignCodes, NoSignCode,   \* challenges
          NoSignJob, NoReader,
          MaxVisits       \* times the page is opened anew or left, or the officer acts

(* A request: who asks, of which documents, the code typed, the outcome.   *)
SignJobs == [kind : {"challenge", "resend", "confirm", "reject", "logout"},
             use : {"none", "login", "key", "reader", "bulk"}, docs : SUBSET SignPapers,
             code : SignCodes \cup {NoSignCode}, typed : SignCodes \cup {NoSignCode},
             state : {"done", "failed"}]

ASSUME SignPageAssumption ==
    MaxVisits \in Nat /\ NoReader \notin SignPapers /\ NoSignJob \notin SignJobs

(* A document that was sent, viewed or not, is waiting.                    *)
SignStatuses == {"waiting", "signed", "rejected", "cancelled"}
KeyStates == {"consent_signed", "active", "key_revoked"}
StepUses == {"none", "login", "key", "issued", "reader", "bulk"}

VARIABLES signDocs,     \* the server: the status of each document
          endEvents,    \* the server: documents with a viewed_to_end event
          keyState,     \* the server: the state of the employee's key
          smsCodes,     \* the server: the challenges
          session,      \* the server: whether the cookie of the page is good
          door,         \* "crm" or "portal"
          shownDocs,    \* the page: status and canSign of each document
          shownSelf,    \* the page: the state of the key, or "login"
          docsRead, selfRead,   \* whether the page is reading them
          reader,       \* the document that is open
          readToEnd,    \* documents shown to the end since the page was opened
          signStep,     \* the code step
          signJob,      \* the request the page waits for
          signedHere,   \* documents signed from this page since it was opened
          signLost,     \* an answer was lost
          signOthers, visits

signServer == <<signDocs, endEvents, keyState, smsCodes, session>>
signReads == <<shownDocs, shownSelf, docsRead, selfRead>>
signVars == <<signDocs, endEvents, keyState, smsCodes, session, door, shownDocs, shownSelf,
              docsRead, selfRead, reader, readToEnd, signStep, signJob, signedHere, signLost,
              signOthers, visits>>

(***************************************************************************)
(* The server                                                              *)
(***************************************************************************)
CanSign(d) == signDocs[d] = "waiting" /\ keyState = "active"

Signable(D) == \A d \in D : CanSign(d) /\ d \in endEvents

(* A mark that a document was shown to the end counts while it waits.      *)
Marked(d) == IF signDocs[d] = "waiting" THEN endEvents \cup {d} ELSE endEvents

Purpose(use) == IF use \in {"reader", "bulk"} THEN "sign" ELSE use

(* A new challenge makes the earlier ones of its purpose useless.          *)
Challenge(c, use, D) ==
    [x \in SignCodes |->
       CASE x = c -> [use |-> Purpose(use), docs |-> D, status |-> "pending"]
         [] x # c /\ smsCodes[x].use = Purpose(use) /\ smsCodes[x].status = "pending" ->
              [smsCodes[x] EXCEPT !.status = "superseded", !.docs = {}]
         [] OTHER -> smsCodes[x]]

(* What a right code does: log in, issue the key, sign every document.    *)
Confirms(c) ==
    /\ smsCodes' = [smsCodes EXCEPT ![c].status = "confirmed", ![c].docs = {}]
    /\ session' = (session \/ smsCodes[c].use = "login")
    /\ keyState' = IF smsCodes[c].use = "key" THEN "active" ELSE keyState
    /\ signDocs' = [d \in SignPapers |-> IF d \in smsCodes[c].docs THEN "signed" ELSE signDocs[d]]
    /\ signedHere' = signedHere \cup smsCodes[c].docs

ServedDocs == [d \in SignPapers |-> [status |-> signDocs[d], canSign |-> CanSign(d)]]

(***************************************************************************)
(* The page                                                                *)
(***************************************************************************)
NoStep == [use |-> "none", docs |-> {}, code |-> NoSignCode, current |-> NoSignCode]
ClosedReader == [doc |-> NoReader, posted |-> FALSE]

(* The page is there when the employee is logged in.                       *)
InPage == shownSelf # "login"
NeedsKey == shownSelf \in {"consent_signed", "key_revoked"}
ShownWaiting == {d \in SignPapers : shownDocs[d].status = "waiting"}

(* Fault: a document need not be read to be among those signed at once.   *)
ReadyUnread == {d \in ShownWaiting : shownDocs[d].canSign}

(* What one code may sign at once: documents read to the end.              *)
ReadyForBulk == {d \in ShownWaiting : shownDocs[d].canSign /\ d \in readToEnd}

Disturbed == visits + signOthers < MaxVisits

ReadDocs == docsRead' = TRUE

(***************************************************************************)
(* Requests: the server answers each at once and the answer is on its way;*)
(* the buttons of the page wait for it. Any of them may fail: too many     *)
(* codes asked for, an SMS that is not sent, a network that is down.       *)
(***************************************************************************)
FreshCodes == {c \in SignCodes : smsCodes[c].status = "unused"}

SignJob(kind, use, D, code, state) ==
    [kind |-> kind, use |-> use, docs |-> D, code |-> code, typed |-> NoSignCode, state |-> state]

(* A challenge for documents needs each of them read and still waiting.   *)
AsksCode(kind, use, D) ==
    /\ signJob = NoSignJob
    /\ \/ /\ use = "login" \/ session
          /\ FreshCodes # {}
          /\ \A d \in D : CanSign(d) /\ d \in endEvents'
          /\ LET c == CHOOSE c \in FreshCodes : TRUE IN
               /\ smsCodes' = Challenge(c, use, D)
               /\ signJob' = SignJob(kind, use, D, c, "done")
       \/ /\ signJob' = SignJob(kind, use, D, NoSignCode, "failed")
          /\ smsCodes' = smsCodes
    /\ UNCHANGED <<signDocs, keyState, session, door, signReads, reader, readToEnd, signStep,
                   signedHere, signLost, signOthers, visits>>

StartLogin ==
    /\ ~InPage /\ signStep.use = "none"
    /\ UNCHANGED endEvents
    /\ AsksCode("challenge", "login", {})

StartKey ==
    /\ InPage /\ NeedsKey /\ signStep.use = "none" /\ reader.doc = NoReader
    /\ UNCHANGED endEvents
    /\ AsksCode("challenge", "key", {})

StartBulk ==
    /\ InPage /\ signStep.use = "none" /\ reader.doc = NoReader
    /\ Cardinality(ReadyForBulk) > 1
    /\ UNCHANGED endEvents
    /\ AsksCode("challenge", "bulk", ReadyForBulk)

(* Opening a document; the mark that it was looked at changes nothing here.*)
OpenReader(d) ==
    /\ InPage /\ reader.doc = NoReader /\ signStep.use \in {"none", "key", "issued"}
    /\ reader' = [doc |-> d, posted |-> FALSE]
    /\ UNCHANGED <<signServer, door, signReads, readToEnd, signStep, signJob, signedHere,
                   signLost, signOthers, visits>>

(* The viewer reports the end once every page is drawn and the end is on  *)
(* the screen. The mark of it that goes to the server may be lost, and     *)
(* nobody is told; what asks for a code waits for the mark.                *)
ReachEnd ==
    /\ reader.doc # NoReader /\ ~reader.posted
    /\ reader' = [reader EXCEPT !.posted = reader.doc \in ShownWaiting]
    /\ readToEnd' = readToEnd \cup {reader.doc}
    /\ \/ session /\ reader'.posted /\ endEvents' = Marked(reader.doc)
       \/ endEvents' = endEvents
    /\ <<reader', readToEnd'>> # <<reader, readToEnd>>
    /\ UNCHANGED <<signDocs, keyState, smsCodes, session, door, signReads, signStep, signJob,
                   signedHere,
                   signLost, signOthers, visits>>

(* Signing the open document: the employee ticks that it was read, which  *)
(* only works once its end was shown. The end is marked again when this    *)
(* opening of the reader has not marked it.                                *)
StartSigning ==
    /\ reader.doc \in readToEnd /\ shownDocs[reader.doc].canSign
    /\ signStep.use = "none"
    /\ endEvents' = IF ~reader.posted /\ session THEN Marked(reader.doc) ELSE endEvents
    /\ AsksCode("challenge", "reader", {reader.doc})

RejectPaper ==
    /\ reader.doc # NoReader /\ reader.doc \in ShownWaiting /\ signStep.use # "reader"
    /\ signJob = NoSignJob
    /\ \/ /\ session /\ signDocs[reader.doc] = "waiting"
          /\ signDocs' = [signDocs EXCEPT ![reader.doc] = "rejected"]
          /\ signJob' = SignJob("reject", "reader", {reader.doc}, NoSignCode, "done")
       \/ /\ signJob' = SignJob("reject", "reader", {reader.doc}, NoSignCode, "failed")
          /\ UNCHANGED signDocs
    /\ UNCHANGED <<endEvents, keyState, smsCodes, session, door, signReads, reader, readToEnd,
                   signStep,
                   signedHere, signLost, signOthers, visits>>

CloseReader ==
    /\ reader.doc # NoReader
    /\ reader' = ClosedReader
    /\ signStep' = IF signStep.use = "reader" THEN NoStep ELSE signStep
    /\ UNCHANGED <<signServer, door, signReads, readToEnd, signJob, signedHere, signLost,
                   signOthers, visits>>

CloseBulk ==
    /\ signStep.use = "bulk"
    /\ signStep' = NoStep
    /\ UNCHANGED <<signServer, door, signReads, reader, readToEnd, signJob, signedHere, signLost,
                   signOthers, visits>>

InCodeStep == signStep.use \in {"login", "key", "reader", "bulk"}

(* Ask for another code: the step keeps the new challenge to itself.       *)
Resend ==
    /\ InCodeStep
    /\ UNCHANGED endEvents
    /\ AsksCode("resend", signStep.use, signStep.docs)

(* Six digits are sent at once, for the challenge of the flow the step is *)
(* part of; they are those of the last SMS or a mistake.                   *)
EnterCode(typed) ==
    /\ InCodeStep /\ signJob = NoSignJob
    /\ typed \in {signStep.current, NoSignCode}
    /\ LET job == [SignJob("confirm", signStep.use, signStep.docs, signStep.code, "done")
                     EXCEPT !.typed = typed] IN
         \/ /\ smsCodes[signStep.code].status = "pending" /\ typed = signStep.code
            /\ signStep.use = "login" \/ session
            /\ Signable(smsCodes[signStep.code].docs)
            /\ Confirms(signStep.code) /\ signJob' = job
         \/ /\ signJob' = [job EXCEPT !.state = "failed"]
            /\ UNCHANGED <<smsCodes, session, keyState, signDocs, signedHere>>
    /\ UNCHANGED <<endEvents, door, signReads, reader, readToEnd, signStep, signLost, signOthers,
                   visits>>

(* The key is issued: its fingerprint is shown until the employee goes on.*)
GoToDocuments ==
    /\ signStep.use = "issued"
    /\ signStep' = NoStep
    /\ ReadDocs /\ selfRead' = TRUE
    /\ UNCHANGED <<signServer, door, shownDocs, shownSelf, reader, readToEnd, signJob,
                   signedHere, signLost, signOthers, visits>>

(* Leaving asks the server to forget the session.                          *)
Logout ==
    /\ door = "portal" /\ InPage /\ signJob = NoSignJob
    /\ Disturbed /\ visits' = visits + 1
    /\ \/ session' = FALSE /\ signJob' = SignJob("logout", "none", {}, NoSignCode, "done")
       \/ session' = session /\ signJob' = SignJob("logout", "none", {}, NoSignCode, "failed")
    /\ UNCHANGED <<signDocs, endEvents, keyState, smsCodes, door, signReads, reader, readToEnd,
                   signStep,
                   signedHere, signLost, signOthers>>

(* The page is opened anew; the server remembers what was read.            *)
Revisited ==
    /\ Disturbed /\ visits' = visits + 1
    /\ signJob = NoSignJob /\ readToEnd # {} /\ signStep = NoStep /\ reader = ClosedReader
    /\ readToEnd' = {} /\ signedHere' = {}
    /\ ReadDocs /\ selfRead' = TRUE
    /\ UNCHANGED <<signServer, door, shownDocs, shownSelf, reader, signStep, signJob, signLost,
                   signOthers>>

(***************************************************************************)
(* Answers                                                                 *)
(***************************************************************************)
(* The answer to what the server did is lost.                              *)
LoseSignJob ==
    /\ signJob # NoSignJob /\ signJob.state = "done"
    /\ signJob' = [signJob EXCEPT !.state = "failed"]
    /\ signLost' = TRUE
    /\ UNCHANGED <<signServer, door, signReads, reader, readToEnd, signStep, signedHere,
                   signOthers, visits>>

(* Whether the part of the page that asked is still there: the login card,*)
(* the flow that issues a key, the reader, the list, or its dialog.        *)
Waits == CASE signJob.use = "login" -> ~InPage /\ signStep.use \in {"none", "login"}
           [] signJob.use = "key" -> NeedsKey /\ signStep.use \in {"none", "key"}
           [] signJob.use = "reader" -> reader.doc \in signJob.docs
           [] OTHER -> InPage /\ (signJob.kind = "resend" => signStep.use = "bulk")

AnswerChallenge ==
    /\ signJob # NoSignJob /\ signJob.kind \in {"challenge", "resend"} /\ signJob.state = "done"
    /\ signJob' = NoSignJob
    /\ signStep' = CASE ~Waits -> signStep
                     [] Waits /\ signJob.kind = "challenge" ->
                          [use |-> signJob.use, docs |-> signJob.docs, code |-> signJob.code,
                           current |-> signJob.code]
                     [] OTHER -> IF signStep.use = signJob.use
                                 THEN [signStep EXCEPT !.current = signJob.code] ELSE signStep
    /\ UNCHANGED <<signServer, door, signReads, reader, readToEnd, signedHere, signLost,
                   signOthers, visits>>

(* A new key shows itself; the flow that issues one stays where it is when*)
(* the reader had the answer.                                              *)
StepAfter ==
    CASE signJob.use = "key" -> [NoStep EXCEPT !.use = IF NeedsKey THEN "issued" ELSE "none"]
      [] signJob.use = "reader" /\ signStep.use \in {"key", "issued"} -> signStep
      [] OTHER -> NoStep

(* Signing or rejecting closes whatever document is open and has the page *)
(* read again; logging in reads who is there.                              *)
AnswerConfirm ==
    /\ signJob # NoSignJob /\ signJob.kind \in {"confirm", "reject"} /\ signJob.state = "done"
    /\ signJob' = NoSignJob
    /\ signStep' = StepAfter
    /\ reader' = IF signJob.use = "reader" THEN ClosedReader ELSE reader
    /\ IF signJob.use = "key" THEN UNCHANGED <<docsRead, selfRead>>
       ELSE ReadDocs /\ selfRead' = TRUE
    /\ UNCHANGED <<signServer, door, shownDocs, shownSelf, readToEnd, signedHere, signLost,
                   signOthers, visits>>

(* Whether or not the server heard of it, everything read is forgotten    *)
(* and the session is asked for again.                                     *)
AnswerLogout ==
    /\ signJob # NoSignJob /\ signJob.kind = "logout"
    /\ signJob' = NoSignJob
    /\ selfRead' = TRUE /\ ReadDocs
    /\ UNCHANGED <<signServer, door, shownDocs, shownSelf, reader, readToEnd, signStep,
                   signedHere, signLost, signOthers, visits>>

AnswerFailure ==
    /\ signJob # NoSignJob /\ signJob.kind # "logout" /\ signJob.state = "failed"
    /\ signJob' = NoSignJob
    /\ UNCHANGED <<signServer, door, signReads, reader, readToEnd, signStep, signedHere,
                   signLost, signOthers, visits>>

(***************************************************************************)
(* Reads                                                                   *)
(***************************************************************************)
(* Every answer shows what the server has: one that a change overtakes is *)
(* followed by the read the change asked for.                             *)
ArriveDocs ==
    /\ docsRead
    /\ shownDocs' = IF session THEN ServedDocs ELSE shownDocs
    /\ docsRead' = FALSE
    /\ UNCHANGED <<signServer, door, shownSelf, selfRead, reader, readToEnd, signStep, signJob,
                   signedHere,
                   signLost, signOthers, visits>>

(* The flow that issues a key is there while the page shows that one is   *)
(* needed; nothing of the page is there without a session, and the        *)
(* documents are read when it comes.                                       *)
ArriveSelf ==
    /\ selfRead
    /\ shownSelf' = IF session THEN keyState ELSE "login"
    /\ selfRead' = FALSE
    /\ signStep' = CASE (shownSelf = "login") # (shownSelf' = "login") -> NoStep
                     [] signStep.use \in {"key", "issued"} /\ shownSelf' = "active" -> NoStep
                     [] OTHER -> signStep
    /\ reader' = IF shownSelf' = "login" THEN ClosedReader ELSE reader
    /\ readToEnd' = IF shownSelf' = "login" THEN {} ELSE readToEnd
    /\ signedHere' = IF shownSelf' = "login" THEN {} ELSE signedHere
    /\ docsRead' = (docsRead \/ (shownSelf = "login" /\ shownSelf' # "login"))
    /\ UNCHANGED <<signServer, door, shownDocs, signJob, signLost, signOthers, visits>>

(* Inside the CRM the state of the employee is asked for every minute.     *)
PollSelf ==
    /\ door = "crm" /\ ~selfRead /\ shownSelf # keyState
    /\ selfRead' = TRUE
    /\ UNCHANGED <<signServer, door, shownDocs, shownSelf, docsRead, reader, readToEnd, signStep,
                   signJob,
                   signedHere, signLost, signOthers, visits>>

(* The officer cancels a document or revokes the key; a session expires.  *)
Officer ==
    /\ Disturbed /\ signOthers' = signOthers + 1
    /\ \/ /\ \E d \in SignPapers : signDocs[d] = "waiting"
                                    /\ signDocs' = [signDocs EXCEPT ![d] = "cancelled"]
          /\ UNCHANGED <<keyState, session>>
       \/ /\ keyState = "active" /\ keyState' = "key_revoked"
          /\ UNCHANGED <<signDocs, session>>
       \/ /\ door = "portal" /\ session /\ session' = FALSE
          /\ UNCHANGED <<signDocs, keyState>>
    /\ UNCHANGED <<endEvents, smsCodes, door, signReads, reader, readToEnd, signStep, signJob,
                   signedHere, signLost,
                   visits>>

-----------------------------------------------------------------------------
(* Nobody disturbs who has to log in and to have a key issued first.       *)
SignInit ==
    /\ signDocs = [d \in SignPapers |-> "waiting"] /\ endEvents = {}
    /\ door \in {"crm", "portal"}
    /\ session \in BOOLEAN /\ (door = "crm" => session)
    /\ keyState = IF session THEN "active" ELSE "key_revoked"
    /\ smsCodes = [c \in SignCodes |-> [use |-> "none", docs |-> {}, status |-> "unused"]]
    /\ shownDocs = ServedDocs
    /\ shownSelf = IF session THEN keyState ELSE "login"
    /\ docsRead = FALSE /\ selfRead = FALSE /\ signJob = NoSignJob
    /\ reader = ClosedReader /\ signStep = NoStep
    /\ readToEnd = {} /\ signedHere = {}
    /\ signLost = FALSE /\ signOthers = 0 /\ visits = IF session THEN 0 ELSE MaxVisits

SignNext ==
    \/ StartLogin \/ StartKey \/ StartBulk \/ ReachEnd \/ StartSigning \/ RejectPaper
    \/ CloseReader \/ CloseBulk \/ Resend \/ GoToDocuments \/ Logout \/ Revisited
    \/ \E d \in SignPapers : OpenReader(d)
    \/ \E c \in SignCodes \cup {NoSignCode} : EnterCode(c)
    \/ LoseSignJob \/ AnswerChallenge \/ AnswerConfirm \/ AnswerLogout \/ AnswerFailure
    \/ ArriveDocs \/ ArriveSelf \/ PollSelf \/ Officer

SignSpec == SignInit /\ [][SignNext]_signVars
-----------------------------------------------------------------------------
SignTypeOK ==
    /\ signDocs \in [SignPapers -> SignStatuses] /\ keyState \in KeyStates
    /\ shownDocs \in [SignPapers -> [status : SignStatuses, canSign : BOOLEAN]]
    /\ shownSelf \in KeyStates \cup {"login"}
    /\ signStep.use \in StepUses
    /\ endEvents \subseteq SignPapers /\ readToEnd \subseteq SignPapers

(* What was signed from this page was shown to the end on it, whichever   *)
(* way it was signed and whatever an earlier visit had read.               *)
SignedWasRead == signedHere \subseteq readToEnd

(* When nothing is in flight, and neither the officer nor a lost answer   *)
(* interfered, the page lists as waiting what waits.                       *)
ListedWaits ==
    (InPage /\ signJob = NoSignJob /\ ~docsRead /\ ~selfRead
       /\ signOthers = 0 /\ ~signLost)
    => ShownWaiting = {d \in SignPapers : signDocs[d] = "waiting"}

(* The code of the last SMS is checked against the challenge it was sent  *)
(* for: after a new code is asked for, the new one works.                  *)
ResentCodeWorks ==
    (signJob # NoSignJob /\ signJob.kind = "confirm" /\ signJob.typed # NoSignCode)
      => signJob.code = signJob.typed

(* A page that shows the key as issued lets the employee sign.             *)
ShownKeySigns ==
    (shownSelf = "active" /\ signOthers = 0 /\ signJob = NoSignJob /\ ~signLost
       /\ ~docsRead /\ ~selfRead)
    => \A d \in ShownWaiting : shownDocs[d].canSign
=============================================================================
