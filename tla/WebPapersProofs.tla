-------------------------- MODULE WebPapersProofs --------------------------
(*****************************************************************************)
(* Theorems about the pages of the web client that make or sign something,   *)
(* ChatComposer, SignPage, HrDesk and ScreeningRoom, for any files,          *)
(* documents, challenges and captures and any values of the bounds; and      *)
(* about the behaviours of MCWebPapers, in which these parts are put         *)
(* together.                                                                 *)
(*****************************************************************************)
EXTENDS MCWebPapers, FiniteSetTheorems, TLAPS

(* ChatComposer                                                            *)
(* What lies in the field, uploaded or not, was picked for this draft and  *)
(* has not gone yet: a file cannot be picked twice.                        *)
InField == uploads \cup attachments
HereForThis == \A f \in InField : chosenFor[f] = draft /\ wentWith[f] = 0

(* What went, went with the draft it was picked for; what was picked and   *)
(* has not gone is in the field or was dropped.                            *)
WentRightly ==
  \A f \in ChatFiles :
    /\ wentWith[f] # 0 => wentWith[f] = chosenFor[f]
    /\ chosenFor[f] # 0 /\ wentWith[f] = 0 => f \in dropped \cup InField

WithinSlots == Cardinality(uploads) + Cardinality(attachments) <= Slots

ComposerInv == ComposerTypeOK /\ HereForThis /\ WentRightly /\ WithinSlots

-----------------------------------------------------------------------------
(* Every set of files is finite.                                           *)
LEMMA FilesCounted ==
  ASSUME NEW F \in SUBSET ChatFiles
  PROVE  IsFiniteSet(F) /\ Cardinality(F) \in Nat
  BY ComposerAssumption, FS_Subset, FS_CardinalityType

(* Moving one file from the uploads to the attachments, or out of either,  *)
(* never takes another slot.                                               *)
LEMMA OneFileMoves ==
  ASSUME NEW U \in SUBSET ChatFiles, NEW A \in SUBSET ChatFiles, NEW f,
         Cardinality(U) + Cardinality(A) <= Slots
  PROVE  /\ f \in U => Cardinality(U \ {f}) + Cardinality(A \cup {f}) <= Slots
         /\ Cardinality(U \ {f}) + Cardinality(A) <= Slots
         /\ Cardinality(U) + Cardinality(A \ {f}) <= Slots
<1>1. /\ Cardinality(U) \in Nat /\ Cardinality(A) \in Nat
      /\ IsFiniteSet(U) /\ IsFiniteSet(A)
  BY FilesCounted
<1>2. Cardinality(U \ {f}) = IF f \in U THEN Cardinality(U) - 1 ELSE Cardinality(U)
  BY <1>1, FS_RemoveElement
<1>3. Cardinality(A \ {f}) = IF f \in A THEN Cardinality(A) - 1 ELSE Cardinality(A)
  BY <1>1, FS_RemoveElement
<1>4. Cardinality(A \cup {f}) = IF f \in A THEN Cardinality(A) ELSE Cardinality(A) + 1
  BY <1>1, FS_AddElement
<1> QED
  BY <1>1, <1>2, <1>3, <1>4, ComposerAssumption

(* What is picked takes at most as many slots as there are files in it.    *)
LEMMA PickedFit ==
  ASSUME NEW U \in SUBSET ChatFiles, NEW A \in SUBSET ChatFiles, NEW F \in SUBSET ChatFiles,
         Cardinality(F) <= Slots - Cardinality(A) - Cardinality(U)
  PROVE  Cardinality(U \cup F) + Cardinality(A) <= Slots
<1>1. /\ IsFiniteSet(U) /\ IsFiniteSet(F)
      /\ {Cardinality(U), Cardinality(A), Cardinality(F), Cardinality(U \cap F)} \subseteq Nat
  BY FilesCounted
<1>2. Cardinality(U \cup F) = Cardinality(U) + Cardinality(F) - Cardinality(U \cap F)
  BY <1>1, FS_Union
<1> QED
  BY <1>1, <1>2, ComposerAssumption

-----------------------------------------------------------------------------
LEMMA ComposerInitInv == ComposerInit => ComposerInv
<1> SUFFICES ASSUME ComposerInit PROVE ComposerInv
  OBVIOUS
<1>1. /\ draft \in 1..MaxDrafts
      /\ uploads \cup attachments \cup dropped \subseteq ChatFiles
      /\ chosenFor \in [ChatFiles -> 0..MaxDrafts] /\ wentWith \in [ChatFiles -> 0..MaxDrafts]
  BY ComposerAssumption DEF ComposerInit
<1>2. written \in BOOLEAN /\ posting \in BOOLEAN
  BY Zenon DEF ComposerInit
<1>3. HereForThis /\ WentRightly
  BY DEF ComposerInit, HereForThis, WentRightly, InField
<1>4. WithinSlots
  BY ComposerAssumption, FS_EmptySet DEF ComposerInit, WithinSlots
<1> QED
  BY <1>1, <1>2, <1>3, <1>4 DEF ComposerInv, ComposerTypeOK

LEMMA UploadFilesInv == ASSUME ComposerInv, NEW files \in SUBSET ChatFiles, UploadFiles(files) PROVE ComposerInv'
<1> USE ComposerAssumption DEF ComposerInv, UploadFiles
<1>1. ComposerTypeOK'
  BY DEF ComposerTypeOK
<1>2. \A f \in files : wentWith[f] = 0 /\ f \notin InField
  BY DEF ComposerTypeOK, WentRightly, HereForThis
<1>3. HereForThis' /\ WentRightly'
  BY <1>2 DEF ComposerTypeOK, HereForThis, WentRightly, InField
<1>4. WithinSlots'
  BY PickedFit DEF ComposerTypeOK, WithinSlots, FreeSlots
<1> QED
  BY <1>1, <1>3, <1>4

LEMMA FileInv ==
  ASSUME ComposerInv, NEW f \in ChatFiles, Uploaded(f) \/ UploadFails(f) \/ RemoveAttachment(f)
  PROVE  ComposerInv'
<1> USE DEF ComposerInv
<1>1. ComposerTypeOK'
  BY DEF ComposerTypeOK, Uploaded, UploadFails, RemoveAttachment
<1>2. HereForThis' /\ WentRightly'
  BY DEF ComposerTypeOK, HereForThis, WentRightly, InField, Uploaded, UploadFails, RemoveAttachment
<1>3. WithinSlots'
  BY OneFileMoves DEF ComposerTypeOK, WithinSlots, Uploaded, UploadFails, RemoveAttachment
<1> QED
  BY <1>1, <1>2, <1>3

(* The uploads are empty, so the whole field goes with the text.           *)
LEMMA SendInv == ASSUME ComposerInv, SendMessage PROVE ComposerInv'
<1> USE ComposerAssumption DEF ComposerInv, SendMessage, MaySend
<1>0. written' \in BOOLEAN /\ posting' \in BOOLEAN
  BY Zenon
<1>1. ComposerTypeOK'
  BY <1>0 DEF ComposerTypeOK
<1>2. HereForThis' /\ WentRightly'
  BY DEF ComposerTypeOK, HereForThis, WentRightly, InField
<1>3. WithinSlots'
  BY FS_EmptySet DEF WithinSlots
<1> QED
  BY <1>1, <1>2, <1>3

LEMMA ComposerStepInv == ComposerInv /\ [ComposerNext]_composerVars => ComposerInv'
<1> SUFFICES ASSUME ComposerInv, [ComposerNext]_composerVars PROVE ComposerInv'
  OBVIOUS
<1>1. CASE \E v \in BOOLEAN : HandleChange(v)
  BY <1>1 DEF ComposerInv, HandleChange, ComposerTypeOK, HereForThis, WentRightly, WithinSlots, InField
<1>2. CASE \E files \in SUBSET ChatFiles : UploadFiles(files)
  BY <1>2, UploadFilesInv
<1>3. CASE \E f \in ChatFiles : Uploaded(f) \/ UploadFails(f) \/ RemoveAttachment(f)
  BY <1>3, FileInv
<1>4. CASE SendMessage
  BY <1>4, SendInv
<1>5. CASE PostEnds
  BY <1>5 DEF ComposerInv, PostEnds, ComposerTypeOK, HereForThis, WentRightly, WithinSlots, InField
<1>6. CASE UNCHANGED composerVars
  BY <1>6 DEF ComposerInv, composerVars, ComposerTypeOK, HereForThis, WentRightly, WithinSlots, InField
<1> QED
  BY <1>1, <1>2, <1>3, <1>4, <1>5, <1>6 DEF ComposerNext

LEMMA ComposerAlwaysInv == ComposerSpec => []ComposerInv
  BY ComposerInitInv, ComposerStepInv, PTL DEF ComposerSpec

-----------------------------------------------------------------------------
(* The variables of the composer keep their types.                         *)
THEOREM ComposerTyped == ComposerSpec => []ComposerTypeOK
<1>1. ComposerInv => ComposerTypeOK
  BY DEF ComposerInv
<1> QED
  BY <1>1, ComposerAlwaysInv, PTL

(* A file goes with the text it was picked for or with none, whatever is   *)
(* uploaded, fails or is removed while texts are written and sent.         *)
THEOREM FilesAlwaysGoWithTheirText == ComposerSpec => []FilesGoWithTheirText
<1>1. ComposerInv => FilesGoWithTheirText
  BY DEF ComposerInv, ComposerTypeOK, HereForThis, WentRightly, WithinSlots, InField, FilesGoWithTheirText
<1> QED
  BY <1>1, ComposerAlwaysInv, PTL

-----------------------------------------------------------------------------
(* SignPage                                                                *)
CodeUses == {"login", "key", "reader", "bulk"}

SmsCodes == [use : {"none", "login", "key", "sign"}, docs : SUBSET SignPapers,
               status : {"unused", "pending", "superseded", "confirmed"}]
CodeSteps == [use : StepUses, docs : SUBSET SignPapers,
          code : SignCodes \cup {NoSignCode}, current : SignCodes \cup {NoSignCode}]
(* What the proofs need of the types.                                      *)
SignData ==
  /\ smsCodes \in [SignCodes -> SmsCodes]
  /\ signStep \in CodeSteps /\ signJob \in SignJobs \cup {NoSignJob}
  /\ reader.doc \in SignPapers \cup {NoReader} /\ readToEnd \subseteq SignPapers
  /\ keyState \in KeyStates

(* The login card shows no documents and no step but its own.              *)
LoginShowsNothing ==
  ~InPage => reader = ClosedReader /\ readToEnd = {} /\ signStep.use \in {"none", "login"}

(* The step asks for a code of documents that were read.                   *)
StepWasRead ==
  InCodeStep => /\ signStep.docs \subseteq readToEnd
                /\ signStep.code \in SignCodes
                /\ smsCodes[signStep.code].docs \subseteq readToEnd
                /\ signStep.use = "login" => signStep.docs = {}

(* So will the step that waits for its challenge. The page it asked from   *)
(* may be gone: then there is no session until somebody logs in again.     *)
AskedWasRead ==
  (signJob # NoSignJob /\ signJob.kind \in {"challenge", "resend"} /\ signJob.state = "done")
    => \/ /\ signJob.use = "login"
          /\ signJob.docs = {} /\ signJob.code \in SignCodes
          /\ smsCodes[signJob.code].docs = {}
       \/ signJob.use \in {"key", "reader", "bulk"} /\ ~InPage /\ ~session
       \/ /\ signJob.use \in {"key", "reader", "bulk"} /\ InPage
          /\ signJob.docs \subseteq readToEnd /\ signJob.code \in SignCodes
          /\ smsCodes[signJob.code].docs \subseteq readToEnd

SignInv == SignData /\ LoginShowsNothing /\ StepWasRead /\ AskedWasRead /\ SignedWasRead

-----------------------------------------------------------------------------
LEMMA SignStarts == SignInit => SignInv
<1> SUFFICES ASSUME SignInit PROVE SignInv
  OBVIOUS
<1>1. SignData
  BY DEF SignInit, SignData, SmsCodes, CodeSteps, StepUses, NoStep, ClosedReader, KeyStates
<1>2. LoginShowsNothing /\ StepWasRead /\ AskedWasRead /\ SignedWasRead
  BY DEF SignInit, LoginShowsNothing, StepWasRead, AskedWasRead, SignedWasRead, InCodeStep, NoStep,
         ClosedReader
<1> QED
  BY <1>1, <1>2 DEF SignInv

(* A challenge holds the documents it is for, and adds none to another.    *)
LEMMA ChallengeHolds ==
  ASSUME SignData, NEW c \in SignCodes, NEW use \in CodeUses, NEW D \in SUBSET SignPapers
  PROVE  /\ Challenge(c, use, D) \in [SignCodes -> SmsCodes]
         /\ Challenge(c, use, D)[c].docs = D
         /\ \A x \in SignCodes : x # c =>
              Challenge(c, use, D)[x].docs \subseteq smsCodes[x].docs
<1>1. Purpose(use) \in {"login", "key", "sign"}
  BY DEF Purpose, CodeUses
<1>2. Challenge(c, use, D)[c] = [use |-> Purpose(use), docs |-> D, status |-> "pending"]
  BY DEF Challenge
<1>3. \A x \in SignCodes : x # c =>
        \/ Challenge(c, use, D)[x] = smsCodes[x]
        \/ Challenge(c, use, D)[x] = [smsCodes[x] EXCEPT !.status = "superseded", !.docs = {}]
  BY DEF Challenge
<1>4. \A x \in SignCodes : smsCodes[x] \in SmsCodes
  BY DEF SignData
<1>5. \A x \in SignCodes : /\ Challenge(c, use, D)[x] \in SmsCodes
                           /\ x # c => Challenge(c, use, D)[x].docs \subseteq smsCodes[x].docs
  <2> SUFFICES ASSUME NEW x \in SignCodes
               PROVE  /\ Challenge(c, use, D)[x] \in SmsCodes
                      /\ x # c => Challenge(c, use, D)[x].docs \subseteq smsCodes[x].docs
    OBVIOUS
  <2>1. CASE x = c
    BY <2>1, <1>1, <1>2 DEF SmsCodes
  <2>2. CASE Challenge(c, use, D)[x] = smsCodes[x]
    BY <2>2, <1>2, <1>4, <1>1 DEF SmsCodes
  <2>3. CASE Challenge(c, use, D)[x] = [smsCodes[x] EXCEPT !.status = "superseded", !.docs = {}]
    BY <2>3, <1>4 DEF SmsCodes
  <2> QED
    BY <1>3, <2>1, <2>2, <2>3
<1>6. Challenge(c, use, D) = [x \in SignCodes |-> Challenge(c, use, D)[x]]
  BY DEF Challenge
<1> QED
  BY <1>2, <1>5, <1>6

(* Asking for a code, whichever part of the page asks.                     *)
LEMMA AsksInv ==
  ASSUME SignInv, NEW kind \in {"challenge", "resend"}, NEW use \in CodeUses,
         NEW D \in SUBSET SignPapers, AsksCode(kind, use, D), D \subseteq readToEnd,
         IF use = "login" THEN D = {} ELSE InPage
  PROVE  SignInv'
<1>1. /\ UNCHANGED <<signDocs, keyState, session, door, shownDocs, shownSelf, docsRead, selfRead,
                     reader, readToEnd, signStep, signedHere>>
  BY DEF AsksCode, signReads
<1>2. CASE \E c \in SignCodes : smsCodes' = Challenge(c, use, D)
                                 /\ signJob' = SignJob(kind, use, D, c, "done")
  <2>1. PICK c \in SignCodes : smsCodes' = Challenge(c, use, D)
                                 /\ signJob' = SignJob(kind, use, D, c, "done")
    BY <1>2
  <2>2. SignData
    BY DEF SignInv
  <2>3. /\ smsCodes' \in [SignCodes -> SmsCodes] /\ smsCodes'[c].docs = D
        /\ \A x \in SignCodes : x # c => smsCodes'[x].docs \subseteq smsCodes[x].docs
    BY <2>1, <2>2, ChallengeHolds
  <2>4. signJob' \in SignJobs
    BY <2>1 DEF SignJob, SignJobs, CodeUses
  <2>5. SignData'
    BY <1>1, <2>2, <2>3, <2>4 DEF SignData
  <2>6. LoginShowsNothing' /\ SignedWasRead'
    BY <1>1 DEF SignInv, LoginShowsNothing, SignedWasRead, InPage
  <2>7. StepWasRead'
    BY <1>1, <2>3 DEF SignInv, StepWasRead, InCodeStep
  <2>8. AskedWasRead'
    <3>1. signJob'.kind = kind /\ signJob'.use = use /\ signJob'.docs = D /\ signJob'.code = c
      BY <2>1 DEF SignJob
    <3> QED
      BY <1>1, <2>3, <3>1 DEF AskedWasRead, InPage, CodeUses
  <2> QED
    BY <2>5, <2>6, <2>7, <2>8 DEF SignInv
<1>3. CASE signJob' = SignJob(kind, use, D, NoSignCode, "failed") /\ smsCodes' = smsCodes
  <2>1. signJob' \in SignJobs /\ signJob'.state = "failed"
    BY <1>3 DEF SignJob, SignJobs, CodeUses
  <2> QED
    BY <1>1, <1>3, <2>1 DEF SignInv, SignData, LoginShowsNothing, StepWasRead, AskedWasRead, SignedWasRead,
                            InPage, InCodeStep
<1>4. (CHOOSE c \in FreshCodes : TRUE) \in SignCodes \/ FreshCodes = {}
  BY DEF FreshCodes
<1> QED
  BY <1>2, <1>3, <1>4 DEF AsksCode

LEMMA StartsInv ==
  ASSUME SignInv, StartLogin \/ StartKey \/ StartBulk \/ StartSigning \/ Resend
  PROVE  SignInv'
<1>1. CASE StartLogin
  <2>1. AsksCode("challenge", "login", {})
    BY <1>1 DEF StartLogin
  <2> QED
    BY <2>1, AsksInv DEF CodeUses
<1>2. CASE StartKey
  <2>1. AsksCode("challenge", "key", {}) /\ InPage
    BY <1>2 DEF StartKey
  <2> QED
    BY <2>1, AsksInv DEF CodeUses
<1>3. CASE StartBulk
  <2>1. AsksCode("challenge", "bulk", ReadyForBulk) /\ InPage
    BY <1>3 DEF StartBulk
  <2>2. ReadyForBulk \subseteq readToEnd /\ ReadyForBulk \in SUBSET SignPapers
    BY DEF ReadyForBulk, ShownWaiting
  <2> QED
    BY <2>1, <2>2, AsksInv DEF CodeUses
<1>4. CASE StartSigning
  <2>1. AsksCode("challenge", "reader", {reader.doc}) /\ reader.doc \in readToEnd
    BY <1>4 DEF StartSigning
  <2>2. InPage /\ {reader.doc} \in SUBSET SignPapers
    BY <2>1 DEF SignInv, LoginShowsNothing, SignData
  <2> QED
    BY <2>1, <2>2, AsksInv DEF CodeUses
<1>5. CASE Resend
  <2>1. AsksCode("resend", signStep.use, signStep.docs) /\ InCodeStep
    BY <1>5 DEF Resend
  <2>2. /\ signStep.use \in CodeUses /\ signStep.docs \in SUBSET SignPapers
        /\ signStep.docs \subseteq readToEnd
    BY <2>1 DEF InCodeStep, CodeUses, SignInv, StepWasRead, SignData, CodeSteps
  <2>3. IF signStep.use = "login" THEN signStep.docs = {} ELSE InPage
    BY <2>1 DEF InCodeStep, SignInv, StepWasRead, LoginShowsNothing
  <2> QED
    BY <2>1, <2>2, <2>3, AsksInv
<1> QED
  BY <1>1, <1>2, <1>3, <1>4, <1>5

(* The right code signs what the step asked for.                           *)
LEMMA EnterCodeInv ==
  ASSUME SignInv, NEW typed \in SignCodes \cup {NoSignCode}, EnterCode(typed)
  PROVE  SignInv'
<1>1. /\ UNCHANGED <<shownSelf, reader, readToEnd, signStep>>
      /\ InCodeStep /\ signJob'.kind = "confirm" /\ signJob' \in SignJobs
  <2>1. UNCHANGED <<shownSelf, reader, readToEnd, signStep>> /\ InCodeStep
    BY DEF EnterCode, signReads
  <2>2. /\ signStep.use \in CodeUses /\ signStep.docs \in SUBSET SignPapers
        /\ signStep.code \in SignCodes \cup {NoSignCode}
    BY <2>1 DEF SignInv, SignData, CodeSteps, InCodeStep, CodeUses
  <2>3. PICK job : /\ job = [SignJob("confirm", signStep.use, signStep.docs, signStep.code, "done")
                               EXCEPT !.typed = typed]
                   /\ signJob' = job \/ signJob' = [job EXCEPT !.state = "failed"]
    BY DEF EnterCode
  <2> QED
    BY <2>1, <2>2, <2>3 DEF SignJob, SignJobs, CodeUses
<1>2. CASE Confirms(signStep.code)
  <2>1. signStep.code \in SignCodes /\ smsCodes[signStep.code].docs \subseteq readToEnd
    BY <1>1 DEF SignInv, StepWasRead
  <2>2. /\ smsCodes' = [smsCodes EXCEPT ![signStep.code].status = "confirmed",
                                        ![signStep.code].docs = {}]
        /\ signedHere' = signedHere \cup smsCodes[signStep.code].docs
    BY <1>2 DEF Confirms
  <2>3. smsCodes' \in [SignCodes -> SmsCodes]
    BY <2>1, <2>2 DEF SignInv, SignData, SmsCodes
  <2>4. smsCodes'[signStep.code].docs = {}
    BY <2>1, <2>2 DEF SignInv, SignData, SmsCodes
  <2>5. SignData' /\ LoginShowsNothing'
    BY <1>1, <1>2, <2>3 DEF SignInv, SignData, LoginShowsNothing, InPage, Confirms, KeyStates
  <2>6. StepWasRead' /\ SignedWasRead'
    BY <1>1, <2>1, <2>2, <2>4 DEF SignInv, StepWasRead, SignedWasRead, InCodeStep
  <2>7. AskedWasRead'
    BY <1>1 DEF AskedWasRead
  <2> QED
    BY <2>5, <2>6, <2>7 DEF SignInv
<1>3. CASE UNCHANGED <<smsCodes, session, keyState, signDocs, signedHere>>
  BY <1>1, <1>3 DEF SignInv, SignData, LoginShowsNothing, StepWasRead, AskedWasRead, SignedWasRead,
                    InPage, InCodeStep
<1> QED
  BY <1>2, <1>3 DEF EnterCode

(* The page moves on: nothing is asked of the server.                      *)
LEMMA ReaderInv ==
  ASSUME SignInv, CloseReader \/ CloseBulk \/ GoToDocuments \/ ReachEnd
               \/ \E d \in SignPapers : OpenReader(d)
  PROVE  SignInv'
<1>1. UNCHANGED <<smsCodes, session, keyState, signJob, signedHere>>
  BY DEF CloseReader, CloseBulk, GoToDocuments, ReachEnd, OpenReader, signServer
<1>2. CASE CloseReader \/ CloseBulk \/ GoToDocuments
  <2>1. /\ UNCHANGED readToEnd /\ reader' \in {reader, ClosedReader}
        /\ signStep' \in {signStep, NoStep} /\ shownSelf' = shownSelf
    BY <1>2 DEF CloseReader, CloseBulk, GoToDocuments, signReads
  <2>2. NoStep \in CodeSteps /\ NoStep.use = "none" /\ ClosedReader.doc = NoReader
    BY DEF NoStep, CodeSteps, StepUses, ClosedReader
  <2>3. SignData'
    BY <1>1, <2>1, <2>2 DEF SignInv, SignData
  <2>4. LoginShowsNothing' /\ SignedWasRead' /\ AskedWasRead'
    BY <1>1, <2>1, <2>2 DEF SignInv, LoginShowsNothing, SignedWasRead, AskedWasRead, InPage
  <2>5. StepWasRead'
    BY <1>1, <2>1, <2>2 DEF SignInv, StepWasRead, InCodeStep
  <2> QED
    BY <2>3, <2>4, <2>5 DEF SignInv
<1>3. CASE ReachEnd
  <2>1. /\ UNCHANGED <<shownSelf, signStep>> /\ reader.doc # NoReader
        /\ reader' = [reader EXCEPT !.posted = reader.doc \in ShownWaiting]
        /\ readToEnd' = readToEnd \cup {reader.doc}
    BY <1>3 DEF ReachEnd, signReads
  <2>2. reader'.doc = reader.doc \/ reader'.doc = NoReader
    <3>1. reader.doc \in SignPapers
      BY <2>1 DEF SignInv, SignData
    <3> QED
      BY <2>1
  <2>3. InPage /\ InPage'
    BY <2>1 DEF SignInv, LoginShowsNothing, ClosedReader, InPage
  <2>4. SignData'
    BY <1>1, <2>1, <2>2 DEF SignInv, SignData
  <2> QED
    BY <1>1, <2>1, <2>3, <2>4 DEF SignInv, LoginShowsNothing, StepWasRead, AskedWasRead, SignedWasRead,
                                  InPage, InCodeStep
<1>4. CASE \E d \in SignPapers : OpenReader(d)
  <2>1. PICK d \in SignPapers : OpenReader(d)
    BY <1>4
  <2>2. /\ UNCHANGED <<shownSelf, signStep, readToEnd>> /\ InPage
        /\ reader'.doc = d
    BY <2>1 DEF OpenReader, signReads
  <2> QED
    BY <1>1, <2>2 DEF SignInv, SignData, LoginShowsNothing, StepWasRead, AskedWasRead, SignedWasRead,
                      InPage, InCodeStep
<1> QED
  BY <1>2, <1>3, <1>4
(* Rejecting, leaving, coming back, what the officer does, and answers     *)
(* that fail or are read: no step begins and nothing is signed.            *)
LEMMA QuietInv ==
  ASSUME SignInv, RejectPaper \/ Logout \/ LoseSignJob \/ AnswerLogout \/ AnswerFailure
               \/ ArriveDocs \/ PollSelf \/ Officer \/ UNCHANGED signVars
  PROVE  SignInv'
<1>1. UNCHANGED <<smsCodes, shownSelf, reader, readToEnd, signStep, signedHere>>
  BY DEF RejectPaper, Logout, LoseSignJob, AnswerLogout, AnswerFailure, ArriveDocs, PollSelf,
         Officer, signVars, signServer, signReads
<1>2. session' = session \/ ~session'
  BY DEF RejectPaper, Logout, LoseSignJob, AnswerLogout, AnswerFailure, ArriveDocs, PollSelf,
         Officer, signVars, signServer
<1>3. keyState' \in KeyStates
  BY DEF RejectPaper, Logout, LoseSignJob, AnswerLogout, AnswerFailure, ArriveDocs, PollSelf,
         Officer, signVars, signServer, KeyStates, SignInv, SignData
<1>4. /\ signJob' \in SignJobs \cup {NoSignJob}
      /\ \/ signJob' = signJob \/ signJob' = NoSignJob
         \/ signJob'.kind \in {"reject", "logout"} \/ signJob'.state = "failed"
  <2>1. CASE RejectPaper
    <3>1. {reader.doc} \in SUBSET SignPapers
      BY <2>1 DEF RejectPaper, SignInv, SignData
    <3>2. signJob' = SignJob("reject", "reader", {reader.doc}, NoSignCode, "done")
           \/ signJob' = SignJob("reject", "reader", {reader.doc}, NoSignCode, "failed")
      BY <2>1 DEF RejectPaper
    <3> QED
      BY <3>1, <3>2 DEF SignJob, SignJobs, CodeUses
  <2>2. CASE Logout
    <3>1. signJob' = SignJob("logout", "none", {}, NoSignCode, "done")
           \/ signJob' = SignJob("logout", "none", {}, NoSignCode, "failed")
      BY <2>2 DEF Logout
    <3> QED
      BY <3>1 DEF SignJob, SignJobs
  <2>3. CASE LoseSignJob
    <3>1. signJob \in SignJobs /\ signJob' = [signJob EXCEPT !.state = "failed"]
      BY <2>3 DEF LoseSignJob, SignInv, SignData
    <3> QED
      BY <3>1 DEF SignJobs
  <2>4. CASE AnswerLogout \/ AnswerFailure \/ ArriveDocs \/ PollSelf \/ Officer
               \/ UNCHANGED signVars
    BY <2>4 DEF AnswerLogout, AnswerFailure, ArriveDocs, PollSelf, Officer, signVars, SignInv, SignData
  <2> QED
    BY <2>1, <2>2, <2>3, <2>4
<1>5. SignData'
  BY <1>1, <1>3, <1>4 DEF SignInv, SignData
<1>6. LoginShowsNothing' /\ StepWasRead' /\ SignedWasRead'
  BY <1>1 DEF SignInv, LoginShowsNothing, StepWasRead, SignedWasRead, InPage, InCodeStep
<1>7. AskedWasRead'
  BY <1>1, <1>2, <1>4 DEF SignInv, AskedWasRead, InPage
<1> QED
  BY <1>5, <1>6, <1>7 DEF SignInv

LEMMA RevisitedInv == ASSUME SignInv, Revisited PROVE SignInv'
<1>1. /\ UNCHANGED <<smsCodes, session, keyState, shownSelf, reader, signStep, signJob>>
      /\ signStep = NoStep /\ readToEnd' = {} /\ signedHere' = {} /\ signJob = NoSignJob
  BY DEF Revisited, signServer
<1> QED
  BY <1>1 DEF SignInv, SignData, LoginShowsNothing, StepWasRead, AskedWasRead, SignedWasRead, InPage,
              InCodeStep, NoStep

(* The code arrives where it was asked for, or nowhere.                    *)
LEMMA AnswerChallengeInv == ASSUME SignInv, AnswerChallenge PROVE SignInv'
<1>1. /\ UNCHANGED <<smsCodes, session, keyState, shownSelf, reader, readToEnd, signedHere>>
      /\ signJob' = NoSignJob
      /\ signJob # NoSignJob /\ signJob.kind \in {"challenge", "resend"} /\ signJob.state = "done"
      /\ signJob \in SignJobs /\ signStep \in CodeSteps
  BY DEF AnswerChallenge, signServer, signReads, SignInv, SignData
<1>2. CASE signStep' = signStep
  BY <1>1, <1>2 DEF SignInv, SignData, LoginShowsNothing, StepWasRead, AskedWasRead, SignedWasRead,
                    InPage, InCodeStep
<1>3. CASE signStep' = [signStep EXCEPT !.current = signJob.code]
  <2>1. signStep' \in CodeSteps /\ signStep'.use = signStep.use /\ signStep'.docs = signStep.docs
        /\ signStep'.code = signStep.code
    BY <1>1, <1>3 DEF SignJobs, CodeSteps
  <2> QED
    BY <1>1, <2>1 DEF SignInv, SignData, LoginShowsNothing, StepWasRead, AskedWasRead, SignedWasRead,
                      InPage, InCodeStep
<1>4. CASE Waits /\ signJob.use # "none"
             /\ signStep' = [use |-> signJob.use, docs |-> signJob.docs, code |-> signJob.code,
                              current |-> signJob.code]
  <2>1. signStep' \in CodeSteps
    BY <1>1, <1>4 DEF SignJobs, CodeSteps, StepUses, CodeUses
  <2>2. signJob.use \in CodeUses
    BY <1>1, <1>4 DEF SignJobs, CodeUses
  <2>3. CASE signJob.use = "login"
    <3>1. ~InPage
      BY <1>4, <2>3 DEF Waits
    <3>2. signJob.docs = {} /\ signJob.code \in SignCodes /\ smsCodes[signJob.code].docs = {}
      BY <1>1, <2>3 DEF SignInv, AskedWasRead
    <3> QED
      BY <1>1, <1>4, <2>1, <2>3, <3>1, <3>2 DEF SignInv, SignData, LoginShowsNothing, StepWasRead,
         AskedWasRead, SignedWasRead, InPage, InCodeStep
  <2>4. CASE signJob.use # "login"
    <3>1. InPage
      <4>1. CASE signJob.use = "key"
        BY <1>4, <4>1 DEF Waits, NeedsKey, InPage
      <4>2. CASE signJob.use = "reader"
        <5>1. reader.doc \in signJob.docs /\ signJob.docs \subseteq SignPapers
          BY <1>1, <1>4, <4>2 DEF Waits, SignJobs
        <5>2. reader.doc # NoReader
          BY <5>1, SignPageAssumption
        <5> QED
          BY <5>2 DEF SignInv, LoginShowsNothing, ClosedReader
      <4>3. CASE signJob.use = "bulk"
        BY <1>4, <4>3 DEF Waits
      <4> QED
        BY <2>2, <2>4, <4>1, <4>2, <4>3 DEF CodeUses
    <3>2. /\ signJob.docs \subseteq readToEnd /\ signJob.code \in SignCodes
          /\ smsCodes[signJob.code].docs \subseteq readToEnd
      BY <1>1, <2>4, <3>1 DEF SignInv, AskedWasRead
    <3> QED
      BY <1>1, <1>4, <2>1, <2>4, <3>1, <3>2 DEF SignInv, SignData, LoginShowsNothing, StepWasRead,
         AskedWasRead, SignedWasRead, InPage, InCodeStep
  <2> QED
    BY <2>3, <2>4
<1>5. signJob.use # "none"
  BY <1>1 DEF SignInv, AskedWasRead
<1> QED
  BY <1>2, <1>3, <1>4, <1>5 DEF AnswerChallenge

LEMMA AnswerConfirmInv == ASSUME SignInv, AnswerConfirm PROVE SignInv'
<1>1. /\ UNCHANGED <<smsCodes, session, keyState, shownSelf, readToEnd, signedHere>>
      /\ signJob' = NoSignJob /\ reader' \in {reader, ClosedReader}
      /\ signStep' = StepAfter
  BY DEF AnswerConfirm, signServer
<1>2. \/ signStep' = signStep
      \/ signStep'.use \in {"none", "issued"} /\ signStep' \in CodeSteps /\ (signStep'.use = "issued" => InPage)
  <2>1. \/ StepAfter = signStep \/ StepAfter = NoStep \/ StepAfter = [NoStep EXCEPT !.use = "none"]
        \/ StepAfter = [NoStep EXCEPT !.use = "issued"] /\ InPage
    BY DEF StepAfter, NeedsKey, InPage
  <2> QED
    BY <1>1, <2>1 DEF NoStep, CodeSteps, StepUses
<1>3. SignData'
  BY <1>1, <1>2 DEF SignInv, SignData, ClosedReader
<1>4. LoginShowsNothing' /\ SignedWasRead' /\ AskedWasRead'
  BY <1>1, <1>2 DEF SignInv, LoginShowsNothing, SignedWasRead, AskedWasRead, InPage
<1>5. StepWasRead'
  BY <1>1, <1>2 DEF SignInv, StepWasRead, InCodeStep
<1> QED
  BY <1>3, <1>4, <1>5 DEF SignInv

(* Who must log in loses what was read; who has logged in begins anew.     *)
LEMMA ArriveSelfInv == ASSUME SignInv, ArriveSelf PROVE SignInv'
<1>1. /\ UNCHANGED <<smsCodes, session, keyState, signJob>>
      /\ shownSelf' = (IF session THEN keyState ELSE "login")
      /\ signStep' \in {signStep, NoStep}
      /\ (shownSelf = "login") # (shownSelf' = "login") => signStep' = NoStep
      /\ reader' = IF shownSelf' = "login" THEN ClosedReader ELSE reader
      /\ readToEnd' = IF shownSelf' = "login" THEN {} ELSE readToEnd
      /\ signedHere' = IF shownSelf' = "login" THEN {} ELSE signedHere
  BY DEF ArriveSelf, signServer
<1>2. InPage' <=> session
  BY <1>1 DEF InPage, SignInv, SignData, KeyStates
<1>3. NoStep \in CodeSteps /\ NoStep.use = "none"
  BY DEF NoStep, CodeSteps, StepUses
<1>4. SignData'
  BY <1>1, <1>3 DEF SignInv, SignData, ClosedReader
<1>5. LoginShowsNothing' /\ SignedWasRead'
  BY <1>1, <1>3 DEF SignInv, LoginShowsNothing, SignedWasRead, InPage
<1>6. StepWasRead'
  <2>1. CASE signStep' = NoStep
    BY <1>3, <2>1 DEF StepWasRead, InCodeStep
  <2>2. CASE signStep' = signStep /\ InPage /\ InPage'
    BY <1>1, <2>2 DEF SignInv, StepWasRead, InCodeStep, InPage
  <2>3. CASE signStep' = signStep /\ ~InPage /\ ~InPage'
    BY <1>1, <2>3 DEF SignInv, StepWasRead, LoginShowsNothing, InCodeStep, InPage
  <2> QED
    BY <1>1, <2>1, <2>2, <2>3 DEF InPage
<1>7. AskedWasRead'
  <2>1. CASE session
    BY <1>1, <1>2, <2>1 DEF SignInv, AskedWasRead, InPage
  <2>2. CASE ~session
    BY <1>1, <1>2, <2>2 DEF SignInv, AskedWasRead, InPage
  <2> QED
    BY <2>1, <2>2
<1> QED
  BY <1>4, <1>5, <1>6, <1>7 DEF SignInv

LEMMA SignSteps == SignInv /\ [SignNext]_signVars => SignInv'
  BY StartsInv, EnterCodeInv, ReaderInv, QuietInv, RevisitedInv, AnswerChallengeInv,
     AnswerConfirmInv, ArriveSelfInv DEF SignNext

-----------------------------------------------------------------------------
(* Whatever the page does and whoever interferes, every document signed    *)
(* from it, alone or with others, was shown to its end on it:              *)
(* readyForBulk and the tick of DocumentReader.                            *)
THEOREM SignedWasAlwaysRead == SignSpec => []SignedWasRead
<1>1. SignInv => SignedWasRead
  BY DEF SignInv
<1> QED
  BY SignStarts, SignSteps, <1>1, PTL DEF SignSpec

(* The dialog that waits for a code is about documents that were read,     *)
(* and so is the challenge the code is checked against.                    *)
THEOREM CodesAreOfReadDocuments == SignSpec => []StepWasRead
<1>1. SignInv => StepWasRead
  BY DEF SignInv
<1> QED
  BY SignStarts, SignSteps, <1>1, PTL DEF SignSpec

-----------------------------------------------------------------------------
(* The list of what waits.                                                 *)
CodeAsked(j) == j # NoSignJob /\ j.kind \in {"challenge", "resend"} /\ j.state = "done"
Leaving == signJob # NoSignJob /\ signJob.kind = "logout"
(* An answer on its way will have the documents read again.                *)
Confirmed == signJob # NoSignJob /\ signJob.kind \in {"confirm", "reject"} /\ signJob.state = "done"
               /\ signJob.use # "key"
WaitingDocs == {d \in SignPapers : signDocs[d] = "waiting"}

ListTyped ==
  /\ signDocs \in [SignPapers -> SignStatuses]
  /\ shownDocs \in [SignPapers -> [status : SignStatuses, canSign : BOOLEAN]]
  /\ shownSelf \in KeyStates \cup {"login"} /\ endEvents \subseteq SignPapers
  /\ signOthers \in Nat /\ {docsRead, selfRead, session, signLost} \subseteq BOOLEAN

(* Who is logged in is not asked to log in.                                *)
NoLoginInside == InPage => signStep.use # "login"

(* The code that issues a key signs no document.                           *)
BlankCode(c) == c \in SignCodes /\ smsCodes[c].docs = {} /\ smsCodes[c].status # "unused"
KeyIsBlank ==
  /\ signStep.use = "key" => signStep.docs = {} /\ BlankCode(signStep.code)
  /\ CodeAsked(signJob) /\ signJob.use = "key" => signJob.docs = {} /\ BlankCode(signJob.code)

(* A session ends by leaving, which has the page ask for it again.         *)
SessionEnds == InPage /\ signOthers = 0 /\ ~session => selfRead \/ Leaving

ListComing ==
  InPage /\ signOthers = 0 /\ ~signLost
    => docsRead \/ ~session \/ Confirmed \/ ShownWaiting = WaitingDocs

Listed == ListTyped /\ NoLoginInside /\ KeyIsBlank /\ SessionEnds /\ ListComing

LEMMA ListedStarts == SignInit => Listed
<1> SUFFICES ASSUME SignInit PROVE Listed
  OBVIOUS
<1>0. /\ signDocs = [d \in SignPapers |-> "waiting"] /\ endEvents = {} /\ shownDocs = ServedDocs
      /\ session \in BOOLEAN /\ shownSelf = (IF session THEN keyState ELSE "login")
      /\ keyState \in KeyStates /\ docsRead = FALSE /\ selfRead = FALSE /\ signLost = FALSE
      /\ signOthers = 0 /\ signJob = NoSignJob /\ signStep.use = "none"
  BY DEF SignInit, NoStep, KeyStates
<1>1. \A d \in SignPapers : /\ ServedDocs[d] \in [status : SignStatuses, canSign : BOOLEAN]
                            /\ ServedDocs[d].status = signDocs[d]
  BY <1>0 DEF ServedDocs, CanSign, SignStatuses
<1>2. ServedDocs = [d \in SignPapers |-> ServedDocs[d]]
  BY DEF ServedDocs
<1>3. ListTyped
  BY <1>0, <1>1, <1>2 DEF ListTyped, SignStatuses
<1>4. NoLoginInside /\ KeyIsBlank
  BY <1>0 DEF NoLoginInside, KeyIsBlank, CodeAsked
<1>5. SessionEnds
  BY <1>0 DEF SessionEnds, InPage
<1>6. ListComing
  BY <1>0, <1>1 DEF ListComing, ShownWaiting, WaitingDocs
<1> QED
  BY <1>3, <1>4, <1>5, <1>6 DEF Listed

(* The page moves on, and may have more read.                              *)
LEMMA ListedStays ==
  ASSUME Listed, UNCHANGED <<signDocs, shownDocs, shownSelf, session, smsCodes, signJob, signLost, signOthers>>,
         signStep' \in {signStep, NoStep}, endEvents' \subseteq SignPapers,
         docsRead' \in {docsRead, TRUE}, selfRead' \in {selfRead, TRUE}
  PROVE  Listed'
<1>1. NoStep.use = "none"
  BY DEF NoStep
<1>2. ListTyped'
  BY DEF Listed, ListTyped
<1>3. NoLoginInside' /\ KeyIsBlank'
  BY <1>1 DEF Listed, NoLoginInside, KeyIsBlank, InPage, CodeAsked, BlankCode
<1>4. SessionEnds'
  BY DEF Listed, SessionEnds, InPage, Leaving
<1>5. ListComing'
  BY DEF Listed, ListComing, InPage, Confirmed, ShownWaiting, WaitingDocs
<1> QED
  BY <1>2, <1>3, <1>4, <1>5 DEF Listed

LEMMA ListedReader ==
  ASSUME SignData, Listed, \/ CloseReader \/ CloseBulk \/ GoToDocuments \/ ReachEnd \/ Revisited \/ PollSelf
                \/ UNCHANGED signVars \/ \E d \in SignPapers : OpenReader(d)
  PROVE  Listed'
<1>1. UNCHANGED <<signDocs, shownDocs, shownSelf, session, smsCodes, signJob, signLost, signOthers>>
  BY DEF CloseReader, CloseBulk, GoToDocuments, ReachEnd, OpenReader, Revisited, PollSelf, signServer,
         signReads, signVars
<1>2. signStep' \in {signStep, NoStep}
  BY DEF CloseReader, CloseBulk, GoToDocuments, ReachEnd, OpenReader, Revisited, PollSelf, signVars
<1>3. endEvents' \subseteq SignPapers
  <2>1. CASE ReachEnd
    <3>1. reader.doc \in SignPapers /\ endEvents \subseteq SignPapers
      BY <2>1 DEF ReachEnd, SignData, Listed, ListTyped
    <3>2. endEvents' \in {Marked(reader.doc), endEvents}
      BY <2>1 DEF ReachEnd
    <3> QED
      BY <3>1, <3>2 DEF Marked
  <2>2. CASE ~ReachEnd
    BY <2>2 DEF CloseReader, CloseBulk, GoToDocuments, OpenReader, Revisited, PollSelf, signServer, signVars,
                Listed, ListTyped
  <2> QED
    BY <2>1, <2>2
<1>4. docsRead' \in {docsRead, TRUE} /\ selfRead' \in {selfRead, TRUE}
  BY DEF CloseReader, CloseBulk, GoToDocuments, ReachEnd, OpenReader, Revisited, PollSelf, ReadDocs,
         signReads, signVars
<1> QED
  BY <1>1, <1>2, <1>3, <1>4, ListedStays

LEMMA ListedAsks ==
  ASSUME SignInv, Listed, NEW kind \in {"challenge", "resend"}, NEW use \in CodeUses,
         NEW D \in SUBSET SignPapers, AsksCode(kind, use, D), endEvents' \subseteq SignPapers,
         use = "key" => D = {}
  PROVE  Listed'
<1>1. /\ UNCHANGED <<signDocs, shownDocs, shownSelf, docsRead, selfRead, session, signStep, signLost, signOthers>>
      /\ signJob = NoSignJob
  BY DEF AsksCode, signReads
<1>2. ListTyped' /\ NoLoginInside'
  BY <1>1 DEF Listed, ListTyped, NoLoginInside, InPage
<1>3. SessionEnds' /\ ListComing'
  BY <1>1 DEF Listed, SessionEnds, ListComing, InPage, Leaving, Confirmed, ShownWaiting, WaitingDocs
<1>4. KeyIsBlank'
  <2>1. CASE \E c \in FreshCodes : smsCodes' = Challenge(c, use, D)
                                   /\ signJob' = SignJob(kind, use, D, c, "done")
    <3>1. PICK c \in FreshCodes : smsCodes' = Challenge(c, use, D)
                                   /\ signJob' = SignJob(kind, use, D, c, "done")
      BY <2>1
    <3>2. c \in SignCodes /\ smsCodes[c].status = "unused"
      BY DEF FreshCodes
    <3>3. smsCodes'[c] = [use |-> Purpose(use), docs |-> D, status |-> "pending"]
      BY <3>1, <3>2 DEF Challenge
    <3>4. \A x \in SignCodes : x # c =>
            \/ smsCodes'[x] = smsCodes[x]
            \/ smsCodes'[x] = [smsCodes[x] EXCEPT !.status = "superseded", !.docs = {}]
      BY <3>1 DEF Challenge
    <3>5. ASSUME BlankCode(signStep.code) PROVE BlankCode(signStep.code)'
      <4>1. signStep.code \in SignCodes /\ signStep.code # c
        BY <3>2, <3>5 DEF BlankCode
      <4>2. smsCodes[signStep.code] \in SmsCodes
        BY <4>1 DEF SignInv, SignData
      <4> QED
        BY <1>1, <3>4, <3>5, <4>1, <4>2 DEF BlankCode, SmsCodes
    <3>6. /\ signJob'.use = use /\ signJob'.docs = D /\ signJob'.code = c
          /\ use = "key" => BlankCode(c)'
      BY <3>1, <3>2, <3>3 DEF SignJob, BlankCode
    <3> QED
      BY <1>1, <3>5, <3>6 DEF Listed, KeyIsBlank
  <2>2. CASE signJob' = SignJob(kind, use, D, NoSignCode, "failed") /\ smsCodes' = smsCodes
    <3>1. ~CodeAsked(signJob)'
      BY <2>2 DEF SignJob, CodeAsked
    <3> QED
      BY <1>1, <2>2, <3>1 DEF Listed, KeyIsBlank, BlankCode
  <2>3. (CHOOSE c \in FreshCodes : TRUE) \in FreshCodes \/ FreshCodes = {}
    OBVIOUS
  <2> QED
    BY <2>1, <2>2, <2>3 DEF AsksCode
<1> QED
  BY <1>2, <1>3, <1>4 DEF Listed

LEMMA ListedRequests ==
  ASSUME SignInv, Listed, StartLogin \/ StartKey \/ StartBulk \/ StartSigning \/ Resend
  PROVE  Listed'
<1>0. endEvents \subseteq SignPapers
  BY DEF Listed, ListTyped
<1>1. CASE StartLogin
  <2>1. AsksCode("challenge", "login", {}) /\ endEvents' = endEvents
    BY <1>1 DEF StartLogin
  <2> QED
    BY <1>0, <2>1, ListedAsks DEF CodeUses
<1>2. CASE StartKey
  <2>1. AsksCode("challenge", "key", {}) /\ endEvents' = endEvents
    BY <1>2 DEF StartKey
  <2> QED
    BY <1>0, <2>1, ListedAsks DEF CodeUses
<1>3. CASE StartBulk
  <2>1. AsksCode("challenge", "bulk", ReadyForBulk) /\ endEvents' = endEvents
    BY <1>3 DEF StartBulk
  <2>2. ReadyForBulk \in SUBSET SignPapers
    BY DEF ReadyForBulk, ShownWaiting
  <2> QED
    BY <1>0, <2>1, <2>2, ListedAsks DEF CodeUses
<1>4. CASE StartSigning
  <2>1. /\ AsksCode("challenge", "reader", {reader.doc}) /\ reader.doc \in readToEnd
        /\ endEvents' \in {Marked(reader.doc), endEvents}
    BY <1>4 DEF StartSigning
  <2>2. reader.doc \in SignPapers /\ {reader.doc} \in SUBSET SignPapers
    BY <2>1 DEF SignInv, SignData
  <2>3. endEvents' \subseteq SignPapers
    BY <1>0, <2>1, <2>2 DEF Marked
  <2> QED
    BY <2>1, <2>2, <2>3, ListedAsks DEF CodeUses
<1>5. CASE Resend
  <2>1. AsksCode("resend", signStep.use, signStep.docs) /\ InCodeStep /\ endEvents' = endEvents
    BY <1>5 DEF Resend
  <2>2. signStep.use \in CodeUses /\ signStep.docs \in SUBSET SignPapers
    BY <2>1 DEF InCodeStep, CodeUses, SignInv, SignData, CodeSteps
  <2>3. signStep.use = "key" => signStep.docs = {}
    BY DEF Listed, KeyIsBlank
  <2> QED
    BY <1>0, <2>1, <2>2, <2>3, ListedAsks
<1> QED
  BY <1>1, <1>2, <1>3, <1>4, <1>5

(* The right code for a key signs nothing; another one is answered.        *)
LEMMA ListedEnters ==
  ASSUME SignInv, Listed, NEW typed \in SignCodes \cup {NoSignCode}, EnterCode(typed)
  PROVE  Listed'
<1>1. /\ UNCHANGED <<shownDocs, shownSelf, docsRead, selfRead, signStep, signLost, signOthers, endEvents>>
      /\ InCodeStep /\ signJob = NoSignJob
  BY DEF EnterCode, signReads
<1> DEFINE job == [SignJob("confirm", signStep.use, signStep.docs, signStep.code, "done")
                     EXCEPT !.typed = typed]
<1>2. /\ job = [kind |-> "confirm", use |-> signStep.use, docs |-> signStep.docs, code |-> signStep.code,
                typed |-> typed, state |-> "done"]
  BY DEF SignJob
<1>a. job \in SignJobs
  <2>1. /\ signStep.use \in {"login", "key", "reader", "bulk"} /\ signStep.docs \in SUBSET SignPapers
        /\ signStep.code \in SignCodes \cup {NoSignCode}
    BY <1>1 DEF InCodeStep, SignInv, SignData, CodeSteps
  <2> QED
    BY <1>2, <2>1 DEF SignJobs
<1>3. CASE /\ Confirms(signStep.code) /\ signJob' = job
           /\ signStep.use = "login" \/ session
  <2>0. /\ smsCodes' = [smsCodes EXCEPT ![signStep.code].status = "confirmed", ![signStep.code].docs = {}]
        /\ session' = (session \/ smsCodes[signStep.code].use = "login")
        /\ signDocs' = [d \in SignPapers |-> IF d \in smsCodes[signStep.code].docs THEN "signed"
                                             ELSE signDocs[d]]
    BY <1>3, Zenon DEF Confirms
  <2> HIDE DEF job
  <2>1. signJob'.kind = "confirm" /\ signJob'.use = signStep.use /\ signJob'.state = "done"
    BY <1>2, <1>3
  <2>2. session' \in BOOLEAN /\ (session => session') /\ (InPage => session /\ session')
    BY <1>3, <2>0 DEF Listed, ListTyped, NoLoginInside
  <2>3. signDocs' \in [SignPapers -> SignStatuses]
    BY <2>0 DEF Listed, ListTyped, SignStatuses
  <2>4. ListTyped' /\ NoLoginInside'
    BY <1>1, <2>2, <2>3 DEF Listed, ListTyped, NoLoginInside, InPage
  <2>5. SessionEnds'
    BY <1>1, <2>2 DEF SessionEnds, InPage
  <2>6. ~CodeAsked(signJob)'
    BY <2>1 DEF CodeAsked
  <2>7. signStep.use = "key" => signStep.docs = {} /\ BlankCode(signStep.code)'
    <3>1. SUFFICES ASSUME signStep.use = "key" PROVE signStep.docs = {} /\ BlankCode(signStep.code)'
      OBVIOUS
    <3>2. signStep.docs = {} /\ signStep.code \in SignCodes /\ smsCodes[signStep.code] \in SmsCodes
      BY <3>1 DEF Listed, KeyIsBlank, BlankCode, SignInv, SignData
    <3>3. smsCodes'[signStep.code] = [smsCodes[signStep.code] EXCEPT !.status = "confirmed", !.docs = {}]
      BY <2>0, <3>2 DEF SignInv, SignData
    <3> QED
      BY <1>1, <3>2, <3>3 DEF BlankCode, SmsCodes
  <2>8. KeyIsBlank'
    BY <1>1, <2>6, <2>7 DEF KeyIsBlank
  <2>9. ListComing'
    <3>1. CASE signStep.use # "key"
      <4>1. signJob' # NoSignJob
        BY <1>3, <1>a, SignPageAssumption
      <4> QED
        BY <1>1, <2>1, <3>1, <4>1 DEF ListComing, Confirmed
    <3>2. CASE signStep.use = "key"
      <4>1. smsCodes[signStep.code].docs = {}
        BY <3>2 DEF Listed, KeyIsBlank, BlankCode
      <4>2. signDocs' = signDocs
        BY <2>0, <4>1 DEF Listed, ListTyped
      <4> QED
        BY <1>1, <2>2, <4>2 DEF Listed, ListComing, InPage, Confirmed, ShownWaiting, WaitingDocs
    <3> QED
      BY <3>1, <3>2
  <2> QED
    BY <2>4, <2>5, <2>8, <2>9 DEF Listed
<1>4. CASE signJob' = [job EXCEPT !.state = "failed"]
             /\ UNCHANGED <<smsCodes, session, keyState, signDocs, signedHere>>
  <2>1. signJob'.kind = "confirm" /\ signJob'.state = "failed"
    BY <1>2, <1>4
  <2>2. ~CodeAsked(signJob)'
    BY <2>1 DEF CodeAsked
  <2>3. ListTyped' /\ NoLoginInside' /\ KeyIsBlank'
    BY <1>1, <1>4, <2>2 DEF Listed, ListTyped, NoLoginInside, InPage, KeyIsBlank, BlankCode
  <2>4. SessionEnds' /\ ListComing'
    BY <1>1, <1>4 DEF Listed, SessionEnds, ListComing, InPage, Leaving, Confirmed, ShownWaiting, WaitingDocs
  <2> QED
    BY <2>3, <2>4 DEF Listed
<1> QED
  BY <1>3, <1>4 DEF EnterCode

LEMMA ListedRejects == ASSUME SignInv, Listed, RejectPaper PROVE Listed'
<1>1. /\ UNCHANGED <<shownDocs, shownSelf, docsRead, selfRead, session, smsCodes, signStep, signLost,
                     signOthers, endEvents>>
      /\ signJob = NoSignJob /\ reader.doc \in SignPapers /\ {reader.doc} \in SUBSET SignPapers
  BY DEF RejectPaper, signReads, SignInv, SignData
<1>2. CASE /\ session /\ signDocs' = [signDocs EXCEPT ![reader.doc] = "rejected"]
           /\ signJob' = SignJob("reject", "reader", {reader.doc}, NoSignCode, "done")
  <2>1. /\ signJob' \in SignJobs /\ signJob'.kind = "reject" /\ signJob'.state = "done"
        /\ signJob'.use = "reader"
    BY <1>1, <1>2 DEF SignJobs, SignJob
  <2>2. Confirmed' /\ ~CodeAsked(signJob)'
    BY <2>1, SignPageAssumption DEF Confirmed, CodeAsked
  <2>3. signDocs' \in [SignPapers -> SignStatuses]
    BY <1>2 DEF Listed, ListTyped, SignStatuses
  <2>4. ListTyped' /\ NoLoginInside' /\ KeyIsBlank'
    BY <1>1, <2>2, <2>3 DEF Listed, ListTyped, NoLoginInside, InPage, KeyIsBlank, BlankCode
  <2>5. SessionEnds' /\ ListComing'
    BY <1>1, <1>2, <2>2 DEF SessionEnds, ListComing
  <2> QED
    BY <2>4, <2>5 DEF Listed
<1>3. CASE /\ UNCHANGED signDocs
           /\ signJob' = SignJob("reject", "reader", {reader.doc}, NoSignCode, "failed")
  <2>1. ~CodeAsked(signJob)'
    BY <1>3 DEF SignJob, CodeAsked
  <2>2. ListTyped' /\ NoLoginInside' /\ KeyIsBlank'
    BY <1>1, <1>3, <2>1 DEF Listed, ListTyped, NoLoginInside, InPage, KeyIsBlank, BlankCode
  <2>3. SessionEnds' /\ ListComing'
    BY <1>1, <1>3 DEF Listed, SessionEnds, ListComing, InPage, Leaving, Confirmed, ShownWaiting, WaitingDocs
  <2> QED
    BY <2>2, <2>3 DEF Listed
<1> QED
  BY <1>2, <1>3 DEF RejectPaper

LEMMA ListedLeaves == ASSUME SignInv, Listed, Logout PROVE Listed'
<1>1. /\ UNCHANGED <<signDocs, shownDocs, shownSelf, docsRead, selfRead, smsCodes, signStep, signLost,
                     signOthers, endEvents>>
      /\ signJob = NoSignJob
  BY DEF Logout, signReads
<1>2. PICK st \in {"done", "failed"} : /\ signJob' = SignJob("logout", "none", {}, NoSignCode, st)
                                       /\ session' = FALSE \/ session' = session
  BY DEF Logout
<1>3. signJob' \in SignJobs /\ signJob'.kind = "logout"
  BY <1>2 DEF SignJobs, SignJob
<1>4. Leaving' /\ ~CodeAsked(signJob)'
  BY <1>3, SignPageAssumption DEF Leaving, CodeAsked
<1>5. ListTyped' /\ NoLoginInside' /\ KeyIsBlank'
  BY <1>1, <1>2, <1>4 DEF Listed, ListTyped, NoLoginInside, InPage, KeyIsBlank, BlankCode
<1>6. SessionEnds'
  BY <1>4 DEF SessionEnds
<1>7. ListComing'
  BY <1>1, <1>2 DEF Listed, ListComing, InPage, Confirmed, ShownWaiting, WaitingDocs
<1> QED
  BY <1>5, <1>6, <1>7 DEF Listed

LEMMA ListedAnswers ==
  ASSUME SignInv, Listed, LoseSignJob \/ AnswerFailure \/ AnswerLogout
  PROVE  Listed'
<1>1. /\ UNCHANGED <<signDocs, shownDocs, shownSelf, session, smsCodes, signStep, signOthers, endEvents>>
      /\ signJob # NoSignJob /\ signJob \in SignJobs
  BY DEF LoseSignJob, AnswerFailure, AnswerLogout, signServer, signReads, SignInv, SignData
<1>2. CASE LoseSignJob
  <2>1. /\ signJob' = [signJob EXCEPT !.state = "failed"] /\ signLost' = TRUE
        /\ UNCHANGED <<docsRead, selfRead>>
    BY <1>2 DEF LoseSignJob, signReads
  <2>2. signJob' \in SignJobs /\ signJob'.kind = signJob.kind /\ signJob'.state = "failed"
    BY <1>1, <2>1 DEF SignJobs
  <2>3. ~CodeAsked(signJob)' /\ (Leaving => Leaving')
    BY <2>2, SignPageAssumption DEF CodeAsked, Leaving
  <2>4. ListTyped' /\ NoLoginInside' /\ KeyIsBlank'
    BY <1>1, <2>1, <2>3 DEF Listed, ListTyped, NoLoginInside, InPage, KeyIsBlank, BlankCode
  <2>5. SessionEnds' /\ ListComing'
    BY <1>1, <2>1, <2>3 DEF Listed, SessionEnds, ListComing, InPage
  <2> QED
    BY <2>4, <2>5 DEF Listed
<1>3. CASE AnswerFailure
  <2>1. /\ signJob' = NoSignJob /\ UNCHANGED <<signLost, docsRead, selfRead>>
        /\ signJob.kind # "logout" /\ signJob.state = "failed"
    BY <1>3 DEF AnswerFailure, signReads
  <2>2. ListTyped' /\ NoLoginInside' /\ KeyIsBlank'
    BY <1>1, <2>1 DEF Listed, ListTyped, NoLoginInside, InPage, KeyIsBlank, BlankCode, CodeAsked
  <2>3. SessionEnds' /\ ListComing'
    BY <1>1, <2>1 DEF Listed, SessionEnds, ListComing, InPage, Leaving, Confirmed, ShownWaiting, WaitingDocs
  <2> QED
    BY <2>2, <2>3 DEF Listed
<1>4. CASE AnswerLogout
  <2>1. signJob' = NoSignJob /\ selfRead' = TRUE /\ docsRead' = TRUE /\ UNCHANGED signLost
    BY <1>4 DEF AnswerLogout, ReadDocs
  <2>2. ListTyped' /\ NoLoginInside' /\ KeyIsBlank'
    BY <1>1, <2>1 DEF Listed, ListTyped, NoLoginInside, InPage, KeyIsBlank, BlankCode, CodeAsked
  <2>3. SessionEnds' /\ ListComing'
    BY <2>1 DEF SessionEnds, ListComing
  <2> QED
    BY <2>2, <2>3 DEF Listed
<1> QED
  BY <1>2, <1>3, <1>4

LEMMA ListedChallenge == ASSUME SignInv, Listed, AnswerChallenge PROVE Listed'
<1>1. /\ UNCHANGED <<signDocs, shownDocs, shownSelf, docsRead, selfRead, session, smsCodes, signLost,
                     signOthers, endEvents>>
      /\ signJob' = NoSignJob /\ CodeAsked(signJob) /\ signJob \in SignJobs /\ signStep \in CodeSteps
      /\ signJob.kind \in {"challenge", "resend"}
  BY DEF AnswerChallenge, signServer, signReads, CodeAsked, SignInv, SignData
<1>2. ListTyped' /\ SessionEnds' /\ ListComing'
  BY <1>1 DEF Listed, ListTyped, SessionEnds, ListComing, InPage, Leaving, Confirmed, ShownWaiting, WaitingDocs
<1>3. NoLoginInside' /\ KeyIsBlank'
  <2>1. CASE signStep' = signStep
    BY <1>1, <2>1 DEF Listed, NoLoginInside, InPage, KeyIsBlank, BlankCode, CodeAsked
  <2>2. CASE signStep' = [signStep EXCEPT !.current = signJob.code]
    <3>1. /\ signStep'.use = signStep.use /\ signStep'.docs = signStep.docs
          /\ signStep'.code = signStep.code
      BY <1>1, <2>2 DEF CodeSteps
    <3> QED
      BY <1>1, <3>1 DEF Listed, NoLoginInside, InPage, KeyIsBlank, BlankCode, CodeAsked
  <2>3. CASE Waits /\ signStep' = [use |-> signJob.use, docs |-> signJob.docs, code |-> signJob.code,
                                   current |-> signJob.code]
    <3>1. signStep'.use = signJob.use /\ signStep'.docs = signJob.docs /\ signStep'.code = signJob.code
      BY <2>3
    <3>2. signJob.use = "login" => ~InPage
      BY <2>3 DEF Waits
    <3> QED
      BY <1>1, <3>1, <3>2 DEF Listed, NoLoginInside, InPage, KeyIsBlank, BlankCode, CodeAsked
  <2> QED
    BY <2>1, <2>2, <2>3 DEF AnswerChallenge
<1> QED
  BY <1>2, <1>3 DEF Listed

LEMMA ListedConfirm == ASSUME SignInv, Listed, AnswerConfirm PROVE Listed'
<1>1. /\ UNCHANGED <<signDocs, shownDocs, shownSelf, session, smsCodes, signLost, signOthers, endEvents>>
      /\ signJob' = NoSignJob /\ signJob # NoSignJob /\ signJob.kind \in {"confirm", "reject"}
      /\ signStep' = StepAfter
      /\ IF signJob.use = "key" THEN UNCHANGED <<docsRead, selfRead>>
         ELSE docsRead' = TRUE /\ selfRead' = TRUE
  BY DEF AnswerConfirm, signServer, ReadDocs
<1>2. signStep' = signStep \/ signStep'.use \in {"none", "issued"}
  BY <1>1 DEF StepAfter, NoStep
<1>3. ListTyped' /\ NoLoginInside' /\ KeyIsBlank'
  BY <1>1, <1>2 DEF Listed, ListTyped, NoLoginInside, InPage, KeyIsBlank, BlankCode, CodeAsked
<1>4. SessionEnds'
  BY <1>1 DEF Listed, SessionEnds, InPage, Leaving
<1>5. ListComing'
  BY <1>1 DEF Listed, ListComing, InPage, Confirmed, ShownWaiting, WaitingDocs
<1> QED
  BY <1>3, <1>4, <1>5 DEF Listed

(* What a read of the documents brings is what waits.                      *)
LEMMA ListedDocs == ASSUME SignInv, Listed, ArriveDocs PROVE Listed'
<1>1. /\ UNCHANGED <<signDocs, shownSelf, selfRead, session, smsCodes, signStep, signJob, signLost,
                     signOthers, endEvents>>
      /\ docsRead' = FALSE /\ shownDocs' = IF session THEN ServedDocs ELSE shownDocs
  BY DEF ArriveDocs, signServer
<1>2. \A d \in SignPapers : /\ ServedDocs[d] \in [status : SignStatuses, canSign : BOOLEAN]
                            /\ ServedDocs[d].status = signDocs[d]
  BY DEF ServedDocs, CanSign, Listed, ListTyped
<1>3. ServedDocs = [d \in SignPapers |-> ServedDocs[d]]
  BY DEF ServedDocs
<1>4. shownDocs' \in [SignPapers -> [status : SignStatuses, canSign : BOOLEAN]]
  BY <1>1, <1>2, <1>3 DEF Listed, ListTyped
<1>5. ListTyped' /\ NoLoginInside' /\ KeyIsBlank' /\ SessionEnds'
  BY <1>1, <1>4 DEF Listed, ListTyped, NoLoginInside, InPage, KeyIsBlank, BlankCode, CodeAsked, SessionEnds, Leaving
<1>6. ListComing'
  BY <1>1, <1>2 DEF ListComing, ShownWaiting, WaitingDocs
<1> QED
  BY <1>5, <1>6 DEF Listed

LEMMA ListedSelf == ASSUME SignInv, Listed, ArriveSelf PROVE Listed'
<1>1. /\ UNCHANGED <<signDocs, shownDocs, session, smsCodes, signJob, signLost, signOthers, endEvents>>
      /\ selfRead' = FALSE /\ shownSelf' = (IF session THEN keyState ELSE "login")
      /\ docsRead' = (docsRead \/ (shownSelf = "login" /\ shownSelf' # "login"))
      /\ signStep' \in {signStep, NoStep}
      /\ (shownSelf = "login") # (shownSelf' = "login") => signStep' = NoStep
  BY Zenon DEF ArriveSelf, signServer
<1>2. shownSelf' \in KeyStates \cup {"login"} /\ (InPage' <=> session) /\ NoStep.use = "none"
  BY <1>1 DEF SignInv, SignData, KeyStates, InPage, NoStep
<1>3. docsRead' \in BOOLEAN /\ (docsRead => docsRead') /\ (~InPage /\ InPage' => docsRead')
  BY <1>1 DEF Listed, ListTyped, InPage
<1>4. ListTyped'
  BY <1>1, <1>2, <1>3 DEF Listed, ListTyped
<1>5. NoLoginInside' /\ KeyIsBlank'
  BY <1>1, <1>2 DEF Listed, NoLoginInside, InPage, KeyIsBlank, BlankCode, CodeAsked
<1>6. SessionEnds'
  BY <1>1, <1>2 DEF SessionEnds
<1>7. ListComing'
  BY <1>1, <1>2, <1>3 DEF Listed, ListComing, Confirmed, ShownWaiting, WaitingDocs
<1> QED
  BY <1>4, <1>5, <1>6, <1>7 DEF Listed

LEMMA ListedOfficer == ASSUME SignInv, Listed, Officer PROVE Listed'
<1>1. /\ UNCHANGED <<shownDocs, shownSelf, docsRead, selfRead, smsCodes, signStep, signJob, signLost,
                     endEvents>>
      /\ signOthers' = signOthers + 1 /\ session' \in {session, FALSE}
  BY DEF Officer, signReads
<1>2. signDocs' \in [SignPapers -> SignStatuses]
  BY DEF Officer, Listed, ListTyped, SignStatuses
<1>3. signOthers' \in Nat /\ signOthers' # 0
  BY <1>1 DEF Listed, ListTyped
<1>4. ListTyped' /\ NoLoginInside' /\ KeyIsBlank'
  BY <1>1, <1>2, <1>3 DEF Listed, ListTyped, NoLoginInside, InPage, KeyIsBlank, BlankCode, CodeAsked
<1>5. SessionEnds' /\ ListComing'
  BY <1>3 DEF SessionEnds, ListComing
<1> QED
  BY <1>4, <1>5 DEF Listed

LEMMA ListedStep == SignInv /\ Listed /\ [SignNext]_signVars => Listed'
<1> SUFFICES ASSUME SignInv, Listed, [SignNext]_signVars PROVE Listed'
  OBVIOUS
<1>1. SignData
  BY DEF SignInv
<1> QED
  BY <1>1, ListedReader, ListedRequests, ListedEnters, ListedRejects, ListedLeaves, ListedAnswers,
     ListedChallenge, ListedConfirm, ListedDocs, ListedSelf, ListedOfficer, Zenon DEF SignNext

LEMMA ListedIsTyped == SignInv /\ Listed => SignTypeOK
  BY DEF SignInv, SignData, Listed, ListTyped, SignTypeOK, CodeSteps

LEMMA ListedIsListed == Listed => ListedWaits
  BY DEF Listed, SessionEnds, ListComing, ListedWaits, WaitingDocs, Leaving, Confirmed

(* Every variable of the page of signing keeps its type.                   *)
THEOREM SignTyped == SignSpec => []SignTypeOK
  BY SignStarts, SignSteps, ListedStarts, ListedStep, ListedIsTyped, PTL DEF SignSpec

(* What waits is listed as soon as nothing is on its way: whichever of the *)
(* ways to sign was used, and whenever codes, answers and sessions came    *)
(* or went, no answer leaves the list as it was before a signature.        *)
THEOREM ListedAlwaysWaits == SignSpec => []ListedWaits
  BY SignStarts, SignSteps, ListedStarts, ListedStep, ListedIsListed, PTL DEF SignSpec

-----------------------------------------------------------------------------
(* HrDesk                                                                  *)
(* What the statuses of a document say of its signatures: a draft has      *)
(* none, one that awaits the employer is bilateral, not signed by them and *)
(* not sent but to be signed by the employee, and one that may be signed   *)
(* by the employee is not.                                                 *)
GoodPaper(p) ==
  /\ p \in DeskPaper
  /\ p.status = "draft" => p.by = {} /\ ~p.sent
  /\ p.status = "awaiting_employer" => /\ p.type = "bilateral" /\ "employer" \notin p.by
                                       /\ ~p.sent \/ "employee" \in p.by
  /\ p.status \in {"frozen", "sent", "viewed", "expired"} => "employee" \notin p.by
GoodOrNone(p) == p = NoPaper \/ GoodPaper(p)

(* A signed package is the one of an employee who consented.               *)
GoodCard(c) ==
  c \in DeskCard /\ (c.pkg = "signed" => c.edo \in {"consent_signed", "active", "key_revoked"})

ADeskJob(j) ==
  j.objects \subseteq DeskObjects /\ j = [op |-> j.op, objects |-> j.objects, state |-> j.state]
Arrived(o) == deskReads[o] \notin {NoDeskRead, DeskReading}
DeskData ==
  /\ GoodCard(staffCard) /\ journal \in Nat
  /\ papers = [d \in DeskPapers |-> papers[d]] /\ \A d \in DeskPapers : GoodOrNone(papers[d])
  /\ template \in [first : DeskStaff \cup {NoStaff}, field : DeskStaff \cup {NoStaff}]
  /\ unseen \subseteq DeskObjects /\ ticked \subseteq DeskPapers
  /\ desk = [o \in DeskObjects |-> desk[o]] /\ deskReads = [o \in DeskObjects |-> deskReads[o]]
  /\ deskDialog = [o \in DeskObjects |-> deskDialog[o]]
  /\ \A j \in deskJobs : ADeskJob(j)
  /\ \A d \in DeskPapers : /\ GoodOrNone(desk[d])
                           /\ deskDialog[d] \in CardDialogs \cup PaperDialogs \cup {NoDeskDialog}
                           /\ Arrived(d) => GoodOrNone(deskReads[d].seen)

(* A document that was there once is there in what is read later.          *)
PapersStay ==
  \A d \in DeskPapers :
    /\ desk[d] # NoPaper => /\ papers[d] # NoPaper
                            /\ Arrived(d) => deskReads[d].seen # NoPaper
    /\ Arrived(d) /\ deskReads[d].seen # NoPaper => papers[d] # NoPaper

(* What the page shows or a read brings is true, unless the object changed *)
(* unseen or an answer that is on its way will have everything read again. *)
ShownOrComing ==
  (\E j \in deskJobs : j.state = "done")
    \/ \A o \in DeskObjects \ unseen : /\ deskReads[o] = NoDeskRead => desk[o] = Truth(o)
                                       /\ Arrived(o) => deskReads[o].seen = Truth(o)

DeskInv == DeskData /\ PapersStay /\ ShownOrComing /\ OpenDialogIsOffered

-----------------------------------------------------------------------------
Draft(type) == [type |-> type, status |-> "draft", sent |-> FALSE, by |-> {}]
Types == {"bilateral", "unilateral"}
Roles2 == {"employee", "employer"}

LEMMA PaperParts ==
  ASSUME NEW p \in DeskPaper
  PROVE  /\ p.type \in Types /\ p.status \in PaperStatuses /\ p.sent \in BOOLEAN /\ p.by \subseteq Roles2
         /\ \A st \in PaperStatuses : [p EXCEPT !.status = st] \in DeskPaper
         /\ \A st \in PaperStatuses, by \in SUBSET Roles2 :
              [p EXCEPT !.by = by, !.status = st] \in DeskPaper
         /\ \A st \in PaperStatuses, on \in BOOLEAN :
              [p EXCEPT !.status = st, !.sent = on] \in DeskPaper
  BY DEF DeskPaper, Types, Roles2

LEMMA PaperSigned ==
  ASSUME NEW p, GoodPaper(p), NEW r \in Roles2,
         IF r = "employer" THEN PaperAccepts(p, "sign")
         ELSE p.status \in {"frozen", "sent", "viewed", "expired"}
  PROVE  GoodPaper(SignedAlso(p, r))
<1> DEFINE by == p.by \cup {r}
           st == Completion(p, by)
           q == SignedAlso(p, r)
<1>0. p \in DeskPaper /\ by \in SUBSET Roles2
  BY PaperParts DEF GoodPaper
<1>1. st \in PaperStatuses
  BY <1>0, PaperParts DEF Completion, PaperStatuses
<1> DEFINE x == [p EXCEPT !.by = by]
<1>2. q = [x EXCEPT !.status = st]
  BY Zenon DEF SignedAlso
<1>a. x \in DeskPaper /\ x.by = by /\ x.type = p.type /\ x.sent = p.sent
  BY <1>0 DEF DeskPaper, Roles2
<1> HIDE DEF x, st
<1>3. q \in DeskPaper /\ q.by = by /\ q.status = st /\ q.type = p.type /\ q.sent = p.sent
  BY <1>a, <1>1, <1>2 DEF DeskPaper
<1>4. CASE r = "employer"
  <2>1. p.type = "bilateral" /\ p.status = "awaiting_employer" /\ "employer" \notin p.by
    BY <1>4 DEF PaperAccepts
  <2>2. st = IF "employee" \in p.by THEN "signed" ELSE "frozen"
    BY <1>4, <2>1 DEF st, Completion, GoodPaper
  <2> QED
    BY <1>3, <1>4, <2>1, <2>2 DEF GoodPaper
<1>5. CASE r = "employee"
  <2>1. st = IF p.type = "bilateral" /\ "employer" \notin p.by THEN "awaiting_employer" ELSE "signed"
    BY <1>5 DEF st, Completion
  <2> QED
    BY <1>3, <1>5, <2>1 DEF GoodPaper
<1> QED
  BY <1>4, <1>5 DEF Roles2

LEMMA PaperFrozen == \A type \in Types : GoodPaper(Draft(type)) /\ GoodPaper(PaperAfter(Draft(type), "freeze"))
<1> SUFFICES ASSUME NEW type \in Types
             PROVE  GoodPaper(Draft(type)) /\ GoodPaper(PaperAfter(Draft(type), "freeze"))
  OBVIOUS
<1> DEFINE p == Draft(type)
           st == IF type = "bilateral" THEN "awaiting_employer" ELSE "frozen"
<1>1. p \in DeskPaper /\ p.type = type /\ p.status = "draft" /\ p.sent = FALSE /\ p.by = {}
  BY DEF Draft, DeskPaper, PaperStatuses, Types
<1> HIDE DEF p
<1>2. PaperAfter(p, "freeze") = [p EXCEPT !.status = st]
  BY <1>1 DEF PaperAfter
<1>3. st \in PaperStatuses
  BY DEF PaperStatuses
<1>4. /\ [p EXCEPT !.status = st] \in DeskPaper /\ [p EXCEPT !.status = st].status = st
      /\ [p EXCEPT !.status = st].type = type /\ [p EXCEPT !.status = st].by = {}
      /\ [p EXCEPT !.status = st].sent = FALSE
  BY <1>1, <1>3 DEF DeskPaper
<1>5. GoodPaper(p) /\ GoodPaper([p EXCEPT !.status = st])
  BY <1>1, <1>4 DEF GoodPaper, Types
<1> QED
  BY <1>2, <1>5 DEF p

LEMMA PaperServed ==
  ASSUME NEW p, GoodPaper(p), NEW op, PaperAccepts(p, op)
  PROVE  GoodPaper(PaperAfter(p, op))
<1>0. p \in DeskPaper /\ p = [type |-> p.type, status |-> p.status, sent |-> p.sent, by |-> p.by]
  BY DEF GoodPaper, DeskPaper
<1>1. CASE op = "freeze"
  <2>1. p.status = "draft" /\ p.by = {} /\ p.sent = FALSE /\ p.type \in Types
    BY <1>1, PaperParts DEF PaperAccepts, GoodPaper
  <2>2. p = Draft(p.type)
    BY <1>0, <2>1 DEF Draft
  <2> QED
    BY <1>1, <2>1, <2>2, PaperFrozen
<1>2. CASE op = "sign"
  BY <1>2, PaperSigned DEF PaperAfter, Roles2
<1>3. CASE op = "send"
  <2>1. p.status = "frozen" /\ PaperAfter(p, op) = [p EXCEPT !.status = "sent", !.sent = TRUE]
    BY <1>3 DEF PaperAccepts, PaperAfter
  <2>2. "sent" \in PaperStatuses
    BY DEF PaperStatuses
  <2> DEFINE q == [p EXCEPT !.status = "sent", !.sent = TRUE]
  <2>3. q \in DeskPaper /\ q.status = "sent" /\ q.by = p.by
    BY <1>0, <2>2 DEF DeskPaper
  <2> QED
    BY <2>1, <2>3 DEF GoodPaper
<1>4. CASE op = "paper"
  BY <1>4, PaperSigned DEF PaperAccepts, PaperAfter, Roles2
<1>5. CASE op = "cancel"
  <2> DEFINE q == [p EXCEPT !.status = "cancelled"]
  <2>1. PaperAfter(p, op) = q /\ "cancelled" \in PaperStatuses
    BY <1>5 DEF PaperAfter, PaperStatuses
  <2>2. q \in DeskPaper /\ q.status = "cancelled"
    BY <1>0, <2>1 DEF DeskPaper
  <2> QED
    BY <2>1, <2>2 DEF GoodPaper
<1>6. CASE op \notin {"freeze", "sign", "send", "paper", "cancel"}
  BY <1>6 DEF PaperAfter
<1> QED
  BY <1>1, <1>2, <1>3, <1>4, <1>5, <1>6

LEMMA EmployeeActed ==
  ASSUME NEW p, GoodPaper(p), p.status \in {"sent", "viewed"}, NEW st \in {"viewed", "rejected", "expired"}
  PROVE  GoodPaper([p EXCEPT !.status = st])
<1> DEFINE q == [p EXCEPT !.status = st]
<1>1. p \in DeskPaper /\ st \in PaperStatuses
  BY DEF GoodPaper, PaperStatuses
<1>2. q \in DeskPaper /\ q.status = st /\ q.by = p.by
  BY <1>1 DEF DeskPaper
<1> QED
  BY <1>2 DEF GoodPaper

LEMMA CardServed ==
  ASSUME NEW c, GoodCard(c), NEW op, CardAccepts(c, op)
  PROVE  GoodCard(CardAfter(c, op))
<1> DEFINE Edo(x, e) == [x EXCEPT !.edo = e]
           Pkg(x, g) == [x EXCEPT !.pkg = g]
           Key(x, k) == [x EXCEPT !.key = k]
<1>0. c \in DeskCard /\ c.edo \in EdoStatuses /\ c.pkg \in PackageStatuses
  BY DEF GoodCard, DeskCard
<1>a. ASSUME NEW x \in DeskCard, NEW e \in EdoStatuses
      PROVE  Edo(x, e) \in DeskCard /\ Edo(x, e).edo = e /\ Edo(x, e).pkg = x.pkg
  BY DEF DeskCard
<1>b. ASSUME NEW x \in DeskCard, NEW g \in PackageStatuses
      PROVE  Pkg(x, g) \in DeskCard /\ Pkg(x, g).edo = x.edo /\ Pkg(x, g).pkg = g
  BY DEF DeskCard
<1>k. ASSUME NEW x \in DeskCard, NEW k \in BOOLEAN
      PROVE  Key(x, k) \in DeskCard /\ Key(x, k).edo = x.edo /\ Key(x, k).pkg = x.pkg
  BY DEF DeskCard
<1>s. /\ "notified" \in EdoStatuses /\ "consent_signed" \in EdoStatuses /\ "refused" \in EdoStatuses
      /\ "key_revoked" \in EdoStatuses /\ "not_invited" \in EdoStatuses
      /\ "sent" \in PackageStatuses /\ "signed" \in PackageStatuses /\ "none" \in PackageStatuses
  BY DEF EdoStatuses, PackageStatuses
<1>1. CASE op = "invite"
  <2> DEFINE g == IF c.pkg \in {"sent", "viewed"} THEN c.pkg ELSE "sent"
  <2>1. CardAfter(c, op) = Pkg(Edo(c, "notified"), g)
    BY <1>1, Zenon DEF CardAfter
  <2>2. g \in PackageStatuses /\ g # "signed"
    BY <1>0, <1>s
  <2> HIDE DEF g, Edo, Pkg, Key
  <2>3. Edo(c, "notified") \in DeskCard /\ Edo(c, "notified").edo = "notified"
    BY <1>0, <1>a, <1>s
  <2>4. CardAfter(c, op) \in DeskCard /\ CardAfter(c, op).pkg # "signed"
    BY <1>b, <2>1, <2>2, <2>3
  <2> QED
    BY <2>4 DEF GoodCard
<1>2. CASE op = "consent"
  <2>1. CardAfter(c, op) = Pkg(Edo(c, "consent_signed"), "signed")
    BY <1>2, Zenon DEF CardAfter
  <2> HIDE DEF Edo, Pkg, Key
  <2>3. Edo(c, "consent_signed") \in DeskCard /\ Edo(c, "consent_signed").edo = "consent_signed"
    BY <1>0, <1>a, <1>s
  <2>4. CardAfter(c, op) \in DeskCard /\ CardAfter(c, op).edo = "consent_signed"
    BY <1>b, <1>s, <2>1, <2>3
  <2> QED
    BY <2>4 DEF GoodCard
<1>3. CASE op = "refuse"
  <2>1. CardAfter(c, op) = Edo(c, "refused") /\ c.pkg # "signed"
    BY <1>3 DEF CardAfter, CardAccepts, GoodCard
  <2> HIDE DEF Edo, Pkg, Key
  <2>3. Edo(c, "refused") \in DeskCard /\ Edo(c, "refused").pkg = c.pkg
    BY <1>0, <1>a, <1>s
  <2>4. CardAfter(c, op) \in DeskCard /\ CardAfter(c, op).pkg # "signed"
    BY <2>1, <2>3
  <2> QED
    BY <2>4 DEF GoodCard
<1>4. CASE op = "revoke"
  <2>1. CardAfter(c, op) = Key(Edo(c, "key_revoked"), FALSE)
    BY <1>4, Zenon DEF CardAfter
  <2> HIDE DEF Edo, Pkg, Key
  <2>3. Edo(c, "key_revoked") \in DeskCard /\ Edo(c, "key_revoked").edo = "key_revoked"
    BY <1>0, <1>a, <1>s
  <2>4. CardAfter(c, op) \in DeskCard /\ CardAfter(c, op).edo = "key_revoked"
    BY <1>k, <2>1, <2>3
  <2> QED
    BY <2>4 DEF GoodCard
<1>5. CASE op = "phone"
  <2> DEFINE e == IF c.key THEN "key_revoked" ELSE IF c.edo = "notified" THEN "not_invited" ELSE c.edo
             g == IF c.edo = "notified" THEN "none" ELSE c.pkg
  <2>1. CardAfter(c, op) = Key(Pkg(Edo(c, e), g), FALSE)
    BY <1>5, Zenon DEF CardAfter
  <2>2. e \in EdoStatuses /\ g \in PackageStatuses
        /\ (g = "signed" => e \in {"consent_signed", "active", "key_revoked"})
    BY <1>0, <1>s DEF GoodCard
  <2> HIDE DEF e, g, Edo, Pkg, Key
  <2>3. Edo(c, e) \in DeskCard /\ Edo(c, e).edo = e
    BY <1>0, <1>a, <2>2
  <2>4. Pkg(Edo(c, e), g) \in DeskCard /\ Pkg(Edo(c, e), g).edo = e /\ Pkg(Edo(c, e), g).pkg = g
    BY <1>b, <2>2, <2>3
  <2> QED
    BY <1>k, <2>1, <2>2, <2>4 DEF GoodCard
<1>6. CASE op \notin {"invite", "consent", "refuse", "revoke", "phone"}
  BY <1>6 DEF CardAfter
<1> QED
  BY <1>1, <1>2, <1>3, <1>4, <1>5, <1>6

(* What a dialog of a document asks for depends on its status alone.       *)
LEMMA DialogByStatus ==
  ASSUME NEW p, NEW q, GoodPaper(p), GoodPaper(q), p.status = q.status,
         NEW op \in CardDialogs \cup PaperDialogs, op \in PaperOffers(p)
  PROVE  op \in PaperOffers(q)
<1>1. op \in {"sign", "paper", "cancel"}
  BY DEF CardDialogs, PaperDialogs, PaperOffers, PaperButtons
<1> QED
  BY <1>1 DEF PaperOffers, PaperButtons, GoodPaper

-----------------------------------------------------------------------------
(* What only the page does, reads apart: nothing of the server changes,    *)
(* nor what is shown.                                                      *)
DeskOnly ==
  /\ UNCHANGED <<staffCard, papers, journal, desk, deskReads, unseen>>
  /\ ticked' \subseteq DeskPapers
  /\ template' \in [first : DeskStaff \cup {NoStaff}, field : DeskStaff \cup {NoStaff}]
  /\ deskJobs \subseteq deskJobs' /\ \A j \in deskJobs' : ADeskJob(j)
  /\ \/ deskDialog' = deskDialog
     \/ \E o \in DeskObjects : deskDialog' = [deskDialog EXCEPT ![o] = NoDeskDialog]
     \/ \E o \in DeskObjects : \E op \in DeskOffers(o) \cap (CardDialogs \cup PaperDialogs) :
          deskDialog' = [deskDialog EXCEPT ![o] = op]

LEMMA JobMade ==
  ASSUME NEW op, NEW objects \in SUBSET DeskObjects, NEW st
  PROVE  ADeskJob([op |-> op, objects |-> objects, state |-> st])
  BY DEF ADeskJob

LEMMA JobMoved ==
  ASSUME NEW j, ADeskJob(j), NEW st
  PROVE  ADeskJob([j EXCEPT !.state = st]) /\ [j EXCEPT !.state = st].state = st
<1>1. [j EXCEPT !.state = st] = [op |-> j.op, objects |-> j.objects, state |-> st]
  BY DEF ADeskJob
<1> QED
  BY <1>1 DEF ADeskJob

LEMMA AskedOnce ==
  ASSUME DeskData, NEW op, NEW objects \in SUBSET DeskObjects, DeskAsk(op, objects)
  PROVE  deskJobs \subseteq deskJobs' /\ \A j \in deskJobs' : ADeskJob(j)
<1>1. deskJobs' = deskJobs \cup {[op |-> op, objects |-> objects, state |-> "sent"]}
  BY DEF DeskAsk
<1> QED
  BY <1>1, JobMade DEF DeskData

OfficersStep ==
  \/ \E o \in DeskObjects :
       \/ ConfirmDeskDialog(o) \/ CancelDeskDialog(o)
       \/ \E op \in DeskOffers(o) : DeskClick(o, op) \/ OpenDeskDialog(o, op)
  \/ \E d \in DeskPapers : TickPaper(d)
  \/ BulkSend \/ \E e \in DeskStaff : PickStaff(e)

LEMMA OfficersStepFrame == DeskData /\ OfficersStep => DeskOnly
<1> SUFFICES ASSUME DeskData, OfficersStep PROVE DeskOnly
  OBVIOUS
<1>d. /\ ticked \subseteq DeskPapers
      /\ template \in [first : DeskStaff \cup {NoStaff}, field : DeskStaff \cup {NoStaff}]
      /\ \A j \in deskJobs : ADeskJob(j)
  BY DEF DeskData
<1>1. CASE \E o \in DeskObjects : ConfirmDeskDialog(o)
  <2>1. PICK o \in DeskObjects : ConfirmDeskDialog(o)
    BY <1>1
  <2>2. UNCHANGED <<staffCard, papers, journal, desk, deskReads, unseen, ticked, template, deskDialog>>
        /\ DeskAsk(deskDialog[o], {o})
    BY <2>1 DEF ConfirmDeskDialog
  <2> QED
    BY <1>d, <2>2, AskedOnce DEF DeskOnly
<1>2. CASE \E o \in DeskObjects : CancelDeskDialog(o)
  BY <1>2, <1>d DEF CancelDeskDialog, DeskOnly
<1>3. CASE \E o \in DeskObjects : \E op \in DeskOffers(o) : DeskClick(o, op)
  <2>1. PICK o \in DeskObjects : \E op \in DeskOffers(o) : DeskClick(o, op)
    BY <1>3
  <2>3. PICK op \in DeskOffers(o) : DeskClick(o, op)
    BY <2>1
  <2>2. UNCHANGED <<staffCard, papers, journal, desk, deskReads, unseen, ticked, template, deskDialog>>
        /\ DeskAsk(op, {o})
    BY <2>3 DEF DeskClick
  <2> QED
    BY <1>d, <2>2, AskedOnce DEF DeskOnly
<1>4. CASE \E o \in DeskObjects : \E op \in DeskOffers(o) : OpenDeskDialog(o, op)
  BY <1>4, <1>d DEF OpenDeskDialog, DeskOnly
<1>5. CASE \E d \in DeskPapers : TickPaper(d)
  BY <1>5, <1>d DEF TickPaper, DeskOnly
<1>6. CASE BulkSend
  <2>1. UNCHANGED <<staffCard, papers, journal, desk, deskReads, unseen, ticked, template, deskDialog>>
        /\ DeskAsk("send", Sendable)
    BY <1>6 DEF BulkSend
  <2>2. Sendable \in SUBSET DeskObjects
    BY <1>d DEF Sendable, DeskObjects
  <2> QED
    BY <1>d, <2>1, <2>2, AskedOnce DEF DeskOnly
<1>7. CASE \E e \in DeskStaff : PickStaff(e)
  <2>1. PICK e \in DeskStaff : PickStaff(e)
    BY <1>7
  <2>2. template' = [first |-> e, field |-> Prefilled(template.field, e)]
        /\ UNCHANGED <<staffCard, papers, journal, desk, deskReads, unseen, ticked, deskDialog, deskJobs>>
    BY <2>1 DEF PickStaff
  <2>3. template.field \in DeskStaff \cup {NoStaff}
    BY <1>d
  <2>4. template' \in [first : DeskStaff \cup {NoStaff}, field : DeskStaff \cup {NoStaff}]
    BY <2>2, <2>3 DEF Prefilled
  <2> QED
    BY <1>d, <2>2, <2>4 DEF DeskOnly
<1> QED
  BY <1>1, <1>2, <1>3, <1>4, <1>5, <1>6, <1>7 DEF OfficersStep

LEMMA DeskOnlyInv == DeskInv /\ DeskOnly => DeskInv'
<1> SUFFICES ASSUME DeskInv, DeskOnly PROVE DeskInv'
  OBVIOUS
<1>0. UNCHANGED <<staffCard, papers, journal, desk, deskReads, unseen>> /\ deskJobs \subseteq deskJobs'
  BY DEF DeskOnly
<1>1. /\ deskDialog' = [o \in DeskObjects |-> deskDialog'[o]]
      /\ \A d \in DeskPapers : /\ deskDialog'[d] \in CardDialogs \cup PaperDialogs \cup {NoDeskDialog}
                               /\ deskDialog'[d] # NoDeskDialog => deskDialog'[d] \in DeskOffers(d)
  <2>0. /\ deskDialog = [o \in DeskObjects |-> deskDialog[o]] /\ DeskPapers \subseteq DeskObjects
        /\ \A d \in DeskPapers : /\ deskDialog[d] \in CardDialogs \cup PaperDialogs \cup {NoDeskDialog}
                                 /\ deskDialog[d] # NoDeskDialog => deskDialog[d] \in DeskOffers(d)
    BY DEF DeskInv, DeskData, OpenDialogIsOffered, DeskObjects
  <2>1. CASE deskDialog' = deskDialog
    BY <2>0, <2>1
  <2>2. CASE \E o \in DeskObjects : deskDialog' = [deskDialog EXCEPT ![o] = NoDeskDialog]
    BY <2>0, <2>2
  <2>3. CASE \E o \in DeskObjects : \E op \in DeskOffers(o) \cap (CardDialogs \cup PaperDialogs) :
               deskDialog' = [deskDialog EXCEPT ![o] = op]
    BY <2>0, <2>3
  <2> QED
    BY <2>1, <2>2, <2>3 DEF DeskOnly
<1>2. DeskData' /\ PapersStay'
  BY <1>0, <1>1 DEF DeskInv, DeskData, PapersStay, Arrived, DeskOnly
<1>3. OpenDialogIsOffered'
  BY <1>0, <1>1 DEF OpenDialogIsOffered, DeskOffers
<1>4. ShownOrComing'
  BY <1>0 DEF DeskInv, ShownOrComing, Truth, Waiting, Arrived
<1> QED
  BY <1>2, <1>3, <1>4 DEF DeskInv

-----------------------------------------------------------------------------
(* What a read brings: what the server has, a document or the card.        *)
LEMMA TruthSeen ==
  ASSUME DeskData, NEW o \in DeskObjects
  PROVE  /\ Truth(o) \in DeskSight /\ [seen |-> Truth(o)] \notin {NoDeskRead, DeskReading}
         /\ o \in DeskPapers => Truth(o) = papers[o] /\ GoodOrNone(Truth(o))
<1>1. CASE o = "card"
  <2>1. Waiting \in SUBSET DeskPapers
    BY DEF Waiting
  <2>2. Truth(o) \in [card : DeskCard, waiting : SUBSET DeskPapers, journal : Nat]
    BY <1>1, <2>1 DEF Truth, DeskData, GoodCard
  <2>3. Truth(o) \in DeskSight
    BY <2>2 DEF DeskSight
  <2>4. [seen |-> Truth(o)] \in [seen : DeskSight]
    BY <2>3
  <2> QED
    BY <1>1, <2>3, <2>4, DeskAssumption
<1>2. CASE o # "card"
  <2>1. o \in DeskPapers /\ Truth(o) = papers[o] /\ GoodOrNone(papers[o])
    BY <1>2 DEF DeskObjects, Truth, DeskData
  <2>3. Truth(o) \in DeskSight
    BY <2>1 DEF DeskSight, GoodOrNone, GoodPaper
  <2>4. [seen |-> Truth(o)] \in [seen : DeskSight]
    BY <2>3
  <2> QED
    BY <2>1, <2>3, <2>4, DeskAssumption
<1> QED
  BY <1>1, <1>2

LEMMA ServeReadInv == ASSUME DeskInv, NEW o \in DeskObjects, ServeDeskRead(o) PROVE DeskInv'
<1>1. /\ UNCHANGED <<staffCard, papers, journal, desk, deskJobs, deskDialog, ticked, template>>
      /\ deskReads' = [deskReads EXCEPT ![o] = [seen |-> Truth(o)]] /\ unseen' = unseen \ {o}
      /\ deskReads[o] = DeskReading
  BY DEF ServeDeskRead
<1>2. DeskData /\ deskReads = [x \in DeskObjects |-> deskReads[x]] /\ DeskPapers \subseteq DeskObjects
  BY DEF DeskInv, DeskData, DeskObjects
<1>3. /\ deskReads' = [x \in DeskObjects |-> deskReads'[x]]
      /\ deskReads'[o] = [seen |-> Truth(o)] /\ deskReads'[o].seen = Truth(o)
      /\ \A x \in DeskObjects : x # o => deskReads'[x] = deskReads[x]
  BY <1>1, <1>2
<1>4. ASSUME NEW d \in DeskPapers, Arrived(d)'
      PROVE  GoodOrNone(deskReads'[d].seen) /\ (desk[d] # NoPaper => deskReads'[d].seen # NoPaper)
  <2>1. CASE d = o
    BY <1>2, <1>3, <2>1, TruthSeen DEF DeskInv, PapersStay
  <2>2. CASE d # o
    BY <1>2, <1>3, <1>4, <2>2 DEF DeskInv, DeskData, PapersStay, Arrived
  <2> QED
    BY <2>1, <2>2
<1>5. DeskData'
  BY <1>1, <1>2, <1>3, <1>4 DEF DeskData
<1>6. PapersStay'
  <2>1. ASSUME NEW d \in DeskPapers, Arrived(d)', deskReads'[d].seen # NoPaper PROVE papers[d] # NoPaper
    <3>1. CASE d = o
      BY <1>2, <1>3, <2>1, <3>1, TruthSeen
    <3>2. CASE d # o
      BY <1>2, <1>3, <2>1, <3>2 DEF DeskInv, PapersStay, Arrived
    <3> QED
      BY <3>1, <3>2
  <2> QED
    BY <1>1, <1>4, <2>1 DEF DeskInv, PapersStay
<1>7. OpenDialogIsOffered'
  BY <1>1 DEF DeskInv, OpenDialogIsOffered, DeskOffers
<1>8. ShownOrComing'
  <2>1. CASE \E j \in deskJobs : j.state = "done"
    BY <1>1, <2>1 DEF ShownOrComing
  <2>2. CASE ~\E j \in deskJobs : j.state = "done"
    <3>1. \A x \in DeskObjects : Truth(x)' = Truth(x)
      BY <1>1 DEF Truth, Waiting
    <3>2. ASSUME NEW x \in DeskObjects \ unseen'
          PROVE  /\ deskReads'[x] = NoDeskRead => desk'[x] = Truth(x)
                 /\ Arrived(x)' => deskReads'[x].seen = Truth(x)
      <4>1. CASE x = o
        BY <1>2, <1>3, <4>1, TruthSeen
      <4>2. CASE x # o
        <5>1. x \in DeskObjects \ unseen /\ deskReads'[x] = deskReads[x]
          BY <1>1, <1>3, <3>2, <4>2
        <5> QED
          BY <1>1, <2>2, <5>1 DEF DeskInv, ShownOrComing, Arrived
      <4> QED
        BY <4>1, <4>2
    <3> QED
      BY <1>1, <3>1, <3>2 DEF ShownOrComing
  <2> QED
    BY <2>1, <2>2
<1> QED
  BY <1>5, <1>6, <1>7, <1>8 DEF DeskInv

LEMMA ArriveReadInv == ASSUME DeskInv, NEW o \in DeskObjects, ArriveDeskRead(o) PROVE DeskInv'
<1> DEFINE seen == deskReads[o].seen
<1>1. /\ UNCHANGED <<staffCard, papers, journal, deskJobs, ticked, template, unseen>>
      /\ deskReads' = [deskReads EXCEPT ![o] = NoDeskRead] /\ desk' = [desk EXCEPT ![o] = seen]
      /\ deskDialog' = [deskDialog EXCEPT ![o] = DialogAfter(o, seen)]
      /\ Arrived(o)
  BY DEF ArriveDeskRead, Arrived
<1>2. /\ DeskPapers \subseteq DeskObjects
      /\ deskReads = [x \in DeskObjects |-> deskReads[x]] /\ desk = [x \in DeskObjects |-> desk[x]]
      /\ deskDialog = [x \in DeskObjects |-> deskDialog[x]]
  BY DEF DeskInv, DeskData, DeskObjects
<1>3. /\ deskReads' = [x \in DeskObjects |-> deskReads'[x]] /\ desk' = [x \in DeskObjects |-> desk'[x]]
      /\ deskDialog' = [x \in DeskObjects |-> deskDialog'[x]]
      /\ deskReads'[o] = NoDeskRead /\ desk'[o] = seen /\ deskDialog'[o] = DialogAfter(o, seen)
      /\ \A x \in DeskObjects : x # o => /\ deskReads'[x] = deskReads[x] /\ desk'[x] = desk[x]
                                         /\ deskDialog'[x] = deskDialog[x]
  BY <1>1, <1>2
<1>s. o \in DeskPapers => GoodOrNone(seen) /\ (desk[o] # NoPaper => seen # NoPaper)
  BY <1>1 DEF DeskInv, DeskData, PapersStay
<1> HIDE DEF seen
<1>a. DialogAfter(o, seen) \in {NoDeskDialog, deskDialog[o]}
  BY DEF DialogAfter
<1>4. DeskData'
  <2>1. ASSUME NEW d \in DeskPapers
        PROVE  /\ GoodOrNone(desk'[d])
               /\ Arrived(d)' => GoodOrNone(deskReads'[d].seen)
               /\ deskDialog'[d] \in CardDialogs \cup PaperDialogs \cup {NoDeskDialog}
    <3>1. CASE d = o
      BY <1>3, <1>s, <1>a, <3>1, Zenon DEF DeskInv, DeskData, Arrived
    <3>2. CASE d # o
      BY <1>2, <1>3, <3>2 DEF DeskInv, DeskData, Arrived
    <3> QED
      BY <3>1, <3>2
  <2>2. \A d \in DeskPapers :
          /\ GoodOrNone(desk'[d])
          /\ Arrived(d)' => GoodOrNone(deskReads'[d].seen)
          /\ deskDialog'[d] \in CardDialogs \cup PaperDialogs \cup {NoDeskDialog}
    BY <2>1
  <2>3. /\ GoodCard(staffCard') /\ journal' \in Nat
        /\ papers' = [d \in DeskPapers |-> papers'[d]] /\ \A d \in DeskPapers : GoodOrNone(papers'[d])
        /\ template' \in [first : DeskStaff \cup {NoStaff}, field : DeskStaff \cup {NoStaff}]
        /\ unseen' \subseteq DeskObjects /\ ticked' \subseteq DeskPapers
        /\ \A j \in deskJobs' : ADeskJob(j)
    BY <1>1 DEF DeskInv, DeskData
  <2> QED
    BY <1>3, <2>2, <2>3, Zenon DEF DeskData
<1>5. PapersStay'
  <2> SUFFICES ASSUME NEW d \in DeskPapers, desk'[d] # NoPaper
               PROVE  papers[d] # NoPaper /\ (Arrived(d)' => deskReads'[d].seen # NoPaper)
    <3>1. \A d \in DeskPapers : Arrived(d)' /\ deskReads'[d].seen # NoPaper => papers[d] # NoPaper
      BY <1>2, <1>3 DEF DeskInv, PapersStay, Arrived
    <3> QED
      BY <1>1, <3>1 DEF PapersStay
  <2>1. CASE d = o
    <3>1. ~Arrived(d)' /\ desk'[d] = seen
      BY <1>3, <2>1 DEF Arrived
    <3> QED
      BY <1>1, <2>1, <3>1 DEF DeskInv, PapersStay, seen
  <2>2. CASE d # o
    BY <1>2, <1>3, <2>2 DEF DeskInv, PapersStay, Arrived
  <2> QED
    BY <2>1, <2>2
<1>6. OpenDialogIsOffered'
  <2> SUFFICES ASSUME NEW d \in DeskPapers, deskDialog'[d] # NoDeskDialog
               PROVE  deskDialog'[d] \in DeskOffers(d)'
    BY DEF OpenDialogIsOffered
  <2>0. d # "card"
    BY DeskAssumption
  <2>1. CASE d = o
    <3>1. /\ deskDialog'[d] = deskDialog[d] /\ deskDialog[d] \in DeskOffers(d)
          /\ deskDialog[d] \in CardDialogs \cup PaperDialogs
      BY <1>3, <1>a, <2>1 DEF DeskInv, DeskData, OpenDialogIsOffered
    <3>2. desk[d] # NoPaper /\ deskDialog[d] \in PaperOffers(desk[d]) /\ GoodPaper(desk[d])
      BY <2>0, <3>1 DEF DeskOffers, DeskInv, DeskData, GoodOrNone
    <3>3. seen = desk[d] \/ seen.status = desk[d].status
      BY <1>3, <2>1, <3>1, <3>2 DEF DialogAfter
    <3>4. GoodPaper(seen) /\ seen # NoPaper
      BY <1>s, <2>1, <3>2 DEF GoodOrNone
    <3>5. deskDialog[d] \in PaperOffers(seen)
      BY <3>1, <3>2, <3>3, <3>4, DialogByStatus
    <3>6. desk'[d] = seen
      BY <1>3, <2>1
    <3> QED
      BY <2>0, <3>1, <3>4, <3>5, <3>6 DEF DeskOffers
  <2>2. CASE d # o
    BY <1>2, <1>3, <2>0, <2>2 DEF DeskInv, OpenDialogIsOffered, DeskOffers
  <2> QED
    BY <2>1, <2>2
<1>7. ShownOrComing'
  <2>1. CASE \E j \in deskJobs : j.state = "done"
    BY <1>1, <2>1 DEF ShownOrComing
  <2>2. CASE ~\E j \in deskJobs : j.state = "done"
    <3>1. \A x \in DeskObjects : Truth(x)' = Truth(x)
      BY <1>1 DEF Truth, Waiting
    <3>2. ASSUME NEW x \in DeskObjects \ unseen
          PROVE  /\ deskReads'[x] = NoDeskRead => desk'[x] = Truth(x)
                 /\ Arrived(x)' => deskReads'[x].seen = Truth(x)
      <4>1. CASE x = o
        <5>1. seen = Truth(x)
          BY <1>1, <2>2, <3>2, <4>1 DEF DeskInv, ShownOrComing, seen
        <5> QED
          BY <1>3, <4>1, <5>1 DEF Arrived
      <4>2. CASE x # o
        BY <1>3, <2>2, <3>2, <4>2 DEF DeskInv, ShownOrComing, Arrived
      <4> QED
        BY <4>1, <4>2
    <3> QED
      BY <1>1, <3>1, <3>2 DEF ShownOrComing
  <2> QED
    BY <2>1, <2>2
<1> QED
  BY <1>4, <1>5, <1>6, <1>7 DEF DeskInv

-----------------------------------------------------------------------------
(* What the server does shows nothing yet.                                 *)
LEMMA ServerFrame ==
  ASSUME DeskInv, UNCHANGED <<desk, deskReads, deskDialog>>, GoodCard(staffCard'), journal' \in Nat,
         papers' = [d \in DeskPapers |-> papers'[d]],
         \A d \in DeskPapers : GoodOrNone(papers'[d]) /\ (papers[d] # NoPaper => papers'[d] # NoPaper),
         template' \in [first : DeskStaff \cup {NoStaff}, field : DeskStaff \cup {NoStaff}],
         unseen' \subseteq DeskObjects, ticked' = ticked,
         \A j \in deskJobs' : ADeskJob(j),
         ShownOrComing'
  PROVE  DeskInv'
<1>1. DeskData'
  BY DEF DeskInv, DeskData, Arrived
<1>2. PapersStay'
  BY DEF DeskInv, PapersStay, Arrived
<1>3. OpenDialogIsOffered'
  BY DEF DeskInv, OpenDialogIsOffered, DeskOffers
<1> QED
  BY <1>1, <1>2, <1>3 DEF DeskInv

LEMMA NewPaperInv ==
  ASSUME DeskInv, NEW d \in DeskPapers, NEW p, GoodPaper(p), papers' = [papers EXCEPT ![d] = p],
         journal' = journal + 1, NEW op, deskJobs' = deskJobs \cup {[op |-> op, objects |-> {d}, state |-> "done"]},
         template' \in [first : DeskStaff \cup {NoStaff}, field : DeskStaff \cup {NoStaff}],
         UNCHANGED <<staffCard, desk, deskReads, deskDialog, ticked, unseen>>
  PROVE  DeskInv'
<1>1. p # NoPaper
  BY DeskAssumption DEF GoodPaper
<1>2. /\ papers' = [x \in DeskPapers |-> papers'[x]]
      /\ \A x \in DeskPapers : GoodOrNone(papers'[x]) /\ (papers[x] # NoPaper => papers'[x] # NoPaper)
  BY <1>1 DEF DeskInv, DeskData, GoodOrNone
<1> DEFINE made == [op |-> op, objects |-> {d}, state |-> "done"]
<1>3. ShownOrComing'
  <2>1. made \in deskJobs' /\ made.state = "done"
    OBVIOUS
  <2> QED
    BY <2>1, Zenon DEF ShownOrComing
<1>4. /\ GoodCard(staffCard') /\ journal' \in Nat /\ unseen' \subseteq DeskObjects
      /\ \A j \in deskJobs' : ADeskJob(j)
  BY JobMade DEF DeskInv, DeskData, DeskObjects
<1> QED
  BY <1>2, <1>3, <1>4, ServerFrame

LEMMA CreateInv ==
  ASSUME DeskInv, NEW d \in DeskPapers, NEW type \in {"bilateral", "unilateral"}, NEW freeze \in BOOLEAN,
         CreatePaper(d, type, freeze) \/ UploadPaper(d, type)
  PROVE  DeskInv'
<1>0. /\ GoodPaper(Draft(type)) /\ GoodPaper(PaperAfter(Draft(type), "freeze"))
      /\ template \in [first : DeskStaff \cup {NoStaff}, field : DeskStaff \cup {NoStaff}]
  BY PaperFrozen DEF Types, DeskInv, DeskData
<1>1. CASE CreatePaper(d, type, freeze)
  <2> DEFINE p == IF freeze THEN PaperAfter(Draft(type), "freeze") ELSE Draft(type)
  <2>1. /\ papers' = [papers EXCEPT ![d] = p] /\ journal' = journal + 1
        /\ deskJobs' = deskJobs \cup {[op |-> "create", objects |-> {d}, state |-> "done"]}
        /\ template' = [template EXCEPT !.first = NoStaff]
        /\ UNCHANGED <<staffCard, desk, deskReads, deskDialog, ticked, unseen>>
    BY <1>1 DEF CreatePaper, Draft
  <2>2. template' \in [first : DeskStaff \cup {NoStaff}, field : DeskStaff \cup {NoStaff}]
    BY <1>0, <2>1
  <2>3. GoodPaper(p)
    BY <1>0
  <2> QED
    BY <2>1, <2>2, <2>3, NewPaperInv
<1>2. CASE UploadPaper(d, type)
  <2>1. /\ papers' = [papers EXCEPT ![d] = PaperAfter(Draft(type), "freeze")] /\ journal' = journal + 1
        /\ deskJobs' = deskJobs \cup {[op |-> "upload", objects |-> {d}, state |-> "done"]}
        /\ UNCHANGED <<staffCard, desk, deskReads, deskDialog, ticked, unseen, template>>
    BY <1>2 DEF UploadPaper, Draft
  <2> QED
    BY <1>0, <2>1, NewPaperInv
<1> QED
  BY <1>1, <1>2

LEMMA ServeJobInv == ASSUME DeskInv, NEW j \in deskJobs, ServeDeskJob(j) PROVE DeskInv'
<1>0. /\ UNCHANGED <<desk, deskReads, deskDialog, ticked, template, unseen>> /\ j.state = "sent"
      /\ \A x \in deskJobs : ADeskJob(x)
      /\ GoodCard(staffCard) /\ journal \in Nat /\ \A d \in DeskPapers : GoodOrNone(papers[d])
      /\ papers = [d \in DeskPapers |-> papers[d]] /\ unseen \subseteq DeskObjects
      /\ template \in [first : DeskStaff \cup {NoStaff}, field : DeskStaff \cup {NoStaff}]
  BY DEF ServeDeskJob, DeskInv, DeskData
<1>1. CASE DeskAccepts(j)
  <2>1. /\ staffCard' = IF "card" \in j.objects THEN CardAfter(staffCard, j.op) ELSE staffCard
        /\ papers' = [d \in DeskPapers |-> IF d \in j.objects THEN PaperAfter(papers[d], j.op)
                                           ELSE papers[d]]
        /\ journal' = journal + 1
        /\ deskJobs' = (deskJobs \ {j}) \cup {[j EXCEPT !.state = "done"]}
    BY <1>1 DEF ServeDeskJob
  <2>2. "card" \in j.objects => CardAccepts(staffCard, j.op)
    BY <1>1 DEF DeskAccepts
  <2>3. GoodCard(staffCard')
    BY <1>0, <2>1, <2>2, CardServed
  <2>4. ASSUME NEW d \in DeskPapers
        PROVE  GoodOrNone(papers'[d]) /\ (papers[d] # NoPaper => papers'[d] # NoPaper)
    <3>1. CASE d \in j.objects
      <4>1. d # "card" /\ papers[d] # NoPaper /\ PaperAccepts(papers[d], j.op)
        BY <1>1, <3>1, DeskAssumption DEF DeskAccepts
      <4>2. GoodPaper(PaperAfter(papers[d], j.op))
        BY <1>0, <4>1, PaperServed DEF GoodOrNone
      <4>3. papers'[d] = PaperAfter(papers[d], j.op)
        BY <2>1, <3>1
      <4> QED
        BY <4>2, <4>3, DeskAssumption DEF GoodOrNone, GoodPaper
    <3>2. CASE d \notin j.objects
      BY <1>0, <2>1, <3>2
    <3> QED
      BY <3>1, <3>2
  <2>5. /\ [j EXCEPT !.state = "done"] \in deskJobs' /\ [j EXCEPT !.state = "done"].state = "done"
        /\ ADeskJob([j EXCEPT !.state = "done"])
    BY <1>0, <2>1, JobMoved
  <2>6. ShownOrComing' /\ \A x \in deskJobs' : ADeskJob(x)
    <3>1. \E x \in deskJobs' : x.state = "done"
      BY <2>5
    <3>2. \A x \in deskJobs' : ADeskJob(x)
      BY <1>0, <2>1, <2>5
    <3> QED
      BY <1>0, <3>1, <3>2 DEF ShownOrComing
  <2>7. papers' = [d \in DeskPapers |-> papers'[d]]
    BY <2>1
  <2>8. journal' \in Nat /\ unseen' \subseteq DeskObjects /\ ticked' = ticked
        /\ template' \in [first : DeskStaff \cup {NoStaff}, field : DeskStaff \cup {NoStaff}]
    BY <1>0, <2>1
  <2> QED
    BY <1>0, <2>3, <2>4, <2>6, <2>7, <2>8, ServerFrame
<1>2. CASE ~DeskAccepts(j)
  <2>1. /\ UNCHANGED <<staffCard, papers, journal>>
        /\ deskJobs' = (deskJobs \ {j}) \cup {[j EXCEPT !.state = "failed"]}
    BY <1>2 DEF ServeDeskJob, deskServer
  <2>2. ADeskJob([j EXCEPT !.state = "failed"])
    BY <1>0, JobMoved
  <2>3. \A x \in deskJobs : x.state = "done" => x \in deskJobs'
    BY <1>0, <2>1
  <2>4. ShownOrComing'
    BY <1>0, <2>1, <2>3 DEF DeskInv, ShownOrComing, Truth, Waiting, Arrived
  <2>5. \A x \in deskJobs' : ADeskJob(x)
    BY <1>0, <2>1, <2>2
  <2>6. \A d \in DeskPapers : GoodOrNone(papers'[d]) /\ (papers[d] # NoPaper => papers'[d] # NoPaper)
    BY <1>0, <2>1
  <2>7. papers' = [d \in DeskPapers |-> papers'[d]]
    BY <1>0, <2>1
  <2> QED
    BY <1>0, <2>1, <2>4, <2>5, <2>6, <2>7, ServerFrame
<1> QED
  BY <1>1, <1>2

LEMMA LoseJobInv == ASSUME DeskInv, NEW j \in deskJobs, LoseDeskJob(j) PROVE DeskInv'
<1>0. /\ UNCHANGED <<staffCard, papers, journal, desk, deskReads, deskDialog, ticked, template>>
      /\ deskJobs' = (deskJobs \ {j}) \cup {[j EXCEPT !.state = "failed"]}
      /\ unseen' = IF j.state = "done" THEN DeskObjects ELSE unseen
      /\ \A x \in deskJobs : ADeskJob(x)
      /\ GoodCard(staffCard) /\ journal \in Nat /\ \A d \in DeskPapers : GoodOrNone(papers[d])
      /\ papers = [d \in DeskPapers |-> papers[d]] /\ unseen \subseteq DeskObjects
      /\ template \in [first : DeskStaff \cup {NoStaff}, field : DeskStaff \cup {NoStaff}]
  BY DEF LoseDeskJob, DeskInv, DeskData
<1>1. \A x \in deskJobs' : ADeskJob(x)
  <2>1. ADeskJob([j EXCEPT !.state = "failed"])
    BY <1>0, JobMoved
  <2> QED
    BY <1>0, <2>1
<1>2. ShownOrComing'
  <2>1. CASE j.state = "done"
    BY <1>0, <2>1 DEF ShownOrComing
  <2>2. CASE j.state # "done"
    <3>1. \A x \in deskJobs : x.state = "done" => x \in deskJobs'
      BY <1>0, <2>2
    <3> QED
      BY <1>0, <2>2, <3>1 DEF DeskInv, ShownOrComing, Truth, Waiting, Arrived
  <2> QED
    BY <2>1, <2>2
<1>3. unseen' \subseteq DeskObjects
  BY <1>0
<1>4. \A d \in DeskPapers : GoodOrNone(papers'[d]) /\ (papers[d] # NoPaper => papers'[d] # NoPaper)
  BY <1>0
<1>5. papers' = [d \in DeskPapers |-> papers'[d]]
  BY <1>0
<1> QED
  BY <1>0, <1>1, <1>2, <1>3, <1>4, <1>5, ServerFrame

LEMMA AnswerJobInv == ASSUME DeskInv, NEW j \in deskJobs, AnswerDeskJob(j) PROVE DeskInv'
<1>0. /\ UNCHANGED <<staffCard, papers, journal, desk, template, unseen>>
      /\ deskJobs' = deskJobs \ {j}
      /\ \A x \in deskJobs' : ADeskJob(x)
  BY DEF AnswerDeskJob, DeskInv, DeskData
<1>1. CASE j.state = "done"
  <2>1. /\ deskReads' = [o \in DeskObjects |-> DeskReading]
        /\ deskDialog' = [o \in DeskObjects |-> IF o \in j.objects /\ deskDialog[o] = j.op
                                                THEN NoDeskDialog ELSE deskDialog[o]]
        /\ ticked' \subseteq DeskPapers
    BY <1>1 DEF AnswerDeskJob, ReadAgain, DeskInv, DeskData
  <2>2. \A o \in DeskObjects : ~Arrived(o)' /\ deskReads'[o] # NoDeskRead
    BY <2>1, DeskAssumption DEF Arrived
  <2>3. /\ \A o \in DeskObjects : deskDialog'[o] \in {NoDeskDialog, deskDialog[o]}
        /\ deskDialog' = [o \in DeskObjects |-> deskDialog'[o]]
        /\ deskReads' = [o \in DeskObjects |-> deskReads'[o]]
        /\ DeskPapers \subseteq DeskObjects
    BY <2>1 DEF DeskObjects
  <2>4. \A d \in DeskPapers :
          /\ GoodOrNone(desk'[d])
          /\ Arrived(d)' => GoodOrNone(deskReads'[d].seen)
          /\ deskDialog'[d] \in CardDialogs \cup PaperDialogs \cup {NoDeskDialog}
    BY <1>0, <2>2, <2>3 DEF DeskInv, DeskData
  <2>5. /\ GoodCard(staffCard') /\ journal' \in Nat
        /\ papers' = [d \in DeskPapers |-> papers'[d]] /\ \A d \in DeskPapers : GoodOrNone(papers'[d])
        /\ template' \in [first : DeskStaff \cup {NoStaff}, field : DeskStaff \cup {NoStaff}]
        /\ unseen' \subseteq DeskObjects /\ desk' = [o \in DeskObjects |-> desk'[o]]
    BY <1>0 DEF DeskInv, DeskData
  <2>6. DeskData'
    BY <1>0, <2>1, <2>3, <2>4, <2>5, Zenon DEF DeskData
  <2>7. PapersStay'
    BY <1>0, <2>2, <2>3 DEF DeskInv, PapersStay
  <2>8. OpenDialogIsOffered'
    BY <1>0, <2>3 DEF DeskInv, OpenDialogIsOffered, DeskOffers
  <2>9. ShownOrComing'
    BY <2>2 DEF ShownOrComing
  <2> QED
    BY <2>6, <2>7, <2>8, <2>9 DEF DeskInv
<1>2. CASE j.state # "done"
  <2>1. UNCHANGED <<deskReads, deskDialog, ticked>>
    BY <1>2 DEF AnswerDeskJob
  <2>2. \A x \in deskJobs : x.state = "done" => x \in deskJobs'
    BY <1>0, <1>2
  <2>3. ShownOrComing'
    BY <1>0, <2>1, <2>2 DEF DeskInv, ShownOrComing, Truth, Waiting, Arrived
  <2>4. DeskData' /\ PapersStay' /\ OpenDialogIsOffered'
    BY <1>0, <2>1 DEF DeskInv, DeskData, PapersStay, OpenDialogIsOffered, DeskOffers, Arrived
  <2> QED
    BY <2>3, <2>4 DEF DeskInv
<1> QED
  BY <1>1, <1>2

(* What the employee does, and the clock.                                  *)
LEMMA OtherInv ==
  ASSUME DeskInv, NEW objects \in SUBSET DeskObjects, DeskOther(objects), GoodCard(staffCard'),
         papers' = [d \in DeskPapers |-> papers'[d]],
         \A d \in DeskPapers : GoodOrNone(papers'[d]) /\ (papers[d] # NoPaper => papers'[d] # NoPaper),
         \A d \in DeskPapers \ objects : papers'[d] = papers[d]
  PROVE  DeskInv'
<1>1. /\ UNCHANGED <<desk, deskReads, deskJobs, deskDialog, ticked, template>>
      /\ journal' = journal + 1 /\ unseen' = unseen \cup objects \cup {"card"}
  BY DEF DeskOther
<1>2. /\ journal' \in Nat /\ unseen' \subseteq DeskObjects /\ \A x \in deskJobs' : ADeskJob(x)
      /\ template' \in [first : DeskStaff \cup {NoStaff}, field : DeskStaff \cup {NoStaff}]
  BY <1>1 DEF DeskInv, DeskData, DeskObjects
<1>3. ShownOrComing'
  <2>1. CASE \E j \in deskJobs : j.state = "done"
    BY <1>1, <2>1 DEF ShownOrComing
  <2>2. CASE ~\E j \in deskJobs : j.state = "done"
    <3>1. ASSUME NEW o \in DeskObjects \ unseen'
          PROVE  o \in DeskObjects \ unseen /\ Truth(o)' = Truth(o)
      BY <1>1, <3>1 DEF Truth, DeskObjects
    <3> QED
      BY <1>1, <2>2, <3>1 DEF DeskInv, ShownOrComing, Arrived
  <2> QED
    BY <2>1, <2>2
<1> QED
  BY <1>1, <1>2, <1>3, ServerFrame

LEMMA GetsKeyInv == DeskInv /\ EmployeeGetsKey => DeskInv'
<1> SUFFICES ASSUME DeskInv, EmployeeGetsKey PROVE DeskInv'
  OBVIOUS
<1> DEFINE x == [staffCard EXCEPT !.edo = "active"]
<1>1. staffCard' = [x EXCEPT !.key = TRUE] /\ papers' = papers /\ DeskOther({})
  BY Zenon DEF EmployeeGetsKey
<1>2. staffCard \in DeskCard /\ "active" \in EdoStatuses
  BY DEF DeskInv, DeskData, GoodCard, EdoStatuses
<1>3. x \in DeskCard /\ x.edo = "active"
  BY <1>2 DEF DeskCard
<1> HIDE DEF x
<1>4. staffCard' \in DeskCard /\ staffCard'.edo = "active"
  BY <1>1, <1>3 DEF DeskCard
<1>5. GoodCard(staffCard')
  BY <1>4 DEF GoodCard
<1> QED
  BY <1>1, <1>5, OtherInv DEF DeskInv, DeskData

LEMMA ActsInv == ASSUME DeskInv, NEW d \in DeskPapers, EmployeeActs(d) PROVE DeskInv'
<1>1. /\ papers[d] # NoPaper /\ papers[d].status \in {"sent", "viewed"} /\ DeskOther({d})
      /\ staffCard' = staffCard
  BY DEF EmployeeActs
<1>2. /\ GoodPaper(papers[d]) /\ papers = [x \in DeskPapers |-> papers[x]]
      /\ GoodCard(staffCard) /\ \A x \in DeskPapers : GoodOrNone(papers[x])
  BY <1>1 DEF DeskInv, DeskData, GoodOrNone
<1>3. \/ papers' = [papers EXCEPT ![d] = [papers[d] EXCEPT !.status = "viewed"]]
      \/ papers' = [papers EXCEPT ![d] = SignedAlso(papers[d], "employee")]
      \/ papers' = [papers EXCEPT ![d] = [papers[d] EXCEPT !.status = "rejected"]]
      \/ papers' = [papers EXCEPT ![d] = [papers[d] EXCEPT !.status = "expired"]]
  BY Zenon DEF EmployeeActs
<1>4. /\ GoodPaper([papers[d] EXCEPT !.status = "viewed"])
      /\ GoodPaper([papers[d] EXCEPT !.status = "rejected"])
      /\ GoodPaper([papers[d] EXCEPT !.status = "expired"])
  BY <1>1, <1>2, EmployeeActed
<1>5. GoodPaper(SignedAlso(papers[d], "employee"))
  BY <1>1, <1>2, PaperSigned DEF Roles2
<1>6. PICK p : GoodPaper(p) /\ papers' = [papers EXCEPT ![d] = p]
  BY <1>3, <1>4, <1>5, Zenon
<1>7. p # NoPaper
  BY <1>6, DeskAssumption DEF GoodPaper
<1>8. /\ papers' = [x \in DeskPapers |-> papers'[x]]
      /\ \A x \in DeskPapers : GoodOrNone(papers'[x]) /\ (papers[x] # NoPaper => papers'[x] # NoPaper)
      /\ \A x \in DeskPapers \ {d} : papers'[x] = papers[x]
  BY <1>2, <1>6, <1>7 DEF GoodOrNone
<1> QED
  BY <1>1, <1>2, <1>8, OtherInv DEF DeskObjects

-----------------------------------------------------------------------------
LEMMA DeskStarts == DeskInit => DeskInv
<1> SUFFICES ASSUME DeskInit PROVE DeskInv
  OBVIOUS
<1>1. GoodCard(staffCard)
  <2>1. /\ staffCard.edo \in {"not_invited", "notified", "active"} /\ staffCard \in DeskCard
        /\ staffCard.pkg = "signed" => staffCard.edo = "active"
    <3> DEFINE new == [edo |-> "not_invited", pkg |-> "none", key |-> FALSE, phone |-> TRUE, works |-> TRUE]
               invited == [edo |-> "notified", pkg |-> "sent", key |-> FALSE, phone |-> TRUE, works |-> FALSE]
               ready == [edo |-> "active", pkg |-> "signed", key |-> TRUE, phone |-> TRUE, works |-> TRUE]
    <3>1. new \in DeskCard /\ invited \in DeskCard /\ ready \in DeskCard
      BY DEF DeskCard, EdoStatuses, PackageStatuses
    <3>2. staffCard = new \/ staffCard = invited \/ staffCard = ready
      BY DEF DeskInit
    <3>3. staffCard \in DeskCard
      BY <3>1, <3>2, Zenon
    <3>4. /\ new.edo = "not_invited" /\ new.pkg = "none" /\ invited.edo = "notified"
          /\ invited.pkg = "sent" /\ ready.edo = "active" /\ ready.pkg = "signed"
      OBVIOUS
    <3> HIDE DEF new, invited, ready
    <3> QED
      BY <3>2, <3>3, <3>4
  <2> QED
    BY <2>1 DEF GoodCard
<1>2. papers \in [DeskPapers -> {NoPaper, Draft("bilateral")}] /\ GoodPaper(Draft("bilateral"))
  BY PaperFrozen DEF DeskInit, Draft, Types
<1>3. /\ \A o \in DeskObjects : /\ desk[o] = Truth(o) /\ deskReads[o] = NoDeskRead /\ ~Arrived(o)
                                /\ deskDialog[o] = NoDeskDialog
      /\ desk = [o \in DeskObjects |-> desk[o]] /\ deskReads = [o \in DeskObjects |-> deskReads[o]]
      /\ deskDialog = [o \in DeskObjects |-> deskDialog[o]]
  BY DEF DeskInit, Arrived
<1>4. \A d \in DeskPapers : d \in DeskObjects /\ desk[d] = papers[d]
  BY <1>3, DeskAssumption DEF Truth, DeskObjects
<1>5. \A d \in DeskPapers : GoodOrNone(papers[d])
  BY <1>2 DEF GoodOrNone
<1>6. /\ papers = [d \in DeskPapers |-> papers[d]] /\ journal \in Nat /\ deskJobs = {}
      /\ template \in [first : DeskStaff \cup {NoStaff}, field : DeskStaff \cup {NoStaff}]
      /\ unseen = {} /\ ticked = {}
  BY <1>2 DEF DeskInit
<1>7. DeskData
  BY <1>1, <1>3, <1>4, <1>5, <1>6 DEF DeskData
<1>8. PapersStay
  BY <1>3, <1>4 DEF PapersStay
<1>9. ShownOrComing
  BY <1>3 DEF ShownOrComing
<1>10. OpenDialogIsOffered
  BY <1>3, <1>4 DEF OpenDialogIsOffered
<1> QED
  BY <1>7, <1>8, <1>9, <1>10 DEF DeskInv

LEMMA DeskSteps == DeskInv /\ [DeskNext]_deskVars => DeskInv'
<1> SUFFICES ASSUME DeskInv, [DeskNext]_deskVars PROVE DeskInv'
  OBVIOUS
<1>1. CASE OfficersStep
  BY <1>1, OfficersStepFrame, DeskOnlyInv DEF DeskInv
<1>2. CASE \E o \in DeskObjects : ServeDeskRead(o)
  BY <1>2, ServeReadInv
<1>3. CASE \E o \in DeskObjects : ArriveDeskRead(o)
  BY <1>3, ArriveReadInv
<1>4. CASE \E d \in DeskPapers : EmployeeActs(d)
  BY <1>4, ActsInv
<1>5. CASE \E d \in DeskPapers, type \in {"bilateral", "unilateral"}, freeze \in BOOLEAN :
             CreatePaper(d, type, freeze) \/ UploadPaper(d, type)
  BY <1>5, CreateInv
<1>6. CASE EmployeeGetsKey
  BY <1>6, GetsKeyInv
<1>7. CASE \E j \in deskJobs : ServeDeskJob(j) \/ LoseDeskJob(j) \/ AnswerDeskJob(j)
  BY <1>7, ServeJobInv, LoseJobInv, AnswerJobInv
<1>8. CASE UNCHANGED deskVars
  BY ZenonT(60), <1>8 DEF deskVars, DeskInv, DeskData, PapersStay, ShownOrComing, OpenDialogIsOffered, Arrived, Truth,
              Waiting, DeskOffers
<1> QED
  BY <1>1, <1>2, <1>3, <1>4, <1>5, <1>6, <1>7, <1>8, Zenon DEF DeskNext, OfficersStep

(* The page of the officer without its fairness.                           *)
DeskSafe == DeskInit /\ [][DeskNext]_deskVars

(* The strengthening: what the statuses say of the signatures, that a      *)
(* document once made stays, and that what is shown is true or will be     *)
(* read again.                                                             *)
THEOREM DeskInvariant == DeskSafe => []DeskInv
<1>1. DeskInit => DeskInv
  BY DeskStarts
<1>2. DeskInv /\ [DeskNext]_deskVars => DeskInv'
  BY DeskSteps
<1> QED
  BY <1>1, <1>2, PTL DEF DeskSafe

LEMMA DeskInvTyped == DeskInv => DeskTypeOK
<1> SUFFICES ASSUME DeskInv PROVE DeskTypeOK
  OBVIOUS
<1>1. \A d \in DeskPapers : papers[d] \in DeskPaper \cup {NoPaper}
  BY DEF DeskInv, DeskData, GoodOrNone, GoodPaper
<1>2. papers \in [DeskPapers -> DeskPaper \cup {NoPaper}]
  BY <1>1 DEF DeskInv, DeskData
<1> QED
  BY <1>2 DEF DeskTypeOK, DeskInv, DeskData, GoodCard

LEMMA DeskInvQuiet == DeskInv => QuietDeskIsTrue
  BY DEF DeskInv, ShownOrComing, QuietDeskIsTrue

LEMMA DeskInvFresh == DeskInv => FreshButtonsWork
<1> SUFFICES ASSUME DeskInv PROVE FreshButtonsWork
  OBVIOUS
<1>1. ASSUME NEW op \in DeskOffers("card"), desk["card"].card = staffCard, ~CardAccepts(staffCard, op)
      PROVE  \/ op = "invite" /\ ~(staffCard.works /\ staffCard.phone)
             \/ op = "consent" /\ staffCard.pkg = "cancelled"
  <2>1. op \in CardOffers(staffCard)
    BY <1>1 DEF DeskOffers
  <2>2. GoodCard(staffCard) /\ staffCard.edo \in EdoStatuses /\ staffCard.pkg \in PackageStatuses
    BY DEF DeskInv, DeskData, GoodCard, DeskCard
  <2> QED
    BY <1>1, <2>1, <2>2 DEF CardOffers, CardAccepts, GoodCard, EdoStatuses, PackageStatuses
<1>2. ASSUME NEW d \in DeskPapers, NEW op \in DeskOffers(d), desk[d] = papers[d],
             ~PaperAccepts(papers[d], op)
      PROVE  op = "send" /\ ~EmployeeReady
  <2>1. papers[d] # NoPaper /\ op \in PaperOffers(papers[d])
    BY <1>2, DeskAssumption DEF DeskOffers
  <2>2. GoodPaper(papers[d])
    BY <2>1 DEF DeskInv, DeskData, GoodOrNone
  <2> QED
    BY <1>2, <2>1, <2>2 DEF PaperOffers, PaperButtons, PaperAccepts, GoodPaper
<1> QED
  BY <1>1, <1>2 DEF FreshButtonsWork

(* Every variable of the page of the officer keeps its type.               *)
THEOREM DeskTyped == DeskSafe => []DeskTypeOK
  BY DeskInvariant, DeskInvTyped, PTL

(* When nothing is in flight the page of the officer is right about every  *)
(* object but those that changed unseen, for any number of documents,      *)
(* requests and dialogs and whichever of them fail.                        *)
THEOREM QuietDeskAlwaysTrue == DeskSafe => []QuietDeskIsTrue
  BY DeskInvariant, DeskInvQuiet, PTL

(* A dialog open on a document asks for something its shown status allows: *)
(* the sheet is mounted anew before the status changes under the dialog.   *)
THEOREM OpenDialogAlwaysOffered == DeskSafe => []OpenDialogIsOffered
<1>1. DeskInv => OpenDialogIsOffered
  BY DEF DeskInv
<1> QED
  BY <1>1, DeskInvariant, PTL

(* A button of a sheet that shows the truth is served: the two conditions, *)
(* of the page and of the server, agree on every state that can be reached.*)
THEOREM FreshButtonsAlwaysWork == DeskSafe => []FreshButtonsWork
  BY DeskInvariant, DeskInvFresh, PTL

-----------------------------------------------------------------------------
(* ScreeningRoom                                                           *)
(* The player.                                                             *)
PlayerInv == {playerUrl, urlAsked} \subseteq {0, seenTake}

LEMMA PlayerFollows == ASSUME PlayerInv, PlayerEffect PROVE PlayerInv'
<1>1. CASE <<seenMeeting', seenTake'>> = <<seenMeeting, seenTake>>
  BY <1>1 DEF PlayerEffect, playerSide, PlayerInv
<1>2. CASE <<seenMeeting', seenTake'>> # <<seenMeeting, seenTake>>
  BY <1>2 DEF PlayerEffect, PlayerInv
<1> QED
  BY <1>1, <1>2

LEMMA PlayerSteps == PlayerInv /\ [RoomNext]_roomVars => PlayerInv'
<1> SUFFICES ASSUME PlayerInv, [RoomNext]_roomVars PROVE PlayerInv'
  OBVIOUS
<1>1. CASE UNCHANGED <<seenTake, playerSide>>
  BY <1>1 DEF PlayerInv, playerSide
<1>2. CASE Seen
  BY <1>2, PlayerFollows DEF Seen
<1>3. ASSUME NEW f \in urlAnswers, NEW works \in BOOLEAN, LinkArrives(f, works) PROVE PlayerInv'
  BY <1>3 DEF LinkArrives, Awaited, PlayerInv
<1>4. CASE ReloadPlayer
  BY <1>4 DEF ReloadPlayer, PlayerInv
<1>5. ASSUME NEW v \in BOOLEAN, SaveConsent(v) PROVE PlayerInv'
  BY <1>5, <1>1, <1>2 DEF SaveConsent, roomCache
<1>6. ASSUME NEW v \in BOOLEAN, StartMeeting(v) PROVE PlayerInv'
  BY <1>6, <1>2 DEF StartMeeting
<1>7. ASSUME NEW v \in BOOLEAN, EndsElsewhere(v) \/ FinishFails(v) \/ DiskFails(v) PROVE PlayerInv'
  BY <1>7, <1>1 DEF EndsElsewhere, FinishFails, DiskFails, roomCache
<1>8. CASE RequestMic \/ RequestTab \/ TabEnded \/ ResumeCapture \/ AttachFromDisk \/ DiskUploaded
  BY <1>8, <1>1 DEF RequestMic, RequestTab, TabEnded, ResumeCapture, AttachFromDisk, DiskUploaded, roomCache
<1>9. CASE Finish \/ MaxDurationEffect
  BY <1>9, <1>1 DEF Finish, MaxDurationEffect, Finalize, roomCache
<1>10. CASE DiskAttached \/ ReadMeeting \/ ReloadRoom \/ DeleteMeeting
  BY <1>10, <1>2 DEF DiskAttached, ReadMeeting, ReloadRoom, DeleteMeeting
<1>11. ASSUME NEW h \in Handlers, UploadDone(h) \/ SavingFails(h) \/ UploadUnanswered(h) \/ AttachUnanswered(h)
       PROVE  PlayerInv'
  BY <1>11, <1>1 DEF UploadDone, SavingFails, UploadUnanswered, AttachUnanswered, Fails, roomCache
<1>12. ASSUME NEW h \in Handlers, AttachDone(h) \/ EndDone(h) PROVE PlayerInv'
  BY <1>12, <1>2 DEF AttachDone, EndDone
<1>13. CASE CycleStatus \/ QuestionsUpdated \/ ReadPlan \/ UNCHANGED roomVars
  BY <1>13, <1>1 DEF CycleStatus, QuestionsUpdated, ReadPlan, roomVars, pageSide, roomCache
<1>14. ASSUME NEW j \in markJobs, ServeStatus(j) \/ StatusSaved(j) \/ StatusFails(j) PROVE PlayerInv'
  BY <1>14, <1>1 DEF ServeStatus, StatusSaved, StatusFails, pageSide, roomCache
<1>15. ASSUME NEW to \in {"asked", "answered"}, NEW d \in BOOLEAN, AgentMarks(to, d) PROVE PlayerInv'
  BY <1>15, <1>1 DEF AgentMarks, pageSide, roomCache
<1>16. ASSUME NEW h \in Retries, RetryUpload(h) PROVE PlayerInv'
  BY <1>16, <1>1 DEF RetryUpload, roomCache
<1> QED
  BY <1>3, <1>4, <1>5, <1>6, <1>7, <1>8, <1>9, <1>10, <1>11, <1>12, <1>13, <1>14, <1>15, <1>16, Zenon
     DEF RoomNext

-----------------------------------------------------------------------------
(* The plan. What an answer or an event carries is what its version of the *)
(* mark was; and while nothing was missed, the newest version is shown or  *)
(* is still on its way to the page.                                        *)
Marks == {"pending", "asked", "answered", "skipped"}
Carries(to, version) ==
  version \in Nat /\ version <= markVersion /\ (version = markVersion /\ version # 0 => to = mark)
AMark(j) ==
  /\ j.to \in Marks /\ j.before \in Marks /\ Carries(j.to, j.version)
  /\ j = [id |-> j.id, to |-> j.to, before |-> j.before, version |-> j.version]
NewsSound ==
  markNews = NoNews \/ (markNews.to \in Marks /\ markNews.version # 0 /\ Carries(markNews.to, markNews.version))
NewestOnItsWay ==
  \/ markFetch
  \/ \E j \in markJobs : j.version \in {0, markVersion}
  \/ markNews # NoNews /\ markNews.version = markVersion
NewestShown == toldVersion = markVersion /\ shownMark = mark
PlanInv ==
  /\ {mark, shownMark} \subseteq Marks /\ markMissed \subseteq {"lost", "overtaken"}
  /\ markVersion \in Nat /\ toldVersion \in Nat /\ toldVersion <= markVersion
  /\ NewsSound
  /\ \A j \in markJobs : AMark(j)
  /\ markMissed = {} => NewestOnItsWay \/ NewestShown

LEMMA MarksCycle == \A m \in Marks : NextMark[m] \in Marks
  BY DEF Marks, NextMark

(* Hearing of a version: it was overtaken, or it is the newest, or what is *)
(* the newest is still on its way.                                         *)
LEMMA HearsNews ==
  ASSUME PlanInv, NEW to \in Marks, NEW version, version # 0, Carries(to, version), Hears(to, version)
  PROVE  /\ shownMark' = to /\ markMissed' \subseteq {"lost", "overtaken"}
         /\ toldVersion' \in Nat /\ toldVersion' <= markVersion
         /\ markMissed' = {} => /\ markMissed = {}
                                /\ version = markVersion => toldVersion' = markVersion /\ to = mark
                                /\ version # markVersion => toldVersion # markVersion
  BY DEF PlanInv, Carries, Hears

LEMMA PlanSteps == PlanInv /\ [RoomNext]_roomVars => PlanInv'
<1> SUFFICES ASSUME PlanInv, [RoomNext]_roomVars PROVE PlanInv'
  OBVIOUS
<1>0. /\ {mark, shownMark} \subseteq Marks /\ markMissed \subseteq {"lost", "overtaken"}
      /\ markVersion \in Nat /\ toldVersion \in Nat /\ toldVersion <= markVersion
      /\ NewsSound
      /\ \A j \in markJobs : AMark(j)
  BY DEF PlanInv
<1>1. CASE UNCHANGED planSide
  BY <1>1 DEF PlanInv, planSide, NewsSound, AMark, Carries, NewestOnItsWay, NewestShown
<1>2. CASE CycleStatus
  <2> DEFINE asked == [id |-> marks, to |-> NextMark[shownMark], before |-> shownMark, version |-> 0]
  <2>1. /\ UNCHANGED <<mark, markNews, markMissed, markVersion, toldVersion>>
        /\ shownMark' = NextMark[shownMark]
        /\ markJobs' = markJobs \cup {asked}
    BY <1>2 DEF CycleStatus
  <2>2. AMark(asked) /\ asked.version = 0
    BY <1>0, MarksCycle DEF AMark, Carries
  <2> HIDE DEF asked
  <2>3. \A j \in markJobs' : AMark(j)'
    BY <1>0, <2>1, <2>2 DEF AMark, Carries
  <2>4. NewestOnItsWay' /\ NewsSound'
    BY <1>0, <2>1, <2>2 DEF NewestOnItsWay, NewsSound, Carries
  <2> QED
    BY <1>0, <2>1, <2>3, <2>4, MarksCycle DEF PlanInv
<1>3. CASE QuestionsUpdated
  <2>1. /\ markNews # NoNews /\ markNews' = NoNews /\ Hears(markNews.to, markNews.version)
        /\ UNCHANGED <<mark, markJobs, markFetch, markVersion>>
    BY <1>3 DEF QuestionsUpdated
  <2>2. markNews.to \in Marks /\ markNews.version # 0 /\ Carries(markNews.to, markNews.version)
    BY <1>0, <2>1 DEF NewsSound
  <2>3. /\ shownMark' = markNews.to /\ markMissed' \subseteq {"lost", "overtaken"}
        /\ toldVersion' \in Nat /\ toldVersion' <= markVersion
        /\ markMissed' = {} => /\ markMissed = {}
                               /\ markNews.version = markVersion => toldVersion' = markVersion /\ markNews.to = mark
                               /\ markNews.version # markVersion => toldVersion # markVersion
    BY <2>1, <2>2, HearsNews
  <2>4. ASSUME markMissed' = {} PROVE NewestOnItsWay' \/ NewestShown'
    <3>1. NewestOnItsWay \/ NewestShown
      BY <2>3, <2>4 DEF PlanInv
    <3> QED
      BY <2>1, <2>3, <2>4, <3>1 DEF NewestOnItsWay, NewestShown
  <2>5. \A j \in markJobs' : AMark(j)'
    BY <1>0, <2>1 DEF AMark, Carries
  <2> QED
    BY <1>0, <2>1, <2>2, <2>3, <2>4, <2>5 DEF PlanInv, NewsSound
<1>4. CASE ReadPlan
  BY <1>4, <1>0 DEF ReadPlan, PlanInv, NewsSound, AMark, Carries, NewestShown
<1>5. ASSUME NEW j \in markJobs, ServeStatus(j) PROVE PlanInv'
  <2>k. PICK k : k = [j EXCEPT !.version = markVersion + 1]
    OBVIOUS
  <2>1. /\ UNCHANGED <<shownMark, markNews, markMissed, toldVersion, markFetch>> /\ mark' = j.to
        /\ markVersion' = markVersion + 1
        /\ markJobs' = (markJobs \ {j}) \cup {k}
    BY <1>5, <2>k DEF ServeStatus
  <2>2. k = [id |-> j.id, to |-> j.to, before |-> j.before, version |-> markVersion + 1] /\ j.to \in Marks
        /\ j.before \in Marks
    BY <1>0, <2>k DEF AMark
  <2>3. AMark(k)' /\ k.version = markVersion'
    BY <1>0, <2>1, <2>2 DEF AMark, Carries
  <2>4. \A i \in markJobs : AMark(i)'
    BY <1>0, <2>1 DEF AMark, Carries
  <2>5. NewestOnItsWay' /\ NewsSound'
    BY <1>0, <2>1, <2>3 DEF NewestOnItsWay, NewsSound, Carries
  <2> QED
    BY <1>0, <2>1, <2>2, <2>3, <2>4, <2>5 DEF PlanInv
<1>6. ASSUME NEW j \in markJobs, StatusSaved(j) PROVE PlanInv'
  <2>1. /\ UNCHANGED <<mark, markNews, markFetch, markVersion>> /\ j.version # 0 /\ Hears(j.to, j.version)
        /\ markJobs' = markJobs \ {j}
    BY <1>6 DEF StatusSaved
  <2>2. j.to \in Marks /\ Carries(j.to, j.version)
    BY <1>0 DEF AMark
  <2>3. /\ shownMark' = j.to /\ markMissed' \subseteq {"lost", "overtaken"}
        /\ toldVersion' \in Nat /\ toldVersion' <= markVersion
        /\ markMissed' = {} => /\ markMissed = {}
                               /\ j.version = markVersion => toldVersion' = markVersion /\ j.to = mark
                               /\ j.version # markVersion => toldVersion # markVersion
    BY <2>1, <2>2, HearsNews
  <2>4. ASSUME markMissed' = {} PROVE NewestOnItsWay' \/ NewestShown'
    <3>1. NewestOnItsWay \/ NewestShown
      BY <2>3, <2>4 DEF PlanInv
    <3>2. CASE j.version = markVersion
      BY <2>1, <2>3, <2>4, <3>2 DEF NewestShown
    <3>3. CASE j.version # markVersion
      BY <2>1, <2>3, <2>4, <3>1, <3>3 DEF NewestOnItsWay, NewestShown
    <3> QED
      BY <3>2, <3>3
  <2>5. \A i \in markJobs' : AMark(i)'
    BY <1>0, <2>1 DEF AMark, Carries
  <2>6. NewsSound'
    BY <1>0, <2>1 DEF NewsSound, Carries
  <2> QED
    BY <1>0, <2>1, <2>2, <2>3, <2>4, <2>5, <2>6 DEF PlanInv
<1>7. ASSUME NEW j \in markJobs, StatusFails(j) PROVE PlanInv'
  <2>1. /\ UNCHANGED <<mark, markNews, markMissed, markVersion, toldVersion>>
        /\ shownMark' = j.before /\ j.before \in Marks
        /\ markJobs' = markJobs \ {j} /\ markFetch' = TRUE
    BY <1>0, <1>7 DEF StatusFails, AMark, RereadsOnError
  <2> QED
    BY <1>0, <2>1 DEF PlanInv, NewsSound, AMark, Carries, NewestOnItsWay
<1>8. ASSUME NEW to \in {"asked", "answered"}, NEW d \in BOOLEAN, AgentMarks(to, d) PROVE PlanInv'
  <2>1. /\ UNCHANGED <<shownMark, markJobs, markFetch, toldVersion>> /\ mark' = to /\ to \in Marks
        /\ markVersion' = markVersion + 1
        /\ markNews' = (IF d THEN [to |-> to, version |-> markVersion + 1] ELSE markNews)
        /\ markMissed' = (IF d THEN markMissed ELSE markMissed \cup {"lost"})
    BY <1>8 DEF AgentMarks, Marks
  <2>2. \A i \in markJobs : AMark(i)'
    BY <1>0, <2>1 DEF AMark, Carries
  <2>3. NewsSound' /\ (d => NewestOnItsWay')
    BY <1>0, <2>1 DEF NewsSound, Carries, NewestOnItsWay, NoNews
  <2>4. ~d => markMissed' # {}
    BY <2>1
  <2> QED
    BY <1>0, <2>1, <2>2, <2>3, <2>4 DEF PlanInv
<1>9. ASSUME NEW v \in BOOLEAN,
             SaveConsent(v) \/ StartMeeting(v) \/ EndsElsewhere(v) \/ FinishFails(v) \/ DiskFails(v)
      PROVE  PlanInv'
  BY <1>9, <1>1 DEF SaveConsent, StartMeeting, EndsElsewhere, FinishFails, DiskFails
<1>10. CASE RequestMic \/ RequestTab \/ TabEnded \/ ResumeCapture \/ AttachFromDisk \/ DiskUploaded \/ DiskAttached
  BY <1>10, <1>1 DEF RequestMic, RequestTab, TabEnded, ResumeCapture, AttachFromDisk, DiskUploaded, DiskAttached
<1>11. CASE Finish \/ MaxDurationEffect
  BY <1>11, <1>1 DEF Finish, MaxDurationEffect, Finalize
<1>12. CASE ReadMeeting \/ ReloadRoom \/ DeleteMeeting \/ ReloadPlayer \/ UNCHANGED roomVars
  BY <1>12, <1>1 DEF ReadMeeting, ReloadRoom, DeleteMeeting, ReloadPlayer, roomVars
<1>13. ASSUME NEW h \in Handlers, UploadDone(h) \/ AttachDone(h) \/ EndDone(h) PROVE PlanInv'
  BY <1>13, <1>1 DEF UploadDone, AttachDone, EndDone
<1>14. ASSUME NEW h \in Handlers, SavingFails(h) \/ UploadUnanswered(h) \/ AttachUnanswered(h) PROVE PlanInv'
  BY <1>14, <1>1 DEF SavingFails, UploadUnanswered, AttachUnanswered, Fails
<1>15. ASSUME NEW f \in urlAnswers, NEW works \in BOOLEAN, LinkArrives(f, works) PROVE PlanInv'
  BY <1>15, <1>1 DEF LinkArrives
<1>16. ASSUME NEW h \in Retries, RetryUpload(h) PROVE PlanInv'
  BY <1>16, <1>1 DEF RetryUpload
<1> QED
  BY <1>2, <1>3, <1>4, <1>5, <1>6, <1>7, <1>8, <1>9, <1>10, <1>11, <1>12, <1>13, <1>14, <1>15, <1>16, Zenon
     DEF RoomNext

LEMMA PlanInvQuiet == PlanInv => QuietPlanIsTrue
  BY DEF PlanInv, QuietPlanIsTrue, NewestOnItsWay, NewestShown

-----------------------------------------------------------------------------
(* The takes.                                                              *)
HandlerSteps == {"idle", "upload", "attach", "end"}
AHandler(x, n, stored) ==
  /\ x = [step |-> x.step, take |-> x.take, file |-> x.file]
  /\ x.step \in HandlerSteps /\ x.take \in 0..n /\ x.file \in 0..n
  /\ x.step \in {"upload", "attach"} => x.take # 0
  /\ x.step = "attach" => x.file # 0 /\ x.file \in stored
APicked(x, n, stored) ==
  /\ x = [step |-> x.step, take |-> x.take]
  /\ x.step # "idle" => x.take \in (1..n) \cup {MaxTakes + 1}
  /\ x.step = "attach" => x.take \in stored
Tallies == [1..MaxTakes -> Nat]

(* Where takes may be, and that what is to be attached is in the store.    *)
TakesData ==
  /\ takes \in Nat /\ takes <= MaxTakes /\ MaxTakes \in Nat
  /\ meeting \in {"draft", "live", "over", "gone"}
  /\ recording \in 0..takes /\ pendingTake \in 0..takes /\ uploadedTake \in 0..takes
  /\ handlers = [h \in Handlers |-> handlers[h]]
  /\ \A h \in Handlers : AHandler(handlers[h], takes, storedTakes)
  /\ APicked(picked, takes, storedTakes)
  /\ saidSaved \subseteq (1..takes) \cup {MaxTakes + 1}
  /\ uploadsOf \in Tallies /\ excused \in Tallies
  /\ \A n \in 1..MaxTakes : n > takes => uploadsOf[n] = 0
  /\ uploadedTake # 0 => uploadedTake \in storedTakes
  /\ attachedTake \in {0} \cup storedTakes
  /\ recording # 0 => meeting # "draft"
  /\ seenMeeting = "live" => meeting # "draft"

(* How many handlers are uploading.                                        *)
Up(x) == IF x.step = "upload" THEN 1 ELSE 0
Uploads == Up(handlers["finish"]) + Up(handlers["limit"]) + Up(handlers["retry"]) + Up(handlers["again"])

(* With one take: nobody saves it while it is being recorded; an upload    *)
(* more than one was excused, those under way counted; and whoever lets go *)
(* of it knows it kept, lost or reported as saved.                         *)
RecordedApart ==
  recording = 1 => pendingTake = 0 /\ uploadedTake = 0 /\ uploadsOf[1] = 0 /\ \A h \in Handlers : ~Saving(h)
UploadsExcused ==
  /\ uploadsOf[1] + Uploads <= 1 + excused[1]
  /\ pendingTake = 1 /\ uploadedTake = 0 /\ Uploads = 0 => uploadsOf[1] <= excused[1]
  /\ \A h \in Handlers : handlers[h].step = "attach" => uploadedTake = 1
InSomeHand == recording = 1 \/ pendingTake = 1 \/ \E h \in Handlers : Saving(h) /\ handlers[h].take = 1
KeptInHand ==
  /\ \A h \in Retries : Saving(h) => pendingTake = 1 \/ 1 \in saidSaved \cup lostTakes
  /\ InSomeHand \/ 1 \in saidSaved \cup lostTakes \cup leftTakes \/ meeting = "gone"
  /\ 1 \in saidSaved => 1 \in storedTakes \/ meeting = "gone"
Sole == RecordedApart /\ UploadsExcused /\ KeptInHand
TakesInv == TakesData /\ (takes = 1 => Sole)

takesVars == <<meeting, attachedTake, storedTakes, recording, takes, pendingTake, uploadedTake, handlers,
               picked, saidSaved, lostTakes, leftTakes, uploadsOf, excused>>

LEMMA HandlersParts ==
  /\ Handlers = {"finish", "limit", "retry", "again"} /\ Retries = {"retry", "again"}
  /\ Retries \subseteq Handlers /\ "finish" \in Handlers /\ "limit" \in Handlers
  BY DEF Handlers, Retries

LEMMA RestingSound ==
  ASSUME NEW n \in Nat, NEW stored
  PROVE  AHandler(Resting, n, stored) /\ Resting.step = "idle" /\ Up(Resting) = 0
  BY DEF AHandler, Resting, HandlerSteps, Up

(* More takes, or more in the store, do not disturb what is under way.     *)
LEMMA HandlersGrow ==
  ASSUME NEW n \in Nat, NEW m \in Nat, n <= m, NEW stored, NEW more, stored \subseteq more, NEW x
  PROVE  /\ AHandler(x, n, stored) => AHandler(x, m, more)
         /\ APicked(x, n, stored) => APicked(x, m, more)
  BY DEF AHandler, APicked

LEMMA NobodyUploads == (\A h \in Handlers : handlers[h].step # "upload") => Uploads = 0
  BY HandlersParts DEF Uploads, Up

(* With no upload of the one take under way nobody uploads.                *)
LEMMA NotUnderWay == TakesData /\ takes = 1 /\ ~UnderWay(1) => Uploads = 0
<1> SUFFICES ASSUME TakesData, takes = 1, ~UnderWay(1) PROVE \A h \in Handlers : handlers[h].step # "upload"
  BY NobodyUploads
<1> TAKE h \in Handlers
<1>1. AHandler(handlers[h], 1, storedTakes)
  BY DEF TakesData
<1> QED
  BY <1>1 DEF AHandler, UnderWay

LEMMA TakesStart == RoomInit => TakesInv
<1> SUFFICES ASSUME RoomInit PROVE TakesInv
  OBVIOUS
<1>1. /\ meeting = "draft" /\ attachedTake = 0 /\ storedTakes = {} /\ seenMeeting = "draft"
      /\ recording = 0 /\ takes = 0 /\ pendingTake = 0 /\ uploadedTake = 0 /\ saidSaved = {}
      /\ handlers = [h \in Handlers |-> Resting] /\ picked = NotPicked
      /\ uploadsOf = [n \in 1..MaxTakes |-> 0] /\ excused = [n \in 1..MaxTakes |-> 0]
  BY DEF RoomInit
<1>2. MaxTakes \in Nat /\ uploadsOf \in Tallies /\ excused \in Tallies
  BY <1>1, RoomAssumption DEF Tallies
<1>3. handlers = [h \in Handlers |-> handlers[h]] /\ \A h \in Handlers : handlers[h] = Resting
  BY <1>1
<1>4. APicked(picked, 0, storedTakes) /\ AHandler(Resting, 0, storedTakes)
  BY <1>1, RestingSound DEF APicked, NotPicked
<1> QED
  BY <1>1, <1>2, <1>3, <1>4 DEF TakesInv, TakesData

(* Nothing happens to the takes.                                           *)
LEMMA TakesKeep ==
  ASSUME TakesInv, UNCHANGED takesVars, seenMeeting' \in {seenMeeting, meeting}
  PROVE  TakesInv'
<1>1. TakesData'
  BY DEF takesVars, TakesInv, TakesData
<1>2. takes = 1 => Sole'
  BY DEF takesVars, TakesInv, Sole, RecordedApart, UploadsExcused, Uploads, KeptInHand, InSomeHand, Saving
<1> QED
  BY <1>1, <1>2 DEF TakesInv, takesVars

LEMMA CaptureTakes ==
  ASSUME TakesInv, NEW works \in BOOLEAN, StartCapture(works), meeting' \in {"live", "over"}, meeting # "gone",
         UNCHANGED <<attachedTake, storedTakes, pendingTake, handlers, picked, saidSaved, lostTakes, leftTakes,
                     uploadsOf, excused>>
  PROVE  TakesInv'
<1>1. CASE works
  <2>1. takes < MaxTakes /\ takes' = takes + 1 /\ recording' = takes + 1 /\ uploadedTake' = 0
    BY <1>1 DEF StartCapture, Forgets
  <2>2. takes \in Nat /\ takes' \in Nat /\ takes <= takes' /\ takes' <= MaxTakes /\ 1..takes \subseteq 1..takes'
        /\ MaxTakes \in Nat /\ TakesData
    BY <2>1 DEF TakesInv, TakesData
  <2>3. APicked(picked, takes', storedTakes) /\ \A h \in Handlers : AHandler(handlers[h], takes', storedTakes)
    BY <2>2, HandlersGrow DEF TakesData
  <2>4. \A n \in 1..MaxTakes : n > takes' => uploadsOf[n] = 0
    BY <2>1, <2>2 DEF TakesData
  <2>5. recording' \in 0..takes' /\ pendingTake \in 0..takes' /\ uploadedTake' \in 0..takes'
        /\ saidSaved \subseteq (1..takes') \cup {MaxTakes + 1}
    BY <2>1, <2>2 DEF TakesData
  <2>6. TakesData'
    BY <2>1, <2>2, <2>3, <2>4, <2>5 DEF TakesData
  <2>7. ASSUME takes' = 1 PROVE Sole'
    <3>1. takes = 0 /\ MaxTakes >= 1 /\ recording' = 1 /\ pendingTake = 0
      BY <2>1, <2>2, <2>7 DEF TakesData
    <3>2. \A h \in Handlers : handlers[h].step \notin {"upload", "attach"}
      BY <3>1 DEF TakesInv, TakesData, AHandler
    <3>3. uploadsOf[1] = 0 /\ excused[1] \in Nat /\ 1 \notin saidSaved
      BY <2>2, <3>1 DEF TakesData, Tallies
    <3>4. Uploads' = 0
      BY <3>2, HandlersParts DEF Uploads, Up
    <3>5. KeptInHand'
      BY <3>1, <3>2, <3>3, HandlersParts DEF KeptInHand, InSomeHand, Saving
    <3> QED
      BY <2>1, <3>1, <3>2, <3>3, <3>4, <3>5 DEF Sole, RecordedApart, UploadsExcused, Saving
  <2> QED
    BY <2>6, <2>7 DEF TakesInv
<1>2. CASE ~works
  <2>1. UNCHANGED <<takes, recording, uploadedTake>>
    BY <1>2 DEF StartCapture
  <2>2. TakesData'
    BY <2>1 DEF TakesInv, TakesData
  <2>3. takes = 1 => Sole'
    BY <2>1 DEF TakesInv, Sole, RecordedApart, UploadsExcused, Uploads, KeptInHand, InSomeHand, Saving
  <2> QED
    BY <2>1, <2>2, <2>3 DEF TakesInv
<1> QED
  BY <1>1, <1>2

(* One handler takes a step: the others stay.                              *)
LEMMA OneMoves ==
  ASSUME TakesData, NEW h \in Handlers, NEW x, handlers' = [handlers EXCEPT ![h] = x]
  PROVE  /\ handlers' = [g \in Handlers |-> handlers'[g]]
         /\ handlers'[h] = x /\ \A g \in Handlers \ {h} : handlers'[g] = handlers[g]
         /\ Uploads \in Nat /\ Uploads' = (Uploads - Up(handlers[h])) + Up(x)
<1>1. handlers = [g \in Handlers |-> handlers[g]]
  BY DEF TakesData
<1>2. /\ handlers' = [g \in Handlers |-> handlers'[g]]
      /\ handlers'[h] = x /\ \A g \in Handlers \ {h} : handlers'[g] = handlers[g]
  BY <1>1
<1>3. \A y : Up(y) \in {0, 1}
  BY DEF Up
<1>4. Uploads \in Nat
  BY <1>3 DEF Uploads
<1>5. Uploads' = Up(handlers'["finish"]) + Up(handlers'["limit"]) + Up(handlers'["retry"]) + Up(handlers'["again"])
  BY DEF Uploads, Up
<1>6. h \in {"finish", "limit", "retry", "again"}
  BY HandlersParts
<1>7. \A g \in {"finish", "limit", "retry", "again"} : g = h \/ handlers'[g] = handlers[g]
  BY <1>2, HandlersParts
<1>8. Uploads' = (Uploads - Up(handlers[h])) + Up(x)
  <2>1. CASE h = "finish"
    BY <1>2, <1>3, <1>5, <1>7, <2>1 DEF Uploads
  <2>2. CASE h = "limit"
    BY <1>2, <1>3, <1>5, <1>7, <2>2 DEF Uploads
  <2>3. CASE h = "retry"
    BY <1>2, <1>3, <1>5, <1>7, <2>3 DEF Uploads
  <2>4. CASE h = "again"
    BY <1>2, <1>3, <1>5, <1>7, <2>4 DEF Uploads
  <2> QED
    BY <1>6, <2>1, <2>2, <2>3, <2>4
<1> QED
  BY <1>2, <1>4, <1>8

(* Such a step keeps the data if what it writes is sound.                  *)
LEMMA OneMovesData ==
  ASSUME TakesData, NEW h \in Handlers, NEW x, handlers' = [handlers EXCEPT ![h] = x],
         AHandler(x, takes, storedTakes'), storedTakes \subseteq storedTakes',
         recording' \in {0, recording}, pendingTake' \in 0..takes,
         uploadedTake' = uploadedTake \/ (uploadedTake' \in 0..takes /\ uploadedTake' \in storedTakes'),
         attachedTake' = attachedTake \/ attachedTake' \in storedTakes',
         meeting' = meeting \/ (meeting = "live" /\ meeting' = "over"),
         seenMeeting' \in {seenMeeting, meeting'}, saidSaved' \subseteq saidSaved \cup 1..takes,
         uploadsOf' \in Tallies, excused' \in Tallies,
         \A n \in 1..MaxTakes : n > takes => uploadsOf'[n] = 0, UNCHANGED <<takes, picked>>
  PROVE  TakesData'
<1>1. /\ handlers' = [g \in Handlers |-> handlers'[g]]
      /\ handlers'[h] = x /\ \A g \in Handlers \ {h} : handlers'[g] = handlers[g]
  BY OneMoves
<1>2. takes \in Nat /\ takes <= takes
  BY DEF TakesData
<1>3. ASSUME NEW g \in Handlers PROVE AHandler(handlers'[g], takes, storedTakes')
  <2>1. CASE g = h
    BY <1>1, <2>1
  <2>2. CASE g # h
    BY <1>1, <1>2, <2>2, HandlersGrow DEF TakesData
  <2> QED
    BY <2>1, <2>2
<1>4. APicked(picked, takes, storedTakes')
  BY <1>2, HandlersGrow DEF TakesData
<1>5. saidSaved' \subseteq (1..takes) \cup {MaxTakes + 1}
  BY DEF TakesData
<1> QED
  BY <1>1, <1>3, <1>4, <1>5 DEF TakesData

(* A handler begins with what was recorded, or is kept, in hand.           *)
LEMMA BegunTakes ==
  ASSUME TakesData, NEW h \in Handlers, NEW take \in 0..takes, BeginUpload(h, take)
  PROVE  \E x : /\ handlers' = [handlers EXCEPT ![h] = x]
                /\ AHandler(x, takes, storedTakes) /\ x.take = take
                /\ x.step = (IF take = 0 THEN "end" ELSE IF uploadedTake # 0 THEN "attach" ELSE "upload")
<1> DEFINE new == IF take = 0 THEN [step |-> "end", take |-> 0, file |-> 0]
                  ELSE IF FileOf(take) # 0 THEN [step |-> "attach", take |-> take, file |-> FileOf(take)]
                  ELSE [step |-> "upload", take |-> take, file |-> 0]
<1>1. handlers' = [handlers EXCEPT ![h] = new]
  BY DEF BeginUpload
<1>2. /\ uploadedTake \in 0..takes /\ takes \in Nat
      /\ uploadedTake # 0 => uploadedTake \in storedTakes
  BY DEF TakesData
<1>3. /\ AHandler(new, takes, storedTakes) /\ new.take = take
      /\ new.step = (IF take = 0 THEN "end" ELSE IF uploadedTake # 0 THEN "attach" ELSE "upload")
  BY <1>2 DEF FileOf, AHandler, HandlerSteps
<1> HIDE DEF new
<1> QED
  BY <1>1, <1>3

LEMMA FinalizeTakes ==
  ASSUME TakesInv, NEW h \in {"finish", "limit"}, Finalize(h)
  PROVE  TakesInv'
<1>1. /\ handlers[h].step = "idle" /\ recording' = 0 /\ BeginUpload(h, recording)
      /\ UNCHANGED <<meeting, attachedTake, storedTakes, seenMeeting, takes, pendingTake, uploadedTake,
                     picked, saidSaved, lostTakes, leftTakes, uploadsOf, excused>>
  BY DEF Finalize, MayFinalize, Idle, serverSide, roomCache, tallies
<1>2. h \in Handlers /\ h \notin Retries /\ recording \in 0..takes /\ TakesData
  BY DEF Handlers, Retries, TakesInv, TakesData
<1>3. PICK x : /\ handlers' = [handlers EXCEPT ![h] = x]
               /\ AHandler(x, takes, storedTakes) /\ x.take = recording
               /\ x.step = (IF recording = 0 THEN "end" ELSE IF uploadedTake # 0 THEN "attach" ELSE "upload")
  BY <1>1, <1>2, BegunTakes
<1>4. /\ handlers'[h] = x /\ \A g \in Handlers \ {h} : handlers'[g] = handlers[g]
      /\ Uploads \in Nat /\ Uploads' = (Uploads - Up(handlers[h])) + Up(x)
  BY <1>2, <1>3, OneMoves
<1>5. TakesData'
  <2>1. pendingTake' \in 0..takes /\ uploadsOf' \in Tallies /\ excused' \in Tallies
        /\ \A n \in 1..MaxTakes : n > takes => uploadsOf'[n] = 0
    BY <1>1, <1>2 DEF TakesData
  <2> QED
    BY <1>1, <1>2, <1>3, <2>1, OneMovesData
<1>6. ASSUME takes = 1 PROVE Sole'
  <2>0. Sole /\ recording \in {0, 1} /\ uploadsOf[1] \in Nat /\ excused[1] \in Nat
    BY <1>2, <1>6 DEF TakesInv, TakesData, Tallies
  <2>1. RecordedApart'
    BY <1>1 DEF RecordedApart
  <2>2. \A g \in Handlers : g = h \/ handlers'[g] = handlers[g]
    BY <1>4
  <2>3. UploadsExcused'
    <3>1. CASE recording = 0
      BY <1>1, <1>3, <1>4, <2>0, <2>2, <3>1 DEF Sole, UploadsExcused, Up
    <3>2. CASE recording = 1
      <4>1. uploadedTake = 0 /\ uploadsOf[1] = 0 /\ pendingTake = 0 /\ \A g \in Handlers : ~Saving(g)
        BY <2>0, <3>2 DEF Sole, RecordedApart
      <4>2. Uploads = 0 /\ Up(handlers[h]) = 0 /\ x.step = "upload"
        BY <1>1, <1>3, <3>2, <4>1, NobodyUploads DEF Saving, Up
      <4>3. Uploads' = 1
        BY <1>4, <4>2 DEF Up
      <4>4. \A g \in Handlers : handlers'[g].step # "attach"
        BY <1>4, <2>2, <4>1, <4>2 DEF Saving
      <4> QED
        BY <1>1, <2>0, <4>1, <4>3, <4>4 DEF UploadsExcused
    <3> QED
      BY <2>0, <3>1, <3>2
  <2>4. KeptInHand'
    <3>1. \A g \in Retries : Saving(g)' => pendingTake = 1 \/ 1 \in saidSaved \cup lostTakes
      BY <1>2, <1>4, <2>0, HandlersParts DEF Sole, KeptInHand, Saving
    <3>2. InSomeHand => InSomeHand'
      <4>1. CASE recording = 1
        <5>1. x.take = 1 /\ x.step \in {"upload", "attach"}
          BY <1>3, <4>1
        <5> QED
          BY <1>2, <1>4, <5>1 DEF InSomeHand, Saving
      <4>2. CASE pendingTake = 1
        BY <1>1, <4>2 DEF InSomeHand
      <4>3. CASE \E g \in Handlers : Saving(g) /\ handlers[g].take = 1
        <5>1. PICK g \in Handlers : Saving(g) /\ handlers[g].take = 1
          BY <4>3
        <5>2. g # h
          BY <1>1, <5>1 DEF Saving
        <5> QED
          BY <2>2, <5>1, <5>2 DEF InSomeHand, Saving
      <4> QED
        BY <4>1, <4>2, <4>3 DEF InSomeHand
    <3> QED
      BY <1>1, <2>0, <3>1, <3>2 DEF Sole, KeptInHand
  <2> QED
    BY <2>1, <2>3, <2>4 DEF Sole
<1> QED
  BY <1>1, <1>5, <1>6 DEF TakesInv

(* What the extra attempt uploads is excused when another is under way.    *)
LEMMA RetryTakes == ASSUME TakesInv, NEW h \in Retries, RetryUpload(h) PROVE TakesInv'
<1>1. /\ BeginUpload(h, pendingTake) /\ pendingTake # 0 /\ handlers[h].step = "idle"
      /\ excused' = (IF uploadedTake = 0 /\ UnderWay(pendingTake)
                     THEN [excused EXCEPT ![pendingTake] = @ + 1] ELSE excused)
      /\ UNCHANGED <<meeting, attachedTake, storedTakes, seenMeeting, takes, pendingTake, uploadedTake,
                     recording, picked, saidSaved, lostTakes, leftTakes, uploadsOf>>
  BY DEF RetryUpload, RoomOffers, Idle, FileOf, Excuse, serverSide, roomCache, capture
<1>2. h \in Handlers /\ pendingTake \in 0..takes /\ TakesData /\ pendingTake \in 1..MaxTakes
  BY <1>1, HandlersParts DEF TakesInv, TakesData
<1>3. PICK x : /\ handlers' = [handlers EXCEPT ![h] = x]
               /\ AHandler(x, takes, storedTakes) /\ x.take = pendingTake
               /\ x.step = (IF pendingTake = 0 THEN "end" ELSE IF uploadedTake # 0 THEN "attach" ELSE "upload")
  BY <1>1, <1>2, BegunTakes
<1>4. /\ handlers'[h] = x /\ \A g \in Handlers \ {h} : handlers'[g] = handlers[g]
      /\ Uploads \in Nat /\ Uploads' = (Uploads - Up(handlers[h])) + Up(x)
  BY <1>2, <1>3, OneMoves
<1>5. TakesData'
  <2>1. pendingTake' \in 0..takes /\ uploadsOf' \in Tallies
        /\ \A n \in 1..MaxTakes : n > takes => uploadsOf'[n] = 0
    BY <1>1, <1>2 DEF TakesData
  <2>2. excused' \in Tallies
    BY <1>1, <1>2 DEF TakesData, Tallies
  <2> QED
    BY <1>1, <1>2, <1>3, <2>1, <2>2, OneMovesData
<1>6. ASSUME takes = 1 PROVE Sole'
  <2>0. Sole /\ pendingTake = 1 /\ uploadsOf[1] \in Nat /\ excused \in Tallies /\ 1 \in 1..MaxTakes
    BY <1>1, <1>2, <1>6 DEF TakesInv, TakesData, Tallies
  <2>1. recording # 1
    BY <2>0 DEF Sole, RecordedApart
  <2>2. RecordedApart'
    BY <1>1, <2>1 DEF RecordedApart
  <2>3. \A g \in Handlers : g = h \/ handlers'[g] = handlers[g]
    BY <1>4
  <2>4. UploadsExcused'
    <3>1. uploadedTake \in {0, 1} /\ Up(handlers[h]) = 0 /\ excused[1] \in Nat
      BY <1>1, <1>2, <1>6, <2>0 DEF TakesData, Up, Tallies
    <3>2. CASE uploadedTake = 1
      <4>1. Uploads' = Uploads /\ excused' = excused
        BY <1>1, <1>3, <1>4, <2>0, <3>1, <3>2 DEF Up
      <4> QED
        BY <1>1, <2>0, <3>2, <4>1 DEF Sole, UploadsExcused
    <3>3. CASE uploadedTake = 0
      <4>1. Uploads' = Uploads + 1 /\ x.step = "upload"
        BY <1>3, <1>4, <2>0, <3>1, <3>3 DEF Up
      <4>2. \A g \in Handlers : handlers'[g].step # "attach"
        BY <1>4, <2>0, <2>3, <3>3, <4>1 DEF Sole, UploadsExcused
      <4>3. uploadsOf[1] + Uploads' <= 1 + excused'[1]
        <5>1. CASE UnderWay(1)
          <6>1. excused'[1] = excused[1] + 1
            BY <1>1, <2>0, <3>3, <5>1 DEF Tallies
          <6> QED
            BY <1>4, <2>0, <3>1, <4>1, <6>1 DEF Sole, UploadsExcused
        <5>2. CASE ~UnderWay(1)
          <6>1. Uploads = 0 /\ excused' = excused
            BY <1>1, <1>2, <1>6, <2>0, <5>2, NotUnderWay
          <6>2. uploadsOf[1] <= excused[1]
            BY <2>0, <3>3, <6>1 DEF Sole, UploadsExcused
          <6> QED
            BY <2>0, <3>1, <4>1, <6>1, <6>2
        <5> QED
          BY <5>1, <5>2
      <4>4. Uploads' # 0
        BY <1>4, <4>1
      <4> QED
        BY <1>1, <4>2, <4>3, <4>4 DEF UploadsExcused
    <3> QED
      BY <3>1, <3>2, <3>3
  <2>5. KeptInHand'
    BY <1>1, <2>0 DEF Sole, KeptInHand, InSomeHand
  <2> QED
    BY <2>2, <2>4, <2>5 DEF Sole
<1> QED
  BY <1>1, <1>5, <1>6 DEF TakesInv

(* What is uploaded is in the store and is what will be attached.          *)
LEMMA UploadTakes == ASSUME TakesInv, NEW h \in Handlers, UploadDone(h) PROVE TakesInv'
<1>a. PICK take : take = handlers[h].take
  OBVIOUS
<1>x. PICK x : x = [step |-> "attach", take |-> take, file |-> take]
  OBVIOUS
<1>0. /\ handlers[h].step = "upload" /\ AHandler(handlers[h], takes, storedTakes)
      /\ take \in 1..takes /\ take \in 1..MaxTakes /\ takes \in Nat
      /\ handlers[h] = [step |-> handlers[h].step, take |-> take, file |-> handlers[h].file]
      /\ handlers = [g \in Handlers |-> handlers[g]] /\ TakesData
  BY <1>a DEF UploadDone, TakesInv, TakesData, AHandler
<1>1. /\ storedTakes' = storedTakes \cup {take} /\ uploadsOf' = [uploadsOf EXCEPT ![take] = @ + 1]
      /\ uploadedTake' = take
      /\ UNCHANGED <<meeting, attachedTake, seenMeeting, takes, pendingTake, recording, picked, saidSaved,
                     lostTakes, leftTakes, excused>>
  BY <1>a DEF UploadDone, Stores, roomCache, capture
<1>2. handlers' = [handlers EXCEPT ![h] = x]
  <2>1. handlers' = [handlers EXCEPT ![h].step = "attach", ![h].file = take]
    BY <1>a DEF UploadDone
  <2> DEFINE y == [handlers EXCEPT ![h].step = "attach"]
  <2>2. handlers' = [y EXCEPT ![h].file = take]
    BY <2>1, Zenon
  <2>4. /\ y = [g \in Handlers |-> y[g]] /\ y[h] = [step |-> "attach", take |-> take, file |-> handlers[h].file]
        /\ \A g \in Handlers \ {h} : y[g] = handlers[g]
    BY <1>0
  <2> HIDE DEF y
  <2>5. [y[h] EXCEPT !.file = take] = x
    BY <2>4, <1>x
  <2>6. handlers' = [y EXCEPT ![h] = x]
    BY <2>2, <2>5
  <2> QED
    BY <1>0, <2>4, <2>6
<1>3. /\ handlers'[h] = x /\ \A g \in Handlers \ {h} : handlers'[g] = handlers[g]
      /\ Uploads \in Nat /\ Uploads' = (Uploads - Up(handlers[h])) + Up(x)
  BY <1>0, <1>2, OneMoves
<1>4. AHandler(x, takes, storedTakes') /\ x.step = "attach" /\ x.take = take /\ x.file = take
  BY <1>x, <1>0, <1>1 DEF AHandler, HandlerSteps
<1>5. TakesData'
  <2>1. /\ pendingTake' \in 0..takes /\ excused' \in Tallies /\ storedTakes \subseteq storedTakes'
        /\ uploadedTake' \in 0..takes /\ uploadedTake' \in storedTakes'
    BY <1>0, <1>1 DEF TakesData
  <2>2. uploadsOf' \in Tallies /\ \A n \in 1..MaxTakes : n > takes => uploadsOf'[n] = 0
    BY <1>0, <1>1 DEF TakesData, Tallies
  <2> QED
    BY <1>0, <1>1, <1>2, <1>4, <2>1, <2>2, OneMovesData
<1>6. ASSUME takes = 1 PROVE Sole'
  <2>0. Sole /\ take = 1 /\ 1 \in 1..MaxTakes /\ uploadsOf \in Tallies /\ excused[1] \in Nat
    BY <1>0, <1>6 DEF TakesInv, TakesData, Tallies
  <2>1. recording # 1
    BY <1>0, <2>0 DEF Sole, RecordedApart, Saving
  <2>2. RecordedApart'
    BY <1>1, <2>1 DEF RecordedApart
  <2>3. uploadsOf'[1] = uploadsOf[1] + 1 /\ uploadsOf[1] \in Nat
    BY <1>1, <2>0 DEF Tallies
  <2>4. Uploads' = Uploads - 1
    BY <1>0, <1>3, <1>4 DEF Up
  <2>5. UploadsExcused'
    BY <1>1, <1>3, <2>0, <2>3, <2>4 DEF Sole, UploadsExcused
  <2>6. \A g \in Handlers : Saving(g)' = Saving(g) /\ handlers'[g].take = handlers[g].take
    <3>1. TAKE g \in Handlers
    <3>2. CASE g = h
      BY <1>a, <1>0, <1>3, <1>4, <3>2 DEF Saving
    <3>3. CASE g # h
      BY <1>3, <3>3 DEF Saving
    <3> QED
      BY <3>2, <3>3
  <2>7. InSomeHand => InSomeHand'
    BY <1>1, <2>6 DEF InSomeHand
  <2>8. KeptInHand'
    BY <1>1, <2>0, <2>6, <2>7, HandlersParts DEF Sole, KeptInHand
  <2> QED
    BY <2>2, <2>5, <2>8 DEF Sole
<1> QED
  BY <1>1, <1>5, <1>6 DEF TakesInv

(* After its request a handler comes to its last step; trying again ends.  *)
LEMMA AfterParts ==
  ASSUME TakesData, NEW h \in Handlers, Saving(h)
  PROVE  /\ \A stored : AHandler(AfterAttach(h), takes, stored)
         /\ AfterAttach(h).step \in {"idle", "end"}
         /\ handlers[h].take \in 1..takes /\ takes \in Nat
         /\ handlers[h].step = "attach" => handlers[h].file \in 1..takes /\ handlers[h].file \in storedTakes
<1>0. /\ AHandler(handlers[h], takes, storedTakes) /\ takes \in Nat
      /\ handlers[h] = [step |-> handlers[h].step, take |-> handlers[h].take, file |-> handlers[h].file]
  BY DEF TakesData, AHandler
<1>1. CASE h \in Retries
  BY <1>0, <1>1, RestingSound DEF AfterAttach, AHandler, Saving
<1>2. CASE h \notin Retries
  <2>1. AfterAttach(h) = [step |-> "end", take |-> handlers[h].take, file |-> handlers[h].file]
    BY <1>0, <1>2 DEF AfterAttach
  <2> QED
    BY <1>0, <2>1 DEF AHandler, HandlerSteps, Saving
<1> QED
  BY <1>1, <1>2

LEMMA AttachTakes == ASSUME TakesInv, NEW h \in Handlers, AttachDone(h) PROVE TakesInv'
<1>x. PICK x : x = AfterAttach(h)
  OBVIOUS
<1>1. /\ handlers[h].step = "attach" /\ meeting # "gone" /\ attachedTake' = handlers[h].file
      /\ handlers' = [handlers EXCEPT ![h] = x]
      /\ pendingTake' = (IF h \in Retries THEN 0 ELSE pendingTake)
      /\ saidSaved' = saidSaved \cup {handlers[h].take}
      /\ seenMeeting' = meeting'
      /\ UNCHANGED <<meeting, storedTakes, takes, uploadedTake, recording, picked, lostTakes, leftTakes,
                     uploadsOf, excused>>
  BY <1>x DEF AttachDone, Seen, capture
<1>2. Saving(h) /\ TakesData
  BY <1>1 DEF Saving, TakesInv
<1>3. /\ AHandler(x, takes, storedTakes') /\ x.step \in {"idle", "end"}
      /\ handlers[h].take \in 1..takes /\ takes \in Nat
      /\ handlers[h].file \in 1..takes /\ handlers[h].file \in storedTakes
  BY <1>1, <1>2, <1>x, AfterParts
<1>4. /\ handlers'[h] = x /\ \A g \in Handlers \ {h} : handlers'[g] = handlers[g]
      /\ Uploads \in Nat /\ Uploads' = (Uploads - Up(handlers[h])) + Up(x)
  BY <1>1, <1>2, OneMoves
<1>5. TakesData'
  <2>1. /\ pendingTake' \in 0..takes /\ excused' \in Tallies /\ uploadsOf' \in Tallies
        /\ saidSaved' \subseteq saidSaved \cup 1..takes
        /\ \A n \in 1..MaxTakes : n > takes => uploadsOf'[n] = 0
    BY <1>1, <1>2, <1>3 DEF TakesData
  <2> QED
    BY <1>1, <1>2, <1>3, <2>1, OneMovesData
<1>6. ASSUME takes = 1 PROVE Sole'
  <2>0. Sole /\ handlers[h].take = 1 /\ handlers[h].file = 1 /\ 1 \in storedTakes
    BY <1>3, <1>6 DEF TakesInv
  <2>1. recording # 1 /\ uploadedTake = 1
    BY <1>1, <1>2, <2>0 DEF Sole, RecordedApart, UploadsExcused
  <2>2. RecordedApart'
    BY <1>1, <2>1 DEF RecordedApart
  <2>3. Uploads' = Uploads
    BY <1>1, <1>3, <1>4 DEF Up
  <2>4. UploadsExcused'
    BY <1>1, <1>4, <2>0, <2>1, <2>3 DEF Sole, UploadsExcused
  <2>5. KeptInHand'
    BY <1>1, <2>0 DEF KeptInHand
  <2> QED
    BY <2>2, <2>4, <2>5 DEF Sole
<1> QED
  BY <1>1, <1>5, <1>6 DEF TakesInv

(* A take that could not be saved, or whose answer was lost, is kept.      *)
LEMMA FailedTakes ==
  ASSUME TakesInv, NEW h \in Handlers, SavingFails(h) \/ UploadUnanswered(h) \/ AttachUnanswered(h)
  PROVE  TakesInv'
<1>x. PICK x : x = AfterAttach(h)
  OBVIOUS
<1>t. PICK take : take = handlers[h].take
  OBVIOUS
<1>1. /\ Saving(h) /\ handlers' = [handlers EXCEPT ![h] = x]
      /\ pendingTake' = (IF h \in Retries THEN pendingTake ELSE take)
      /\ UNCHANGED <<meeting, seenMeeting, takes, uploadedTake, recording, picked, saidSaved, lostTakes,
                     leftTakes>>
  BY <1>x, <1>t DEF SavingFails, UploadUnanswered, AttachUnanswered, Fails, KeptTake, roomCache, capture, Saving
<1>s. \/ /\ UNCHANGED <<storedTakes, uploadsOf, excused>>
         /\ (attachedTake' = attachedTake \/ (handlers[h].step = "attach" /\ attachedTake' = handlers[h].file))
      \/ /\ handlers[h].step = "upload" /\ storedTakes' = storedTakes \cup {take} /\ attachedTake' = attachedTake
         /\ uploadsOf' = [uploadsOf EXCEPT ![take] = @ + 1] /\ excused' = [excused EXCEPT ![take] = @ + 1]
  BY <1>t DEF SavingFails, UploadUnanswered, AttachUnanswered, Stores, Excuse
<1>2. TakesData
  BY DEF TakesInv
<1>3. /\ AHandler(x, takes, storedTakes') /\ x.step \in {"idle", "end"} /\ take \in 1..takes /\ takes \in Nat
      /\ handlers[h].step = "attach" => handlers[h].file \in storedTakes
  BY <1>1, <1>2, <1>x, <1>t, AfterParts
<1>4. /\ handlers'[h] = x /\ \A g \in Handlers \ {h} : handlers'[g] = handlers[g]
      /\ Uploads \in Nat /\ Uploads' = (Uploads - Up(handlers[h])) + Up(x)
  BY <1>1, <1>2, OneMoves
<1>5. TakesData'
  <2>1. /\ pendingTake' \in 0..takes /\ storedTakes \subseteq storedTakes'
        /\ attachedTake' = attachedTake \/ attachedTake' \in storedTakes'
    BY <1>1, <1>2, <1>3, <1>s DEF TakesData
  <2>2. /\ excused' \in Tallies /\ uploadsOf' \in Tallies
        /\ \A n \in 1..MaxTakes : n > takes => uploadsOf'[n] = 0
    <3>1. take \in 1..MaxTakes /\ takes <= MaxTakes
      BY <1>2, <1>3 DEF TakesData
    <3>2. CASE UNCHANGED <<uploadsOf, excused>>
      BY <1>2, <3>2 DEF TakesData
    <3>3. CASE uploadsOf' = [uploadsOf EXCEPT ![take] = @ + 1] /\ excused' = [excused EXCEPT ![take] = @ + 1]
      BY <1>2, <1>3, <3>1, <3>3 DEF TakesData, Tallies
    <3> QED
      BY <1>s, <3>2, <3>3
  <2> QED
    BY <1>1, <1>2, <1>3, <2>1, <2>2, OneMovesData
<1>6. ASSUME takes = 1 PROVE Sole'
  <2>0. Sole /\ take = 1 /\ 1 \in 1..MaxTakes /\ uploadsOf \in Tallies /\ excused \in Tallies
        /\ uploadsOf[1] \in Nat /\ excused[1] \in Nat
    BY <1>2, <1>3, <1>6 DEF TakesInv, TakesData, Tallies
  <2>1. recording # 1
    BY <1>1, <2>0 DEF Sole, RecordedApart
  <2>2. RecordedApart'
    BY <1>1, <2>1 DEF RecordedApart
  <2>3. UploadsExcused'
    <3>1. \A g \in Handlers : handlers'[g].step = "attach" => handlers[g].step = "attach"
      BY <1>3, <1>4
    <3>2. CASE handlers[h].step = "attach"
      <4>1. Uploads' = Uploads /\ uploadedTake = 1
        BY <1>3, <1>4, <2>0, <3>2 DEF Up, Sole, UploadsExcused
      <4> QED
        BY <1>1, <1>s, <2>0, <3>1, <3>2, <4>1 DEF Sole, UploadsExcused
    <3>3. CASE handlers[h].step = "upload"
      <4>1. Uploads' = Uploads - 1
        BY <1>3, <1>4, <3>3 DEF Up
      <4>2. \/ uploadsOf'[1] = uploadsOf[1] /\ excused'[1] = excused[1]
            \/ uploadsOf'[1] = uploadsOf[1] + 1 /\ excused'[1] = excused[1] + 1
        BY <1>s, <2>0 DEF Tallies
      <4> QED
        BY <1>1, <1>4, <2>0, <3>1, <4>1, <4>2 DEF Sole, UploadsExcused
    <3> QED
      BY <1>1, <3>2, <3>3 DEF Saving
  <2>4. \A g \in Handlers : Saving(g)' => Saving(g) /\ handlers'[g] = handlers[g]
    BY <1>3, <1>4 DEF Saving
  <2>5. \/ pendingTake' = 1
        \/ 1 \in saidSaved \cup lostTakes
    BY <1>1, <2>0 DEF Sole, KeptInHand
  <2>6. storedTakes \subseteq storedTakes'
    BY <1>s
  <2>7. KeptInHand'
    BY <1>1, <2>0, <2>4, <2>5, <2>6, HandlersParts DEF Sole, KeptInHand, InSomeHand
  <2> QED
    BY <2>2, <2>3, <2>7 DEF Sole
<1> QED
  BY <1>1, <1>5, <1>6 DEF TakesInv

(* The last step, or its failure: whoever comes to it has let go already.  *)
LEMMA EndTakes ==
  ASSUME TakesInv, NEW h \in Handlers, handlers[h].step = "end", handlers' = [handlers EXCEPT ![h] = Resting],
         meeting' = meeting \/ (meeting = "live" /\ meeting' = "over"),
         seenMeeting' \in {seenMeeting, meeting'},
         UNCHANGED <<attachedTake, storedTakes, recording, takes, pendingTake, uploadedTake, picked, saidSaved,
                     lostTakes, leftTakes, uploadsOf, excused>>
  PROVE  TakesInv'
<1>0. TakesData /\ takes \in Nat
  BY DEF TakesInv, TakesData
<1>1. AHandler(Resting, takes, storedTakes') /\ Resting.step = "idle" /\ Up(Resting) = 0
  BY <1>0, RestingSound
<1>2. /\ handlers'[h] = Resting /\ \A g \in Handlers \ {h} : handlers'[g] = handlers[g]
      /\ Uploads \in Nat /\ Uploads' = (Uploads - Up(handlers[h])) + Up(Resting)
  BY <1>0, OneMoves
<1>3. TakesData'
  <2>1. /\ pendingTake' \in 0..takes /\ uploadsOf' \in Tallies /\ excused' \in Tallies
        /\ \A n \in 1..MaxTakes : n > takes => uploadsOf'[n] = 0
    BY <1>0 DEF TakesData
  <2> QED
    BY <1>0, <1>1, <2>1, OneMovesData
<1>4. ASSUME takes = 1 PROVE Sole'
  <2>0. Sole
    BY <1>4 DEF TakesInv
  <2>1. Uploads' = Uploads
    BY <1>1, <1>2 DEF Up
  <2>2. \A g \in Handlers : /\ Saving(g)' = Saving(g)
                            /\ Saving(g) => handlers'[g] = handlers[g]
                            /\ handlers'[g].step = "attach" => handlers[g].step = "attach"
    <3>1. TAKE g \in Handlers
    <3>2. CASE g = h
      BY <1>1, <1>2, <3>2 DEF Saving
    <3>3. CASE g # h
      BY <1>2, <3>3 DEF Saving
    <3> QED
      BY <3>2, <3>3
  <2>3. RecordedApart' /\ UploadsExcused'
    BY <2>0, <2>1, <2>2 DEF Sole, RecordedApart, UploadsExcused
  <2>4. KeptInHand'
    BY <2>0, <2>2, HandlersParts DEF Sole, KeptInHand, InSomeHand
  <2> QED
    BY <2>3, <2>4 DEF Sole
<1> QED
  BY <1>3, <1>4 DEF TakesInv

(* A file from the disk touches no take but the pending one.               *)
LEMMA DiskTakes ==
  ASSUME TakesInv, storedTakes \subseteq storedTakes', APicked(picked', takes, storedTakes'),
         attachedTake' = attachedTake \/ attachedTake' \in storedTakes',
         seenMeeting' \in {seenMeeting, meeting},
         \/ UNCHANGED <<pendingTake, saidSaved, lostTakes>>
         \/ /\ pendingTake' = 0 /\ saidSaved \subseteq saidSaved' /\ lostTakes \subseteq lostTakes'
            /\ pendingTake # 0 => pendingTake \in saidSaved' \cup lostTakes'
            /\ saidSaved' \subseteq saidSaved \cup (((1..takes) \cup {MaxTakes + 1}) \cap storedTakes'),
         UNCHANGED <<meeting, recording, takes, uploadedTake, handlers, leftTakes, uploadsOf, excused>>
  PROVE  TakesInv'
<1>0. TakesData /\ takes \in Nat /\ takes <= takes
  BY DEF TakesInv, TakesData
<1>1. \A g \in Handlers : AHandler(handlers[g], takes, storedTakes')
  BY <1>0, HandlersGrow DEF TakesData
<1>2. pendingTake' \in 0..takes /\ saidSaved' \subseteq (1..takes) \cup {MaxTakes + 1}
  BY <1>0 DEF TakesData
<1>3. TakesData'
  BY <1>0, <1>1, <1>2 DEF TakesData
<1>4. ASSUME takes = 1 PROVE Sole'
  <2>0. Sole /\ pendingTake \in {0, 1}
    BY <1>0, <1>4 DEF TakesInv, TakesData
  <2>1. RecordedApart'
    BY <2>0 DEF Sole, RecordedApart, Saving
  <2>2. UploadsExcused'
    BY <2>0 DEF Sole, UploadsExcused, Uploads
  <2>3. saidSaved \cup lostTakes \subseteq saidSaved' \cup lostTakes'
    OBVIOUS
  <2>4. pendingTake = 1 => pendingTake' = 1 \/ 1 \in saidSaved' \cup lostTakes'
    OBVIOUS
  <2>5. InSomeHand => InSomeHand' \/ 1 \in saidSaved' \cup lostTakes'
    BY <2>4 DEF InSomeHand, Saving
  <2>6. KeptInHand'
    BY <2>0, <2>3, <2>4, <2>5 DEF Sole, KeptInHand, Saving
  <2> QED
    BY <2>1, <2>2, <2>6 DEF Sole
<1> QED
  BY <1>3, <1>4 DEF TakesInv

LEMMA PickTakes == ASSUME TakesInv, AttachFromDisk \/ DiskUploaded PROVE TakesInv'
<1>0. TakesData
  BY DEF TakesInv
<1>1. CASE AttachFromDisk
  <2>1. /\ picked' = [step |-> "upload", take |-> IF pendingTake # 0 THEN pendingTake ELSE MaxTakes + 1]
        /\ UNCHANGED <<meeting, attachedTake, storedTakes, seenMeeting, recording, takes, pendingTake,
                       uploadedTake, handlers, saidSaved, lostTakes, leftTakes, uploadsOf, excused>>
    BY <1>1 DEF AttachFromDisk, serverSide, roomCache, capture, tallies
  <2>2. pendingTake # 0 => pendingTake \in 1..takes
    BY <1>0 DEF TakesData
  <2>3. APicked(picked', takes, storedTakes')
    BY <2>1, <2>2 DEF APicked
  <2>4. storedTakes \subseteq storedTakes' /\ seenMeeting' \in {seenMeeting, meeting}
    BY <2>1
  <2> QED
    BY <2>1, <2>3, <2>4, DiskTakes
<1>2. CASE DiskUploaded
  <2>1. /\ picked.step = "upload" /\ picked' = [picked EXCEPT !.step = "attach"]
        /\ storedTakes' = storedTakes \cup {picked.take}
        /\ UNCHANGED <<meeting, attachedTake, seenMeeting, recording, takes, pendingTake,
                       uploadedTake, handlers, saidSaved, lostTakes, leftTakes, uploadsOf, excused>>
    BY <1>2 DEF DiskUploaded, roomCache, capture, tallies
  <2>2. picked = [step |-> picked.step, take |-> picked.take] /\ picked.take \in (1..takes) \cup {MaxTakes + 1}
    BY <1>0, <2>1 DEF TakesData, APicked
  <2>3. picked' = [step |-> "attach", take |-> picked.take]
    BY <2>1, <2>2
  <2>4. APicked(picked', takes, storedTakes')
    BY <2>1, <2>2, <2>3 DEF APicked
  <2>5. storedTakes \subseteq storedTakes' /\ seenMeeting' \in {seenMeeting, meeting}
    BY <2>1
  <2> QED
    BY <2>1, <2>4, <2>5, DiskTakes
<1> QED
  BY <1>1, <1>2

(* It is attached, or one of its requests fails.                           *)
LEMMA PickedTakes == ASSUME TakesInv, DiskAttached \/ \E served \in BOOLEAN : DiskFails(served) PROVE TakesInv'
<1>0. TakesData /\ APicked(picked, takes, storedTakes)
  BY DEF TakesInv, TakesData
<1>n. \A stored : APicked(NotPicked, takes, stored)
  BY DEF APicked, NotPicked
<1>1. CASE DiskAttached
  <2>1. /\ picked.step = "attach" /\ attachedTake' = picked.take /\ saidSaved' = saidSaved \cup {picked.take}
        /\ lostTakes' = lostTakes \cup ({pendingTake} \ ({0, picked.take} \cup saidSaved))
        /\ pendingTake' = 0 /\ picked' = NotPicked /\ seenMeeting' = meeting'
        /\ UNCHANGED <<meeting, storedTakes, recording, takes, uploadedTake, handlers, leftTakes, uploadsOf, excused>>
    BY <1>1 DEF DiskAttached, Seen, capture
  <2>2. picked.take \in (1..takes) \cup {MaxTakes + 1} /\ picked.take \in storedTakes
    BY <1>0, <2>1 DEF APicked
  <2>3. /\ pendingTake' = 0 /\ saidSaved \subseteq saidSaved' /\ lostTakes \subseteq lostTakes'
        /\ pendingTake # 0 => pendingTake \in saidSaved' \cup lostTakes'
        /\ saidSaved' \subseteq saidSaved \cup (((1..takes) \cup {MaxTakes + 1}) \cap storedTakes')
    BY <2>1, <2>2
  <2>4. storedTakes \subseteq storedTakes' /\ seenMeeting' \in {seenMeeting, meeting}
        /\ APicked(picked', takes, storedTakes') /\ attachedTake' \in storedTakes'
    BY <1>n, <2>1, <2>2
  <2> QED
    BY <2>1, <2>3, <2>4, DiskTakes
<1>2. ASSUME NEW served \in BOOLEAN, DiskFails(served) PROVE TakesInv'
  <2>1. /\ storedTakes' = (IF served THEN storedTakes \cup {picked.take} ELSE storedTakes)
        /\ attachedTake' = (IF served /\ picked.step = "attach" THEN picked.take ELSE attachedTake)
        /\ picked' = NotPicked
        /\ UNCHANGED <<meeting, seenMeeting, recording, takes, pendingTake, uploadedTake, handlers, saidSaved,
                       lostTakes, leftTakes, uploadsOf, excused>>
    BY <1>2 DEF DiskFails, roomCache, capture, tallies
  <2>2. /\ storedTakes \subseteq storedTakes' /\ seenMeeting' \in {seenMeeting, meeting}
        /\ APicked(picked', takes, storedTakes')
        /\ attachedTake' = attachedTake \/ attachedTake' \in storedTakes'
    BY <1>n, <2>1
  <2> QED
    BY <2>1, <2>2, DiskTakes
<1> QED
  BY <1>1, <1>2

(* The page goes: what only it had is lost or left, or the meeting is gone.*)
LEMMA GoneTakes ==
  ASSUME TakesInv, ForgetPage, UNCHANGED <<takes, uploadsOf, excused, saidSaved>>, seenMeeting' = meeting',
         lostTakes \subseteq lostTakes', leftTakes \subseteq leftTakes',
         \/ UNCHANGED <<meeting, attachedTake, storedTakes>> /\ Unsaved \subseteq lostTakes' \cup leftTakes'
         \/ meeting' = "gone" /\ attachedTake' = 0
  PROVE  TakesInv'
<1>1. /\ recording' = 0 /\ pendingTake' = 0 /\ uploadedTake' = 0
      /\ handlers' = [h \in Handlers |-> Resting] /\ picked' = NotPicked
  BY DEF ForgetPage
<1>2. takes \in Nat /\ TakesData
  BY DEF TakesInv, TakesData
<1>3. AHandler(Resting, takes, storedTakes') /\ Resting.step = "idle" /\ APicked(NotPicked, takes, storedTakes')
  BY <1>2, RestingSound DEF APicked, NotPicked
<1>4. /\ \A h \in Handlers : handlers'[h] = Resting
      /\ handlers' = [h \in Handlers |-> handlers'[h]]
  BY <1>1
<1>5. TakesData'
  <2>1. /\ meeting' \in {"draft", "live", "over", "gone"} /\ attachedTake' \in {0} \cup storedTakes'
        /\ seenMeeting' = "live" => meeting' # "draft"
    BY <1>2 DEF TakesData
  <2> QED
    BY <1>1, <1>2, <1>3, <1>4, <2>1 DEF TakesData
<1>6. ASSUME takes = 1 PROVE Sole'
  <2>0. Sole
    BY <1>6 DEF TakesInv
  <2>1. RecordedApart'
    BY <1>1 DEF RecordedApart
  <2>2. UploadsExcused'
    <3>1. Uploads' = 0
      BY <1>3, <1>4, HandlersParts DEF Uploads, Up
    <3>2. Uploads \in Nat /\ uploadsOf[1] \in Nat /\ excused[1] \in Nat
      <4>1. \A x : Up(x) \in {0, 1}
        BY DEF Up
      <4>2. Uploads \in Nat
        BY <4>1 DEF Uploads
      <4> QED
        BY <1>2, <1>6, <4>2 DEF TakesData, Tallies
    <3> QED
      BY <1>1, <1>3, <1>4, <2>0, <3>1, <3>2 DEF Sole, UploadsExcused
  <2>3. InSomeHand => 1 \in InHand
    BY DEF InSomeHand, InHand
  <2>4. 1 \in saidSaved' \cup lostTakes' \cup leftTakes' \/ meeting' = "gone"
    BY <2>0, <2>3 DEF Sole, KeptInHand, Unsaved
  <2>5. 1 \in saidSaved' => 1 \in storedTakes' \/ meeting' = "gone"
    BY <2>0 DEF Sole, KeptInHand
  <2>6. KeptInHand'
    BY <1>3, <1>4, <2>4, <2>5, HandlersParts DEF KeptInHand, Saving
  <2> QED
    BY <2>1, <2>2, <2>6 DEF Sole
<1> QED
  BY <1>5, <1>6 DEF TakesInv

LEMMA ReloadTakes == ASSUME TakesInv, ReloadRoom PROVE TakesInv'
<1>1. /\ ForgetPage /\ UNCHANGED <<meeting, attachedTake, storedTakes, takes, uploadsOf, excused, saidSaved>>
      /\ seenMeeting' = meeting'
      /\ Unsaved \subseteq lostTakes' \cup leftTakes'
      /\ lostTakes \subseteq lostTakes' /\ leftTakes \subseteq leftTakes'
  BY DEF ReloadRoom, serverSide, Seen
<1> QED
  BY <1>1, GoneTakes

LEMMA DeleteTakes == ASSUME TakesInv, DeleteMeeting PROVE TakesInv'
<1>1. /\ ForgetPage /\ UNCHANGED <<takes, uploadsOf, excused, saidSaved, lostTakes, leftTakes>>
      /\ seenMeeting' = meeting'
      /\ meeting' = "gone" /\ attachedTake' = 0
  BY DEF DeleteMeeting, Seen, tallies
<1> QED
  BY <1>1, GoneTakes

LEMMA EndsTakes == ASSUME TakesInv, NEW v \in BOOLEAN, EndsElsewhere(v) PROVE TakesInv'
<1>1. /\ meeting = "live" /\ meeting' = "over"
      /\ UNCHANGED <<attachedTake, storedTakes, recording, takes, pendingTake, uploadedTake, handlers, picked,
                     saidSaved, lostTakes, leftTakes, uploadsOf, excused, seenMeeting>>
  BY DEF EndsElsewhere, roomCache, capture, saving, tallies
<1>2. TakesData'
  BY <1>1 DEF TakesInv, TakesData
<1>3. takes = 1 => Sole'
  BY <1>1 DEF TakesInv, Sole, RecordedApart, UploadsExcused, Uploads, KeptInHand, InSomeHand, Saving
<1> QED
  BY <1>1, <1>2, <1>3 DEF TakesInv

LEMMA StartTakes == ASSUME TakesInv, NEW v \in BOOLEAN, StartMeeting(v) PROVE TakesInv'
<1>1. /\ UNCHANGED <<attachedTake, storedTakes, pendingTake, handlers, picked, saidSaved, lostTakes, leftTakes,
                     uploadsOf, excused>>
      /\ seenMeeting' = meeting' /\ meeting # "gone"
      /\ \/ meeting' = "live" /\ StartCapture(v)
         \/ UNCHANGED <<meeting, takes, recording, uploadedTake>>
  BY DEF StartMeeting, Seen, Refreshed, tallies
<1>2. CASE meeting' = "live" /\ StartCapture(v)
  BY <1>1, <1>2, CaptureTakes
<1>3. CASE UNCHANGED <<meeting, takes, recording, uploadedTake>>
  BY <1>1, <1>3, TakesKeep DEF takesVars
<1> QED
  BY <1>1, <1>2, <1>3

LEMMA ResumeTakes == ASSUME TakesInv, ResumeCapture PROVE TakesInv'
<1>1. /\ StartCapture(TRUE) /\ seenMeeting = "live"
      /\ UNCHANGED <<meeting, attachedTake, storedTakes, pendingTake, handlers, picked, saidSaved, lostTakes,
                     leftTakes, uploadsOf, excused>>
      /\ meeting # "gone"
  BY DEF ResumeCapture, RoomOffers, serverSide, Refreshed, tallies
<1>2. meeting' \in {"live", "over"}
  BY <1>1 DEF TakesInv, TakesData
<1> QED
  BY <1>1, <1>2, CaptureTakes

LEMMA TakesSteps == TakesInv /\ [RoomNext]_roomVars => TakesInv'
<1> SUFFICES ASSUME TakesInv, [RoomNext]_roomVars PROVE TakesInv'
  OBVIOUS
<1>1. CASE UNCHANGED takesVars /\ seenMeeting' \in {seenMeeting, meeting}
  BY <1>1, TakesKeep
<1>2. ASSUME NEW v \in BOOLEAN, SaveConsent(v) PROVE TakesInv'
  BY <1>2, <1>1 DEF SaveConsent, Seen, roomCache, capture, saving, tallies, takesVars
<1>3. ASSUME NEW v \in BOOLEAN, StartMeeting(v) \/ EndsElsewhere(v) \/ DiskFails(v) PROVE TakesInv'
  BY <1>3, StartTakes, EndsTakes, PickedTakes
<1>4. CASE RequestMic \/ RequestTab \/ TabEnded \/ ReloadPlayer
  BY <1>4, <1>1 DEF RequestMic, RequestTab, TabEnded, ReloadPlayer, serverSide, roomCache, capture, saving,
     tallies, takesVars
<1>5. CASE ReadMeeting
  BY <1>5, <1>1 DEF ReadMeeting, Seen, serverSide, capture, saving, tallies, takesVars
<1>6. CASE Finish \/ MaxDurationEffect
  BY <1>6, FinalizeTakes DEF Finish, MaxDurationEffect
<1>7. CASE CycleStatus \/ QuestionsUpdated \/ ReadPlan \/ UNCHANGED roomVars
  BY <1>7, <1>1 DEF CycleStatus, QuestionsUpdated, ReadPlan, roomVars, serverSide, pageSide, roomCache, capture,
     saving, tallies, takesVars
<1>8. CASE AttachFromDisk \/ DiskUploaded \/ DiskAttached \/ ReloadRoom \/ DeleteMeeting \/ ResumeCapture
  BY <1>8, PickTakes, PickedTakes, ReloadTakes, DeleteTakes, ResumeTakes
<1>9. ASSUME NEW served \in BOOLEAN, FinishFails(served) PROVE TakesInv'
  <2>1. /\ handlers["finish"].step = "end" /\ handlers' = [handlers EXCEPT !["finish"] = Resting]
        /\ meeting' = meeting \/ (meeting = "live" /\ meeting' = "over")
        /\ UNCHANGED <<seenMeeting, attachedTake, storedTakes, recording, takes, pendingTake,
                       uploadedTake, picked, saidSaved, lostTakes, leftTakes, uploadsOf, excused>>
    BY <1>9 DEF FinishFails, Closed, roomCache, capture, tallies
  <2>2. seenMeeting' \in {seenMeeting, meeting'}
    BY <2>1
  <2> QED
    BY <2>1, <2>2, EndTakes, HandlersParts
<1>10. ASSUME NEW h \in Handlers, EndDone(h) PROVE TakesInv'
  <2>1. /\ handlers[h].step = "end" /\ handlers' = [handlers EXCEPT ![h] = Resting]
        /\ meeting' = meeting \/ (meeting = "live" /\ meeting' = "over")
        /\ UNCHANGED <<attachedTake, storedTakes, recording, takes, pendingTake, uploadedTake, picked, saidSaved,
                       lostTakes, leftTakes, uploadsOf, excused>>
    BY <1>10 DEF EndDone, Closed, capture, tallies
  <2>2. seenMeeting' \in {seenMeeting, meeting'}
    BY <1>10 DEF EndDone, Seen
  <2> QED
    BY <2>1, <2>2, EndTakes
<1>11. ASSUME NEW h \in Handlers,
              \/ UploadDone(h) \/ AttachDone(h)
              \/ SavingFails(h) \/ UploadUnanswered(h) \/ AttachUnanswered(h)
       PROVE  TakesInv'
  BY <1>11, UploadTakes, AttachTakes, FailedTakes
<1>12. ASSUME NEW f \in urlAnswers, NEW works \in BOOLEAN, LinkArrives(f, works) PROVE TakesInv'
  BY <1>12, <1>1 DEF LinkArrives, serverSide, capture, saving, tallies, takesVars
<1>13. ASSUME NEW j \in markJobs, ServeStatus(j) \/ StatusSaved(j) \/ StatusFails(j) PROVE TakesInv'
  BY <1>13, <1>1 DEF ServeStatus, StatusSaved, StatusFails, serverSide, pageSide, roomCache, capture, saving,
     tallies, takesVars
<1>14. ASSUME NEW to \in {"asked", "answered"}, NEW d \in BOOLEAN, AgentMarks(to, d) PROVE TakesInv'
  BY <1>14, <1>1 DEF AgentMarks, serverSide, pageSide, roomCache, capture, saving, tallies, takesVars
<1>15. ASSUME NEW h \in Retries, RetryUpload(h) PROVE TakesInv'
  BY <1>15, RetryTakes
<1> QED
  BY <1>2, <1>3, <1>4, <1>5, <1>6, <1>7, <1>8, <1>9, <1>10, <1>11, <1>12, <1>13, <1>14, <1>15, Zenon
     DEF RoomNext

-----------------------------------------------------------------------------
RoomInv == PlayerInv /\ PlanInv /\ TakesInv

LEMMA RoomStarts == RoomInit => RoomInv
<1>1. RoomInit => PlayerInv
  BY DEF RoomInit, PlayerInv
<1>2. RoomInit => PlanInv
  BY DEF RoomInit, PlanInv, Marks, NewsSound, NewestShown
<1> QED
  BY <1>1, <1>2, TakesStart DEF RoomInv

LEMMA RoomSteps == RoomInv /\ [RoomNext]_roomVars => RoomInv'
  BY PlayerSteps, PlanSteps, TakesSteps DEF RoomInv

LEMMA RoomInvTyped == RoomInv => RoomTypeOK
<1> SUFFICES ASSUME RoomInv PROVE RoomTypeOK
  OBVIOUS
<1>1. {shownMark, mark} \subseteq DOMAIN NextMark /\ markMissed \subseteq {"lost", "overtaken"}
  BY DEF RoomInv, PlanInv, Marks, NextMark
<1>2. \A h \in Handlers : handlers[h].step = "attach" => handlers[h].file \in storedTakes
  BY DEF RoomInv, TakesInv, TakesData, AHandler
<1> QED
  BY <1>1, <1>2 DEF RoomInv, TakesInv, TakesData, APicked, RoomTypeOK

LEMMA RoomInvSole == RoomInv => SoleTakeIsKept
<1> SUFFICES ASSUME RoomInv, takes = 1
             PROVE  /\ uploadsOf[1] <= 1 + excused[1]
                    /\ 1 \in InHand \cup saidSaved \cup lostTakes \cup leftTakes \/ meeting = "gone"
                    /\ 1 \in saidSaved => 1 \in storedTakes \/ meeting = "gone"
  BY DEF SoleTakeIsKept
<1>1. Sole /\ TakesData
  BY DEF RoomInv, TakesInv
<1>2. uploadsOf[1] <= 1 + excused[1]
  <2>1. \A x : Up(x) \in {0, 1}
    BY DEF Up
  <2>2. Uploads \in Nat
    BY <2>1 DEF Uploads
  <2>3. uploadsOf[1] \in Nat /\ excused[1] \in Nat
    BY <1>1 DEF TakesData, Tallies
  <2> QED
    BY <1>1, <2>2, <2>3 DEF Sole, UploadsExcused
<1>3. InSomeHand => 1 \in InHand
  BY DEF InSomeHand, InHand
<1> QED
  BY <1>1, <1>2, <1>3 DEF Sole, KeptInHand

LEMMA RoomInvKept == RoomInv => SoleTakeIsKept /\ PlaysTheAttached /\ QuietPlanIsTrue
  BY RoomInvSole, PlanInvQuiet DEF RoomInv, PlayerInv, PlaysTheAttached

(* The strengthening: of the player, of the plan, and of where a take is   *)
(* and who may let go of it.                                               *)
THEOREM RoomInvariant == RoomSpec => []RoomInv
  BY RoomStarts, RoomSteps, PTL DEF RoomSpec

(* Every variable of the page of a meeting keeps its type.                 *)
THEOREM RoomTyped == RoomSpec => []RoomTypeOK
  BY RoomInvariant, RoomInvTyped, PTL

(* A single recording is in the tab, or was reported as saved and is in    *)
(* the store, for any number of failed or unanswered uploads and           *)
(* attachments, ends by the limit and attempts repeated at the same time,  *)
(* until the page is left, a file from the disk is attached in its place   *)
(* or the meeting is deleted. It is stored twice only after an upload      *)
(* whose answer was lost, or by an attempt begun while another was under   *)
(* way.                                                                    *)
THEOREM SoleTakeAlwaysKept == RoomSpec => []SoleTakeIsKept
  BY RoomInvariant, RoomInvSole, PTL

-----------------------------------------------------------------------------
(* The parts together: a behaviour of these pages is one of every part.    *)
LEMMA PapersPageStays == PapersSpec => [](page \in PapersPages)
<1>1. PapersInit => page \in PapersPages
  BY DEF PapersInit
<1>2. page \in PapersPages /\ [PapersNext]_papersVars => (page \in PapersPages)'
  BY DEF PapersNext, papersVars
<1> QED
  BY <1>1, <1>2, PTL DEF PapersSpec

LEMMA PapersStart == PapersInit => RoomInit /\ ComposerInit /\ DeskInit /\ SignInit
  BY DEF PapersInit

LEMMA PapersStep ==
  [PapersNext]_papersVars => /\ [RoomNext]_roomVars /\ [ComposerNext]_composerVars
                             /\ [DeskNext]_deskVars /\ [SignNext]_signVars
  BY Zenon DEF PapersNext, papersVars

(* A behaviour of these pages is one of each of its parts: the page of a   *)
(* meeting, the field of a message, the page of the officer, but for its   *)
(* fairness, and the page of signing.                                      *)
THEOREM PapersImplementTheirParts ==
  PapersSpec => RoomSpec /\ ComposerSpec /\ DeskSafe /\ SignSpec
<1>1. PapersSpec => RoomSpec
  BY PapersStart, PapersStep, PTL DEF PapersSpec, RoomSpec
<1>2. PapersSpec => ComposerSpec
  BY PapersStart, PapersStep, PTL DEF PapersSpec, ComposerSpec
<1>3. PapersSpec => DeskSafe
  BY PapersStart, PapersStep, PTL DEF PapersSpec, DeskSafe
<1>4. PapersSpec => SignSpec
  BY PapersStart, PapersStep, PTL DEF PapersSpec, SignSpec
<1> QED
  BY <1>1, <1>2, <1>3, <1>4

(* The page in front keeps the types of its part.                          *)
THEOREM PapersTyped == PapersSpec => []PapersTypeOK
<1>1. page \in PapersPages /\ RoomTypeOK /\ ComposerTypeOK /\ DeskTypeOK /\ SignTypeOK => PapersTypeOK
  BY DEF PapersPages, PapersTypeOK
<1> QED
  BY <1>1, PapersPageStays, PapersImplementTheirParts, RoomTyped, ComposerTyped, DeskTyped, SignTyped, PTL

(* In every behaviour of these pages a single recording is kept, lost only *)
(* by leaving the page or by a file from the disk attached in its place,   *)
(* and uploaded twice only with the excuses SoleTakeIsKept names; the      *)
(* player plays the recording the meeting has and no other; and a quiet    *)
(* plan of questions shows what was marked, unless an event was lost or an *)
(* older answer came after a newer one.                                    *)
THEOREM RecordingAlwaysKept == PapersSpec => []RecordingIsKept
<1>1. RoomInv => RecordingIsKept
  BY RoomInvKept DEF RecordingIsKept
<1> QED
  BY <1>1, PapersImplementTheirParts, RoomInvariant, PTL

(* In every behaviour of these pages what the officer and the employee are *)
(* offered is what may still be done, and what waits is listed.            *)
THEOREM OfferedAlwaysHonest == PapersSpec => []OfferedIsHonest
<1>1. QuietDeskIsTrue /\ OpenDialogIsOffered /\ FreshButtonsWork /\ ListedWaits => OfferedIsHonest
  BY DEF OfferedIsHonest
<1> QED
  BY <1>1, PapersImplementTheirParts, QuietDeskAlwaysTrue, OpenDialogAlwaysOffered, FreshButtonsAlwaysWork,
     ListedAlwaysWaits, PTL
=============================================================================
