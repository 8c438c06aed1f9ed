-------------------------- MODULE HrSigningProofs ---------------------------
(***************************************************************************)
(* Theorems about HrSigning, for any number of employees, documents, keys  *)
(* and codes.                                                              *)
(***************************************************************************)
EXTENDS HrSigning, TLAPS

(* The status, the sending and the class of a document go together.        *)
DocInv ==
  \A d \in DOMAIN doc :
    /\ doc[d].status \in {"sent", "viewed", "expired", "rejected"} => doc[d].sent
    /\ doc[d].status = "awaiting_employer" => NeedsEmployer(doc[d].kind)
    /\ doc[d].status = "draft" => ~doc[d].sent

(* A signature belongs to a document of the table; only the one by code    *)
(* has a code.                                                             *)
SigInv ==
  \A s \in sigs :
    /\ s.doc \in DOMAIN doc
    /\ s.role = "employer" => s = Sig(s.doc, "employer", "ukep", NoCode, NoKey)
    /\ s.type = "paper" => s = Sig(s.doc, "employee", "paper", NoCode, NoKey)
    /\ s.type = "ukep" => s.role = "employer"

(* A sheet is built only for a signed document.                            *)
SheetInv == \A d \in DOMAIN sheet : doc[d].status = "signed"

(* A changed file stays changed, so an alarm is about a file that is still *)
(* not intact, of a document that was sent.                                *)
AlarmInv == \A d \in alarms : d \notin intact /\ doc[d].sent

(* What holds of the documents, their signatures and their sheets.         *)
RegistryInv ==
  /\ DocInv /\ SigInv /\ SheetInv /\ AlarmInv
  /\ SignedIffComplete /\ EmployerSignsFirst /\ OneSignaturePerRole
  /\ AlarmedIsUnsigned /\ SheetIsComplete

(* A code still pending has not used its last attempt.                     *)
AttemptsInv == \A c \in DOMAIN code : code[c].status = "pending" => code[c].attempts < MaxAttempts

(* What holds of the codes and the signatures made with them.              *)
EvidenceInv == AttemptsInv /\ SignatureHasEvidence /\ CodeSignsAllOrNothing

(* What confirm_and_sign may rely on between its first and its last step,  *)
(* because it holds the rows of the employee and of the documents.         *)
TxRow(e) ==
  /\ tx[e].op = "idle" => tx[e] = Idle
  /\ tx[e].op = "sign" =>
       /\ Answerable(code, tx[e].code, e, "sign")
       /\ tx[e].key = current[e] /\ current[e] # NoKey
       /\ \A d \in code[tx[e].code].scope : Signable(e, d)
       /\ tx[e].done \subseteq code[tx[e].code].scope
       /\ \A d \in tx[e].done :
            /\ Sig(d, "employee", "unep_lg", tx[e].code, tx[e].key) \in made
            /\ d \notin alarms

TxInv == \A e \in Employees : TxRow(e)

Inv == RegistryInv /\ EvidenceInv /\ TxInv

IInv == TypeOK /\ Inv
-----------------------------------------------------------------------------
(* Types.                                                                  *)

(* A new code keeps the types of the table of codes.                       *)
LEMMA CodeTypes ==
  ASSUME NEW code0, NEW c \in Codes, NEW e \in Employees, NEW purpose \in Purposes,
         NEW p \in Phones, NEW S \in SUBSET Docs,
         DOMAIN code0 \subseteq Codes, code0 \in [DOMAIN code0 -> CodeRow(SUBSET Docs)]
  PROVE  LET code1 == Challenged(code0, c, e, purpose, p, S)
         IN DOMAIN code1 \subseteq Codes /\ code1 \in [DOMAIN code1 -> CodeRow(SUBSET Docs)]
<1>1. 0 \in 0 .. MaxAttempts
  BY AttemptsAssumption
<1> QED
  BY <1>1 DEF Challenged, CodeRow, CodeStatus

(* An answer to a pending code keeps them too.                             *)
LEMMA AnswerTypes ==
  ASSUME NEW code0, NEW c \in DOMAIN code0,
         DOMAIN code0 \subseteq Codes, code0 \in [DOMAIN code0 -> CodeRow(SUBSET Docs)],
         code0[c].status = "pending", code0[c].attempts < MaxAttempts
  PROVE  \A code1 \in {WrongAnswer(code0, c), OutOfDate(code0, c), Confirmed(code0, c)} :
           DOMAIN code1 = DOMAIN code0 /\ code1 \in [DOMAIN code1 -> CodeRow(SUBSET Docs)]
BY AttemptsAssumption DEF WrongAnswer, OutOfDate, Confirmed, CodeRow, CodeStatus

(* An answer touches the status and the attempts of one row.               *)
LEMMA AnswerRows ==
  ASSUME NEW code0, NEW c \in DOMAIN code0, code0[c] \in CodeRow(SUBSET Docs),
         code0[c].status = "pending"
  PROVE  /\ \A code1 \in {WrongAnswer(code0, c), OutOfDate(code0, c), Confirmed(code0, c)} :
              /\ DOMAIN code1 = DOMAIN code0
              /\ code1[c].emp = code0[c].emp /\ code1[c].purpose = code0[c].purpose
              /\ code1[c].scope = code0[c].scope
              /\ \A d \in DOMAIN code0 \ {c} : code1[d] = code0[d]
         /\ Confirmed(code0, c)[c].status = "confirmed"
         /\ OutOfDate(code0, c)[c].status = "expired"
         /\ LET row == WrongAnswer(code0, c)[c]
            IN /\ row.attempts = code0[c].attempts + 1
               /\ row.status = IF code0[c].attempts + 1 >= MaxAttempts THEN "locked" ELSE "pending"
<1>1. /\ DOMAIN WrongAnswer(code0, c) = DOMAIN code0
      /\ \A d \in DOMAIN code0 \ {c} : WrongAnswer(code0, c)[d] = code0[d]
  BY DEF WrongAnswer
<1>2. LET row == WrongAnswer(code0, c)[c]
      IN /\ row.attempts = code0[c].attempts + 1
         /\ row.status = IF code0[c].attempts + 1 >= MaxAttempts THEN "locked" ELSE "pending"
         /\ row.emp = code0[c].emp /\ row.purpose = code0[c].purpose
         /\ row.scope = code0[c].scope
  BY DEF WrongAnswer, CodeRow
<1> QED
  BY <1>1, <1>2 DEF OutOfDate, Confirmed, CodeRow

(* Signatures give a document a status of its column.                      *)
LEMMA CompletionTypes ==
  ASSUME TypeOK, NEW d \in DOMAIN doc, NEW S
  PROVE  CompletionStatus(d, S) \in DocStatus
BY DEF TypeOK, CompletionStatus, DocRow, DocStatus

(* Each action keeps the types.                                            *)
LEMMA TypeStep ==
  ASSUME TypeOK, AttemptsInv, TxInv, [Next]_vars
  PROVE  TypeOK'
<1> USE DEF TypeOK
<1>0. CASE UNCHANGED vars
  BY <1>0 DEF vars, keys
<1>1. CASE OfficeStep
  <2>1. ASSUME NEW d \in Docs, NEW e \in Employees, NEW kind \in Kinds, UploadDocument(d, e, kind)
        PROVE  TypeOK'
    BY <2>1 DEF UploadDocument, Added, Doc, DocRow, DocStatus, StatusAfterFreeze, keys
  <2>2. ASSUME NEW d \in Docs, NEW e \in Employees, NEW kind \in Kinds, NEW freeze \in BOOLEAN,
               CreateDocument(d, e, kind, freeze)
        PROVE  TypeOK'
    BY <2>2 DEF CreateDocument, Added, Doc, DocRow, DocStatus, StatusAfterFreeze, keys
  <2>3. ASSUME NEW d \in Docs, FreezeDocument(d) PROVE TypeOK'
    BY <2>3 DEF FreezeDocument, Open, Marked, Doc, DocRow, DocStatus, StatusAfterFreeze, keys
  <2>4. ASSUME NEW d \in Docs, EmployerSignature(d) PROVE TypeOK'
    <3>1. sigs' \subseteq SigRow
      BY <2>4 DEF EmployerSignature, Sig, SigRow
    <3>2. CompletionStatus(d, sigs') \in DocStatus
      BY <2>4, CompletionTypes DEF EmployerSignature, Open
    <3> QED
      BY <2>4, <3>1, <3>2 DEF EmployerSignature, Open, Marked, Doc, DocRow, keys
  <2>5. ASSUME NEW d \in Docs, CancelDocument(d) PROVE TypeOK'
    BY <2>5 DEF CancelDocument, Open, Marked, Doc, DocRow, DocStatus, keys
  <2>6. ASSUME NEW d \in Docs, PaperSigned(d) PROVE TypeOK'
    <3>1. sigs' \subseteq SigRow
      BY <2>6 DEF PaperSigned, Sig, SigRow
    <3>2. CompletionStatus(d, sigs') \in DocStatus
      BY <2>6, CompletionTypes DEF PaperSigned, Open
    <3> QED
      BY <2>6, <3>1, <3>2 DEF PaperSigned, Open, Marked, Doc, DocRow, keys
  <2>7. ASSUME NEW d \in Docs, ExpireDocument(d) PROVE TypeOK'
    BY <2>7 DEF ExpireDocument, Open, Marked, Doc, DocRow, DocStatus, keys
  <2>8. ASSUME NEW d \in Docs, BuildSheet(d) PROVE TypeOK'
    BY <2>8 DEF BuildSheet, Open, SigsOf, keys
  <2>9. ASSUME NEW S \in SUBSET Docs, SendDocuments(S) PROVE TypeOK'
    BY <2>9 DEF SendDocuments, Open, Doc, DocRow, DocStatus, keys
  <2> QED
    BY <1>1, <2>1, <2>2, <2>3, <2>4, <2>5, <2>6, <2>7, <2>8, <2>9 DEF OfficeStep
<1>2. CASE PortalStep
  <2>1. ASSUME NEW d \in Docs, Reject(d) PROVE TypeOK'
    BY <2>1 DEF Reject, Open, Marked, Doc, DocRow, DocStatus, keys
  <2>2. ASSUME NEW d \in Docs, NEW toEnd \in BOOLEAN, MarkViewed(d, toEnd) PROVE TypeOK'
    BY <2>2 DEF MarkViewed, Open, Marked, Doc, DocRow, DocStatus, keys
  <2>3. ASSUME NEW e \in Employees, ReadCard(e) PROVE TypeOK'
    BY <2>3 DEF ReadCard, keys
  <2>4. ASSUME NEW e \in Employees, NEW c \in Codes, FailCode(e, c) PROVE TypeOK'
    <3>1. c \in DOMAIN code /\ code[c].status = "pending" /\ code[c].attempts < MaxAttempts
      BY <2>4 DEF FailCode, Answerable, AttemptsInv
    <3>2. \A code1 \in {WrongAnswer(code, c), OutOfDate(code, c), Confirmed(code, c)} :
            DOMAIN code1 = DOMAIN code /\ code1 \in [DOMAIN code1 -> CodeRow(SUBSET Docs)]
      BY <3>1, AnswerTypes
    <3> QED
      BY <2>4, <3>2 DEF FailCode, keys
  <2>5. ASSUME NEW e \in Employees, NEW c \in Codes, NEW p \in Phones, NEW S \in SUBSET Docs,
               RequestSignCode(e, c, S, p)
        PROVE  TypeOK'
    BY <2>5, CodeTypes DEF RequestSignCode, keys, Purposes
  <2>6. ASSUME NEW e \in Employees, NEW c \in Codes, NEW p \in Phones, NEW purpose \in Purposes,
               OtherCode(e, c, purpose, p)
        PROVE  TypeOK'
    BY <2>6, CodeTypes DEF OtherCode, keys
  <2> QED
    BY <1>2, <2>1, <2>2, <2>3, <2>4, <2>5, <2>6 DEF PortalStep
<1>3. CASE Environment
  <2>1. ASSUME NEW e \in Employees, KeyStep(e) PROVE TypeOK'
    BY <2>1 DEF KeyStep, Key!Consent, Key!Issue, Key!Revoke
  <2>2. ASSUME NEW e \in Employees, KeyDies(e) PROVE TypeOK'
    BY <2>2 DEF KeyDies, keys
  <2>3. ASSUME NEW d \in Docs, FileDamaged(d) PROVE TypeOK'
    BY <2>3 DEF FileDamaged, keys
  <2> QED
    BY <1>3, <2>1, <2>2, <2>3 DEF Environment
<1>4. ASSUME NEW e \in Employees, SignStep(e) PROVE TypeOK'
  <2>1. ASSUME NEW c \in Codes, BeginSign(e, c) PROVE TypeOK'
    BY <2>1 DEF BeginSign, Tx, TxType, keys
  <2>2. ASSUME NEW d \in Docs, SignOne(e, d) PROVE TypeOK'
    <3>1. tx[e].code \in Codes \cup {NoCode} /\ tx[e].key \in Keys \cup {NoKey}
      BY DEF TxType
    <3>2. made' \subseteq SigRow
      BY <2>2, <3>1 DEF SignOne, Sig, SigRow
    <3>3. tx' \in [Employees -> TxType]
      BY <2>2, <3>1 DEF SignOne, ToSign, Tx, TxType
    <3> QED
      BY <2>2, <3>2, <3>3 DEF SignOne, keys
  <2>3. ASSUME NEW d \in Docs, FindTampered(e, d) PROVE TypeOK'
    <3>1. d \in DOMAIN doc
      BY <2>3 DEF FindTampered, ToSign, TxInv, TxRow, Signable
    <3> QED
      BY <2>3, <3>1 DEF FindTampered, Idle, Tx, TxType, keys
  <2>4. CASE CommitSign(e)
    <3>1. tx[e].code \in DOMAIN code /\ code[tx[e].code].status = "pending"
      BY <2>4 DEF CommitSign, TxInv, TxRow, Answerable
    <3>2. DOMAIN code' \subseteq Codes /\ code' \in [DOMAIN code' -> CodeRow(SUBSET Docs)]
      BY <2>4, <3>1, AnswerTypes DEF CommitSign, AttemptsInv
    <3>3. code[tx[e].code].scope \subseteq Docs /\ tx[e].key \in Keys \cup {NoKey}
      BY <3>1 DEF CodeRow, TxType
    <3>4. sigs' \subseteq SigRow
      BY <2>4, <3>1, <3>3 DEF CommitSign, Sig, SigRow
    <3>5. DOMAIN doc' = DOMAIN doc /\ doc' \in [DOMAIN doc' -> DocRow]
      BY <2>4, CompletionTypes DEF CommitSign, Completed, Doc, DocRow
    <3>6. tx' \in [Employees -> TxType]
      BY <2>4 DEF CommitSign, Idle, Tx, TxType
    <3> QED
      BY <2>4, <3>2, <3>4, <3>5, <3>6 DEF CommitSign, keys
  <2>5. CASE Rollback(e)
    BY <2>5 DEF Rollback, Idle, Tx, TxType, keys
  <2> QED
    BY <1>4, <2>1, <2>2, <2>3, <2>4, <2>5 DEF SignStep
<1> QED
  BY <1>0, <1>1, <1>2, <1>3, <1>4 DEF Next
-----------------------------------------------------------------------------
(* The registry of documents.                                              *)

(* It depends on the documents, the signatures, the files and the sheets.  *)
LEMMA RegistryFrame ==
  ASSUME TypeOK, RegistryInv, UNCHANGED <<doc, sigs, sheet, alarms>>, intact' \subseteq intact
  PROVE  RegistryInv'
<1>1. DocInv' /\ SigInv' /\ SheetInv' /\ SheetIsComplete'
  BY DEF RegistryInv, DocInv, SigInv, SheetInv, SheetIsComplete
<1>2. AlarmInv' /\ AlarmedIsUnsigned'
  BY DEF RegistryInv, AlarmInv, AlarmedIsUnsigned
<1>3. SignedIffComplete' /\ EmployerSignsFirst' /\ OneSignaturePerRole'
  BY DEF RegistryInv, SignedIffComplete, EmployerSignsFirst, OneSignaturePerRole, SignedBy, SigsOf
<1> QED
  BY <1>1, <1>2, <1>3 DEF RegistryInv

(* How the office and the portal move the documents of D without a new     *)
(* signature.                                                              *)
Moved(D) ==
  /\ D \subseteq DOMAIN doc
  /\ \A d \in D : Open(d)
  /\ DOMAIN doc' = DOMAIN doc
  /\ \A d \in DOMAIN doc \ D : doc'[d] = doc[d]
  /\ \A d \in D :
       /\ doc'[d].emp = doc[d].emp /\ doc'[d].kind = doc[d].kind
       /\ doc[d].sent => doc'[d].sent
       /\ doc'[d].sent => doc[d].sent \/ doc[d].status = "frozen"
       /\ doc[d].status # "signed" /\ doc'[d].status \notin {"signed", "draft"}
       /\ doc'[d].status \in {"sent", "viewed", "expired", "rejected"} => doc'[d].sent
       /\ doc'[d].status = "awaiting_employer" =>
            NeedsEmployer(doc[d].kind) /\ doc[d].status = "draft"
       /\ doc'[d].status = "frozen" => ~NeedsEmployer(doc[d].kind)
  /\ intact' \subseteq intact \cup {d \in D : doc[d].status = "draft"}
  /\ UNCHANGED <<keys, sigs, made, sheet, alarms, code, tx>>
  /\ read \subseteq read'

(* Moving documents leaves every signature where it was.                   *)
LEMMA MovedKeepsRegistry ==
  ASSUME TypeOK, RegistryInv, NEW D, Moved(D)
  PROVE  RegistryInv'
<1> USE DEF TypeOK, RegistryInv
<1>1. DocInv'
  BY DEF Moved, DocInv
<1>2. SigInv' /\ OneSignaturePerRole'
  BY DEF Moved, SigInv, OneSignaturePerRole
<1>3. SheetInv' /\ SheetIsComplete'
  BY DEF Moved, SheetInv, SheetIsComplete, SigsOf
<1>4. AlarmInv' /\ AlarmedIsUnsigned'
  BY DEF Moved, AlarmInv, AlarmedIsUnsigned, DocInv
<1>5. SignedIffComplete'
  BY DEF Moved, SignedIffComplete, SignedBy
<1>6. EmployerSignsFirst'
  BY DEF Moved, EmployerSignsFirst, SignedBy, SigsOf
<1> QED
  BY <1>1, <1>2, <1>3, <1>4, <1>5, <1>6

(* A signature on open documents that nobody of that role has signed, with *)
(* the status it gives them.                                               *)
SignedNow(D, role) ==
  /\ D \subseteq DOMAIN doc
  /\ sigs \subseteq sigs'
  /\ \A s \in sigs' \ sigs : s.doc \in D /\ s.role = role
  /\ \A s, t \in sigs' \ sigs : s.doc = t.doc => s = t
  /\ \A d \in D : \E s \in sigs' \ sigs : s.doc = d
  /\ DOMAIN doc' = DOMAIN doc
  /\ \A d \in DOMAIN doc \ D : doc'[d] = doc[d]
  /\ \A d \in D : doc'[d].emp = doc[d].emp /\ doc'[d].kind = doc[d].kind /\ doc'[d].sent = doc[d].sent

(* The employer signs while the document waits for it, and it is frozen.   *)
LEMMA EmployerSignatureKeepsRegistry ==
  ASSUME TypeOK, RegistryInv, NEW d \in Docs, EmployerSignature(d)
  PROVE  RegistryInv' /\ doc'[d].status = "frozen" /\ SignedNow({d}, "employer")
<1> DEFINE new == Sig(d, "employer", "ukep", NoCode, NoKey)
<1>1. /\ d \in DOMAIN doc /\ NeedsEmployer(doc[d].kind) /\ doc[d].status = "awaiting_employer"
      /\ sigs' = sigs \cup {new}
      /\ doc' = Marked(d, CompletionStatus(d, sigs'))
      /\ UNCHANGED <<intact, alarms, sheet>>
  BY DEF EmployerSignature, Open
<1>2. new.doc = d /\ new.role = "employer" /\ new.type = "ukep"
  BY DEF Sig
<1>3. \A s \in sigs : s.doc # d
  BY <1>1 DEF RegistryInv, EmployerSignsFirst, SigsOf
<1>4. ~doc[d].sent
  BY <1>1, <1>3 DEF RegistryInv, EmployerSignsFirst, SignedBy
<1>5. CompletionStatus(d, sigs') = "frozen"
  BY <1>1, <1>2, <1>3, <1>4 DEF CompletionStatus, SignedBy
<1>6. /\ DOMAIN doc' = DOMAIN doc
      /\ doc'[d] = Doc(doc[d].emp, doc[d].kind, "frozen", doc[d].sent)
      /\ \A x \in DOMAIN doc \ {d} : doc'[x] = doc[x]
  BY <1>1, <1>5 DEF Marked
<1>7. /\ doc'[d].emp = doc[d].emp /\ doc'[d].kind = doc[d].kind
      /\ doc'[d].sent = doc[d].sent /\ doc'[d].status = "frozen"
  BY <1>6 DEF Doc
<1>8. new \notin sigs
  BY <1>2, <1>3
<1> HIDE DEF new
<1> USE DEF RegistryInv
<1>9. DocInv'
  BY <1>6, <1>7 DEF DocInv
<1>10. SigInv'
  BY <1>1, <1>2, <1>6 DEF SigInv, new
<1>11. OneSignaturePerRole'
  BY <1>1, <1>2, <1>3 DEF OneSignaturePerRole
<1>12. SheetInv' /\ SheetIsComplete'
  <2>1. \A x \in DOMAIN sheet : x \in DOMAIN doc /\ x # d
    BY <1>1 DEF SheetInv, TypeOK
  <2>2. ASSUME NEW x \in DOMAIN sheet PROVE SigsOf(x, sigs') = SigsOf(x, sigs)
    BY <1>1, <1>2, <2>1 DEF SigsOf
  <2> QED
    BY <1>1, <1>6, <2>1, <2>2 DEF SheetInv, SheetIsComplete
<1>13. AlarmInv' /\ AlarmedIsUnsigned'
  BY ZenonT(60), <1>1, <1>2, <1>6, <1>7 DEF AlarmInv, AlarmedIsUnsigned, TypeOK
<1>14. SignedIffComplete'
  BY <1>1, <1>2, <1>3, <1>6, <1>7 DEF SignedIffComplete, SignedBy
<1>15. EmployerSignsFirst'
  BY <1>1, <1>2, <1>3, <1>6, <1>7 DEF EmployerSignsFirst, SignedBy, SigsOf
<1> QED
  BY <1>1, <1>2, <1>6, <1>7, <1>8, <1>9, <1>10, <1>11, <1>12, <1>13, <1>14, <1>15 DEF SignedNow

(* A paper signature completes the document, whose employer signed before. *)
LEMMA PaperSignedKeepsRegistry ==
  ASSUME TypeOK, RegistryInv, NEW d \in Docs, PaperSigned(d)
  PROVE  RegistryInv' /\ SignedNow({d}, "employee")
<1> DEFINE new == Sig(d, "employee", "paper", NoCode, NoKey)
<1>1. /\ d \in DOMAIN doc /\ doc[d].status \in {"frozen", "sent", "viewed", "expired"}
      /\ sigs' = sigs \cup {new}
      /\ doc' = Marked(d, CompletionStatus(d, sigs'))
      /\ UNCHANGED <<intact, alarms, sheet>>
  BY DEF PaperSigned, Open
<1>2. new.doc = d /\ new.role = "employee" /\ new.type = "paper"
  BY DEF Sig
<1>3. \A s \in sigs : s.doc = d => s.role # "employee"
  BY <1>1 DEF RegistryInv, SignedIffComplete, SignedBy
<1>4. NeedsEmployer(doc[d].kind) => SignedBy(d, "employer", sigs)
  BY <1>1 DEF RegistryInv, EmployerSignsFirst, DocInv
<1>5. CompletionStatus(d, sigs') = "signed"
  BY <1>1, <1>2, <1>4 DEF CompletionStatus, SignedBy
<1>6. /\ DOMAIN doc' = DOMAIN doc
      /\ doc'[d] = Doc(doc[d].emp, doc[d].kind, "signed", doc[d].sent)
      /\ \A x \in DOMAIN doc \ {d} : doc'[x] = doc[x]
  BY <1>1, <1>5 DEF Marked
<1>7. /\ doc'[d].emp = doc[d].emp /\ doc'[d].kind = doc[d].kind
      /\ doc'[d].sent = doc[d].sent /\ doc'[d].status = "signed"
  BY <1>6 DEF Doc
<1>8. new \notin sigs
  BY <1>2, <1>3
<1> HIDE DEF new
<1> USE DEF RegistryInv
<1>9. DocInv'
  BY <1>6, <1>7 DEF DocInv
<1>10. SigInv'
  BY <1>1, <1>2, <1>6 DEF SigInv, new
<1>11. OneSignaturePerRole'
  BY <1>1, <1>2, <1>3 DEF OneSignaturePerRole
<1>12. SheetInv' /\ SheetIsComplete'
  <2>1. \A x \in DOMAIN sheet : x \in DOMAIN doc /\ x # d
    BY <1>1 DEF SheetInv, TypeOK
  <2>2. ASSUME NEW x \in DOMAIN sheet PROVE SigsOf(x, sigs') = SigsOf(x, sigs)
    BY <1>1, <1>2, <2>1 DEF SigsOf
  <2> QED
    BY <1>1, <1>6, <2>1, <2>2 DEF SheetInv, SheetIsComplete
<1>13. AlarmInv' /\ AlarmedIsUnsigned'
  BY ZenonT(60), <1>1, <1>2, <1>6, <1>7 DEF AlarmInv, AlarmedIsUnsigned, TypeOK
<1>14. SignedIffComplete'
  BY <1>1, <1>2, <1>4, <1>6, <1>7 DEF SignedIffComplete, SignedBy
<1>15. EmployerSignsFirst'
  BY SMTT(60), <1>1, <1>2, <1>4, <1>6, <1>7 DEF EmployerSignsFirst, SignedBy, SigsOf
<1> QED
  BY <1>1, <1>2, <1>6, <1>7, <1>8, <1>9, <1>10, <1>11, <1>12, <1>13, <1>14, <1>15 DEF SignedNow

(* What the commit of a signing transaction finds and leaves.              *)
LEMMA CommitFacts ==
  ASSUME TypeOK, RegistryInv, TxInv, NEW e \in Employees, CommitSign(e)
  PROVE  LET c == tx[e].code
             S == code[c].scope
         IN /\ c \in DOMAIN code /\ code[c].status = "pending"
            /\ code[c].emp = e /\ code[c].purpose = "sign"
            /\ S \subseteq DOMAIN doc /\ S \subseteq read
            /\ \A d \in S :
                 /\ doc[d].emp = e /\ doc[d].sent /\ doc[d].status \in Pending
                 /\ d \notin alarms
                 /\ Sig(d, "employee", "unep_lg", c, tx[e].key) \in made
                 /\ doc'[d] = Doc(doc[d].emp, doc[d].kind, "signed", doc[d].sent)
            /\ DOMAIN doc' = DOMAIN doc
            /\ \A d \in DOMAIN doc \ S : doc'[d] = doc[d]
            /\ sigs' = sigs \cup {Sig(d, "employee", "unep_lg", c, tx[e].key) : d \in S}
            /\ tx[e].key = current[e] /\ current[e] # NoKey
<1> DEFINE c == tx[e].code
           S == code[c].scope
<1>1. /\ tx[e].op = "sign" /\ tx[e].done = S
      /\ sigs' = sigs \cup {Sig(d, "employee", "unep_lg", c, tx[e].key) : d \in S}
      /\ doc' = Completed(S, sigs')
  BY DEF CommitSign
<1>2. /\ Answerable(code, c, e, "sign")
      /\ \A d \in S : Signable(e, d)
      /\ \A d \in S : d \notin alarms /\ Sig(d, "employee", "unep_lg", c, tx[e].key) \in made
      /\ tx[e].key = current[e] /\ current[e] # NoKey
  BY <1>1 DEF TxInv, TxRow
<1>3. \A d \in S : /\ d \in DOMAIN doc /\ d \in read /\ doc[d].emp = e
                   /\ doc[d].sent /\ doc[d].status \in Pending
  BY <1>2 DEF Signable
<1> HIDE DEF S
<1>4. ASSUME NEW d \in S PROVE CompletionStatus(d, sigs') = "signed"
  <2>1. SignedBy(d, "employee", sigs')
    <3> DEFINE s == Sig(d, "employee", "unep_lg", c, tx[e].key)
    <3>1. s.doc = d /\ s.role = "employee"
      BY DEF Sig
    <3>2. s \in sigs'
      BY <1>1
    <3> QED
      BY <3>1, <3>2 DEF SignedBy
  <2>2. NeedsEmployer(doc[d].kind) => SignedBy(d, "employer", sigs)
    BY <1>3 DEF RegistryInv, EmployerSignsFirst
  <2>3. NeedsEmployer(doc[d].kind) => SignedBy(d, "employer", sigs')
    BY <1>1, <2>2 DEF SignedBy
  <2> QED
    BY <2>1, <2>3 DEF CompletionStatus
<1>5. /\ DOMAIN doc' = DOMAIN doc
      /\ \A d \in DOMAIN doc \ S : doc'[d] = doc[d]
      /\ \A d \in S : doc'[d] = Doc(doc[d].emp, doc[d].kind, "signed", doc[d].sent)
  BY <1>1, <1>3, <1>4 DEF Completed
<1> QED
  BY <1>1, <1>2, <1>3, <1>5 DEF Answerable, S

(* The commit completes every document of the code.                        *)
LEMMA CommitSignKeepsRegistry ==
  ASSUME TypeOK, RegistryInv, TxInv, NEW e \in Employees, CommitSign(e)
  PROVE  RegistryInv' /\ SignedNow(code[tx[e].code].scope, "employee")
<1> DEFINE c == tx[e].code
           S == code[c].scope
           new == {Sig(d, "employee", "unep_lg", c, tx[e].key) : d \in S}
<1>1. UNCHANGED <<intact, alarms, sheet>>
  BY DEF CommitSign
<1>2. /\ \A s \in new : /\ s.doc \in S /\ s.role = "employee" /\ s.type = "unep_lg"
                        /\ s = Sig(s.doc, "employee", "unep_lg", c, tx[e].key)
      /\ \A d \in S : \E s \in new : s.doc = d /\ s.role = "employee"
  <2>1. ASSUME NEW d \in S PROVE \E s \in new : s.doc = d /\ s.role = "employee"
    <3>1. Sig(d, "employee", "unep_lg", c, tx[e].key) \in new
      OBVIOUS
    <3> QED
      BY <3>1 DEF Sig
  <2> QED
    BY <2>1 DEF Sig
<1>3. /\ S \subseteq DOMAIN doc
      /\ \A d \in S : doc[d].sent /\ doc[d].status \in Pending /\ d \notin alarms
      /\ \A d \in S : doc'[d] = Doc(doc[d].emp, doc[d].kind, "signed", doc[d].sent)
      /\ DOMAIN doc' = DOMAIN doc
      /\ \A d \in DOMAIN doc \ S : doc'[d] = doc[d]
      /\ sigs' = sigs \cup new
  BY CommitFacts
<1> HIDE DEF new, S
<1>4. ASSUME NEW d \in S
      PROVE  /\ doc'[d].emp = doc[d].emp /\ doc'[d].kind = doc[d].kind
             /\ doc'[d].sent = doc[d].sent /\ doc'[d].status = "signed"
  <2>1. doc'[d] = Doc(doc[d].emp, doc[d].kind, "signed", doc[d].sent)
    BY <1>3
  <2> QED
    BY <2>1 DEF Doc
<1> USE DEF RegistryInv
<1>5. \A s \in sigs : s.doc \in S => s.role # "employee"
  BY <1>3 DEF SignedIffComplete, SignedBy, Pending
<1>6. \A d \in S : NeedsEmployer(doc[d].kind) => SignedBy(d, "employer", sigs)
  BY <1>3 DEF EmployerSignsFirst
<1>9. DocInv'
  BY <1>3, <1>4 DEF DocInv
<1>10. SigInv'
  BY <1>2, <1>3 DEF SigInv
<1>11. OneSignaturePerRole'
  BY <1>2, <1>3, <1>5 DEF OneSignaturePerRole
<1>12. SheetInv' /\ SheetIsComplete'
  <2>1. \A x \in DOMAIN sheet : x \in DOMAIN doc /\ x \notin S
    BY <1>3 DEF SheetInv, TypeOK, Pending
  <2>2. ASSUME NEW x \in DOMAIN sheet PROVE SigsOf(x, sigs') = SigsOf(x, sigs)
    BY <1>2, <1>3, <2>1 DEF SigsOf
  <2> QED
    BY <1>1, <1>3, <2>1, <2>2 DEF SheetInv, SheetIsComplete
<1>13. AlarmInv' /\ AlarmedIsUnsigned'
  BY <1>1, <1>2, <1>3, <1>4 DEF AlarmInv, AlarmedIsUnsigned, TypeOK
<1>14. SignedIffComplete'
  BY <1>2, <1>3, <1>4, <1>6 DEF SignedIffComplete, SignedBy
<1>15. EmployerSignsFirst'
  BY <1>2, <1>3, <1>4, <1>6 DEF EmployerSignsFirst, SignedBy, SigsOf
<1>16. SignedNow(S, "employee")
  BY <1>2, <1>3, <1>4, <1>5 DEF SignedNow
<1> QED
  BY <1>9, <1>10, <1>11, <1>12, <1>13, <1>14, <1>15, <1>16 DEF S

(* Where the documents move: no signature is added.                        *)
LEMMA MovingSteps ==
  ASSUME TypeOK, RegistryInv,
         \/ \E d \in Docs : FreezeDocument(d) \/ CancelDocument(d) \/ ExpireDocument(d) \/ Reject(d)
         \/ \E d \in Docs, toEnd \in BOOLEAN : MarkViewed(d, toEnd)
         \/ \E S \in SUBSET Docs : SendDocuments(S)
  PROVE  \E D \in SUBSET Docs : Moved(D)
<1>1. ASSUME NEW d \in Docs, NEW s, Open(d), doc' = Marked(d, s),
             doc[d].status # "signed", s \notin {"signed", "draft"},
             s \in {"sent", "viewed", "expired", "rejected"} => doc[d].sent,
             s = "awaiting_employer" => NeedsEmployer(doc[d].kind) /\ doc[d].status = "draft",
             s = "frozen" => ~NeedsEmployer(doc[d].kind),
             intact' \subseteq intact \cup {x \in {d} : doc[x].status = "draft"},
             read \subseteq read',
             UNCHANGED <<keys, sigs, made, sheet, alarms, code, tx>>
      PROVE  Moved({d})
  <2>1. /\ DOMAIN doc' = DOMAIN doc /\ d \in DOMAIN doc
        /\ doc'[d] = Doc(doc[d].emp, doc[d].kind, s, doc[d].sent)
        /\ \A x \in DOMAIN doc \ {d} : doc'[x] = doc[x]
    BY <1>1 DEF Marked, Open
  <2>2. /\ doc'[d].emp = doc[d].emp /\ doc'[d].kind = doc[d].kind
        /\ doc'[d].sent = doc[d].sent /\ doc'[d].status = s
    BY <2>1 DEF Doc
  <2> QED
    BY <1>1, <2>1, <2>2 DEF Moved
<1>2. ASSUME NEW d \in Docs, FreezeDocument(d) PROVE Moved({d})
  BY <1>1, <1>2 DEF FreezeDocument, StatusAfterFreeze, NeedsEmployer
<1>3. ASSUME NEW d \in Docs, CancelDocument(d) PROVE Moved({d})
  BY <1>1, <1>3 DEF CancelDocument, Cancellable
<1>4. ASSUME NEW d \in Docs, ExpireDocument(d) PROVE Moved({d})
  BY <1>1, <1>4 DEF ExpireDocument, RegistryInv, DocInv, Open
<1>5. ASSUME NEW d \in Docs, Reject(d) PROVE Moved({d})
  BY <1>1, <1>5 DEF Reject, Pending
<1>6. ASSUME NEW d \in Docs, NEW toEnd \in BOOLEAN, MarkViewed(d, toEnd)
      PROVE  Moved({d}) \/ Moved({})
  <2>1. CASE doc[d].status = "sent"
    BY <1>1, <1>6, <2>1 DEF MarkViewed
  <2>2. CASE doc[d].status # "sent"
    BY <1>6, <2>2 DEF MarkViewed, Moved
  <2> QED
    BY <2>1, <2>2
<1>7. ASSUME NEW S \in SUBSET Docs, SendDocuments(S) PROVE Moved(S)
  <2>1. /\ S \subseteq DOMAIN doc /\ DOMAIN doc' = DOMAIN doc
        /\ \A d \in S : Open(d) /\ doc[d].status = "frozen"
        /\ \A d \in DOMAIN doc \ S : doc'[d] = doc[d]
        /\ UNCHANGED <<keys, intact, read, sigs, made, sheet, alarms, code, tx>>
    BY <1>7 DEF SendDocuments, Open
  <2>2. ASSUME NEW d \in S PROVE doc'[d] = Doc(doc[d].emp, doc[d].kind, "sent", TRUE)
    BY <1>7, <2>1 DEF SendDocuments
  <2>3. ASSUME NEW d \in S
        PROVE  /\ doc'[d].emp = doc[d].emp /\ doc'[d].kind = doc[d].kind
               /\ doc'[d].status = "sent" /\ doc'[d].sent = TRUE
    <3>1. doc'[d] = Doc(doc[d].emp, doc[d].kind, "sent", TRUE)
      BY <2>2
    <3> QED
      BY <3>1 DEF Doc
  <2> QED
    BY <2>1, <2>3 DEF Moved
<1> QED
  BY <1>2, <1>3, <1>4, <1>5, <1>6, <1>7

(* A document enters the table unsigned, and unsent.                       *)
Entered(d, row) ==
  /\ d \in Docs \ DOMAIN doc
  /\ doc' = Added(d, row)
  /\ row.status \in {"draft", "frozen", "awaiting_employer", "archived_paper"} /\ ~row.sent
  /\ row.status = "frozen" => ~NeedsEmployer(row.kind)
  /\ row.status = "awaiting_employer" => NeedsEmployer(row.kind)
  /\ intact' \subseteq intact \cup {d}
  /\ UNCHANGED <<keys, read, sigs, made, sheet, alarms, code, tx>>

(* Both ways to create a document enter it so.                             *)
LEMMA EnteringSteps ==
  ASSUME NEW d \in Docs, NEW e \in Employees, NEW kind \in Kinds,
         UploadDocument(d, e, kind) \/ \E freeze \in BOOLEAN : CreateDocument(d, e, kind, freeze)
  PROVE  \E row : Entered(d, row)
<1>1. CASE UploadDocument(d, e, kind)
  <2> DEFINE row == Doc(e, kind, StatusAfterFreeze(kind), FALSE)
  <2>1. row.kind = kind /\ row.status = StatusAfterFreeze(kind) /\ row.sent = FALSE
    BY DEF Doc
  <2>2. doc' = Added(d, row) /\ d \in Docs \ DOMAIN doc /\ intact' = intact \cup {d}
    BY <1>1 DEF UploadDocument
  <2> HIDE DEF row
  <2>3. Entered(d, row)
    BY <1>1, <2>1, <2>2 DEF Entered, UploadDocument, StatusAfterFreeze, NeedsEmployer
  <2> QED
    BY <2>3
<1>2. ASSUME NEW freeze \in BOOLEAN, CreateDocument(d, e, kind, freeze)
      PROVE  \E row : Entered(d, row)
  <2> DEFINE s == IF freeze THEN StatusAfterFreeze(kind) ELSE "draft"
             row == Doc(e, kind, s, FALSE)
  <2>1. row.kind = kind /\ row.status = s /\ row.sent = FALSE
    BY DEF Doc
  <2>2. doc' = Added(d, row) /\ d \in Docs \ DOMAIN doc /\ intact' \subseteq intact \cup {d}
    BY <1>2 DEF CreateDocument
  <2> HIDE DEF row
  <2>3. Entered(d, row)
    BY <1>2, <2>1, <2>2 DEF Entered, CreateDocument, StatusAfterFreeze, NeedsEmployer
  <2> QED
    BY <2>3
<1> QED
  BY <1>1, <1>2

(* A document that has just entered has no signatures, sheet or alarm.     *)
LEMMA EnteredKeepsRegistry ==
  ASSUME TypeOK, RegistryInv, NEW d, NEW row, Entered(d, row)
  PROVE  RegistryInv'
<1>1. /\ DOMAIN doc' = DOMAIN doc \cup {d} /\ doc'[d] = row /\ d \notin DOMAIN doc
      /\ \A x \in DOMAIN doc : doc'[x] = doc[x]
  BY DEF Entered, Added
<1>2. \A s \in sigs : s.doc # d
  BY <1>1 DEF RegistryInv, SigInv
<1>3. /\ row.status \in {"draft", "frozen", "awaiting_employer", "archived_paper"} /\ ~row.sent
      /\ row.status = "frozen" => ~NeedsEmployer(row.kind)
      /\ row.status = "awaiting_employer" => NeedsEmployer(row.kind)
      /\ intact' \subseteq intact \cup {d}
      /\ UNCHANGED <<sigs, sheet, alarms>>
  BY DEF Entered
<1> USE DEF RegistryInv, TypeOK
<1>4. DocInv'
  BY <1>1, <1>3 DEF DocInv
<1>5. SigInv' /\ OneSignaturePerRole'
  BY <1>1, <1>3 DEF SigInv, OneSignaturePerRole
<1>6. SheetInv' /\ SheetIsComplete'
  BY <1>1, <1>3 DEF SheetInv, SheetIsComplete, SigsOf
<1>7. AlarmInv' /\ AlarmedIsUnsigned'
  BY <1>1, <1>3 DEF AlarmInv, AlarmedIsUnsigned
<1>8. SignedIffComplete'
  BY <1>1, <1>2, <1>3 DEF SignedIffComplete, SignedBy
<1>9. EmployerSignsFirst'
  BY <1>1, <1>2, <1>3 DEF EmployerSignsFirst, SignedBy, SigsOf
<1> QED
  BY <1>4, <1>5, <1>6, <1>7, <1>8, <1>9
-----------------------------------------------------------------------------
(* The codes and what was signed with them.                                *)

(* They do not depend on the status of a document.                         *)
LEMMA EvidenceFrame ==
  ASSUME TypeOK, RegistryInv, EvidenceInv, UNCHANGED <<sigs, code>>,
         made \subseteq made', read \subseteq read',
         \A d \in DOMAIN doc : doc'[d].emp = doc[d].emp
  PROVE  EvidenceInv'
<1>1. AttemptsInv' /\ CodeSignsAllOrNothing'
  BY DEF EvidenceInv, AttemptsInv, CodeSignsAllOrNothing
<1>2. SignatureHasEvidence'
  BY DEF EvidenceInv, SignatureHasEvidence, RegistryInv, SigInv
<1> QED
  BY <1>1, <1>2 DEF EvidenceInv

(* A signature of the employer or on paper has no code.                    *)
LEMMA EvidenceOfOthers ==
  ASSUME TypeOK, RegistryInv, EvidenceInv, NEW s, sigs' = sigs \cup {s},
         s.code = NoCode, s.type # "unep_lg", UNCHANGED <<code, made, read>>,
         \A d \in DOMAIN doc : doc'[d].emp = doc[d].emp
  PROVE  EvidenceInv'
<1>1. AttemptsInv'
  BY DEF EvidenceInv, AttemptsInv
<1>2. SignatureHasEvidence'
  BY DEF EvidenceInv, SignatureHasEvidence, RegistryInv, SigInv
<1>3. ASSUME NEW c \in DOMAIN code
      PROVE  {t \in sigs' : t.code = c} = {t \in sigs : t.code = c}
  BY NullAssumption DEF TypeOK
<1>4. CodeSignsAllOrNothing'
  BY <1>3 DEF EvidenceInv, CodeSignsAllOrNothing
<1> QED
  BY <1>1, <1>2, <1>4 DEF EvidenceInv

(* A new code supersedes pending ones, which have signed nothing.          *)
LEMMA EvidenceOfNewCode ==
  ASSUME TypeOK, RegistryInv, EvidenceInv, NEW c \in Codes \ DOMAIN code, NEW e, NEW purpose,
         NEW p, NEW S, code' = Challenged(code, c, e, purpose, p, S),
         UNCHANGED <<sigs, made, read, doc>>
  PROVE  EvidenceInv'
<1>1. /\ DOMAIN code' = DOMAIN code \cup {c}
      /\ code'[c].status = "pending" /\ code'[c].attempts = 0
      /\ \A x \in DOMAIN code :
           \/ code'[x] = code[x]
           \/ /\ code[x].status = "pending" /\ code'[x].status = "superseded"
              /\ code'[x].purpose = code[x].purpose
  BY DEF Challenged, TypeOK, CodeRow
<1>2. AttemptsInv'
  BY <1>1, AttemptsAssumption DEF EvidenceInv, AttemptsInv
<1>3. SignatureHasEvidence'
  BY <1>1 DEF EvidenceInv, SignatureHasEvidence
<1>4. \A s \in sigs : s.code # c
  BY NullAssumption DEF EvidenceInv, SignatureHasEvidence, RegistryInv, SigInv, TypeOK, SigRow, Sig
<1>5. {s \in sigs : s.code = c} = {}
  BY <1>4
<1>6. CodeSignsAllOrNothing'
  BY <1>1, <1>5 DEF EvidenceInv, CodeSignsAllOrNothing
<1> QED
  BY <1>2, <1>3, <1>6 DEF EvidenceInv

(* A failed answer leaves the code without signatures.                     *)
LEMMA EvidenceOfFailure ==
  ASSUME TypeOK, RegistryInv, EvidenceInv, NEW e \in Employees, NEW c \in Codes, FailCode(e, c)
  PROVE  EvidenceInv'
<1>1. /\ c \in DOMAIN code /\ code[c].status = "pending"
      /\ code' = WrongAnswer(code, c) \/ code' = OutOfDate(code, c)
      /\ UNCHANGED <<sigs, made, read, doc>>
  BY DEF FailCode, Answerable
<1>2. code[c] \in CodeRow(SUBSET Docs)
  BY <1>1 DEF TypeOK
<1>3. /\ DOMAIN code' = DOMAIN code
      /\ code'[c].purpose = code[c].purpose
      /\ \A x \in DOMAIN code \ {c} : code'[x] = code[x]
      /\ code'[c].status # "confirmed"
  <2>1. DOMAIN code' = DOMAIN code
    BY <1>1 DEF WrongAnswer, OutOfDate
  <2>2. code'[c].purpose = code[c].purpose
    BY <1>1, <1>2 DEF WrongAnswer, OutOfDate, CodeRow
  <2>3. \A x \in DOMAIN code \ {c} : code'[x] = code[x]
    BY <1>1 DEF WrongAnswer, OutOfDate
  <2>4. code'[c].status # "confirmed"
    BY <1>1, <1>2 DEF WrongAnswer, OutOfDate, CodeRow
  <2> QED
    BY <2>1, <2>2, <2>3, <2>4
<1>4. AttemptsInv'
  <2>1. code'[c].status = "pending" => code'[c].attempts < MaxAttempts
    BY <1>1, <1>2, AnswerRows, AttemptsAssumption DEF CodeRow
  <2> QED
    BY <1>3, <2>1 DEF EvidenceInv, AttemptsInv
<1>5. SignatureHasEvidence'
  BY <1>1, <1>3 DEF EvidenceInv, SignatureHasEvidence
<1>6. CodeSignsAllOrNothing'
  BY <1>1, <1>3 DEF EvidenceInv, CodeSignsAllOrNothing
<1> QED
  BY <1>4, <1>5, <1>6 DEF EvidenceInv

(* The commit uses the code up for all its documents.                      *)
LEMMA EvidenceOfCommit ==
  ASSUME TypeOK, RegistryInv, EvidenceInv, TxInv, NEW e \in Employees, CommitSign(e)
  PROVE  EvidenceInv'
<1> DEFINE c == tx[e].code
           S == code[c].scope
           new == {Sig(d, "employee", "unep_lg", c, tx[e].key) : d \in S}
<1>1. code' = Confirmed(code, c) /\ UNCHANGED <<made, read>>
  BY DEF CommitSign
<1>2. /\ c \in DOMAIN code /\ code[c].status = "pending"
      /\ code[c].emp = e /\ code[c].purpose = "sign"
      /\ S \subseteq DOMAIN doc /\ S \subseteq read
      /\ \A d \in S : doc[d].emp = e /\ Sig(d, "employee", "unep_lg", c, tx[e].key) \in made
      /\ sigs' = sigs \cup new
  BY CommitFacts
<1>3. ASSUME NEW d \in DOMAIN doc PROVE doc'[d].emp = doc[d].emp
  BY CommitSignKeepsRegistry DEF SignedNow
<1>4. \A s \in new : /\ s.doc \in S /\ s.code = c /\ s \in made
  BY <1>2 DEF Sig
<1>5. {s.doc : s \in new} = S
  <2>1. ASSUME NEW d \in S PROVE d \in {s.doc : s \in new}
    <3>1. Sig(d, "employee", "unep_lg", c, tx[e].key) \in new
      OBVIOUS
    <3>2. Sig(d, "employee", "unep_lg", c, tx[e].key).doc = d
      BY DEF Sig
    <3> HIDE DEF new
    <3> QED
      BY <3>1, <3>2
  <2> QED
    BY <1>4, <2>1
<1>6. code[c] \in CodeRow(SUBSET Docs)
  BY <1>2 DEF TypeOK
<1>7. /\ DOMAIN code' = DOMAIN code
      /\ code'[c].status = "confirmed" /\ code'[c].emp = e
      /\ code'[c].purpose = "sign" /\ code'[c].scope = S
      /\ \A x \in DOMAIN code \ {c} : code'[x] = code[x]
  <2> HIDE DEF c, S, new
  <2>1. /\ DOMAIN code' = DOMAIN code
        /\ \A x \in DOMAIN code \ {c} : code'[x] = code[x]
    BY <1>1 DEF Confirmed
  <2>2. code'[c].status = "confirmed"
    BY ZenonT(60), <1>1, <1>2, <1>6, AnswerRows
  <2>3. code'[c].emp = code[c].emp /\ code'[c].purpose = code[c].purpose
    BY ZenonT(60), <1>1, <1>2, <1>6, AnswerRows
  <2>4. code'[c].scope = code[c].scope
    BY ZenonT(60), <1>1, <1>2, <1>6, AnswerRows
  <2> QED
    BY <1>2, <2>1, <2>2, <2>3, <2>4 DEF S
<1> HIDE DEF new, S
<1>8. AttemptsInv'
  BY <1>7 DEF EvidenceInv, AttemptsInv
<1>9. SignatureHasEvidence'
  <2>1. ASSUME NEW s \in sigs, s.type = "unep_lg"
        PROVE  /\ s \in made' /\ s.doc \in read' /\ s.code \in DOMAIN code'
               /\ code'[s.code].status = "confirmed" /\ code'[s.code].purpose = "sign"
               /\ code'[s.code].emp = doc'[s.doc].emp /\ s.doc \in code'[s.code].scope
    <3>1. s.doc \in DOMAIN doc
      BY DEF RegistryInv, SigInv
    <3>2. s.code \in DOMAIN code /\ code[s.code].status = "confirmed" /\ s.code # c
      BY <1>2, <2>1 DEF EvidenceInv, SignatureHasEvidence
    <3> QED
      BY <1>1, <1>3, <1>7, <2>1, <3>1, <3>2 DEF EvidenceInv, SignatureHasEvidence
  <2>2. ASSUME NEW s \in new
        PROVE  /\ s \in made' /\ s.doc \in read' /\ s.code \in DOMAIN code'
               /\ code'[s.code].status = "confirmed" /\ code'[s.code].purpose = "sign"
               /\ code'[s.code].emp = doc'[s.doc].emp /\ s.doc \in code'[s.code].scope
    BY <1>1, <1>2, <1>3, <1>4, <1>7
  <2> QED
    BY <1>2, <2>1, <2>2 DEF SignatureHasEvidence
<1>10. CodeSignsAllOrNothing'
  <2>1. ASSUME NEW x \in DOMAIN code, x # c
        PROVE  {t \in sigs' : t.code = x} = {t \in sigs : t.code = x}
    BY <1>2, <1>4, <2>1
  <2>2. {s.doc : s \in {t \in sigs : t.code = c}} = {}
    BY <1>2 DEF EvidenceInv, CodeSignsAllOrNothing
  <2>3. {t \in sigs : t.code = c} = {}
    BY <2>2
  <2>4. {t \in sigs' : t.code = c} = new
    BY <1>2, <1>4, <2>3
  <2>5. {s.doc : s \in {t \in sigs' : t.code = c}} = S
    BY <1>5, <2>4
  <2> QED
    BY <1>7, <2>1, <2>5 DEF EvidenceInv, CodeSignsAllOrNothing
<1> QED
  BY <1>8, <1>9, <1>10 DEF EvidenceInv
-----------------------------------------------------------------------------
(* The transactions in flight.                                             *)

(* What a transaction of e relies on is there as long as nobody touches    *)
(* the rows of e and the read marks and made signatures only grow.         *)
LEMMA TxKept ==
  ASSUME TypeOK, NEW e \in Employees, TxRow(e), tx'[e] = tx[e],
         tx[e].op = "sign" => current'[e] = current[e],
         tx[e].op = "sign" =>
           \A c \in DOMAIN code : code[c].emp = e => c \in DOMAIN code' /\ code'[c] = code[c],
         tx[e].op = "sign" =>
           \A d \in DOMAIN doc : doc[d].emp = e => d \in DOMAIN doc' /\ doc'[d] = doc[d],
         \A d \in DOMAIN doc : doc[d].emp = e => (d \in alarms' => d \in alarms),
         read \subseteq read', made \subseteq made'
  PROVE  TxRow(e)'
<1>1. CASE tx[e].op = "sign"
  <2> DEFINE c == tx[e].code
  <2>1. /\ c \in DOMAIN code /\ code[c].status = "pending"
        /\ code[c].emp = e /\ code[c].purpose = "sign"
        /\ \A d \in code[c].scope : Signable(e, d)
    BY <1>1 DEF TxRow, Answerable
  <2>2. c \in DOMAIN code' /\ code'[c] = code[c]
    BY <1>1, <2>1
  <2>3. ASSUME NEW d \in code[c].scope
        PROVE  d \in DOMAIN doc /\ doc[d].emp = e /\ Signable(e, d)'
    BY <1>1, <2>1 DEF Signable
  <2> QED
    BY <1>1, <2>1, <2>2, <2>3 DEF TxRow, Answerable
<1>2. CASE tx[e].op = "idle"
  BY <1>2 DEF TxRow, Idle, Tx
<1> QED
  BY <1>1, <1>2 DEF TypeOK, TxType

(* An employee without a transaction needs nothing.                        *)
LEMMA TxFree ==
  ASSUME NEW e \in Employees, tx'[e] = Idle
  PROVE  TxRow(e)'
BY DEF TxRow, Idle, Tx

(* Steps that leave the transactions and the rows they hold alone.         *)
LEMMA TxFrame ==
  ASSUME TypeOK, TxInv, tx' = tx, alarms' \subseteq alarms,
         read \subseteq read', made \subseteq made',
         \A e \in Employees : ~Free(e) => current'[e] = current[e],
         \A c \in DOMAIN code : ~Free(code[c].emp) => c \in DOMAIN code' /\ code'[c] = code[c],
         \A d \in DOMAIN doc : ~Free(doc[d].emp) => d \in DOMAIN doc' /\ doc'[d] = doc[d]
  PROVE  TxInv'
<1>1. ASSUME NEW e \in Employees, tx[e].op = "sign" PROVE ~Free(e)
  BY <1>1 DEF Free, Idle, Tx
<1>2. ASSUME NEW e \in Employees PROVE TxRow(e)'
  BY <1>1, TxKept DEF TxInv
<1> QED
  BY <1>2 DEF TxInv

(* The steps of a signing transaction itself.                              *)
LEMMA TxOfSignStep ==
  ASSUME TypeOK, RegistryInv, TxInv, NEW e \in Employees, SignStep(e)
  PROVE  TxInv'
<1> USE DEF TxInv
<1>1. ASSUME NEW f \in Employees, f # e, ~CommitSign(e) PROVE TxRow(f)'
  <2>1. /\ UNCHANGED <<current, code, doc, read>> /\ made \subseteq made' /\ tx'[f] = tx[f]
        /\ \A d \in alarms' \ alarms : d \in code[tx[e].code].scope /\ tx[e].op = "sign"
    BY <1>1 DEF SignStep, BeginSign, SignOne, FindTampered, ToSign, Rollback, keys, TypeOK
  <2>2. \A d \in alarms' \ alarms : doc[d].emp = e
    BY <2>1 DEF TxRow, Signable
  <2> QED
    BY <1>1, <2>1, <2>2, TxKept
<1>2. ASSUME NEW f \in Employees, f # e, CommitSign(e) PROVE TxRow(f)'
  <2> DEFINE c == tx[e].code
             S == code[c].scope
  <2>1. /\ UNCHANGED <<current, read, made, alarms>> /\ tx'[f] = tx[f]
        /\ code' = Confirmed(code, c)
    BY <1>2 DEF CommitSign, keys, TypeOK
  <2>2. /\ c \in DOMAIN code /\ code[c].emp = e /\ \A d \in S : doc[d].emp = e
        /\ DOMAIN doc' = DOMAIN doc /\ \A d \in DOMAIN doc \ S : doc'[d] = doc[d]
    BY <1>2, CommitFacts
  <2>3. /\ DOMAIN code' = DOMAIN code
        /\ \A x \in DOMAIN code \ {c} : code'[x] = code[x]
    BY <2>1 DEF Confirmed
  <2> HIDE DEF c, S
  <2> QED
    BY <1>2, <2>1, <2>2, <2>3, TxKept
<1>3. ASSUME NEW c \in Codes, BeginSign(e, c) PROVE TxRow(e)'
  <2>1. /\ tx'[e] = Tx("sign", c, current[e], {})
        /\ Answerable(code, c, e, "sign") /\ current[e] # NoKey
        /\ \A d \in code[c].scope : Signable(e, d)
        /\ UNCHANGED <<current, code, doc, read, made, alarms>>
    BY <1>3 DEF BeginSign, keys, TypeOK
  <2>2. /\ tx'[e].op = "sign" /\ tx'[e].code = c /\ tx'[e].key = current[e] /\ tx'[e].done = {}
    BY <2>1 DEF Tx
  <2> QED
    BY <2>1, <2>2 DEF TxRow, Answerable, Signable
<1>4. ASSUME NEW d \in Docs, SignOne(e, d) PROVE TxRow(e)'
  <2> DEFINE c == tx[e].code
  <2>1. /\ tx[e].op = "sign" /\ d \in code[c].scope
        /\ tx'[e] = Tx("sign", c, tx[e].key, tx[e].done \cup {d})
        /\ made' = made \cup {Sig(d, "employee", "unep_lg", c, tx[e].key)}
        /\ UNCHANGED <<current, code, doc, read, alarms>>
        /\ d \in intact
    BY <1>4 DEF SignOne, ToSign, keys, TypeOK
  <2>2. /\ tx'[e].op = "sign" /\ tx'[e].code = c /\ tx'[e].key = tx[e].key
        /\ tx'[e].done = tx[e].done \cup {d}
    BY <2>1 DEF Tx
  <2>3. d \notin alarms
    BY <2>1 DEF RegistryInv, AlarmInv
  <2>4. /\ Answerable(code, c, e, "sign") /\ tx[e].key = current[e] /\ current[e] # NoKey
        /\ \A x \in code[c].scope : Signable(e, x)
        /\ tx[e].done \subseteq code[c].scope
        /\ \A x \in tx[e].done :
             Sig(x, "employee", "unep_lg", c, tx[e].key) \in made /\ x \notin alarms
    BY <2>1 DEF TxRow
  <2>5. Answerable(code', c, e, "sign")
    BY <2>1, <2>4
  <2>7. ASSUME NEW x \in code[c].scope PROVE Signable(e, x)'
    <3>1. Signable(e, x)
      BY <2>4
    <3> QED
      BY <2>1, <3>1 DEF Signable
  <2>6. \A x \in tx'[e].done :
          Sig(x, "employee", "unep_lg", c, tx[e].key) \in made' /\ x \notin alarms'
    BY <2>1, <2>2, <2>3, <2>4
  <2> HIDE DEF c
  <2> QED
    BY <2>1, <2>2, <2>4, <2>5, <2>6, <2>7 DEF TxRow
<1>5. ASSUME NEW d \in Docs, FindTampered(e, d) PROVE TxRow(e)'
  BY <1>5, TxFree DEF FindTampered, TypeOK
<1>6. CASE CommitSign(e)
  <2>1. TxRow(e)'
    BY <1>6, TxFree DEF CommitSign, TypeOK
  <2> QED
    BY <1>2, <1>6, <2>1
<1>7. CASE Rollback(e)
  BY <1>7, TxFree, <1>1, <1>6 DEF Rollback, TypeOK
<1> QED
  BY <1>1, <1>3, <1>4, <1>5, <1>6, <1>7 DEF SignStep
-----------------------------------------------------------------------------
(* The theorems.                                                           *)

(* Steps that move documents keep the invariant.                           *)
LEMMA MovedKeeps ==
  ASSUME TypeOK, Inv, NEW D, Moved(D)
  PROVE  Inv'
<1>1. RegistryInv'
  BY MovedKeepsRegistry DEF Inv
<1>2. EvidenceInv'
  BY EvidenceFrame DEF Moved, Inv
<1>3. TxInv'
  BY TxFrame DEF Moved, Inv, Open, keys
<1> QED
  BY <1>1, <1>2, <1>3 DEF Inv

(* A new document keeps it.                                                *)
LEMMA EnteredKeeps ==
  ASSUME TypeOK, Inv, NEW d, NEW row, Entered(d, row)
  PROVE  Inv'
<1>1. /\ DOMAIN doc' = DOMAIN doc \cup {d}
      /\ \A x \in DOMAIN doc : doc'[x] = doc[x]
  BY DEF Entered, Added
<1>2. RegistryInv'
  BY EnteredKeepsRegistry DEF Inv
<1>3. EvidenceInv'
  BY <1>1, EvidenceFrame DEF Entered, Inv
<1>4. TxInv'
  BY <1>1, TxFrame DEF Entered, Inv, keys
<1> QED
  BY <1>2, <1>3, <1>4 DEF Inv

(* The signature of the employer, and the one on paper, keep it.           *)
LEMMA OfficeSignatureKeeps ==
  ASSUME TypeOK, Inv, NEW d \in Docs, EmployerSignature(d) \/ PaperSigned(d)
  PROVE  Inv'
<1>1. Open(d) /\ UNCHANGED <<keys, read, made, alarms, code, tx>>
  BY DEF EmployerSignature, PaperSigned
<1>2. RegistryInv' /\ (SignedNow({d}, "employer") \/ SignedNow({d}, "employee"))
  BY EmployerSignatureKeepsRegistry, PaperSignedKeepsRegistry DEF Inv
<1>3. EvidenceInv'
  <2>1. PICK s : sigs' = sigs \cup {s} /\ s.code = NoCode /\ s.type # "unep_lg"
    <3>1. ASSUME NEW role, NEW type, type # "unep_lg",
                 sigs' = sigs \cup {Sig(d, role, type, NoCode, NoKey)}
          PROVE  \E s : sigs' = sigs \cup {s} /\ s.code = NoCode /\ s.type # "unep_lg"
      <4> DEFINE s == Sig(d, role, type, NoCode, NoKey)
      <4>1. s.code = NoCode /\ s.type = type
        BY DEF Sig
      <4> HIDE DEF s
      <4>2. sigs' = sigs \cup {s}
        BY <3>1 DEF s
      <4> QED
        BY <3>1, <4>1, <4>2
    <3> QED
      BY <3>1 DEF EmployerSignature, PaperSigned
  <2> QED
    BY <1>1, <1>2, <2>1, EvidenceOfOthers DEF Inv, SignedNow
<1>4. TxInv'
  BY <1>1, <1>2, TxFrame DEF Inv, SignedNow, Open, keys
<1> QED
  BY <1>2, <1>3, <1>4 DEF Inv

(* A new code and a failed answer keep it.                                 *)
LEMMA CodeStepKeeps ==
  ASSUME TypeOK, Inv, NEW e \in Employees, NEW c \in Codes,
         \/ \E p \in Phones, S \in SUBSET Docs : RequestSignCode(e, c, S, p)
         \/ \E p \in Phones, purpose \in Purposes : OtherCode(e, c, purpose, p)
         \/ FailCode(e, c)
  PROVE  Inv'
<1>1. UNCHANGED <<keys, doc, read, intact, sigs, made, sheet, alarms, tx>> /\ Free(e)
  BY DEF RequestSignCode, OtherCode, FailCode
<1>2. RegistryInv'
  BY <1>1, RegistryFrame DEF Inv
<1>3. ASSUME NEW S, NEW purpose, NEW p, c \notin DOMAIN code,
             code' = Challenged(code, c, e, purpose, p, S)
      PROVE  Inv'
  <2>1. EvidenceInv'
    BY <1>1, <1>3, EvidenceOfNewCode DEF Inv
  <2>2. \A x \in DOMAIN code : code[x].emp # e => x \in DOMAIN code' /\ code'[x] = code[x]
    BY <1>3 DEF Challenged
  <2>3. TxInv'
    BY <1>1, <2>2, TxFrame DEF Inv, keys
  <2> QED
    BY <1>2, <2>1, <2>3 DEF Inv
<1>4. CASE FailCode(e, c)
  <2>1. EvidenceInv'
    BY <1>4, EvidenceOfFailure DEF Inv
  <2>2. /\ c \in DOMAIN code /\ code[c].emp = e
        /\ code' = WrongAnswer(code, c) \/ code' = OutOfDate(code, c)
    BY <1>4 DEF FailCode, Answerable
  <2>3. \A x \in DOMAIN code : code[x].emp # e => x \in DOMAIN code' /\ code'[x] = code[x]
    BY <2>2 DEF WrongAnswer, OutOfDate
  <2>4. TxInv'
    BY <1>1, <2>3, TxFrame DEF Inv, keys
  <2> QED
    BY <1>2, <2>1, <2>4 DEF Inv
<1> QED
  BY <1>3, <1>4 DEF RequestSignCode, OtherCode

(* Everything that touches neither documents nor signatures nor codes.     *)
LEMMA OtherStepKeeps ==
  ASSUME TypeOK, Inv,
         \/ UNCHANGED vars
         \/ \E e \in Employees : ReadCard(e)
         \/ Environment
  PROVE  Inv'
<1>1. /\ UNCHANGED <<doc, read, sigs, made, sheet, alarms, code, tx>>
      /\ intact' \subseteq intact
  BY DEF vars, ReadCard, Environment, KeyStep, KeyDies, FileDamaged
<1>2. \A e \in Employees : ~Free(e) => current'[e] = current[e]
  BY DEF vars, keys, ReadCard, Environment, KeyStep, KeyDies, FileDamaged, TypeOK,
     Key!Consent, Key!Issue, Key!Revoke
<1>3. RegistryInv'
  BY <1>1, RegistryFrame DEF Inv
<1>4. EvidenceInv'
  BY <1>1, EvidenceFrame DEF Inv
<1>5. TxInv'
  BY <1>1, <1>2, TxFrame DEF Inv
<1> QED
  BY <1>3, <1>4, <1>5 DEF Inv

(* A sheet is built for a document all of whose signatures are there.      *)
LEMMA BuildSheetKeeps ==
  ASSUME TypeOK, Inv, NEW d \in Docs, BuildSheet(d)
  PROVE  Inv'
<1>1. /\ UNCHANGED <<keys, doc, read, intact, sigs, made, alarms, code, tx>>
      /\ doc[d].status = "signed"
      /\ DOMAIN sheet' = DOMAIN sheet \cup {d} /\ sheet'[d] = SigsOf(d, sigs)
      /\ \A x \in DOMAIN sheet \ {d} : sheet'[x] = sheet[x]
  BY DEF BuildSheet
<1>2. SheetInv'
  BY <1>1 DEF Inv, RegistryInv, SheetInv
<1>3. SheetIsComplete'
  BY <1>1 DEF Inv, RegistryInv, SheetIsComplete, SigsOf
<1>4. RegistryInv'
  BY <1>1, <1>2, <1>3 DEF Inv, RegistryInv, DocInv, SigInv, AlarmInv, SignedIffComplete,
     EmployerSignsFirst, OneSignaturePerRole, AlarmedIsUnsigned, SignedBy, SigsOf
<1>5. EvidenceInv'
  BY <1>1, EvidenceFrame DEF Inv
<1>6. TxInv'
  BY <1>1, TxFrame DEF Inv, keys
<1> QED
  BY <1>4, <1>5, <1>6 DEF Inv

(* The steps of a signing transaction keep it.                             *)
LEMMA SignStepKeeps ==
  ASSUME TypeOK, Inv, NEW e \in Employees, SignStep(e)
  PROVE  Inv'
<1>1. TxInv'
  BY TxOfSignStep DEF Inv
<1>2. CASE CommitSign(e)
  BY <1>1, <1>2, CommitSignKeepsRegistry, EvidenceOfCommit DEF Inv
<1>3. CASE ~CommitSign(e)
  <2>1. /\ UNCHANGED <<doc, read, intact, sigs, sheet, code>> /\ made \subseteq made'
    BY <1>3 DEF SignStep, BeginSign, SignOne, FindTampered, Rollback
  <2>2. EvidenceInv'
    BY <2>1, EvidenceFrame DEF Inv
  <2>3. CASE alarms' = alarms
    BY <1>1, <2>1, <2>2, <2>3, RegistryFrame DEF Inv
  <2>4. ASSUME NEW d \in Docs, FindTampered(e, d) PROVE Inv'
    <3>1. tx[e].op = "sign" /\ d \in code[tx[e].code].scope /\ d \notin intact
          /\ alarms' = alarms \cup {d}
      BY <2>4 DEF FindTampered, ToSign
    <3>2. d \in DOMAIN doc /\ doc[d].sent /\ doc[d].status \in Pending
      BY <3>1 DEF Inv, TxInv, TxRow, Signable
    <3>3. AlarmInv'
      BY <2>1, <3>1, <3>2 DEF Inv, RegistryInv, AlarmInv
    <3>4. AlarmedIsUnsigned'
      BY <2>1, <3>1, <3>2 DEF Inv, RegistryInv, AlarmedIsUnsigned, SignedIffComplete, SignedBy,
         Pending, SigInv, TypeOK, SigRow, Sig
    <3>5. RegistryInv'
      BY <2>1, <3>3, <3>4 DEF Inv, RegistryInv, DocInv, SigInv, SheetInv, SignedIffComplete,
         EmployerSignsFirst, OneSignaturePerRole, SheetIsComplete, SignedBy, SigsOf
    <3> QED
      BY <1>1, <2>2, <3>5 DEF Inv
  <2> QED
    BY <1>3, <2>3, <2>4 DEF SignStep, BeginSign, SignOne, Rollback
<1> QED
  BY <1>2, <1>3

(* The invariant is inductive.                                             *)
LEMMA InvStep == IInv /\ [Next]_vars => IInv'
<1> SUFFICES ASSUME TypeOK, Inv, [Next]_vars PROVE IInv'
  BY DEF IInv
<1>1. TypeOK'
  BY TypeStep DEF Inv, EvidenceInv
<1>2. CASE UNCHANGED vars \/ Environment
  BY <1>1, <1>2, OtherStepKeeps DEF IInv
<1>3. CASE OfficeStep
  <2>1. ASSUME NEW d \in Docs, NEW e \in Employees, NEW kind \in Kinds,
               UploadDocument(d, e, kind) \/ \E freeze \in BOOLEAN : CreateDocument(d, e, kind, freeze)
        PROVE  Inv'
    BY <2>1, EnteringSteps, EnteredKeeps
  <2>2. ASSUME NEW d \in Docs, FreezeDocument(d) \/ CancelDocument(d) \/ ExpireDocument(d)
        PROVE  Inv'
    BY <2>2, MovingSteps, MovedKeeps DEF Inv
  <2>3. ASSUME NEW S \in SUBSET Docs, SendDocuments(S) PROVE Inv'
    BY <2>3, MovingSteps, MovedKeeps DEF Inv
  <2> QED
    BY <1>1, <1>3, <2>1, <2>2, <2>3, OfficeSignatureKeeps, BuildSheetKeeps DEF OfficeStep, IInv
<1>4. CASE PortalStep
  <2>1. ASSUME NEW d \in Docs, Reject(d) \/ \E toEnd \in BOOLEAN : MarkViewed(d, toEnd) PROVE Inv'
    BY <2>1, MovingSteps, MovedKeeps DEF Inv
  <2> QED
    BY <1>1, <1>4, <2>1, OtherStepKeeps, CodeStepKeeps DEF PortalStep, IInv
<1>5. ASSUME NEW e \in Employees, SignStep(e) PROVE IInv'
  BY <1>1, <1>5, SignStepKeeps DEF IInv
<1> QED
  BY <1>2, <1>3, <1>4, <1>5 DEF Next

(* It holds initially.                                                     *)
LEMMA InvInit == Init => IInv
BY DEF Init, Key!Init, IInv, TypeOK, Inv, RegistryInv, EvidenceInv, TxInv, TxRow, DocInv, SigInv,
   SheetInv, AlarmInv, AttemptsInv, SignedIffComplete, EmployerSignsFirst, OneSignaturePerRole,
   AlarmedIsUnsigned, SheetIsComplete, SignatureHasEvidence, CodeSignsAllOrNothing, TxType, Idle, Tx

(* The tables and columns keep their types in every behaviour.             *)
THEOREM SigningTyped == Spec => []TypeOK
BY InvInit, InvStep, PTL DEF Spec, IInv

(* The inductive invariant holds throughout.                               *)
THEOREM SigningInvariant == Spec => []IInv
BY InvInit, InvStep, PTL DEF Spec

(* A document is signed exactly when everybody who had to sign it did.     *)
THEOREM SignedAlwaysComplete == Spec => []SignedIffComplete
<1>1. IInv => SignedIffComplete
  BY DEF IInv, Inv, RegistryInv
<1> QED
  BY <1>1, SigningInvariant, PTL

(* No employee sees an order the employer has not signed.                  *)
THEOREM EmployerAlwaysFirst == Spec => []EmployerSignsFirst
<1>1. IInv => EmployerSignsFirst
  BY DEF IInv, Inv, RegistryInv
<1> QED
  BY <1>1, SigningInvariant, PTL

(* No role signs a document twice.                                         *)
THEOREM NoSecondSignature == Spec => []OneSignaturePerRole
<1>1. IInv => OneSignaturePerRole
  BY DEF IInv, Inv, RegistryInv
<1> QED
  BY <1>1, SigningInvariant, PTL

(* Every electronic signature rests on its own code and on the reading.    *)
THEOREM EvidenceAlwaysThere == Spec => []SignatureHasEvidence
<1>1. IInv => SignatureHasEvidence
  BY DEF IInv, Inv, EvidenceInv
<1> QED
  BY <1>1, SigningInvariant, PTL

(* A code signs its whole batch or nothing, for batches of any size.       *)
THEOREM BatchIsAtomic == Spec => []CodeSignsAllOrNothing
<1>1. IInv => CodeSignsAllOrNothing
  BY DEF IInv, Inv, EvidenceInv
<1> QED
  BY <1>1, SigningInvariant, PTL

(* What was found changed is never signed electronically.                  *)
THEOREM AlarmedNeverSigned == Spec => []AlarmedIsUnsigned
<1>1. IInv => AlarmedIsUnsigned
  BY DEF IInv, Inv, RegistryInv
<1> QED
  BY <1>1, SigningInvariant, PTL

(* A signing sheet lists all the signatures of its document.               *)
THEOREM SheetAlwaysComplete == Spec => []SheetIsComplete
<1>1. IInv => SheetIsComplete
  BY DEF IInv, Inv, RegistryInv
<1> QED
  BY <1>1, SigningInvariant, PTL

(* An electronic signature is committed under the key of the employee.     *)
THEOREM AlwaysCurrentKey == Spec => SignedWithCurrentKey
<1> DEFINE Backed == \A s \in sigs' \ sigs :
                       s.type = "unep_lg" => s.key # NoKey /\ current[doc[s.doc].emp] = s.key
                                             /\ current'[doc[s.doc].emp] = s.key
<1>1. IInv /\ [Next]_vars => [Backed]_vars
  <2> SUFFICES ASSUME IInv, Next PROVE Backed
    OBVIOUS
  <2>1. ASSUME sigs' = sigs PROVE Backed
    BY <2>1
  <2>2. ASSUME NEW d \in Docs, EmployerSignature(d) \/ PaperSigned(d) PROVE Backed
    <3>1. ASSUME NEW s \in sigs' \ sigs PROVE s.type # "unep_lg"
      BY <2>2 DEF EmployerSignature, PaperSigned, Sig
    <3> QED
      BY <3>1
  <2>3. ASSUME NEW e \in Employees, CommitSign(e) PROVE Backed
    <3> DEFINE S == code[tx[e].code].scope
    <3>1. /\ \A d \in S : doc[d].emp = e
          /\ tx[e].key = current[e] /\ current[e] # NoKey
          /\ sigs' = sigs \cup {Sig(d, "employee", "unep_lg", tx[e].code, tx[e].key) : d \in S}
      BY <2>3, CommitFacts DEF IInv, Inv
    <3>2. current' = current
      BY <2>3 DEF CommitSign, keys
    <3>3. ASSUME NEW s \in sigs' \ sigs PROVE s.key = tx[e].key /\ doc[s.doc].emp = e
      BY <3>1 DEF Sig
    <3> QED
      BY <3>1, <3>2, <3>3
  <2>4. CASE OfficeStep
    BY <2>1, <2>2, <2>4 DEF OfficeStep, UploadDocument, CreateDocument, FreezeDocument,
       CancelDocument, ExpireDocument, BuildSheet, SendDocuments
  <2>5. CASE PortalStep
    BY <2>1, <2>5 DEF PortalStep, Reject, MarkViewed, ReadCard, FailCode, RequestSignCode, OtherCode
  <2>6. CASE Environment
    BY <2>1, <2>6 DEF Environment, KeyStep, KeyDies, FileDamaged
  <2>7. ASSUME NEW e \in Employees, SignStep(e) PROVE Backed
    BY <2>1, <2>3, <2>7 DEF SignStep, BeginSign, SignOne, FindTampered, Rollback
  <2> QED
    BY <2>4, <2>5, <2>6, <2>7 DEF Next
<1> QED
  BY <1>1, SigningInvariant, PTL DEF Spec, SignedWithCurrentKey

(* The outcome of a document is final, whoever acts on it later.           *)
THEOREM OutcomeAlwaysFinal == Spec => OutcomeIsFinal
<1> DEFINE Over == {"signed", "rejected", "cancelled", "archived_paper"}
           Final == \A d \in DOMAIN doc : doc[d].status \in Over => doc'[d].status = doc[d].status
<1>1. IInv /\ [Next]_vars => [Final]_vars
  <2> SUFFICES ASSUME IInv, Next PROVE Final
    OBVIOUS
  <2>1. ASSUME doc' = doc PROVE Final
    BY <2>1
  <2>2. ASSUME NEW d \in Docs, NEW s, doc' = Marked(d, s), doc[d].status \notin Over PROVE Final
    BY <2>2 DEF Marked
  <2>3. ASSUME NEW d \in Docs, NEW row, doc' = Added(d, row), d \notin DOMAIN doc PROVE Final
    BY <2>3 DEF Added
  <2>4. ASSUME NEW S \in SUBSET Docs, SendDocuments(S) PROVE Final
    BY <2>4 DEF SendDocuments
  <2>5. ASSUME NEW e \in Employees, CommitSign(e) PROVE Final
    <3>1. LET S == code[tx[e].code].scope
          IN /\ \A d \in S : doc[d].status \in Pending
             /\ \A d \in DOMAIN doc \ S : doc'[d] = doc[d]
      BY <2>5, CommitFacts DEF IInv, Inv
    <3> QED
      BY <3>1 DEF Pending
  <2>6. CASE OfficeStep
    BY ZenonT(60), <2>1, <2>2, <2>3, <2>4, <2>6 DEF OfficeStep, UploadDocument, CreateDocument,
       FreezeDocument, EmployerSignature, CancelDocument, Cancellable, PaperSigned,
       ExpireDocument, BuildSheet
  <2>7. CASE PortalStep
    BY <2>1, <2>2, <2>7 DEF PortalStep, Reject, Pending, MarkViewed, ReadCard, FailCode,
       RequestSignCode, OtherCode
  <2>8. CASE Environment
    BY <2>1, <2>8 DEF Environment, KeyStep, KeyDies, FileDamaged
  <2>9. ASSUME NEW e \in Employees, SignStep(e) PROVE Final
    BY <2>1, <2>5, <2>9 DEF SignStep, BeginSign, SignOne, FindTampered, Rollback
  <2> QED
    BY <2>6, <2>7, <2>8, <2>9 DEF Next
<1> QED
  BY <1>1, SigningInvariant, PTL DEF Spec, OutcomeIsFinal

(* The order and the outcome of signatures, together.                      *)
THEOREM SignaturesAlwaysOrderly == Spec => []SignaturesAreOrderly
BY SignedAlwaysComplete, EmployerAlwaysFirst, NoSecondSignature, PTL DEF SignaturesAreOrderly

(* The evidence of signatures, together.                                   *)
THEOREM EvidenceAlwaysComplete == Spec => []EvidenceIsComplete
BY EvidenceAlwaysThere, SheetAlwaysComplete, AlarmedNeverSigned, PTL DEF EvidenceIsComplete

(* The key in force and the final outcomes, together.                      *)
THEOREM SignedAlwaysStands == Spec => SignedStands
BY AlwaysCurrentKey, OutcomeAlwaysFinal DEF SignedStands
=============================================================================
