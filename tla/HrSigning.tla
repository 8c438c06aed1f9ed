----------------------------- MODULE HrSigning ------------------------------
(***************************************************************************)
(* The life of personnel documents (hr_edo/service.py, signing.py,         *)
(* tasks.py): frozen, signed by the employer, sent, read, and signed by    *)
(* the employee with a code from an SMS that covers a set of documents.    *)
(*                                                                         *)
(* confirm_and_sign is one database transaction with calls to S3 and to    *)
(* the crypto-service inside.  Here it is BeginSign, a SignOne for each    *)
(* document, and CommitSign; between them it holds the row of the employee *)
(* and the rows of the documents, and it may end in Rollback or in         *)
(* FindTampered instead.  Every other operation locks the row of the       *)
(* document or waits, by the foreign key of its protocol event, for the    *)
(* row of the employee, so it is one step taken when no signing transaction*)
(* of that employee is open.                                               *)
(*                                                                         *)
(* Keys come and go as ConsentedKey says, which HrEnrolment implements.    *)
(* The content of a document never changes once it is frozen, so a digest  *)
(* stands for its document, and the digests_hash of a code for the set of  *)
(* documents it covers.                                                    *)
(***************************************************************************)
EXTENDS HrOtp

CONSTANTS
  Docs,     \* identities of documents
  Keys,     \* identities of signing keys
  NoKey,    \* NULL in hr_employees.active_key_id
  NoCode    \* a signature without a code, or no code in a transaction

ASSUME NullAssumption == NoKey \notin Keys /\ NoCode \notin Codes

VARIABLES
  consented, current, used,   \* the keys, as in ConsentedKey
  dead,        \* keys the crypto-service refuses to sign with
  doc,         \* hr_documents
  read,        \* documents with a viewed_to_end event of their employee
  intact,      \* documents whose file in S3 still has the frozen hash
  sigs,        \* hr_signatures
  made,        \* signatures the crypto-service made, kept or not
  sheet,       \* stamped_file: the signatures the signing sheet lists
  alarms,      \* documents with an integrity_failed event
  code,        \* hr_sign_challenges
  seen,        \* employees whose card a request has read, without a lock, with a key on it
  tx           \* the confirm_and_sign that holds the row of each employee

keys == <<consented, current, used>>
vars == <<keys, dead, doc, read, intact, sigs, made, sheet, alarms, code, seen, tx>>

Key == INSTANCE ConsentedKey

DocStatus == {"draft", "frozen", "awaiting_employer", "sent", "viewed", "signed", "rejected",
              "expired", "cancelled", "archived_paper"}
Cancellable == {"draft", "frozen", "awaiting_employer", "sent", "viewed", "expired"}
Pending == {"sent", "viewed"}
Visible == {"sent", "viewed", "signed", "rejected", "expired", "awaiting_employer"}

(* The three classes the document types of stage 1 fall into: an order     *)
(* signed by both with the employer first, a paper the employee signs      *)
(* alone, and one kept on paper only.                                      *)
Kinds == {"bilateral", "unilateral", "paper"}
NeedsEmployer(kind) == kind = "bilateral"
AllowsUnep(kind) == kind # "paper"

Doc(e, kind, status, sent) == [emp |-> e, kind |-> kind, status |-> status, sent |-> sent]
Sig(d, role, type, c, k) == [doc |-> d, role |-> role, type |-> type, code |-> c, key |-> k]
Tx(op, c, k, done) == [op |-> op, code |-> c, key |-> k, done |-> done]
Idle == Tx("idle", NoCode, NoKey, {})

Free(e) == tx[e] = Idle
Open(d) == d \in DOMAIN doc /\ Free(doc[d].emp)

(* The documents after the status of d became s.                           *)
Marked(d, s) == [doc EXCEPT ![d] = Doc(doc[d].emp, doc[d].kind, s, doc[d].sent)]

SigsOf(d, S) == {s \in S : s.doc = d}
SignedBy(d, role, S) == \E s \in S : s.doc = d /\ s.role = role

Init ==
  /\ Key!Init
  /\ dead = {} /\ read = {} /\ intact = {} /\ sigs = {} /\ made = {} /\ alarms = {} /\ seen = {}
  /\ doc = [d \in {} |-> Idle]
  /\ sheet = [d \in {} |-> {}]
  /\ code = [c \in {} |-> Idle]
  /\ tx = [e \in Employees |-> Idle]
-----------------------------------------------------------------------------
(* The personnel officer and the employer.                                 *)

StatusAfterFreeze(kind) ==
  CASE kind = "paper" -> "archived_paper"
    [] NeedsEmployer(kind) -> "awaiting_employer"
    [] OTHER -> "frozen"

Added(d, row) == [x \in DOMAIN doc \cup {d} |-> IF x = d THEN row ELSE doc[x]]

(* create_documents, from a template: a draft, or frozen in the same       *)
(* transaction.  No type kept on paper has a template.                     *)
CreateDocument(d, e, kind, freeze) ==
  /\ d \in Docs \ DOMAIN doc
  /\ Free(e)
  /\ kind # "paper"
  /\ doc' = Added(d, Doc(e, kind, IF freeze THEN StatusAfterFreeze(kind) ELSE "draft", FALSE))
  /\ intact' = IF freeze THEN intact \cup {d} ELSE intact
  /\ UNCHANGED <<keys, dead, read, sigs, made, sheet, alarms, code, seen, tx>>

(* upload_document: a ready file, frozen at once.                          *)
UploadDocument(d, e, kind) ==
  /\ d \in Docs \ DOMAIN doc
  /\ Free(e)
  /\ doc' = Added(d, Doc(e, kind, StatusAfterFreeze(kind), FALSE))
  /\ intact' = intact \cup {d}
  /\ UNCHANGED <<keys, dead, read, sigs, made, sheet, alarms, code, seen, tx>>

FreezeDocument(d) ==
  /\ Open(d)
  /\ doc[d].status = "draft"
  /\ doc' = Marked(d, StatusAfterFreeze(doc[d].kind))
  /\ intact' = intact \cup {d}
  /\ UNCHANGED <<keys, dead, read, sigs, made, sheet, alarms, code, seen, tx>>

(* Fault: any signature completes the document.                            *)
CompletionByAnyone(d, S) == IF SigsOf(d, S) # {} THEN "signed" ELSE doc[d].status

(* The status the signatures of S give document d.                         *)
CompletionStatus(d, S) ==
  LET employeeDone == SignedBy(d, "employee", S)
      employerDone == NeedsEmployer(doc[d].kind) => SignedBy(d, "employer", S)
  IN CASE employeeDone /\ employerDone -> "signed"
       [] employeeDone /\ ~employerDone -> "awaiting_employer"
       [] ~employeeDone /\ employerDone /\ ~doc[d].sent -> "frozen"
       [] OTHER -> doc[d].status

(* The documents after those of D got the status the signatures of S give. *)
Completed(D, S) ==
  [d \in DOMAIN doc |->
     IF d \in D THEN Doc(doc[d].emp, doc[d].kind, CompletionStatus(d, S), doc[d].sent) ELSE doc[d]]

(* The director's qualified signature, made outside and uploaded.          *)
EmployerSignature(d) ==
  /\ Open(d)
  /\ NeedsEmployer(doc[d].kind)
  /\ doc[d].status = "awaiting_employer"
  /\ ~SignedBy(d, "employer", sigs)
  /\ sigs' = sigs \cup {Sig(d, "employer", "ukep", NoCode, NoKey)}
  /\ doc' = Marked(d, CompletionStatus(d, sigs'))
  /\ UNCHANGED <<keys, dead, read, intact, made, sheet, alarms, code, seen, tx>>

(* send_documents and the portal look at the key on a card they read       *)
(* without a lock: it may be revoked before they write.                    *)
ReadCard(e) ==
  /\ current[e] # NoKey
  /\ seen' = seen \cup {e}
  /\ UNCHANGED <<keys, dead, doc, read, intact, sigs, made, sheet, alarms, code, tx>>

(* One call sends a whole selection, or nothing of it.                     *)
SendDocuments(S) ==
  /\ S # {}
  /\ \A d \in S :
       /\ Open(d)
       /\ doc[d].kind # "paper"
       /\ doc[d].status = "frozen"
       /\ doc[d].emp \in seen
  /\ doc' = [d \in DOMAIN doc |->
               IF d \in S THEN Doc(doc[d].emp, doc[d].kind, "sent", TRUE) ELSE doc[d]]
  /\ seen' = seen \ {doc[d].emp : d \in S}
  /\ UNCHANGED <<keys, dead, read, intact, sigs, made, sheet, alarms, code, tx>>

CancelDocument(d) ==
  /\ Open(d)
  /\ doc[d].status \in Cancellable
  /\ doc' = Marked(d, "cancelled")
  /\ UNCHANGED <<keys, dead, read, intact, sigs, made, sheet, alarms, code, seen, tx>>

(* The employee signed the original by hand; the scan is uploaded.         *)
PaperSigned(d) ==
  /\ Open(d)
  /\ doc[d].status \in {"frozen", "sent", "viewed", "expired"}
  /\ sigs' = sigs \cup {Sig(d, "employee", "paper", NoCode, NoKey)}
  /\ doc' = Marked(d, CompletionStatus(d, sigs'))
  /\ UNCHANGED <<keys, dead, read, intact, made, sheet, alarms, code, seen, tx>>

(* Fault: the task overwrites a signature committed after its SELECT.      *)
ExpireStale(d) ==
  /\ Open(d)
  /\ doc[d].status \in {"sent", "viewed", "signed"}
  /\ doc' = Marked(d, "expired")
  /\ UNCHANGED <<keys, dead, read, intact, sigs, made, sheet, alarms, code, seen, tx>>

(* Fault: the task forgets the documents the employee has opened.          *)
ExpireUnopened(d) ==
  /\ Open(d)
  /\ doc[d].status = "sent"
  /\ doc' = Marked(d, "expired")
  /\ UNCHANGED <<keys, dead, read, intact, sigs, made, sheet, alarms, code, seen, tx>>

(* The nightly task, for a document past its due date that no signing      *)
(* transaction holds (SKIP LOCKED).                                        *)
ExpireDocument(d) ==
  /\ Open(d)
  /\ doc[d].status \in {"sent", "viewed"}
  /\ doc' = Marked(d, "expired")
  /\ UNCHANGED <<keys, dead, read, intact, sigs, made, sheet, alarms, code, seen, tx>>

(* The signing sheet, built after the commit or when somebody asks for it. *)
BuildSheet(d) ==
  /\ Open(d)
  /\ doc[d].status = "signed"
  /\ d \notin DOMAIN sheet
  /\ d \in intact
  /\ sheet' = [x \in DOMAIN sheet \cup {d} |-> IF x = d THEN SigsOf(d, sigs) ELSE sheet[x]]
  /\ UNCHANGED <<keys, dead, doc, read, intact, sigs, made, alarms, code, seen, tx>>
-----------------------------------------------------------------------------
(* The employee in the portal.                                             *)

MarkViewed(d, toEnd) ==
  /\ Open(d)
  /\ doc[d].sent
  /\ doc[d].status \in Visible
  /\ read' = IF toEnd THEN read \cup {d} ELSE read
  /\ doc' = IF doc[d].status = "sent" THEN Marked(d, "viewed") ELSE doc
  /\ UNCHANGED <<keys, dead, intact, sigs, made, sheet, alarms, code, seen, tx>>

Reject(d) ==
  /\ Open(d)
  /\ doc[d].sent
  /\ doc[d].status \in Pending
  /\ doc' = Marked(d, "rejected")
  /\ UNCHANGED <<keys, dead, read, intact, sigs, made, sheet, alarms, code, seen, tx>>

(* What _signable asks of a document; the key is asked for by its callers. *)
Signable(e, d) ==
  /\ d \in DOMAIN doc
  /\ doc[d].emp = e
  /\ doc[d].sent
  /\ AllowsUnep(doc[d].kind)
  /\ doc[d].status \in Pending
  /\ d \in read

RequestSignCode(e, c, S, p) ==
  /\ S # {}
  /\ Free(e)
  /\ e \in seen
  /\ \A d \in S : Signable(e, d)
  /\ c \in Codes \ DOMAIN code
  /\ code' = Challenged(code, c, e, "sign", p, S)
  /\ seen' = seen \ {e}
  /\ UNCHANGED <<keys, dead, doc, read, intact, sigs, made, sheet, alarms, tx>>

(* Codes for the portal and for a key live in the same table.              *)
OtherCode(e, c, purpose, p) ==
  /\ Free(e)
  /\ purpose # "sign"
  /\ c \in Codes \ DOMAIN code
  /\ code' = Challenged(code, c, e, purpose, p, {})
  /\ UNCHANGED <<keys, dead, doc, read, intact, sigs, made, sheet, alarms, seen, tx>>

(* confirm_and_sign with a wrong or an outdated code.                      *)
FailCode(e, c) ==
  /\ Free(e)
  /\ Answerable(code, c, e, "sign")
  /\ code' \in {WrongAnswer(code, c), OutOfDate(code, c)}
  /\ UNCHANGED <<keys, dead, doc, read, intact, sigs, made, sheet, alarms, seen, tx>>
-----------------------------------------------------------------------------
(* confirm_and_sign with the right code.                                   *)

BeginSign(e, c) ==
  /\ Free(e)
  /\ Answerable(code, c, e, "sign")
  /\ \A d \in code[c].scope : Signable(e, d)
  /\ current[e] # NoKey
  /\ tx' = [tx EXCEPT ![e] = Tx("sign", c, current[e], {})]
  /\ UNCHANGED <<keys, dead, doc, read, intact, sigs, made, sheet, alarms, code, seen>>

ToSign(e, d) ==
  /\ tx[e].op = "sign"
  /\ d \in code[tx[e].code].scope \ tx[e].done

(* Fault: the file is not read back.                                       *)
SignUnchecked(e, d) ==
  /\ ToSign(e, d)
  /\ tx[e].key \notin dead
  /\ made' = made \cup {Sig(d, "employee", "unep_lg", tx[e].code, tx[e].key)}
  /\ tx' = [tx EXCEPT ![e] = Tx("sign", tx[e].code, tx[e].key, tx[e].done \cup {d})]
  /\ UNCHANGED <<keys, dead, doc, read, intact, sigs, sheet, alarms, code, seen>>

(* The file is read back and compared with the hash, the crypto-service    *)
(* signs the hash, and the signature is stored.                            *)
SignOne(e, d) ==
  /\ ToSign(e, d)
  /\ d \in intact
  /\ tx[e].key \notin dead
  /\ made' = made \cup {Sig(d, "employee", "unep_lg", tx[e].code, tx[e].key)}
  /\ tx' = [tx EXCEPT ![e] = Tx("sign", tx[e].code, tx[e].key, tx[e].done \cup {d})]
  /\ UNCHANGED <<keys, dead, doc, read, intact, sigs, sheet, alarms, code, seen>>

(* The file is not the one that was frozen: everything is rolled back, and *)
(* the failure is recorded by a transaction of its own.                    *)
FindTampered(e, d) ==
  /\ ToSign(e, d)
  /\ d \notin intact
  /\ alarms' = alarms \cup {d}
  /\ tx' = [tx EXCEPT ![e] = Idle]
  /\ UNCHANGED <<keys, dead, doc, read, intact, sigs, made, sheet, code, seen>>

(* An error of a service or a crash: the code is pending again, and the    *)
(* signatures already made are known to nobody.                            *)
Rollback(e) ==
  /\ tx[e].op = "sign"
  /\ tx' = [tx EXCEPT ![e] = Idle]
  /\ UNCHANGED <<keys, dead, doc, read, intact, sigs, made, sheet, alarms, code, seen>>

(* Fault: what was signed before an error is kept.                         *)
CommitSome(e) ==
  LET c == tx[e].code
  IN /\ tx[e].op = "sign"
     /\ sigs' = sigs \cup {Sig(d, "employee", "unep_lg", c, tx[e].key) : d \in tx[e].done}
     /\ doc' = Completed(tx[e].done, sigs')
     /\ code' = Confirmed(code, c)
     /\ tx' = [tx EXCEPT ![e] = Idle]
     /\ UNCHANGED <<keys, dead, read, intact, made, sheet, alarms, seen>>

CommitSign(e) ==
  LET c == tx[e].code
      S == code[c].scope
  IN /\ tx[e].op = "sign"
     /\ tx[e].done = S
     /\ sigs' = sigs \cup {Sig(d, "employee", "unep_lg", c, tx[e].key) : d \in S}
     /\ doc' = Completed(S, sigs')
     /\ code' = Confirmed(code, c)
     /\ tx' = [tx EXCEPT ![e] = Idle]
     /\ UNCHANGED <<keys, dead, read, intact, made, sheet, alarms, seen>>
-----------------------------------------------------------------------------
(* What happens around the documents: HrEnrolment registers consents and   *)
(* issues and revokes keys, in the crypto-service first; a file in S3 is   *)
(* damaged or replaced.                                                    *)

KeyStep(e) ==
  /\ Free(e)
  /\ \/ Key!Consent(e)
     \/ \E k \in Keys : k \notin dead /\ Key!Issue(e, k)
     \/ current[e] \in dead /\ Key!Revoke(e)
  /\ UNCHANGED <<dead, doc, read, intact, sigs, made, sheet, alarms, code, seen, tx>>

KeyDies(e) ==
  /\ Free(e)
  /\ current[e] # NoKey
  /\ dead' = dead \cup {current[e]}
  /\ UNCHANGED <<keys, doc, read, intact, sigs, made, sheet, alarms, code, seen, tx>>

FileDamaged(d) ==
  /\ d \in intact
  /\ intact' = intact \ {d}
  /\ UNCHANGED <<keys, dead, doc, read, sigs, made, sheet, alarms, code, seen, tx>>
-----------------------------------------------------------------------------
OfficeStep ==
  \/ \E d \in Docs, e \in Employees, kind \in Kinds :
       \/ UploadDocument(d, e, kind)
       \/ \E freeze \in BOOLEAN : CreateDocument(d, e, kind, freeze)
  \/ \E d \in Docs :
       \/ FreezeDocument(d) \/ EmployerSignature(d) \/ CancelDocument(d)
       \/ PaperSigned(d) \/ ExpireDocument(d) \/ BuildSheet(d)
  \/ \E S \in SUBSET Docs : SendDocuments(S)

PortalStep ==
  \/ \E d \in Docs : Reject(d) \/ \E toEnd \in BOOLEAN : MarkViewed(d, toEnd)
  \/ \E e \in Employees : ReadCard(e)
  \/ \E e \in Employees, c \in Codes :
       \/ FailCode(e, c)
       \/ \E p \in Phones :
            \/ \E S \in SUBSET Docs : RequestSignCode(e, c, S, p)
            \/ \E purpose \in Purposes : OtherCode(e, c, purpose, p)

SignStep(e) ==
  \/ \E c \in Codes : BeginSign(e, c)
  \/ \E d \in Docs : SignOne(e, d) \/ FindTampered(e, d)
  \/ CommitSign(e)
  \/ Rollback(e)

Environment ==
  \/ \E e \in Employees : KeyStep(e) \/ KeyDies(e)
  \/ \E d \in Docs : FileDamaged(d)

Next == OfficeStep \/ PortalStep \/ Environment \/ \E e \in Employees : SignStep(e)

Spec == Init /\ [][Next]_vars

(* The transaction always ends, because its calls have timeouts; the task  *)
(* that expires documents runs every night, and does not meet a signing    *)
(* transaction of the same document every night.                           *)
Fairness ==
  /\ \A e \in Employees : WF_vars(CommitSign(e) \/ Rollback(e))
  /\ \A d \in Docs : SF_vars(ExpireDocument(d))

FairSpec == Spec /\ Fairness
-----------------------------------------------------------------------------
(* Properties.                                                             *)

DocRow == [emp : Employees, kind : Kinds, status : DocStatus, sent : BOOLEAN]
SigRow == [doc : Docs, role : {"employer", "employee"}, type : {"ukep", "paper", "unep_lg"},
           code : Codes \cup {NoCode}, key : Keys \cup {NoKey}]
TxType == [op : {"idle", "sign"}, code : Codes \cup {NoCode}, key : Keys \cup {NoKey},
           done : SUBSET Docs]

(* The values the columns and the tables may hold.                         *)
TypeOK ==
  /\ consented \subseteq Employees
  /\ current \in [Employees -> Keys \cup {NoKey}]
  /\ used \subseteq Keys /\ dead \subseteq Keys
  /\ DOMAIN doc \subseteq Docs /\ doc \in [DOMAIN doc -> DocRow]
  /\ read \subseteq DOMAIN doc /\ intact \subseteq DOMAIN doc /\ alarms \subseteq DOMAIN doc
  /\ sigs \subseteq SigRow /\ made \subseteq SigRow
  /\ DOMAIN sheet \subseteq DOMAIN doc /\ sheet \in [DOMAIN sheet -> SUBSET SigRow]
  /\ DOMAIN code \subseteq Codes /\ code \in [DOMAIN code -> CodeRow(SUBSET Docs)]
  /\ seen \subseteq Employees
  /\ tx \in [Employees -> TxType]

(* A document is signed exactly when the employee signed it, and then      *)
(* everybody who had to sign did: no signature is left on a document that  *)
(* was cancelled, expired or rejected meanwhile.                           *)
SignedIffComplete ==
  \A d \in DOMAIN doc :
    /\ doc[d].status = "signed" <=> SignedBy(d, "employee", sigs)
    /\ doc[d].status = "signed" /\ NeedsEmployer(doc[d].kind) => SignedBy(d, "employer", sigs)

(* The employee never sees an order the employer has not signed.           *)
EmployerSignsFirst ==
  \A d \in DOMAIN doc :
    NeedsEmployer(doc[d].kind) =>
      /\ doc[d].sent \/ doc[d].status = "frozen" => SignedBy(d, "employer", sigs)
      /\ doc[d].status \in {"draft", "awaiting_employer"} => SigsOf(d, sigs) = {}

(* Nobody signs a document twice.                                          *)
OneSignaturePerRole ==
  \A s, t \in sigs : s.doc = t.doc /\ s.role = t.role => s = t

(* What the signing sheet tells a court about an electronic signature: a   *)
(* confirmed code of that employee, asked for signing this document; a     *)
(* document read to the end; a signature the crypto-service made, by the   *)
(* key and for the code the registry names.                                *)
SignatureHasEvidence ==
  \A s \in sigs : s.type = "unep_lg" =>
    /\ s \in made
    /\ s.doc \in read
    /\ s.code \in DOMAIN code
    /\ code[s.code].status = "confirmed"
    /\ code[s.code].purpose = "sign"
    /\ code[s.code].emp = doc[s.doc].emp
    /\ s.doc \in code[s.code].scope

(* A code signs all the documents it was asked for, or none of them.       *)
CodeSignsAllOrNothing ==
  \A c \in DOMAIN code :
    code[c].purpose = "sign" =>
      LET signed == {s.doc : s \in {t \in sigs : t.code = c}}
      IN signed = IF code[c].status = "confirmed" THEN code[c].scope ELSE {}

(* A document whose file was found changed has no electronic signature     *)
(* made after that, whatever code is tried again.                          *)
AlarmedIsUnsigned ==
  \A d \in alarms : ~\E s \in sigs : s.doc = d /\ s.type = "unep_lg"

(* The signing sheet of a document lists all its signatures.               *)
SheetIsComplete == \A d \in DOMAIN sheet : sheet[d] = SigsOf(d, sigs)

(* An electronic signature enters the registry only while its key is the   *)
(* key of the employee, whoever revokes keys while it is being made.       *)
SignedWithCurrentKey ==
  [][\A s \in sigs' \ sigs :
       s.type = "unep_lg" => s.key # NoKey /\ current[doc[s.doc].emp] = s.key
                             /\ current'[doc[s.doc].emp] = s.key]_vars

(* Signed, rejected, cancelled and archived are the end of a document.     *)
OutcomeIsFinal ==
  [][\A d \in DOMAIN doc :
       doc[d].status \in {"signed", "rejected", "cancelled", "archived_paper"} =>
         doc'[d].status = doc[d].status]_vars

(* Who signed, in which order, and what that makes of the document.        *)
SignaturesAreOrderly == SignedIffComplete /\ EmployerSignsFirst /\ OneSignaturePerRole

(* What is kept to prove a signature is complete, and no changed file is   *)
(* signed.                                                                 *)
EvidenceIsComplete == SignatureHasEvidence /\ SheetIsComplete /\ AlarmedIsUnsigned

(* A signature enters with the key in force, and an outcome stays.         *)
SignedStands == SignedWithCurrentKey /\ OutcomeIsFinal

(* No document waits for the employee for ever.                            *)
PendingIsResolved ==
  \A d \in Docs : (d \in DOMAIN doc /\ doc[d].status \in Pending)
                    ~> (d \in DOMAIN doc /\ doc[d].status \notin Pending)
=============================================================================
