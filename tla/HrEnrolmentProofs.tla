------------------------- MODULE HrEnrolmentProofs --------------------------
(***************************************************************************)
(* Theorems about HrEnrolment, for any number of employees, packages,      *)
(* keys, codes and telephones.                                             *)
(***************************************************************************)
EXTENDS HrEnrolment, TLAPS

Consented(e) == edo[e] \in {"consent_signed", "active", "key_revoked"}

(* The package a card names is its own, signed once the consent is         *)
(* registered, and open or rejected while the card is notified.            *)
PackageInv ==
  \A e \in Employees :
    /\ consentDoc[e] # NoDoc => consentDoc[e] \in DOMAIN pkg /\ pkg[consentDoc[e]].emp = e
    /\ Consented(e) => consentDoc[e] # NoDoc /\ pkg[consentDoc[e]].status = "signed"
    /\ edo[e] = "notified" =>
         consentDoc[e] # NoDoc /\ pkg[consentDoc[e]].status \in {"sent", "viewed", "rejected"}

(* The registry, read element by element.                                  *)
KeyInv ==
  /\ \A e \in Employees :
       /\ edo[e] = "active" <=> activeKey[e] # NoKey
       /\ activeKey[e] # NoKey =>
            /\ activeKey[e] \in DOMAIN key
            /\ key[activeKey[e]].emp = e
            /\ activeKey[e] \notin revoked
  /\ \A k \in DOMAIN key :
       /\ k \in DOMAIN vault
       /\ k \notin revoked => activeKey[key[k].emp] = k
       /\ k \in revoked => vault[k] = "revoked"

(* What a transaction in flight may rely on while it holds the card: this  *)
(* is why the steps between its first and its last cannot spoil it.        *)
TxInv ==
  /\ \A e \in Employees :
       /\ tx[e].op = "idle" => tx[e] = Idle
       /\ tx[e].op \in {"issue", "created"} =>
            CanIssue(e) /\ Answerable(code, tx[e].code, e, "key_issue")
       /\ tx[e].op = "created" =>
            tx[e].key \in DOMAIN vault /\ tx[e].key \notin DOMAIN key
       /\ tx[e].op \in {"revoke", "revoked"} =>
            activeKey[e] # NoKey /\ tx[e].key = activeKey[e]
       /\ tx[e].op = "revoked" => vault[tx[e].key] = "revoked"
  /\ \A e, f \in Employees :
       tx[e].op = "created" /\ tx[f].op = "created" /\ tx[e].key = tx[f].key => e = f

(* A code still pending has not used its last attempt.                     *)
AttemptsInv == \A c \in DOMAIN code : code[c].status = "pending" => code[c].attempts < MaxAttempts

Inv == AttemptsInv /\ PackageInv /\ KeyInv /\ KeyRestsOnConsent /\ OneCodeOneKey /\ TxInv

IInv == TypeOK /\ Inv

-----------------------------------------------------------------------------
(* Types.                                                                  *)

(* A new code keeps the types of the table of codes.                       *)
LEMMA CodeTypes ==
  ASSUME NEW code0, NEW c \in Codes, NEW e \in Employees, NEW purpose \in Purposes,
         NEW p \in Phones,
         DOMAIN code0 \subseteq Codes, code0 \in [DOMAIN code0 -> CodeRow({{}})]
  PROVE  LET code1 == Challenged(code0, c, e, purpose, p, {})
         IN DOMAIN code1 \subseteq Codes /\ code1 \in [DOMAIN code1 -> CodeRow({{}})]
<1>1. 0 \in 0 .. MaxAttempts
  BY AttemptsAssumption
<1> QED
  BY <1>1 DEF Challenged, CodeRow, CodeStatus

(* An answer to a pending code keeps them too.                             *)
LEMMA AnswerTypes ==
  ASSUME NEW code0, NEW c \in DOMAIN code0,
         DOMAIN code0 \subseteq Codes, code0 \in [DOMAIN code0 -> CodeRow({{}})],
         code0[c].status = "pending", code0[c].attempts < MaxAttempts
  PROVE  \A code1 \in {WrongAnswer(code0, c), OutOfDate(code0, c), Confirmed(code0, c)} :
           DOMAIN code1 = DOMAIN code0 /\ code1 \in [DOMAIN code1 -> CodeRow({{}})]
BY AttemptsAssumption DEF WrongAnswer, OutOfDate, Confirmed, CodeRow, CodeStatus

(* What the operators of HrOtp do to each row of the table.                *)
LEMMA AnswerRows ==
  ASSUME NEW code0, NEW c \in DOMAIN code0, code0[c] \in CodeRow({{}}), code0[c].status = "pending"
  PROVE  /\ \A code1 \in {WrongAnswer(code0, c), OutOfDate(code0, c), Confirmed(code0, c)} :
              /\ DOMAIN code1 = DOMAIN code0
              /\ code1[c].emp = code0[c].emp /\ code1[c].purpose = code0[c].purpose
              /\ \A d \in DOMAIN code0 \ {c} : code1[d] = code0[d]
         /\ Confirmed(code0, c)[c].status = "confirmed"
         /\ OutOfDate(code0, c)[c].status = "expired"
         /\ LET row == WrongAnswer(code0, c)[c]
            IN /\ row.attempts = code0[c].attempts + 1
               /\ row.status = IF code0[c].attempts + 1 >= MaxAttempts THEN "locked" ELSE "pending"
<1>1. /\ DOMAIN WrongAnswer(code0, c) = DOMAIN code0
      /\ \A d \in DOMAIN code0 \ {c} : WrongAnswer(code0, c)[d] = code0[d]
  BY DEF WrongAnswer
<1>2. LET row == WrongAnswer(code0, c)[c]
      IN /\ row.attempts = code0[c].attempts + 1
         /\ row.status = IF code0[c].attempts + 1 >= MaxAttempts THEN "locked" ELSE "pending"
         /\ row.emp = code0[c].emp /\ row.purpose = code0[c].purpose
  BY DEF WrongAnswer, CodeRow
<1> QED
  BY <1>1, <1>2 DEF OutOfDate, Confirmed, CodeRow

(* Each action keeps the types.                                            *)
LEMMA TypeStep ==
  ASSUME TypeOK, AttemptsInv, KeyInv, TxInv, [Next]_vars
  PROVE  TypeOK'
<1> USE DEF TypeOK
<1>0. CASE UNCHANGED vars
  BY <1>0 DEF vars, card
<1>1. ASSUME NEW e \in Employees, CardStep(e) PROVE TypeOK'
  <2>1. ASSUME NEW p \in Phones \cup {NoPhone}, NEW b \in BOOLEAN, UpdateEmployee(e, p, b)
        PROVE  TypeOK'
    BY <2>1 DEF UpdateEmployee
  <2>2. ASSUME NEW d \in Packages, Invite(e, d) PROVE TypeOK'
    BY <2>2 DEF Invite, Reusable, Package, PackageRow, EdoStatus
  <2>3. CASE RegisterConsent(e)
    BY <2>3 DEF RegisterConsent, Marked, Package, PackageRow, EdoStatus
  <2>4. CASE RefuseEdo(e)
    BY <2>4 DEF RefuseEdo, EdoStatus
  <2>5. ASSUME NEW p \in Phones, ChangePhone(e, p) PROVE TypeOK'
    BY <2>5 DEF ChangePhone, Marked, Package, PackageRow, EdoStatus
  <2> QED
    BY <1>1, <2>1, <2>2, <2>3, <2>4, <2>5 DEF CardStep
<1>2. ASSUME NEW d \in Packages, PackageStep(d) PROVE TypeOK'
  <2>1. CASE ViewPackage(d)
    BY <2>1 DEF ViewPackage, card, Marked, Package, PackageRow
  <2>2. CASE RejectPackage(d)
    BY <2>2 DEF RejectPackage, card, Marked, Package, PackageRow
  <2>3. CASE CancelPackage(d)
    BY <2>3 DEF CancelPackage, Marked, Package, PackageRow, EdoStatus
  <2> QED
    BY <1>2, <2>1, <2>2, <2>3 DEF PackageStep
<1>3. ASSUME NEW e \in Employees, CodeStep(e) PROVE TypeOK'
  <2>1. CASE ReadCardForCode(e)
    BY <2>1 DEF ReadCardForCode, card
  <2>2. CASE DropCodeRequest(e)
    BY <2>2 DEF DropCodeRequest, card
  <2>3. ASSUME NEW c \in Codes, SendCode(e, c) PROVE TypeOK'
    <3>1. asked[e] \in Phones
      BY <2>3 DEF SendCode
    <3> QED
      BY <2>3, <3>1, CodeTypes DEF SendCode, card, Purposes
  <2>4. ASSUME NEW c \in Codes, FailCode(e, c) PROVE TypeOK'
    BY <2>4, AnswerTypes DEF FailCode, Answerable, AttemptsInv, card
  <2>5. ASSUME NEW c \in Codes, NEW purpose \in Purposes, OtherCode(e, c, purpose)
        PROVE  TypeOK'
    <3>1. phone[e] \in Phones
      BY <2>5 DEF OtherCode
    <3> QED
      BY <2>5, <3>1, CodeTypes DEF OtherCode, card
  <2> QED
    BY <1>3, <2>1, <2>2, <2>3, <2>4, <2>5 DEF CodeStep
<1>4. ASSUME NEW e \in Employees, KeyStep(e) PROVE TypeOK'
  <2>1. ASSUME NEW c \in Codes, BeginIssue(e, c) PROVE TypeOK'
    BY <2>1 DEF BeginIssue, card, Tx, Idle, TxType
  <2>2. ASSUME NEW k \in Keys, CreateInVault(e, k) PROVE TypeOK'
    BY <2>2 DEF CreateInVault, card, Tx, TxType
  <2>3. CASE CommitIssue(e)
    <3>1. tx[e].code \in DOMAIN code /\ code[tx[e].code].status = "pending"
      BY <2>3 DEF CommitIssue, TxInv, Answerable
    <3>2. DOMAIN code' \subseteq Codes /\ code' \in [DOMAIN code' -> CodeRow({{}})]
      BY <2>3, <3>1, AnswerTypes DEF CommitIssue, AttemptsInv
    <3>3. tx[e].key \in Keys /\ tx[e].code \in Codes /\ consentDoc[e] \in Packages
      BY <2>3, <3>1 DEF CommitIssue, TxInv, CanIssue
    <3>4. DOMAIN key' \subseteq Keys /\ key' \in [DOMAIN key' -> KeyRow]
      BY <2>3, <3>3 DEF CommitIssue, KeyRow
    <3>5. tx' \in [Employees -> TxType]
      BY <2>3 DEF CommitIssue, Tx, Idle, TxType
    <3>6. revoked' \subseteq DOMAIN key'
      BY <2>3 DEF CommitIssue
    <3> QED
      BY <2>3, <3>2, <3>3, <3>4, <3>5, <3>6 DEF CommitIssue, EdoStatus
  <2>4. ASSUME NEW p \in Phones \cup {NoPhone}, BeginRevoke(e, p) PROVE TypeOK'
    BY <2>4 DEF BeginRevoke, card, Tx, Idle, TxType
  <2>5. CASE RevokeInVault(e)
    BY <2>5 DEF RevokeInVault, TxInv, KeyInv, card, Tx, TxType
  <2>6. CASE CommitRevoke(e)
    <3>1. tx[e].key \in DOMAIN key
      BY <2>6 DEF CommitRevoke, TxInv, KeyInv
    <3>2. tx[e].phone \in Phones \cup {NoPhone}
      BY DEF TxType
    <3>3. tx' \in [Employees -> TxType]
      BY <2>6 DEF CommitRevoke, Tx, Idle, TxType
    <3> QED
      BY <2>6, <3>1, <3>2, <3>3 DEF CommitRevoke, EdoStatus
  <2>7. CASE Rollback(e)
    BY <2>7 DEF Rollback, card, Tx, Idle, TxType
  <2> QED
    BY <1>4, <2>1, <2>2, <2>3, <2>4, <2>5, <2>6, <2>7 DEF KeyStep
<1> QED
  BY <1>0, <1>1, <1>2, <1>3, <1>4 DEF Next
-----------------------------------------------------------------------------
(* The invariant, one lemma per action.                                    *)

(* The card editor changes a number only when no key is bound to it.       *)
LEMMA UpdateEmployeeKeeps ==
  ASSUME TypeOK, Inv, NEW e \in Employees, NEW p \in Phones \cup {NoPhone}, NEW b \in BOOLEAN, UpdateEmployee(e, p, b)
  PROVE  Inv'
<1> USE DEF Inv, TypeOK, PackageRow, UpdateEmployee
<1>1. AttemptsInv'
  BY DEF AttemptsInv
<1>2. PackageInv'
  BY DEF PackageInv, Consented
<1>3. KeyInv'
  BY DEF KeyInv
<1>4. KeyRestsOnConsent'
  BY DEF KeyRestsOnConsent, KeyInv, PackageInv
<1>5. OneCodeOneKey'
  BY DEF OneCodeOneKey
<1>6. TxInv'
  BY DEF TxInv, KeyInv, PackageInv, CanIssue, Answerable, Free, Idle, Tx
<1> QED
  BY <1>1, <1>2, <1>3, <1>4, <1>5, <1>6

(* An invitation points the card at a package that is open and its own.    *)
LEMMA InviteKeeps ==
  ASSUME TypeOK, Inv, NEW e \in Employees, NEW d \in Packages, Invite(e, d)
  PROVE  Inv'
<1> USE DEF Inv, TypeOK, PackageRow, Invite, Reusable, Package
<1>1. AttemptsInv'
  BY DEF AttemptsInv
<1>2. PackageInv'
  <2>1. CASE Reusable(e)
    BY <2>1 DEF PackageInv, Consented
  <2>2. CASE ~Reusable(e)
    <3>1. d \in Packages \ DOMAIN pkg /\ consentDoc'[e] = d /\ edo'[e] = "notified"
      BY <2>2
    <3>2. DOMAIN pkg' = DOMAIN pkg \cup {d} /\ pkg'[d] = Package(e, phone[e], "sent")
      BY <2>2
    <3>3. \A x \in DOMAIN pkg : pkg'[x] = pkg[x]
      BY <2>2
    <3>4. \A f \in Employees \ {e} : consentDoc'[f] = consentDoc[f] /\ edo'[f] = edo[f]
      BY <2>2
    <3> HIDE DEF Invite, Reusable
    <3> QED
      BY <3>1, <3>2, <3>3, <3>4, NullAssumption DEF PackageInv, Consented
  <2> QED
    BY <2>1, <2>2
<1>3. KeyInv'
  BY DEF KeyInv
<1>4. KeyRestsOnConsent'
  BY DEF KeyRestsOnConsent, KeyInv, PackageInv
<1>5. OneCodeOneKey'
  BY DEF OneCodeOneKey
<1>6. TxInv'
  BY DEF TxInv, KeyInv, PackageInv, CanIssue, Answerable, Free, Idle, Tx
<1> QED
  BY <1>1, <1>2, <1>3, <1>4, <1>5, <1>6

(* The package is signed in the step that makes the card consent_signed.   *)
LEMMA RegisterConsentKeeps ==
  ASSUME TypeOK, Inv, NEW e \in Employees, RegisterConsent(e)
  PROVE  Inv'
<1> USE DEF Inv, TypeOK, PackageRow, RegisterConsent, Marked, Package
<1>1. AttemptsInv'
  BY DEF AttemptsInv
<1>2. PackageInv'
  BY DEF PackageInv, Consented
<1>3. KeyInv'
  BY DEF KeyInv
<1>4. KeyRestsOnConsent'
  BY DEF KeyRestsOnConsent, KeyInv, PackageInv
<1>5. OneCodeOneKey'
  BY DEF OneCodeOneKey
<1>6. TxInv'
  BY DEF TxInv, KeyInv, PackageInv, CanIssue, Answerable, Free, Idle, Tx
<1> QED
  BY <1>1, <1>2, <1>3, <1>4, <1>5, <1>6

(* A refusal touches no package that is signed and no key.                 *)
LEMMA RefuseEdoKeeps ==
  ASSUME TypeOK, Inv, NEW e \in Employees, RefuseEdo(e)
  PROVE  Inv'
<1> USE DEF Inv, TypeOK, PackageRow, RefuseEdo
<1>1. AttemptsInv'
  BY DEF AttemptsInv
<1>2. PackageInv'
  BY DEF PackageInv, Consented
<1>3. KeyInv'
  BY DEF KeyInv
<1>4. KeyRestsOnConsent'
  BY DEF KeyRestsOnConsent, KeyInv, PackageInv
<1>5. OneCodeOneKey'
  BY DEF OneCodeOneKey
<1>6. TxInv'
  BY DEF TxInv, KeyInv, PackageInv, CanIssue, Answerable, Free, Idle, Tx
<1> QED
  BY <1>1, <1>2, <1>3, <1>4, <1>5, <1>6

(* A change of number cancels the open package together with the card's    *)
(* state.                                                                  *)
LEMMA ChangePhoneKeeps ==
  ASSUME TypeOK, Inv, NEW e \in Employees, NEW p \in Phones, ChangePhone(e, p)
  PROVE  Inv'
<1> USE DEF Inv, TypeOK, PackageRow, ChangePhone, Marked, Package
<1>1. AttemptsInv'
  BY DEF AttemptsInv
<1>2. PackageInv'
  BY DEF PackageInv, Consented
<1>3. KeyInv'
  BY DEF KeyInv
<1>4. KeyRestsOnConsent'
  BY DEF KeyRestsOnConsent, KeyInv, PackageInv
<1>5. OneCodeOneKey'
  BY DEF OneCodeOneKey
<1>6. TxInv'
  BY DEF TxInv, KeyInv, PackageInv, CanIssue, Answerable, Free, Idle, Tx
<1> QED
  BY <1>1, <1>2, <1>3, <1>4, <1>5, <1>6

(* A viewed package is still open.                                         *)
LEMMA ViewPackageKeeps ==
  ASSUME TypeOK, Inv, NEW d \in Packages, ViewPackage(d)
  PROVE  Inv'
<1> USE DEF Inv, TypeOK, PackageRow, ViewPackage, card, Marked, Package
<1>1. AttemptsInv'
  BY DEF AttemptsInv
<1>2. PackageInv'
  BY DEF PackageInv, Consented
<1>3. KeyInv'
  BY DEF KeyInv
<1>4. KeyRestsOnConsent'
  BY DEF KeyRestsOnConsent, KeyInv, PackageInv
<1>5. OneCodeOneKey'
  BY DEF OneCodeOneKey
<1>6. TxInv'
  BY DEF TxInv, KeyInv, PackageInv, CanIssue, Answerable, Free, Idle, Tx
<1> QED
  BY <1>1, <1>2, <1>3, <1>4, <1>5, <1>6

(* A rejected package leaves the card notified.                            *)
LEMMA RejectPackageKeeps ==
  ASSUME TypeOK, Inv, NEW d \in Packages, RejectPackage(d)
  PROVE  Inv'
<1> USE DEF Inv, TypeOK, PackageRow, RejectPackage, card, Marked, Package, Pending
<1>1. AttemptsInv'
  BY DEF AttemptsInv
<1>2. PackageInv'
  BY DEF PackageInv, Consented
<1>3. KeyInv'
  BY DEF KeyInv
<1>4. KeyRestsOnConsent'
  BY DEF KeyRestsOnConsent, KeyInv, PackageInv
<1>5. OneCodeOneKey'
  BY DEF OneCodeOneKey
<1>6. TxInv'
  BY DEF TxInv, KeyInv, PackageInv, CanIssue, Answerable, Free, Idle, Tx
<1> QED
  BY <1>1, <1>2, <1>3, <1>4, <1>5, <1>6

(* A cancelled package takes the card of its employee back.                *)
LEMMA CancelPackageKeeps ==
  ASSUME TypeOK, Inv, NEW d \in Packages, CancelPackage(d)
  PROVE  Inv'
<1> USE DEF Inv, TypeOK, PackageRow, CancelPackage, Marked, Package, Cancellable
<1>1. AttemptsInv'
  BY DEF AttemptsInv
<1>2. PackageInv'
  BY DEF PackageInv, Consented
<1>3. KeyInv'
  BY DEF KeyInv
<1>4. KeyRestsOnConsent'
  BY DEF KeyRestsOnConsent, KeyInv, PackageInv
<1>5. OneCodeOneKey'
  BY DEF OneCodeOneKey
<1>6. TxInv'
  BY DEF TxInv, KeyInv, PackageInv, CanIssue, Answerable, Free, Idle, Tx
<1> QED
  BY <1>1, <1>2, <1>3, <1>4, <1>5, <1>6

(* Reading the card changes nothing the invariant speaks of.               *)
LEMMA ReadCardForCodeKeeps ==
  ASSUME TypeOK, Inv, NEW e \in Employees, ReadCardForCode(e)
  PROVE  Inv'
<1> USE DEF Inv, TypeOK, PackageRow, ReadCardForCode, card
<1>1. AttemptsInv'
  BY DEF AttemptsInv
<1>2. PackageInv'
  BY DEF PackageInv, Consented
<1>3. KeyInv'
  BY DEF KeyInv, TxInv
<1>4. KeyRestsOnConsent'
  BY DEF KeyRestsOnConsent, KeyInv, PackageInv, Consented
<1>5. OneCodeOneKey'
  BY DEF OneCodeOneKey, TxInv
<1>6. TxInv'
  BY DEF TxInv, KeyInv, PackageInv, CanIssue, Answerable, Free, Idle, Tx, TxType
<1> QED
  BY <1>1, <1>2, <1>3, <1>4, <1>5, <1>6

(* Nor does a request that is dropped.                                     *)
LEMMA DropCodeRequestKeeps ==
  ASSUME TypeOK, Inv, NEW e \in Employees, DropCodeRequest(e)
  PROVE  Inv'
<1> USE DEF Inv, TypeOK, PackageRow, DropCodeRequest, card
<1>1. AttemptsInv'
  BY DEF AttemptsInv
<1>2. PackageInv'
  BY DEF PackageInv, Consented
<1>3. KeyInv'
  BY DEF KeyInv, TxInv
<1>4. KeyRestsOnConsent'
  BY DEF KeyRestsOnConsent, KeyInv, PackageInv, Consented
<1>5. OneCodeOneKey'
  BY DEF OneCodeOneKey, TxInv
<1>6. TxInv'
  BY DEF TxInv, KeyInv, PackageInv, CanIssue, Answerable, Free, Idle, Tx, TxType
<1> QED
  BY <1>1, <1>2, <1>3, <1>4, <1>5, <1>6

(* The transaction starts with everything it will rely on.                 *)
LEMMA BeginIssueKeeps ==
  ASSUME TypeOK, Inv, NEW e \in Employees, NEW c \in Codes, BeginIssue(e, c)
  PROVE  Inv'
<1> USE DEF Inv, TypeOK, PackageRow, BeginIssue, card
<1>1. AttemptsInv'
  BY DEF AttemptsInv
<1>2. PackageInv'
  BY DEF PackageInv, Consented
<1>3. KeyInv'
  BY DEF KeyInv, TxInv
<1>4. KeyRestsOnConsent'
  BY DEF KeyRestsOnConsent, KeyInv, PackageInv, Consented
<1>5. OneCodeOneKey'
  BY DEF OneCodeOneKey, TxInv
<1>6. TxInv'
  BY DEF TxInv, KeyInv, PackageInv, CanIssue, Answerable, Free, Idle, Tx, TxType
<1> QED
  BY <1>1, <1>2, <1>3, <1>4, <1>5, <1>6

(* The new key of the crypto-service is in no registry row and in no other *)
(* transaction.                                                            *)
LEMMA CreateInVaultKeeps ==
  ASSUME TypeOK, Inv, NEW e \in Employees, NEW k \in Keys, CreateInVault(e, k)
  PROVE  Inv'
<1> USE DEF Inv, TypeOK, PackageRow, CreateInVault, card
<1>1. AttemptsInv'
  BY DEF AttemptsInv
<1>2. PackageInv'
  BY DEF PackageInv, Consented
<1>3. KeyInv'
  BY DEF KeyInv, TxInv
<1>4. KeyRestsOnConsent'
  BY DEF KeyRestsOnConsent, KeyInv, PackageInv, Consented
<1>5. OneCodeOneKey'
  BY DEF OneCodeOneKey, TxInv
<1>6. TxInv'
  BY DEF TxInv, KeyInv, PackageInv, CanIssue, Answerable, Free, Idle, Tx, TxType
<1> QED
  BY <1>1, <1>2, <1>3, <1>4, <1>5, <1>6

(* The revocation starts from the key on the card.                         *)
LEMMA BeginRevokeKeeps ==
  ASSUME TypeOK, Inv, NEW e \in Employees, NEW p \in Phones \cup {NoPhone}, BeginRevoke(e, p)
  PROVE  Inv'
<1> USE DEF Inv, TypeOK, PackageRow, BeginRevoke, card
<1>1. AttemptsInv'
  BY DEF AttemptsInv
<1>2. PackageInv'
  BY DEF PackageInv, Consented
<1>3. KeyInv'
  BY DEF KeyInv, TxInv
<1>4. KeyRestsOnConsent'
  BY DEF KeyRestsOnConsent, KeyInv, PackageInv, Consented
<1>5. OneCodeOneKey'
  BY DEF OneCodeOneKey, TxInv
<1>6. TxInv'
  BY DEF TxInv, KeyInv, PackageInv, CanIssue, Answerable, Free, Idle, Tx, TxType
<1> QED
  BY <1>1, <1>2, <1>3, <1>4, <1>5, <1>6

(* The key is dead before the registry says so.                            *)
LEMMA RevokeInVaultKeeps ==
  ASSUME TypeOK, Inv, NEW e \in Employees, RevokeInVault(e)
  PROVE  Inv'
<1> USE DEF Inv, TypeOK, PackageRow, RevokeInVault, card
<1>1. AttemptsInv'
  BY DEF AttemptsInv
<1>2. PackageInv'
  BY DEF PackageInv, Consented
<1>3. KeyInv'
  BY DEF KeyInv, TxInv
<1>4. KeyRestsOnConsent'
  BY DEF KeyRestsOnConsent, KeyInv, PackageInv, Consented
<1>5. OneCodeOneKey'
  BY DEF OneCodeOneKey, TxInv
<1>6. TxInv'
  BY DEF TxInv, KeyInv, PackageInv, CanIssue, Answerable, Free, Idle, Tx, TxType
<1> QED
  BY <1>1, <1>2, <1>3, <1>4, <1>5, <1>6

(* The registry and the card let the key go in one step.                   *)
LEMMA CommitRevokeKeeps ==
  ASSUME TypeOK, Inv, NEW e \in Employees, CommitRevoke(e)
  PROVE  Inv'
<1> USE DEF Inv, TypeOK, PackageRow, CommitRevoke
<1>1. AttemptsInv'
  BY DEF AttemptsInv
<1>2. PackageInv'
  BY DEF PackageInv, Consented, KeyInv, TxInv
<1>3. KeyInv'
  BY DEF KeyInv, TxInv
<1>4. KeyRestsOnConsent'
  BY DEF KeyRestsOnConsent, KeyInv, PackageInv, Consented
<1>5. OneCodeOneKey'
  BY DEF OneCodeOneKey, TxInv
<1>6. TxInv'
  BY DEF TxInv, KeyInv, PackageInv, CanIssue, Answerable, Free, Idle, Tx, TxType
<1> QED
  BY <1>1, <1>2, <1>3, <1>4, <1>5, <1>6

(* A rollback leaves at most a key nobody knows.                           *)
LEMMA RollbackKeeps ==
  ASSUME TypeOK, Inv, NEW e \in Employees, Rollback(e)
  PROVE  Inv'
<1> USE DEF Inv, TypeOK, PackageRow, Rollback, card
<1>1. AttemptsInv'
  BY DEF AttemptsInv
<1>2. PackageInv'
  BY DEF PackageInv, Consented
<1>3. KeyInv'
  BY DEF KeyInv, TxInv
<1>4. KeyRestsOnConsent'
  BY DEF KeyRestsOnConsent, KeyInv, PackageInv, Consented
<1>5. OneCodeOneKey'
  BY DEF OneCodeOneKey, TxInv
<1>6. TxInv'
  BY DEF TxInv, KeyInv, PackageInv, CanIssue, Answerable, Free, Idle, Tx, TxType
<1> QED
  BY <1>1, <1>2, <1>3, <1>4, <1>5, <1>6

(* The commit registers the key, puts it on the card and uses the code up. *)
LEMMA CommitIssueKeeps ==
  ASSUME TypeOK, Inv, NEW e \in Employees, CommitIssue(e)
  PROVE  Inv'
<1> DEFINE k == tx[e].key
           c == tx[e].code
<1> USE DEF Inv
<1>1. /\ tx[e].op = "created" /\ CanIssue(e) /\ Answerable(code, c, e, "key_issue")
      /\ k \in DOMAIN vault /\ k \notin DOMAIN key /\ k \in Keys /\ k # NoKey
  BY NullAssumption DEF CommitIssue, TxInv, TypeOK
<1>2. /\ edo' = [edo EXCEPT ![e] = "active"]
      /\ activeKey' = [activeKey EXCEPT ![e] = k]
      /\ tx' = [tx EXCEPT ![e] = Idle]
      /\ UNCHANGED <<consentDoc, pkg, revoked, vault>>
  BY DEF CommitIssue
<1>3. /\ DOMAIN key' = DOMAIN key \cup {k}
      /\ key'[k] = [emp |-> e, consent |-> consentDoc[e], phone |-> phone[e], code |-> c]
      /\ \A j \in DOMAIN key : key'[j] = key[j]
  BY <1>1 DEF CommitIssue
<1>4. /\ DOMAIN code' = DOMAIN code
      /\ code'[c].status = "confirmed" /\ code'[c].emp = e /\ code'[c].purpose = "key_issue"
      /\ \A d \in DOMAIN code \ {c} : code'[d] = code[d]
  <2>1. c \in DOMAIN code /\ code[c].status = "pending"
    BY <1>1 DEF Answerable
  <2>2. code' = Confirmed(code, c)
    BY DEF CommitIssue
  <2> QED
    BY <1>1, <2>1, <2>2, AnswerRows DEF TypeOK, Answerable
<1>5. activeKey[e] = NoKey
  BY <1>1 DEF KeyInv, CanIssue
<1>6. \A j \in DOMAIN key : key[j].code # c
  BY <1>1 DEF OneCodeOneKey, Answerable
<1>7. AttemptsInv'
  BY <1>4 DEF AttemptsInv
<1>8. PackageInv'
  BY <1>1, <1>2 DEF PackageInv, Consented, CanIssue, TypeOK
<1>9. KeyInv'
  <2>1. k \notin revoked
    BY <1>1 DEF TypeOK
  <2>2. \A j \in DOMAIN key : j \notin revoked => key[j].emp # e
    BY <1>5, NullAssumption DEF KeyInv, TypeOK
  <2>3. activeKey'[e] = k /\ edo'[e] = "active"
    BY <1>2 DEF TypeOK
  <2>4. \A f \in Employees \ {e} : activeKey'[f] = activeKey[f] /\ edo'[f] = edo[f]
    BY <1>2 DEF TypeOK
  <2>5. \A j \in DOMAIN key : key[j].emp \in Employees
    BY DEF TypeOK, KeyRow
  <2> QED
    BY <1>1, <1>2, <1>3, <2>1, <2>2, <2>3, <2>4, <2>5 DEF KeyInv
<1>10. KeyRestsOnConsent'
  BY <1>1, <1>2, <1>3 DEF KeyRestsOnConsent, PackageInv, Consented, CanIssue
<1>11. OneCodeOneKey'
  <2>1. \A j \in DOMAIN key : key[j].code \in DOMAIN code \ {c}
    BY <1>6 DEF OneCodeOneKey
  <2> QED
    BY <1>1, <1>3, <1>4, <1>6, <2>1 DEF OneCodeOneKey, Answerable
<1>12. TxInv'
  <2>1. \A f \in Employees \ {e} : tx[f].op \in {"issue", "created"} => tx[f].code # c
    BY <1>1 DEF TxInv, Answerable
  <2>2. \A f \in Employees \ {e} : tx[f].op = "created" => tx[f].key # k
    BY <1>1 DEF TxInv
  <2>3. tx'[e] = Idle /\ \A f \in Employees \ {e} :
          tx'[f] = tx[f] /\ edo'[f] = edo[f] /\ activeKey'[f] = activeKey[f]
    BY <1>2 DEF TypeOK
  <2>4. \A f \in Employees \ {e} : tx[f].op \in {"issue", "created"} =>
          CanIssue(f)' /\ Answerable(code, tx[f].code, f, "key_issue")'
    BY <1>2, <1>4, <2>1, <2>3 DEF TxInv, CanIssue, Answerable
  <2> QED
    BY <1>2, <1>3, <2>2, <2>3, <2>4 DEF TxInv, Idle, Tx
<1> QED
  BY <1>7, <1>8, <1>9, <1>10, <1>11, <1>12

(* A step that touches only the codes of an employee whose card is free    *)
(* leaves alone every code a key or a transaction rests on.                *)
LEMMA CodeTableKeeps ==
  ASSUME TypeOK, Inv, NEW e \in Employees, Free(e),
         UNCHANGED <<card, pkg, key, revoked, vault, tx>>,
         DOMAIN code \subseteq DOMAIN code',
         \A d \in DOMAIN code :
           /\ code'[d].emp = code[d].emp /\ code'[d].purpose = code[d].purpose
           /\ \/ code'[d].status = code[d].status
              \/ code[d].emp = e /\ code[d].status = "pending",
         AttemptsInv'
  PROVE  Inv'
<1> USE DEF Inv, card
<1>1. PackageInv'
  BY DEF PackageInv, Consented
<1>2. KeyInv'
  BY DEF KeyInv
<1>3. KeyRestsOnConsent'
  BY DEF KeyRestsOnConsent
<1>4. OneCodeOneKey'
  BY DEF OneCodeOneKey
<1>5. TxInv'
  <2>1. \A f \in Employees : tx[f].op \in {"issue", "created"} =>
          CanIssue(f)' /\ Answerable(code, tx[f].code, f, "key_issue")'
    BY DEF TxInv, CanIssue, Answerable, Free, Idle, Tx
  <2> QED
    BY <2>1 DEF TxInv, Idle, Tx
<1> QED
  BY <1>1, <1>2, <1>3, <1>4, <1>5

(* A new code is pending with no attempts, and belongs to no key.          *)
LEMMA SendCodeKeeps ==
  ASSUME TypeOK, Inv, NEW e \in Employees, NEW c \in Codes, SendCode(e, c)
  PROVE  Inv'
<1>1. c \notin DOMAIN code /\ code' = Challenged(code, c, e, "key_issue", asked[e], {})
  BY DEF SendCode
<1>2. \A d \in DOMAIN code : code[d] \in CodeRow({{}})
  BY DEF TypeOK
<1>3. /\ DOMAIN code' = DOMAIN code \cup {c} /\ code'[c].attempts = 0
      /\ \A d \in DOMAIN code :
           /\ code'[d].emp = code[d].emp /\ code'[d].purpose = code[d].purpose
           /\ code'[d].attempts = code[d].attempts
           /\ code'[d].status =
                IF code[d].status = "pending" /\ code[d].emp = e /\ code[d].purpose = "key_issue"
                THEN "superseded" ELSE code[d].status
  BY <1>1, <1>2 DEF Challenged, CodeRow
<1>4. AttemptsInv'
  BY <1>3, AttemptsAssumption DEF AttemptsInv, Inv
<1> QED
  BY <1>3, <1>4, CodeTableKeeps DEF SendCode

(* A code for something else leaves the codes of key issues alone.         *)
LEMMA OtherCodeKeeps ==
  ASSUME TypeOK, Inv, NEW e \in Employees, NEW c \in Codes, NEW purpose \in Purposes,
         OtherCode(e, c, purpose)
  PROVE  Inv'
<1>1. c \notin DOMAIN code /\ code' = Challenged(code, c, e, purpose, phone[e], {})
  BY DEF OtherCode
<1>2. \A d \in DOMAIN code : code[d] \in CodeRow({{}})
  BY DEF TypeOK
<1>3. /\ DOMAIN code' = DOMAIN code \cup {c} /\ code'[c].attempts = 0
      /\ \A d \in DOMAIN code :
           /\ code'[d].emp = code[d].emp /\ code'[d].purpose = code[d].purpose
           /\ code'[d].attempts = code[d].attempts
           /\ code'[d].status =
                IF code[d].status = "pending" /\ code[d].emp = e /\ code[d].purpose = purpose
                THEN "superseded" ELSE code[d].status
  BY <1>1, <1>2 DEF Challenged, CodeRow
<1>4. AttemptsInv'
  BY <1>3, AttemptsAssumption DEF AttemptsInv, Inv
<1> QED
  BY <1>3, <1>4, CodeTableKeeps DEF OtherCode

(* A failed answer locks the code or leaves it an attempt.                 *)
LEMMA FailCodeKeeps ==
  ASSUME TypeOK, Inv, NEW e \in Employees, NEW c \in Codes, FailCode(e, c)
  PROVE  Inv'
<1>1. /\ c \in DOMAIN code /\ code[c].status = "pending" /\ code[c].emp = e
      /\ code[c] \in CodeRow({{}})
      /\ code' \in {WrongAnswer(code, c), OutOfDate(code, c)}
  BY DEF FailCode, Answerable, TypeOK
<1>2. AttemptsInv'
  <2>1. code[c].attempts \in Nat
    BY <1>1 DEF CodeRow
  <2>2. \A d \in DOMAIN code \ {c} : code'[d] = code[d]
    BY <1>1, AnswerRows
  <2>3. code'[c].status = "pending" => code'[c].attempts < MaxAttempts
    BY <1>1, <2>1, AnswerRows, AttemptsAssumption
  <2>4. DOMAIN code' = DOMAIN code
    BY <1>1, AnswerRows
  <2> QED
    BY <2>2, <2>3, <2>4 DEF AttemptsInv, Inv
<1>3. /\ DOMAIN code' = DOMAIN code
      /\ code'[c].emp = code[c].emp /\ code'[c].purpose = code[c].purpose
      /\ \A d \in DOMAIN code \ {c} : code'[d] = code[d]
  BY <1>1, AnswerRows
<1> QED
  BY <1>1, <1>2, <1>3, CodeTableKeeps DEF FailCode

-----------------------------------------------------------------------------
(* The theorems.                                                           *)

(* The invariant is inductive.                                             *)
LEMMA InvStep == IInv /\ [Next]_vars => IInv'
<1> SUFFICES ASSUME TypeOK, Inv, [Next]_vars PROVE IInv'
  BY DEF IInv
<1>1. TypeOK'
  BY TypeStep DEF Inv
<1>2. CASE UNCHANGED vars
  BY <1>1, <1>2 DEF IInv, Inv, vars, card, AttemptsInv, PackageInv, Consented, KeyInv,
     KeyRestsOnConsent, OneCodeOneKey, TxInv, CanIssue, Answerable
<1>3. ASSUME NEW e \in Employees, CardStep(e) PROVE Inv'
  BY <1>3, UpdateEmployeeKeeps, InviteKeeps, RegisterConsentKeeps, RefuseEdoKeeps,
     ChangePhoneKeeps DEF CardStep
<1>4. ASSUME NEW d \in Packages, PackageStep(d) PROVE Inv'
  BY <1>4, ViewPackageKeeps, RejectPackageKeeps, CancelPackageKeeps DEF PackageStep
<1>5. ASSUME NEW e \in Employees, CodeStep(e) PROVE Inv'
  BY <1>5, ReadCardForCodeKeeps, DropCodeRequestKeeps, SendCodeKeeps, FailCodeKeeps,
     OtherCodeKeeps DEF CodeStep
<1>6. ASSUME NEW e \in Employees, KeyStep(e) PROVE Inv'
  BY <1>6, BeginIssueKeeps, CreateInVaultKeeps, CommitIssueKeeps, BeginRevokeKeeps,
     RevokeInVaultKeeps, CommitRevokeKeeps, RollbackKeeps DEF KeyStep
<1> QED
  BY <1>1, <1>2, <1>3, <1>4, <1>5, <1>6 DEF Next, IInv

(* It holds initially.                                                     *)
LEMMA InvInit == Init => IInv
BY DEF Init, IInv, TypeOK, Inv, AttemptsInv, PackageInv, Consented, KeyInv, KeyRestsOnConsent,
   OneCodeOneKey, TxInv, EdoStatus, TxType, Idle, Tx

(* The columns and tables keep their types in every behaviour.             *)
THEOREM EnrolmentTyped == Spec => []TypeOK
BY InvInit, InvStep, PTL DEF Spec, IInv

(* The inductive invariant holds throughout.                               *)
THEOREM EnrolmentInvariant == Spec => []IInv
BY InvInit, InvStep, PTL DEF Spec

(* The card, its key and the registry agree in every state.                *)
THEOREM ActiveKeyAlwaysTheLiveOne == Spec => []ActiveKeyIsTheLiveOne
<1>1. IInv => ActiveKeyIsTheLiveOne
  <2> SUFFICES ASSUME IInv, NEW e \in Employees
               PROVE  /\ edo[e] = "active" <=> activeKey[e] # NoKey
                      /\ {k \in DOMAIN key \ revoked : key[k].emp = e} = {activeKey[e]} \ {NoKey}
    BY DEF ActiveKeyIsTheLiveOne
  <2>1. edo[e] = "active" <=> activeKey[e] # NoKey
    BY DEF IInv, Inv, KeyInv
  <2>2. ASSUME NEW k \in DOMAIN key \ revoked, key[k].emp = e
        PROVE  k = activeKey[e] /\ k # NoKey
    BY <2>2, NullAssumption DEF IInv, Inv, KeyInv, TypeOK
  <2>3. ASSUME activeKey[e] # NoKey
        PROVE  activeKey[e] \in DOMAIN key \ revoked /\ key[activeKey[e]].emp = e
    BY <2>3 DEF IInv, Inv, KeyInv
  <2> QED
    BY <2>1, <2>2, <2>3
<1> QED
  BY <1>1, EnrolmentInvariant, PTL

(* Whenever revoke_key is interrupted, a key the registry calls revoked is *)
(* dead in the crypto-service.                                             *)
THEOREM RevokedKeyNeverSigns == Spec => []RevokedKeyCannotSign
<1>1. IInv => RevokedKeyCannotSign
  BY DEF IInv, Inv, KeyInv, TypeOK, RevokedKeyCannotSign
<1> QED
  BY <1>1, EnrolmentInvariant, PTL

(* No key without a signed consent of its own employee.                    *)
THEOREM KeyAlwaysRestsOnConsent == Spec => []KeyRestsOnConsent
<1>1. IInv => KeyRestsOnConsent
  BY DEF IInv, Inv
<1> QED
  BY <1>1, EnrolmentInvariant, PTL

(* A new code supersedes the pending ones of its employee and purpose, and *)
(* no other step makes a code pending.                                     *)
THEOREM OnlyOnePendingCode == Spec => []OnePendingCode
<1>1. Init => OnePendingCode
  BY DEF Init, OnePendingCode
<1>2. IInv /\ OnePendingCode /\ [Next]_vars => OnePendingCode'
  <2> SUFFICES ASSUME IInv, OnePendingCode, [Next]_vars PROVE OnePendingCode'
    OBVIOUS
  <2>1. ASSUME UNCHANGED code PROVE OnePendingCode'
    BY <2>1 DEF OnePendingCode
  <2>2. ASSUME NEW c \in DOMAIN code, code[c].status = "pending",
               \/ code' = WrongAnswer(code, c)
               \/ code' = OutOfDate(code, c)
               \/ code' = Confirmed(code, c)
        PROVE  OnePendingCode'
    <3>1. DOMAIN code' = DOMAIN code /\ \A d \in DOMAIN code \ {c} : code'[d] = code[d]
      BY <2>2 DEF WrongAnswer, OutOfDate, Confirmed
    <3>2. code[c] \in CodeRow({{}})
      BY DEF IInv, TypeOK
    <3>3. code'[c].emp = code[c].emp /\ code'[c].purpose = code[c].purpose
      BY <2>2, <3>2 DEF WrongAnswer, OutOfDate, Confirmed, CodeRow
    <3> QED
      BY <2>2, <3>1, <3>3 DEF OnePendingCode
  <2>3. ASSUME NEW c \in Codes \ DOMAIN code, NEW e, NEW purpose, NEW p,
               code' = Challenged(code, c, e, purpose, p, {})
        PROVE  OnePendingCode'
    <3>1. /\ DOMAIN code' = DOMAIN code \cup {c}
          /\ code'[c].emp = e /\ code'[c].purpose = purpose
          /\ \A d \in DOMAIN code :
               code'[d].status = "pending" =>
                 code'[d] = code[d] /\ ~(code[d].emp = e /\ code[d].purpose = purpose)
      BY <2>3 DEF Challenged, IInv, TypeOK, CodeRow
    <3> QED
      BY <3>1 DEF OnePendingCode
  <2>4. ASSUME NEW e \in Employees, CardStep(e) PROVE UNCHANGED code
    BY <2>4 DEF CardStep, UpdateEmployee, Invite, RegisterConsent, RefuseEdo, ChangePhone
  <2>5. ASSUME NEW d \in Packages, PackageStep(d) PROVE UNCHANGED code
    BY <2>5 DEF PackageStep, ViewPackage, RejectPackage, CancelPackage
  <2>6. ASSUME NEW e \in Employees, CodeStep(e) PROVE OnePendingCode'
    BY <2>1, <2>2, <2>3, <2>6 DEF CodeStep, ReadCardForCode, DropCodeRequest, SendCode, FailCode,
       OtherCode, Answerable
  <2>7. ASSUME NEW e \in Employees, CommitIssue(e) PROVE OnePendingCode'
    BY <2>2, <2>7 DEF CommitIssue, IInv, Inv, TxInv, Answerable
  <2>8. ASSUME NEW e \in Employees, KeyStep(e) PROVE OnePendingCode'
    BY <2>1, <2>7, <2>8 DEF KeyStep, BeginIssue, CreateInVault, BeginRevoke, RevokeInVault,
       CommitRevoke, Rollback
  <2> QED
    BY <2>1, <2>4, <2>5, <2>6, <2>8 DEF Next, vars
<1> QED
  BY <1>1, <1>2, EnrolmentInvariant, PTL DEF Spec

(* Every key used up a code of its own, whatever was rolled back.          *)
THEOREM OneCodeForOneKey == Spec => []OneCodeOneKey
<1>1. IInv => OneCodeOneKey
  BY DEF IInv, Inv
<1> QED
  BY <1>1, EnrolmentInvariant, PTL

(* A notified card has its own open package.                               *)
THEOREM NotifiedAlwaysHasPackage == Spec => []NotifiedHasPackage
<1>1. IInv => NotifiedHasPackage
  BY DEF IInv, Inv, PackageInv, NotifiedHasPackage
<1> QED
  BY <1>1, EnrolmentInvariant, PTL

-----------------------------------------------------------------------------
(* Refinement of ConsentedKey.                                             *)

Holders == {e \in Employees : edo[e] \in {"consent_signed", "active", "key_revoked"}}

(* Every step that registers no consent and commits no issue or revocation *)
(* is invisible to the abstract specification.                             *)
LEMMA InvisibleSteps ==
  ASSUME IInv,
         \/ UNCHANGED vars
         \/ \E d \in Packages : PackageStep(d)
         \/ \E e \in Employees :
              \/ \E p \in Phones \cup {NoPhone}, b \in BOOLEAN : UpdateEmployee(e, p, b)
              \/ \E d \in Packages : Invite(e, d)
              \/ RefuseEdo(e)
              \/ \E p \in Phones : ChangePhone(e, p)
              \/ CodeStep(e)
              \/ \E c \in Codes : BeginIssue(e, c)
              \/ \E k \in Keys : CreateInVault(e, k)
              \/ \E p \in Phones \cup {NoPhone} : BeginRevoke(e, p)
              \/ RevokeInVault(e)
              \/ Rollback(e)
  PROVE  Holders' = Holders /\ activeKey' = activeKey /\ DOMAIN key' = DOMAIN key
<1> USE DEF IInv, TypeOK, Holders
<1>1. CASE UNCHANGED vars
  BY <1>1 DEF vars, card
<1>2. ASSUME NEW d \in Packages, PackageStep(d)
      PROVE  Holders' = Holders /\ activeKey' = activeKey /\ key' = key
  BY <1>2 DEF PackageStep, ViewPackage, RejectPackage, CancelPackage, card, PackageRow
<1>3. ASSUME NEW e \in Employees,
             \/ \E p \in Phones \cup {NoPhone}, b \in BOOLEAN : UpdateEmployee(e, p, b)
             \/ \E d \in Packages : Invite(e, d)
             \/ RefuseEdo(e)
             \/ \E p \in Phones : ChangePhone(e, p)
      PROVE  Holders' = Holders /\ activeKey' = activeKey /\ key' = key
  <2>1. ASSUME NEW p \in Phones \cup {NoPhone}, NEW b \in BOOLEAN, UpdateEmployee(e, p, b)
        PROVE  Holders' = Holders /\ activeKey' = activeKey /\ key' = key
    BY <2>1 DEF UpdateEmployee
  <2>2. ASSUME NEW d \in Packages, Invite(e, d)
        PROVE  Holders' = Holders /\ activeKey' = activeKey /\ key' = key
    BY <2>2 DEF Invite
  <2>3. CASE RefuseEdo(e)
    BY <2>3 DEF RefuseEdo
  <2>4. ASSUME NEW p \in Phones, ChangePhone(e, p)
        PROVE  Holders' = Holders /\ activeKey' = activeKey /\ key' = key
    <3>1. activeKey' = activeKey /\ key' = key
      BY <2>4 DEF ChangePhone
    <3>2. edo' = edo \/ (edo[e] = "notified" /\ edo' = [edo EXCEPT ![e] = "not_invited"])
      BY <2>4 DEF ChangePhone
    <3> QED
      BY <3>1, <3>2
  <2> QED
    BY <1>3, <2>1, <2>2, <2>3, <2>4
<1>4. ASSUME NEW e \in Employees, CodeStep(e)
      PROVE  Holders' = Holders /\ activeKey' = activeKey /\ key' = key
  BY <1>4 DEF CodeStep, ReadCardForCode, DropCodeRequest, SendCode, FailCode, OtherCode, card
<1>5. ASSUME NEW e \in Employees,
             \/ \E c \in Codes : BeginIssue(e, c)
             \/ \E k \in Keys : CreateInVault(e, k)
             \/ \E p \in Phones \cup {NoPhone} : BeginRevoke(e, p)
             \/ RevokeInVault(e)
             \/ Rollback(e)
      PROVE  Holders' = Holders /\ activeKey' = activeKey /\ key' = key
  BY <1>5 DEF BeginIssue, CreateInVault, BeginRevoke, RevokeInVault, Rollback, card
<1> QED
  BY <1>1, <1>2, <1>3, <1>4, <1>5

(* The enrolment implements ConsentedKey: one key at a time, only after a  *)
(* consent, and never the same key twice.                                  *)
THEOREM EnrolmentImplementsConsentedKey == Spec => ImplementsConsentedKey
<1>1. Init => Promise!Init
  BY DEF Init, Promise!Init
<1>2. IInv /\ [Next]_vars => [Promise!Next]_(Promise!vars)
  <2> SUFFICES ASSUME IInv, [Next]_vars PROVE [Promise!Next]_(Promise!vars)
    OBVIOUS
  <2>1. ASSUME NEW e \in Employees, RegisterConsent(e) PROVE Promise!Next
    <3>1. e \notin Holders /\ Holders' = Holders \cup {e}
      BY <2>1 DEF RegisterConsent, Holders, IInv, TypeOK
    <3>2. activeKey' = activeKey /\ key' = key
      BY <2>1 DEF RegisterConsent
    <3> QED
      BY <3>1, <3>2 DEF Promise!Next, Promise!Consent, Holders
  <2>2. ASSUME NEW e \in Employees, CommitIssue(e) PROVE Promise!Next
    <3> DEFINE k == tx[e].key
    <3>1. CanIssue(e) /\ k \in Keys \ DOMAIN key
      BY <2>2, NullAssumption DEF CommitIssue, IInv, Inv, TxInv, TypeOK
    <3>2. e \in Holders /\ activeKey[e] = NoKey
      BY <3>1 DEF CanIssue, Holders, IInv, Inv, KeyInv
    <3>3. Holders' = Holders
      BY <2>2, <3>2 DEF CommitIssue, Holders, IInv, TypeOK
    <3>4. activeKey' = [activeKey EXCEPT ![e] = k] /\ DOMAIN key' = DOMAIN key \cup {k}
      BY <2>2 DEF CommitIssue
    <3> QED
      BY <3>1, <3>2, <3>3, <3>4 DEF Promise!Next, Promise!Issue, Holders
  <2>3. ASSUME NEW e \in Employees, CommitRevoke(e) PROVE Promise!Next
    <3>1. activeKey[e] # NoKey /\ e \in Holders
      BY <2>3 DEF CommitRevoke, Holders, IInv, Inv, TxInv, KeyInv
    <3>2. Holders' = Holders /\ activeKey' = [activeKey EXCEPT ![e] = NoKey] /\ key' = key
      BY <2>3, <3>1 DEF CommitRevoke, Holders, IInv, TypeOK
    <3> QED
      BY <3>1, <3>2 DEF Promise!Next, Promise!Revoke, Holders
  <2> QED
    BY <2>1, <2>2, <2>3, InvisibleSteps DEF Next, CardStep, KeyStep, Holders, Promise!vars
<1> QED
  BY <1>1, <1>2, EnrolmentInvariant, PTL DEF Spec, ImplementsConsentedKey, Promise!Spec

-----------------------------------------------------------------------------
(* Action properties.                                                      *)

(* The outcome of a consent package is final.                              *)
THEOREM PackageOutcomeFinal == Spec => PackageOutcomeIsFinal
<1> DEFINE Closed == {"signed", "rejected", "cancelled"}
           Final == \A d \in DOMAIN pkg : pkg[d].status \in Closed => pkg'[d].status = pkg[d].status
<1>1. IInv /\ [Next]_vars => [Final]_vars
  <2> SUFFICES ASSUME TypeOK, Next PROVE Final
    BY DEF IInv
  <2>1. ASSUME UNCHANGED pkg PROVE Final
    BY <2>1
  <2>2. ASSUME NEW e \in Employees, CardStep(e) PROVE Final
    <3>1. ASSUME NEW p \in Phones \cup {NoPhone}, NEW b \in BOOLEAN, UpdateEmployee(e, p, b)
          PROVE  Final
      BY <2>1, <3>1 DEF UpdateEmployee
    <3>2. ASSUME NEW d \in Packages, Invite(e, d) PROVE Final
      BY <3>2 DEF Invite
    <3>3. CASE RegisterConsent(e)
      BY <3>3 DEF RegisterConsent, Marked, Package
    <3>4. CASE RefuseEdo(e)
      BY <2>1, <3>4 DEF RefuseEdo
    <3>5. ASSUME NEW p \in Phones, ChangePhone(e, p) PROVE Final
      BY <3>5 DEF ChangePhone, Marked, Package, Cancellable
    <3> QED
      BY <2>2, <3>1, <3>2, <3>3, <3>4, <3>5 DEF CardStep
  <2>3. ASSUME NEW d \in Packages, PackageStep(d) PROVE Final
    BY <2>3 DEF PackageStep, ViewPackage, RejectPackage, CancelPackage, Marked, Package,
       Cancellable, Pending
  <2>4. ASSUME NEW e \in Employees, CodeStep(e) \/ KeyStep(e) PROVE UNCHANGED pkg
    BY <2>4 DEF CodeStep, ReadCardForCode, DropCodeRequest, SendCode, FailCode, OtherCode,
       KeyStep, BeginIssue, CreateInVault, CommitIssue, BeginRevoke, RevokeInVault,
       CommitRevoke, Rollback
  <2> QED
    BY <2>1, <2>2, <2>3, <2>4 DEF Next
<1> QED
  BY <1>1, EnrolmentInvariant, PTL DEF Spec, PackageOutcomeIsFinal

(* A new number leaves the employee without a key, and every key of theirs *)
(* dead in the crypto-service.                                             *)
THEOREM NewPhoneAlwaysNeedsNewKey == Spec => NewPhoneNeedsNewKey
<1> DEFINE Rekey == \A e \in Employees : phone'[e] # phone[e] =>
                      /\ activeKey'[e] = NoKey
                      /\ \A k \in DOMAIN key' : key'[k].emp = e => vault[k] = "revoked"
<1>1. IInv /\ [Next]_vars => [Rekey]_vars
  <2> SUFFICES ASSUME IInv, Next, NEW e \in Employees, phone'[e] # phone[e]
               PROVE  /\ activeKey'[e] = NoKey
                      /\ \A k \in DOMAIN key' : key'[k].emp = e => vault[k] = "revoked"
    OBVIOUS
  <2>1. ASSUME activeKey[e] = NoKey, activeKey' = activeKey, key' = key
        PROVE  /\ activeKey'[e] = NoKey
               /\ \A k \in DOMAIN key' : key'[k].emp = e => vault[k] = "revoked"
    BY <2>1, NullAssumption DEF IInv, Inv, KeyInv, TypeOK
  <2>2. ASSUME NEW f \in Employees, NEW p \in Phones \cup {NoPhone}, NEW b \in BOOLEAN,
               UpdateEmployee(f, p, b)
        PROVE  activeKey[e] = NoKey /\ activeKey' = activeKey /\ key' = key
    BY <2>2 DEF UpdateEmployee, PhoneLocked, IInv, Inv, KeyInv, TypeOK
  <2>3. ASSUME NEW f \in Employees, NEW p \in Phones, ChangePhone(f, p)
        PROVE  activeKey[e] = NoKey /\ activeKey' = activeKey /\ key' = key
    BY <2>3 DEF ChangePhone, IInv, TypeOK
  <2>4. ASSUME NEW f \in Employees, CommitRevoke(f)
        PROVE  /\ activeKey'[e] = NoKey
               /\ \A k \in DOMAIN key' : key'[k].emp = e => vault[k] = "revoked"
    <3>1. f = e
      BY <2>4 DEF CommitRevoke, IInv, TypeOK
    <3>2. tx[e].op = "revoked" /\ key' = key /\ activeKey'[e] = NoKey
      BY <2>4, <3>1 DEF CommitRevoke, IInv, TypeOK
    <3>3. tx[e].key = activeKey[e] /\ vault[activeKey[e]] = "revoked"
      BY <3>2 DEF IInv, Inv, TxInv
    <3> QED
      BY <3>2, <3>3 DEF IInv, Inv, KeyInv
  <2>5. \/ \E f \in Employees, p \in Phones \cup {NoPhone}, b \in BOOLEAN : UpdateEmployee(f, p, b)
        \/ \E f \in Employees, p \in Phones : ChangePhone(f, p)
        \/ \E f \in Employees : CommitRevoke(f)
    <3>1. ASSUME NEW f \in Employees, CardStep(f)
          PROVE  \/ \E p \in Phones \cup {NoPhone}, b \in BOOLEAN : UpdateEmployee(f, p, b)
                 \/ \E p \in Phones : ChangePhone(f, p)
      BY <3>1 DEF CardStep, Invite, RegisterConsent, RefuseEdo
    <3>2. ASSUME NEW d \in Packages, PackageStep(d) PROVE FALSE
      BY <3>2 DEF PackageStep, ViewPackage, RejectPackage, CancelPackage, card
    <3>3. ASSUME NEW f \in Employees, CodeStep(f) PROVE FALSE
      BY <3>3 DEF CodeStep, ReadCardForCode, DropCodeRequest, SendCode, FailCode, OtherCode, card
    <3>4. ASSUME NEW f \in Employees, KeyStep(f) PROVE CommitRevoke(f)
      BY <3>4 DEF KeyStep, BeginIssue, CreateInVault, CommitIssue, BeginRevoke, RevokeInVault,
         Rollback, card
    <3> QED
      BY <3>1, <3>2, <3>3, <3>4 DEF Next
  <2> QED
    BY <2>1, <2>2, <2>3, <2>4, <2>5
<1> QED
  BY <1>1, EnrolmentInvariant, PTL DEF Spec, NewPhoneNeedsNewKey


(* Keys are safe: the three statements about keys together.                *)
THEOREM KeysAlwaysSafe == Spec => []KeysAreSafe
BY ActiveKeyAlwaysTheLiveOne, RevokedKeyNeverSigns, KeyAlwaysRestsOnConsent, PTL DEF KeysAreSafe

(* Codes and packages hold: the three statements about them together.      *)
THEOREM CodesAndPackagesAlwaysHold == Spec => []CodesAndPackagesHold
BY OneCodeForOneKey, OnlyOnePendingCode, NotifiedAlwaysHasPackage, PTL DEF CodesAndPackagesHold

(* What no later step undoes: both action properties together.             *)
THEOREM HistoryAlwaysStands == Spec => HistoryStands
BY PackageOutcomeFinal, NewPhoneAlwaysNeedsNewKey DEF HistoryStands
=============================================================================
