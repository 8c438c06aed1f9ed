---------------------------- MODULE HrEnrolment -----------------------------
(***************************************************************************)
(* Enrolment of an employee into e-signing (hr_edo/service.py, keys.py):   *)
(* the card and its telephone, the consent package, the SMS code, and the  *)
(* signing key, which exists twice: as a row of the key registry in        *)
(* Postgres and as a key inside the crypto-service.                        *)
(*                                                                         *)
(* Every operation that changes a card locks its row (SELECT FOR UPDATE),  *)
(* and every other operation here inserts a protocol event whose foreign   *)
(* key waits for that lock: an operation without a call to another service *)
(* is one step, taken when nobody holds the row.  issue_key and revoke_key *)
(* call the crypto-service in the middle of their transaction, so each is  *)
(* three steps: tx[e] holds the row between the first and the last, and    *)
(* Rollback (an error of the service, a crash) may come after each.        *)
(***************************************************************************)
EXTENDS HrOtp

CONSTANTS
  Packages,   \* identities of consent packages (documents of that type)
  Keys,       \* identities of signing keys
  NoDoc,      \* NULL in hr_employees.edo_consent_doc_id
  NoKey,      \* NULL in hr_employees.active_key_id
  NoCode      \* no challenge in a transaction

ASSUME NullAssumption == NoDoc \notin Packages /\ NoKey \notin Keys /\ NoCode \notin Codes

VARIABLES
  edo,          \* edo_status of each employee
  phone,        \* phone_e164, or NoPhone
  invitable,    \* status is active and employment_type is tk_rf
  consentDoc,   \* edo_consent_doc_id
  activeKey,    \* active_key_id
  pkg,          \* consent packages: employee, telephone printed in it, status
  key,          \* hr_signing_keys: owner, consent, telephone and code it was issued by
  revoked,      \* the keys whose row has a revoked_at
  vault,        \* the keys inside the crypto-service: "live" or "revoked"
  code,         \* hr_sign_challenges
  asked,        \* request_key_otp after its read of the card: the telephone it saw
  tx            \* the transaction that holds the row of each card

card == <<edo, phone, invitable, consentDoc, activeKey>>
vars == <<card, pkg, key, revoked, vault, code, asked, tx>>

EdoStatus == {"not_invited", "notified", "consent_signed", "active", "refused", "key_revoked"}
(* Fault: the telephone can be edited while a key is in use.               *)
PhoneLockedUntilKey == {"notified", "consent_signed", "key_revoked"}
PhoneLocked == {"notified", "consent_signed", "active", "key_revoked"}
Cancellable == {"draft", "frozen", "awaiting_employer", "sent", "viewed", "expired"}
Pending == {"sent", "viewed"}

Tx(op, c, k, p) == [op |-> op, code |-> c, key |-> k, phone |-> p]
Idle == Tx("idle", NoCode, NoKey, NoPhone)
Free(e) == tx[e] = Idle

Init ==
  /\ edo = [e \in Employees |-> "not_invited"]
  /\ phone \in [Employees -> Phones \cup {NoPhone}]
  /\ invitable \in [Employees -> BOOLEAN]
  /\ consentDoc = [e \in Employees |-> NoDoc]
  /\ activeKey = [e \in Employees |-> NoKey]
  /\ pkg = [d \in {} |-> Idle]
  /\ key = [k \in {} |-> Idle]
  /\ revoked = {}
  /\ vault = [k \in {} |-> "live"]
  /\ code = [c \in {} |-> Idle]
  /\ asked = [e \in Employees |-> NoPhone]
  /\ tx = [e \in Employees |-> Idle]
-----------------------------------------------------------------------------
(* The card and the consent package.                                       *)

Package(e, p, s) == [emp |-> e, phone |-> p, status |-> s]

(* The packages after the status of d became s.                            *)
Marked(d, s) == [pkg EXCEPT ![d] = Package(pkg[d].emp, pkg[d].phone, s)]

(* A PATCH of the card; the telephone only while no agreement fixes it.    *)
UpdateEmployee(e, p, b) ==
  /\ Free(e)
  /\ p # phone[e] => edo[e] \notin PhoneLocked
  /\ phone' = [phone EXCEPT ![e] = p]
  /\ invitable' = [invitable EXCEPT ![e] = b]
  /\ UNCHANGED <<edo, consentDoc, activeKey, pkg, key, revoked, vault, code, asked, tx>>

Reusable(e) ==
  /\ consentDoc[e] # NoDoc
  /\ pkg[consentDoc[e]].status \in {"sent", "viewed"}

(* An open package is sent again; otherwise d is created, frozen with the  *)
(* telephone of the card printed in it, and sent.                          *)
Invite(e, d) ==
  /\ Free(e)
  /\ invitable[e]
  /\ edo[e] \in {"not_invited", "notified", "refused"}
  /\ phone[e] # NoPhone
  /\ edo' = [edo EXCEPT ![e] = "notified"]
  /\ \/ Reusable(e) /\ UNCHANGED <<pkg, consentDoc>>
     \/ /\ ~Reusable(e)
        /\ d \in Packages \ DOMAIN pkg
        /\ pkg' = [x \in DOMAIN pkg \cup {d} |->
                     IF x = d THEN Package(e, phone[e], "sent") ELSE pkg[x]]
        /\ consentDoc' = [consentDoc EXCEPT ![e] = d]
  /\ UNCHANGED <<phone, invitable, activeKey, key, revoked, vault, code, asked, tx>>

(* The employee opens the package in the portal.                           *)
ViewPackage(d) ==
  /\ d \in DOMAIN pkg
  /\ Free(pkg[d].emp)
  /\ pkg[d].status = "sent"
  /\ pkg' = Marked(d, "viewed")
  /\ UNCHANGED <<card, key, revoked, vault, code, asked, tx>>

(* The employee refuses the package in the portal; the card is not told.   *)
RejectPackage(d) ==
  /\ d \in DOMAIN pkg
  /\ Free(pkg[d].emp)
  /\ pkg[d].status \in Pending
  /\ pkg' = Marked(d, "rejected")
  /\ UNCHANGED <<card, key, revoked, vault, code, asked, tx>>

CancelPackage(d) ==
  LET e == pkg[d].emp
      current == consentDoc[e] = d /\ edo[e] = "notified"
  IN /\ d \in DOMAIN pkg
     /\ Free(e)
     /\ pkg[d].status \in Cancellable
     /\ pkg' = Marked(d, "cancelled")
     /\ consentDoc' = [consentDoc EXCEPT ![e] = IF current THEN NoDoc ELSE @]
     /\ edo' = [edo EXCEPT ![e] = IF current THEN "not_invited" ELSE @]
     /\ UNCHANGED <<phone, invitable, activeKey, key, revoked, vault, code, asked, tx>>

(* The personnel officer files the package signed outside the system.      *)
RegisterConsent(e) ==
  /\ Free(e)
  /\ edo[e] \in {"notified", "refused"}
  /\ consentDoc[e] # NoDoc
  /\ pkg[consentDoc[e]].status \in {"sent", "viewed", "expired"}
  /\ pkg' = Marked(consentDoc[e], "signed")
  /\ edo' = [edo EXCEPT ![e] = "consent_signed"]
  /\ UNCHANGED <<phone, invitable, consentDoc, activeKey, key, revoked, vault, code, asked, tx>>

(* Fault: an employee who consented can still refuse.                      *)
RefuseEdoLate(e) ==
  /\ Free(e)
  /\ edo[e] # "active"
  /\ edo' = [edo EXCEPT ![e] = "refused"]
  /\ UNCHANGED <<phone, invitable, consentDoc, activeKey, pkg, key, revoked, vault, code, asked, tx>>

RefuseEdo(e) ==
  /\ Free(e)
  /\ edo[e] \notin {"active", "consent_signed", "key_revoked"}
  /\ edo' = [edo EXCEPT ![e] = "refused"]
  /\ UNCHANGED <<phone, invitable, consentDoc, activeKey, pkg, key, revoked, vault, code, asked, tx>>

(* The telephone of a card without a key: an unsigned package that prints  *)
(* the old number is withdrawn with it.                                    *)
ChangePhone(e, p) ==
  LET d == consentDoc[e]
      withdraw == edo[e] = "notified" /\ d # NoDoc
  IN /\ Free(e)
     /\ p # phone[e]
     /\ activeKey[e] = NoKey
     /\ phone' = [phone EXCEPT ![e] = p]
     /\ pkg' = IF withdraw /\ pkg[d].status \in Cancellable
               THEN Marked(d, "cancelled") ELSE pkg
     /\ consentDoc' = [consentDoc EXCEPT ![e] = IF withdraw THEN NoDoc ELSE @]
     /\ edo' = [edo EXCEPT ![e] = IF withdraw THEN "not_invited" ELSE @]
     /\ UNCHANGED <<invitable, activeKey, key, revoked, vault, code, asked, tx>>
-----------------------------------------------------------------------------
(* SMS codes.                                                              *)

CanIssue(e) == edo[e] \in {"consent_signed", "key_revoked"} /\ consentDoc[e] # NoDoc

(* request_key_otp works on the card the portal read without a lock.       *)
ReadCardForCode(e) ==
  /\ asked[e] = NoPhone
  /\ CanIssue(e)
  /\ phone[e] # NoPhone
  /\ asked' = [asked EXCEPT ![e] = phone[e]]
  /\ UNCHANGED <<card, pkg, key, revoked, vault, code, tx>>

(* ... supersedes the earlier codes and sends the new one to that number.  *)
SendCode(e, c) ==
  /\ asked[e] # NoPhone
  /\ Free(e)
  /\ c \in Codes \ DOMAIN code
  /\ code' = Challenged(code, c, e, "key_issue", asked[e], {})
  /\ asked' = [asked EXCEPT ![e] = NoPhone]
  /\ UNCHANGED <<card, pkg, key, revoked, vault, tx>>

(* A rate limit refuses the request, or the request is lost.               *)
DropCodeRequest(e) ==
  /\ asked[e] # NoPhone
  /\ asked' = [asked EXCEPT ![e] = NoPhone]
  /\ UNCHANGED <<card, pkg, key, revoked, vault, code, tx>>

(* Codes for entering the portal and for signing live in the same table.   *)
OtherCode(e, c, purpose) ==
  /\ Free(e)
  /\ phone[e] # NoPhone
  /\ c \in Codes \ DOMAIN code
  /\ purpose # "key_issue"
  /\ code' = Challenged(code, c, e, purpose, phone[e], {})
  /\ UNCHANGED <<card, pkg, key, revoked, vault, asked, tx>>

(* issue_key with a wrong or an outdated code: the answer is committed.    *)
FailCode(e, c) ==
  /\ Free(e)
  /\ CanIssue(e)
  /\ Answerable(code, c, e, "key_issue")
  /\ code' \in {WrongAnswer(code, c), OutOfDate(code, c)}
  /\ UNCHANGED <<card, pkg, key, revoked, vault, asked, tx>>
-----------------------------------------------------------------------------
(* issue_key and revoke_key.                                               *)

BeginIssue(e, c) ==
  /\ Free(e)
  /\ CanIssue(e)
  /\ Answerable(code, c, e, "key_issue")
  /\ tx' = [tx EXCEPT ![e] = Tx("issue", c, NoKey, NoPhone)]
  /\ UNCHANGED <<card, pkg, key, revoked, vault, code, asked>>

(* The crypto-service creates the key: no rollback takes it back.          *)
CreateInVault(e, k) ==
  /\ tx[e].op = "issue"
  /\ k \in Keys \ DOMAIN vault
  /\ vault' = [x \in DOMAIN vault \cup {k} |-> IF x = k THEN "live" ELSE vault[x]]
  /\ tx' = [tx EXCEPT ![e] = Tx("created", tx[e].code, k, NoPhone)]
  /\ UNCHANGED <<card, pkg, key, revoked, code, asked>>

CommitIssue(e) ==
  LET k == tx[e].key
  IN /\ tx[e].op = "created"
     /\ key' = [x \in DOMAIN key \cup {k} |->
                  IF x = k THEN [emp |-> e, consent |-> consentDoc[e], phone |-> phone[e],
                                 code |-> tx[e].code]
                           ELSE key[x]]
     /\ activeKey' = [activeKey EXCEPT ![e] = k]
     /\ edo' = [edo EXCEPT ![e] = "active"]
     /\ code' = Confirmed(code, tx[e].code)
     /\ tx' = [tx EXCEPT ![e] = Idle]
     /\ UNCHANGED <<phone, invitable, consentDoc, pkg, revoked, vault, asked>>

(* revoke_key on its own (p = NoPhone) or inside change_phone.             *)
BeginRevoke(e, p) ==
  /\ Free(e)
  /\ activeKey[e] # NoKey
  /\ p # NoPhone => p # phone[e]
  /\ tx' = [tx EXCEPT ![e] = Tx("revoke", NoCode, activeKey[e], p)]
  /\ UNCHANGED <<card, pkg, key, revoked, vault, code, asked>>

(* Fault: an error of the crypto-service is ignored.                       *)
RevokeAnyway(e) ==
  /\ tx[e].op = "revoke"
  /\ tx' = [tx EXCEPT ![e] = Tx("revoked", NoCode, tx[e].key, tx[e].phone)]
  /\ UNCHANGED <<card, pkg, key, revoked, vault, code, asked>>

RevokeInVault(e) ==
  /\ tx[e].op = "revoke"
  /\ vault' = [vault EXCEPT ![tx[e].key] = "revoked"]
  /\ tx' = [tx EXCEPT ![e] = Tx("revoked", NoCode, tx[e].key, tx[e].phone)]
  /\ UNCHANGED <<card, pkg, key, revoked, code, asked>>

CommitRevoke(e) ==
  /\ tx[e].op = "revoked"
  /\ revoked' = revoked \cup {tx[e].key}
  /\ activeKey' = [activeKey EXCEPT ![e] = NoKey]
  /\ edo' = [edo EXCEPT ![e] = "key_revoked"]
  /\ phone' = [phone EXCEPT ![e] = IF tx[e].phone = NoPhone THEN @ ELSE tx[e].phone]
  /\ tx' = [tx EXCEPT ![e] = Idle]
  /\ UNCHANGED <<invitable, consentDoc, pkg, key, vault, code, asked>>

(* The service failed, or the process died before the commit: Postgres     *)
(* forgets the transaction, the crypto-service does not.                   *)
Rollback(e) ==
  /\ ~Free(e)
  /\ tx' = [tx EXCEPT ![e] = Idle]
  /\ UNCHANGED <<card, pkg, key, revoked, vault, code, asked>>
-----------------------------------------------------------------------------
CardStep(e) ==
  \/ \E p \in Phones \cup {NoPhone}, b \in BOOLEAN : UpdateEmployee(e, p, b)
  \/ \E d \in Packages : Invite(e, d)
  \/ RegisterConsent(e)
  \/ RefuseEdo(e)
  \/ \E p \in Phones : ChangePhone(e, p)

PackageStep(d) == ViewPackage(d) \/ RejectPackage(d) \/ CancelPackage(d)

CodeStep(e) ==
  \/ ReadCardForCode(e)
  \/ DropCodeRequest(e)
  \/ \E c \in Codes : SendCode(e, c) \/ FailCode(e, c)
  \/ \E c \in Codes, purpose \in Purposes : OtherCode(e, c, purpose)

KeyStep(e) ==
  \/ \E c \in Codes : BeginIssue(e, c)
  \/ \E k \in Keys : CreateInVault(e, k)
  \/ CommitIssue(e)
  \/ \E p \in Phones \cup {NoPhone} : BeginRevoke(e, p)
  \/ RevokeInVault(e)
  \/ CommitRevoke(e)
  \/ Rollback(e)

Next ==
  \/ \E e \in Employees : CardStep(e) \/ CodeStep(e) \/ KeyStep(e)
  \/ \E d \in Packages : PackageStep(d)

Spec == Init /\ [][Next]_vars
-----------------------------------------------------------------------------
(* Properties.                                                             *)

TxType == [op : {"idle", "issue", "created", "revoke", "revoked"}, code : Codes \cup {NoCode},
           key : Keys \cup {NoKey}, phone : Phones \cup {NoPhone}]

PackageRow == [emp : Employees, phone : Phones,
               status : {"sent", "viewed", "signed", "rejected", "cancelled"}]

KeyRow == [emp : Employees, consent : Packages, phone : Phones \cup {NoPhone},
           code : Codes]

(* The values the columns and the tables may hold.                         *)
TypeOK ==
  /\ edo \in [Employees -> EdoStatus]
  /\ phone \in [Employees -> Phones \cup {NoPhone}]
  /\ invitable \in [Employees -> BOOLEAN]
  /\ consentDoc \in [Employees -> Packages \cup {NoDoc}]
  /\ activeKey \in [Employees -> Keys \cup {NoKey}]
  /\ DOMAIN pkg \subseteq Packages /\ pkg \in [DOMAIN pkg -> PackageRow]
  /\ DOMAIN key \subseteq Keys /\ key \in [DOMAIN key -> KeyRow]
  /\ revoked \subseteq DOMAIN key
  /\ DOMAIN vault \subseteq Keys /\ vault \in [DOMAIN vault -> {"live", "revoked"}]
  /\ DOMAIN code \subseteq Codes /\ code \in [DOMAIN code -> CodeRow({{}})]
  /\ asked \in [Employees -> Phones \cup {NoPhone}]
  /\ tx \in [Employees -> TxType]

(* The status of the card, its active_key_id and the registry agree: an    *)
(* employee is active exactly when the card names a key, that key is the   *)
(* employee's own, and it is the only one of theirs not revoked.           *)
ActiveKeyIsTheLiveOne ==
  \A e \in Employees :
    /\ edo[e] = "active" <=> activeKey[e] # NoKey
    /\ {k \in DOMAIN key \ revoked : key[k].emp = e} = {activeKey[e]} \ {NoKey}

(* A key the registry calls revoked can no longer sign in the              *)
(* crypto-service, whenever revoke_key was interrupted; and the service    *)
(* knows every registered key.                                             *)
RevokedKeyCannotSign ==
  DOMAIN key \subseteq DOMAIN vault /\ \A k \in revoked : vault[k] = "revoked"

(* keys.py: no key is ever issued without a registered consent.  Each key  *)
(* names a consent package of its own employee, and it is a signed one.    *)
KeyRestsOnConsent ==
  \A k \in DOMAIN key :
    LET d == key[k].consent
    IN d \in DOMAIN pkg /\ pkg[d].emp = key[k].emp /\ pkg[d].status = "signed"

(* Each key was paid for with one code of its employee, asked for that     *)
(* purpose and used up by it, even when issue_key was rolled back and the  *)
(* code entered again.                                                     *)
OneCodeOneKey ==
  /\ \A k \in DOMAIN key :
       /\ key[k].code \in DOMAIN code
       /\ code[key[k].code].status = "confirmed"
       /\ code[key[k].code].emp = key[k].emp
       /\ code[key[k].code].purpose = "key_issue"
  /\ \A j, k \in DOMAIN key : key[j].code = key[k].code => j = k

(* Of the codes asked for one purpose only the last can be answered.       *)
OnePendingCode ==
  \A c, d \in DOMAIN code :
    /\ code[c].status = "pending" /\ code[d].status = "pending"
    /\ code[c].emp = code[d].emp /\ code[c].purpose = code[d].purpose
    => c = d

(* A card that says "notified" has a package: its own, not cancelled, and  *)
(* not yet signed, whoever cancelled, rejected or re-sent what meanwhile.  *)
NotifiedHasPackage ==
  \A e \in Employees : edo[e] = "notified" =>
    LET d == consentDoc[e]
    IN d \in DOMAIN pkg /\ pkg[d].emp = e /\ pkg[d].status \in {"sent", "viewed", "rejected"}

(* A package that was signed, rejected or cancelled stays so.              *)
PackageOutcomeIsFinal ==
  [][\A d \in DOMAIN pkg :
       pkg[d].status \in {"signed", "rejected", "cancelled"} => pkg'[d].status = pkg[d].status]_vars

(* change_phone and update_employee: no key survives a change of the       *)
(* number its codes are sent to.                                           *)
NewPhoneNeedsNewKey ==
  [][\A e \in Employees :
       phone'[e] # phone[e] =>
         /\ activeKey'[e] = NoKey
         /\ \A k \in DOMAIN key' : key'[k].emp = e => vault[k] = "revoked"]_vars

(* Keys: the card, the registry and the crypto-service agree on which key  *)
(* is in force, and none is in force without a consent.                    *)
KeysAreSafe == ActiveKeyIsTheLiveOne /\ RevokedKeyCannotSign /\ KeyRestsOnConsent

(* Codes and packages: what a code was used for, which of them can still   *)
(* be answered, and what a notified employee is waiting for.               *)
CodesAndPackagesHold == OneCodeOneKey /\ OnePendingCode /\ NotifiedHasPackage

(* What no later step undoes: the outcome of a package, and the loss of    *)
(* the key with the number.                                                *)
HistoryStands == PackageOutcomeIsFinal /\ NewPhoneNeedsNewKey

(* The comment in change_phone: the number is printed in the consent       *)
(* package, so the package of an old number is not valid.  It should then  *)
(* not be the package a consent is registered by.                          *)
ConsentPrintsTheNumber ==
  [][\A e \in Employees :
       edo[e] # "consent_signed" /\ edo'[e] = "consent_signed" =>
         pkg[consentDoc[e]].phone = phone[e]]_vars

(* The docstring of change_phone: a new key by confirmation of the new     *)
(* number.  The code that issued a key should have gone to the number the  *)
(* key is recorded with.                                                   *)
KeyConfirmedByItsNumber ==
  \A k \in DOMAIN key : code[key[k].code].phone = key[k].phone

(* The abstract promise this module implements.                            *)
Promise == INSTANCE ConsentedKey WITH
  consented <- {e \in Employees : edo[e] \in {"consent_signed", "active", "key_revoked"}},
  current <- activeKey,
  used <- DOMAIN key

ImplementsConsentedKey == Promise!Spec
=============================================================================
