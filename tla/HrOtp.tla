------------------------------- MODULE HrOtp --------------------------------
(***************************************************************************)
(* The SMS codes of hr_edo/otp.py as a table of challenges: a function     *)
(* whose domain grows.  A row says which employee asked and for what, the  *)
(* number the SMS went to, what the code covers, its status and the wrong  *)
(* answers given so far.  The operators are the table after each operation *)
(* of otp.py; the modules that use them supply the transactions and locks. *)
(*                                                                         *)
(* Abstracted: the digits and their HMAC (a challenge is answered with the *)
(* right or with a wrong code), the clock (a challenge may be found out of *)
(* date at any answer), and the Redis rate limits (a request may be        *)
(* refused at any time).  A challenge whose SMS the provider refused stays *)
(* in the table as pending, so it is one that nobody answers.              *)
(***************************************************************************)
EXTENDS Integers

CONSTANTS
  Employees,     \* rows of hr_employees
  Codes,         \* identities of challenges
  Phones,        \* telephone numbers
  NoPhone,       \* NULL in hr_employees.phone_e164
  MaxAttempts    \* MAX_ATTEMPTS of otp.py

ASSUME AttemptsAssumption == MaxAttempts \in Nat \ {0}
ASSUME PhoneAssumption == NoPhone \notin Phones

Purposes == {"portal_login", "key_issue", "sign"}

CodeStatus == {"pending", "confirmed", "locked", "expired", "superseded"}

(* A row of hr_sign_challenges; Scope is what the code of a module covers. *)
CodeRow(Scope) == [emp : Employees, purpose : Purposes, phone : Phones, scope : Scope,
                   status : CodeStatus, attempts : 0 .. MaxAttempts]

(* otp.create_challenge: the pending codes of the same employee and        *)
(* purpose are superseded, and c becomes a pending code sent to p.         *)
Challenged(code, c, e, purpose, p, scope) ==
  [d \in DOMAIN code \cup {c} |->
     IF d = c
     THEN [emp |-> e, purpose |-> purpose, phone |-> p, scope |-> scope,
           status |-> "pending", attempts |-> 0]
     ELSE IF code[d].status = "pending" /\ code[d].emp = e /\ code[d].purpose = purpose
          THEN [code[d] EXCEPT !.status = "superseded"]
          ELSE code[d]]

(* The checks otp.confirm_challenge makes before it looks at the digits.   *)
Answerable(code, c, e, purpose) ==
  /\ c \in DOMAIN code
  /\ code[c].status = "pending"
  /\ code[c].emp = e
  /\ code[c].purpose = purpose

(* confirm_challenge finds the code past expires_at and commits that.      *)
OutOfDate(code, c) == [code EXCEPT ![c].status = "expired"]

(* Fault: one answer too many before the code is locked.                   *)
WrongAnswerOnceMore(code, c) ==
  [code EXCEPT ![c].attempts = @ + 1,
               ![c].status = IF code[c].attempts + 1 > MaxAttempts THEN "locked" ELSE @]

(* A wrong answer is counted and committed; the last one locks the code.   *)
WrongAnswer(code, c) ==
  [code EXCEPT ![c].attempts = @ + 1,
               ![c].status = IF code[c].attempts + 1 >= MaxAttempts THEN "locked" ELSE @]

(* Fault: the code is not used up.                                         *)
ConfirmedForgotten(code, c) == code

(* The right answer.  confirm_challenge only flushes it: the caller's      *)
(* commit makes it durable, the caller's rollback leaves the code pending. *)
Confirmed(code, c) == [code EXCEPT ![c].status = "confirmed"]
=============================================================================
