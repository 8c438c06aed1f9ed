---------------------------- MODULE ConsentedKey ----------------------------
(***************************************************************************)
(* What the enrolment of employees into e-signing promises, without its    *)
(* packages, codes, telephones or transactions: an employee who consented  *)
(* holds at most one signing key at a time, gets it only after consenting, *)
(* and a key that was taken away is never handed out again, to anyone.     *)
(***************************************************************************)
CONSTANTS
  Employees,   \* rows of hr_employees
  Keys,        \* identities a signing key can have
  NoKey        \* NULL in hr_employees.active_key_id

VARIABLES
  consented,   \* employees whose consent was registered
  current,     \* the key each employee signs with, or NoKey
  used         \* every key ever handed out

vars == <<consented, current, used>>

Init ==
  /\ consented = {}
  /\ current = [e \in Employees |-> NoKey]
  /\ used = {}

Consent(e) ==
  /\ e \notin consented
  /\ consented' = consented \cup {e}
  /\ UNCHANGED <<current, used>>

Issue(e, k) ==
  /\ e \in consented
  /\ current[e] = NoKey
  /\ k \notin used
  /\ current' = [current EXCEPT ![e] = k]
  /\ used' = used \cup {k}
  /\ UNCHANGED consented

Revoke(e) ==
  /\ current[e] # NoKey
  /\ current' = [current EXCEPT ![e] = NoKey]
  /\ UNCHANGED <<consented, used>>

Next == \E e \in Employees : Consent(e) \/ Revoke(e) \/ \E k \in Keys : Issue(e, k)

Spec == Init /\ [][Next]_vars
=============================================================================
