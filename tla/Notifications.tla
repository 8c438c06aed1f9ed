---------------------------- MODULE Notifications ----------------------------
(***************************************************************************)
(* The notifications of one person: the list the server returns (the       *)
(* newest ones only), the mark in the header, the page with its filters    *)
(* and the two ways to mark as read. The server tells the client about a   *)
(* chat message only; any other notification is found by the next fetch.   *)
(***************************************************************************)
EXTENDS Naturals, Sequences

CONSTANTS
  NoticeKinds,   \* kinds the filter of the page tells apart, "chat" among them
  AllKinds,      \* the filter that lets every kind through
  MaxNotices,    \* bound: notifications created
  ListLimit,     \* how many the server returns (200)
  MaxBellOps,    \* bound: requests of this person
  NoBell,        \* nothing fetched, or being fetched
  BellAsking     \* a fetch the server has not answered yet

ASSUME NotificationsAssumption ==
  /\ MaxNotices \in Nat \ {0} /\ MaxBellOps \in Nat
  /\ ListLimit \in Nat \ {0}
  /\ "chat" \in NoticeKinds /\ AllKinds \notin NoticeKinds

VARIABLES
  notices,     \* the notifications, oldest first
  bell,        \* the list in the query cache
  bellStale,   \* the list was invalidated
  bellFetch,   \* the fetch under way
  bellFilter,  \* the kind the page shows
  bellJobs,    \* requests under way
  bellDoubt,   \* auxiliary: why the list may miss a change, see BellWhys
  bellLate,    \* auxiliary: the same for the answer on its way to the client
  bellSeen,    \* auxiliary: notifications the page has drawn
  bellOps      \* requests so far

bellVars == <<notices, bell, bellStale, bellFetch, bellFilter, bellJobs,
             bellDoubt, bellLate, bellSeen, bellOps>>

Notices == [kind : NoticeKinds, read : BOOLEAN]

\* The answer of the server: the newest notifications, by number.
Newest(s) == [i \in {j \in DOMAIN s : j > Len(s) - ListLimit /\ j <= Len(s)} |-> s[i]]

\* What the page draws.
KeptByFilter(list) == {i \in DOMAIN list : bellFilter \in {AllKinds, list[i].kind}}

Unread(list) == {i \in DOMAIN list : ~list[i].read}

(***************************************************************************)
(* Why the list may miss a change, from the events that cause it: the      *)
(* client was not told of it, or it was told while the first load was      *)
(* under way and already read by the server: only a list the client has is *)
(* fetched anew.                                                           *)
(***************************************************************************)
BellWhys == {"untold", "first load"}

BellOnItsWay == bellFetch \notin {NoBell, BellAsking}

BellLateFor(why) == IF BellOnItsWay THEN bellLate \cup {why} ELSE bellLate

\* Told of a change, and not told of it.
Told ==
  /\ bellStale' = TRUE
  /\ bellFetch' = IF bell # NoBell THEN BellAsking ELSE bellFetch
  /\ bellLate' = IF bell # NoBell THEN {} ELSE BellLateFor("first load")
  /\ UNCHANGED bellDoubt

Untold ==
  /\ bellDoubt' = bellDoubt \cup {"untold"}
  /\ bellLate' = BellLateFor("untold")
  /\ UNCHANGED <<bellStale, bellFetch>>

BellInit ==
  /\ notices \in {<<>>} \cup {<<[kind |-> k, read |-> r]>> : k \in NoticeKinds, r \in BOOLEAN}
  /\ bell = NoBell /\ bellStale = FALSE /\ bellFetch = BellAsking
  /\ bellFilter = AllKinds
  /\ bellJobs = {} /\ bellDoubt = {} /\ bellLate = {} /\ bellSeen = {} /\ bellOps = 0

BellServed ==
  /\ bellFetch = BellAsking
  /\ bellFetch' = Newest(notices)
  /\ UNCHANGED <<notices, bell, bellStale, bellFilter, bellJobs, bellDoubt, bellLate, bellSeen, bellOps>>

BellArrives ==
  /\ bellFetch \notin {NoBell, BellAsking}
  /\ bell' = bellFetch
  /\ bellStale' = FALSE
  /\ bellDoubt' = bellLate
  /\ bellFetch' = NoBell /\ bellLate' = {}
  /\ bellSeen' = bellSeen \cup KeptByFilter(bellFetch)
  /\ UNCHANGED <<notices, bellFilter, bellJobs, bellOps>>

\* A page that is opened again fetches a list that is stale or half a minute old.
BellRevisited ==
  /\ bellFetch = NoBell
  /\ bellFetch' = BellAsking
  /\ UNCHANGED <<notices, bell, bellStale, bellFilter, bellJobs, bellDoubt, bellLate, bellSeen, bellOps>>

SetKind ==
  /\ bell # NoBell
  /\ bellFilter' \in (NoticeKinds \cup {AllKinds}) \ {bellFilter}
  /\ bellSeen' = bellSeen \cup {i \in DOMAIN bell : bellFilter' \in {AllKinds, bell[i].kind}}
  /\ UNCHANGED <<notices, bell, bellStale, bellFetch, bellJobs, bellDoubt, bellLate, bellOps>>

AskBell(which) ==
  /\ bellOps < MaxBellOps
  /\ bellOps' = bellOps + 1
  /\ bellJobs' = bellJobs \cup {[n |-> bellOps, of |-> which]}

\* A click on a notification goes to what it is about; an unread one is marked.
OpenNotice ==
  /\ bell # NoBell
  /\ \E i \in KeptByFilter(bell) \cap Unread(bell) : AskBell({i})
  /\ UNCHANGED <<notices, bell, bellStale, bellFetch, bellFilter, bellDoubt, bellLate, bellSeen>>

\* The button beside the filters: every notification of the person.
MarkAll ==
  /\ AskBell(1 .. MaxNotices)
  /\ UNCHANGED <<notices, bell, bellStale, bellFetch, bellFilter, bellDoubt, bellLate, bellSeen>>

MarkedRead(s, which) == [i \in DOMAIN s |-> IF i \in which THEN [s[i] EXCEPT !.read = TRUE] ELSE s[i]]

BellAnswers ==
  \E j \in bellJobs :
    /\ notices' = MarkedRead(notices, j.of)
    /\ bellJobs' = bellJobs \ {j}
    /\ Told \/ Untold  \* the answer arrives, or is lost
    /\ UNCHANGED <<bell, bellFilter, bellSeen, bellOps>>

\* A chat message is announced by its event, which makes the list stale, when it is
\* heard: by the chat page only.
NoticeCreated ==
  /\ Len(notices) < MaxNotices
  /\ \E k \in NoticeKinds, heard \in BOOLEAN :
       /\ heard => k = "chat"
       /\ notices' = Append(notices, [kind |-> k, read |-> FALSE])
       /\ IF heard THEN Told ELSE Untold
  /\ UNCHANGED <<bell, bellFilter, bellJobs, bellSeen, bellOps>>

BellNext ==
  \/ BellServed \/ BellArrives \/ BellRevisited \/ SetKind
  \/ OpenNotice \/ MarkAll \/ BellAnswers \/ NoticeCreated

BellSpec == BellInit /\ [][BellNext]_bellVars

-----------------------------------------------------------------------------
(* Types of the variables above; the list never exceeds the limit.         *)
BellTypeOK ==
  /\ notices \in Seq(Notices) /\ Len(notices) <= MaxNotices
  /\ bell # NoBell => (DOMAIN bell \subseteq 1 .. MaxNotices /\ \A i \in DOMAIN bell : bell[i] \in Notices)
  /\ bellStale \in BOOLEAN /\ bellDoubt \subseteq BellWhys
  /\ bellLate \subseteq BellWhys /\ (BellOnItsWay \/ bellLate = {})
  /\ bellFilter \in NoticeKinds \cup {AllKinds}
  /\ bellJobs \subseteq [n : 0 .. MaxBellOps, of : SUBSET (1 .. MaxNotices)]
  /\ bellSeen \subseteq 1 .. MaxNotices /\ bellOps \in 0 .. MaxBellOps

(***************************************************************************)
(* A list that is not stale is the one of the server, read marks included, *)
(* whichever of fetch, mark and event came first. Excepted are a change    *)
(* the client was not told of, and one it was told of while the first load *)
(* was under way and already read by the server.                           *)
(***************************************************************************)
QuietBellIsTrue == (bell # NoBell /\ ~bellStale /\ bellDoubt = {}) => bell = Newest(notices)

-----------------------------------------------------------------------------
(* What the code does not give; see the README.                            *)

(* What the client marked or was told of is shown, also when it came while *)
(* the first load was under way.                                           *)
ToldIsShown ==
  (bell # NoBell /\ ~bellStale /\ "untold" \notin bellDoubt) => bell = Newest(notices)

(* Only a notification the person has been shown is ever marked as read.   *)
OnlySeenIsMarked ==
  [][\A i \in DOMAIN notices : (notices'[i].read /\ ~notices[i].read) => i \in bellSeen]_bellVars
=============================================================================
