---------------------------- MODULE AuthSession -----------------------------
(***************************************************************************)
(* The session of a browser with several tabs (frontend api/client.ts,     *)
(* stores/auth.ts, features/auth) against the refresh tokens of the server *)
(* (auth/service.py).                                                      *)
(*                                                                         *)
(* Every tab holds its access token, its query cache and its own refresh   *)
(* in progress in memory; the refresh cookie is shared by the tabs. The    *)
(* server replaces the refresh token on every use, and takes the use of    *)
(* one it no longer knows for theft: it revokes every session of the user. *)
(***************************************************************************)
EXTENDS Naturals, FiniteSets

CONSTANTS
  Tabs,
  Calls,       \* concurrent requests of one tab
  MeCall,      \* the one of the query auth/me
  People,      \* users
  Sessions,    \* refresh tokens; their number bounds sign-ins and rotations
  NoSession,   \* no cookie
  NoToken,     \* accessToken = null
  Nobody,      \* the owner of a token before it is issued
  MaxExpired,  \* bound: access tokens that run out
  MaxLost      \* bound: responses that never arrive

ASSUME SessionAssumption ==
  /\ MeCall \in Calls /\ Nobody \notin People /\ NoToken \notin [user : People, valid : BOOLEAN]
  /\ {NoSession, "pending", "refused", "lost", "none"} \cap Sessions = {}
  /\ IsFiniteSet(Tabs) /\ {MaxExpired, MaxLost} \subseteq Nat

VARIABLES
  active,     \* refresh tokens in Redis
  owner,      \* user of every token ever issued, Nobody before
  cookie,
  token,      \* accessToken of every tab
  me,         \* state of the query auth/me
  userCached,     \* users whose data is in the query cache of the tab
  refreshing, \* tabs with refreshPromise # null
  req,        \* every request: state, token it carries, whether its query lives
  refresh,    \* the call auth/refresh a request has started
  leaving,    \* tabs whose call auth/logout is under way
  cleanly,    \* tabs that signed out with no refresh under way, and show it
  revoked,    \* tokens ended by a sign-out, a new password or a refusal
  reused,     \* a token was refused that nobody had given up
  expired, lost

sessionServer == <<active, owner, revoked, reused>>
memory == <<token, me, userCached>>
calls == <<refreshing, req, refresh, leaving>>
bounds == <<expired, lost>>
sessionVars == <<sessionServer, cookie, memory, calls, cleanly, bounds>>

Requests == Tabs \X Calls
Tab(q) == q[1]

Token(u, valid) == [user |-> u, valid |-> valid]
Live(carried) == IF carried = NoToken THEN FALSE ELSE carried.valid
AccessToken == [user : People, valid : BOOLEAN] \cup {NoToken}
Phases == {"idle", "sent", "waiting", "resent"}
Request(state, carried) == [state |-> state, carried |-> carried, live |-> TRUE]
Unused == Request("idle", NoToken)
OfMe(q) == q[2] = MeCall
(* answer: pending, refused, lost, or the new refresh token.               *)
Refreshes == [sent : Sessions \cup {NoSession}, answer : Sessions \cup {"pending", "refused", "lost"}]
NoRefresh == [sent |-> NoSession, answer |-> "none"]

SessionTypeOK ==
  /\ active \subseteq Sessions /\ revoked \subseteq Sessions /\ reused \in BOOLEAN
  /\ owner \in [Sessions -> People \cup {Nobody}]
  /\ cookie \in Sessions \cup {NoSession}
  /\ token \in [Tabs -> AccessToken]
  /\ me \in [Tabs -> {"loading", "ok", "error"}]
  /\ userCached \in [Tabs -> SUBSET People]
  /\ {refreshing, leaving, cleanly} \subseteq SUBSET Tabs
  /\ req \in [Requests -> [state : Phases, carried : AccessToken, live : BOOLEAN]]
  /\ refresh \in [Requests -> Refreshes \cup {NoRefresh}]
  /\ expired \in 0..MaxExpired /\ lost \in 0..MaxLost

SessionInit ==
  /\ active = {} /\ owner = [s \in Sessions |-> Nobody] /\ revoked = {} /\ reused = FALSE
  /\ cookie = NoSession
  /\ token = [t \in Tabs |-> NoToken]
  /\ me = [t \in Tabs |-> "loading"] /\ userCached = [t \in Tabs |-> {}]
  /\ refreshing = {} /\ leaving = {} /\ cleanly = {}
  /\ req = [q \in Requests |-> Unused] /\ refresh = [q \in Requests |-> NoRefresh]
  /\ expired = 0 /\ lost = 0

New == {s \in Sessions : owner[s] = Nobody}
(* A token nobody has seen: which one makes no difference.                 *)
Issued == CHOOSE s \in New : TRUE
OfUser(u) == {s \in Sessions : owner[s] = u}
-----------------------------------------------------------------------------
(* A query or mutation goes out with the token of the moment.              *)
Send(q) ==
  /\ req[q].state = "idle"
  /\ req' = [req EXCEPT ![q] = Request("sent", token[Tab(q)])]
  /\ UNCHANGED <<sessionServer, cookie, memory, refreshing, refresh, leaving, cleanly, bounds>>

(* What an answer leaves in the query cache; a query that has been removed *)
(* since takes nothing. (The user useMe keeps in the store follows me.)    *)
Served(q, u) ==
  LET t == Tab(q) IN
  /\ userCached' = [userCached EXCEPT ![t] = IF req[q].live THEN @ \cup {u} ELSE @]
  /\ me' = [me EXCEPT ![t] = IF OfMe(q) /\ req[q].live THEN "ok" ELSE @]
Refused(qs) ==
  me' = [t \in Tabs |-> IF \E q \in qs : Tab(q) = t /\ OfMe(q) /\ req[q].live
                        THEN "error" ELSE me[t]]

Accepted(q) ==
  /\ req[q].state \in {"sent", "resent"}
  /\ Live(req[q].carried)
  /\ req' = [req EXCEPT ![q] = Unused]
  /\ Served(q, req[q].carried.user)
  /\ UNCHANGED <<sessionServer, cookie, token, refreshing, refresh, leaving, cleanly, bounds>>

(* Fault: every request that is refused refreshes for itself.               *)
StartsAlways(t) == TRUE
(* refreshAccess: the first 401 of a tab starts the refresh, the others    *)
(* wait for its promise.                                                   *)
StartsRefresh(t) == t \notin refreshing
Unauthorized(q) ==
  /\ req[q].state = "sent"
  /\ ~Live(req[q].carried)
  /\ req' = [req EXCEPT ![q].state = "waiting"]
  /\ refreshing' = refreshing \cup {Tab(q)}
  /\ refresh' = IF StartsRefresh(Tab(q))
                THEN [refresh EXCEPT ![q] = [sent |-> cookie, answer |-> "pending"]]
                ELSE refresh
  /\ UNCHANGED <<sessionServer, cookie, memory, leaving, cleanly, bounds>>

(* The repeated request goes through plain ky: a second 401 is final.      *)
RefusedAgain(q) ==
  /\ req[q].state = "resent"
  /\ ~Live(req[q].carried)
  /\ req' = [req EXCEPT ![q] = Unused]
  /\ Refused({q})
  /\ UNCHANGED <<sessionServer, cookie, token, userCached, refreshing, refresh, leaving, cleanly,
                 bounds>>
-----------------------------------------------------------------------------
(* rotate_refresh.                                                         *)
RotateRefresh(q) ==
  /\ refresh[q].answer = "pending"
  /\ LET s == refresh[q].sent IN
     \/ /\ s \in active
        /\ New # {}
        /\ active' = (active \ {s}) \cup {Issued}
        /\ owner' = [owner EXCEPT ![Issued] = owner[s]]
        /\ refresh' = [refresh EXCEPT ![q].answer = Issued]
        /\ UNCHANGED <<revoked, reused>>
     \/ /\ s \notin active
        /\ LET ended == IF s = NoSession THEN {} ELSE OfUser(owner[s]) IN
           active' = active \ ended /\ revoked' = revoked \cup ended
        /\ reused' = (reused \/ s \notin revoked \cup {NoSession})
        /\ refresh' = [refresh EXCEPT ![q].answer = "refused"]
        /\ UNCHANGED owner
  /\ UNCHANGED <<cookie, memory, refreshing, req, leaving, cleanly, bounds>>

(* The answer, with the cookie the server has replaced, is lost.           *)
LoseRefresh(q) ==
  /\ refresh[q].answer \notin {"none", "lost"}
  /\ lost < MaxLost
  /\ lost' = lost + 1
  /\ refresh' = [refresh EXCEPT ![q].answer = "lost"]
  /\ UNCHANGED <<sessionServer, cookie, memory, refreshing, req, leaving, cleanly, expired>>

(* The promise settles: everybody who waits for it goes on.                *)
Waiters(t) == {q \in Requests : Tab(q) = t /\ req[q].state = "waiting"}
RefreshSucceeds(q) ==
  LET t == Tab(q)
      fresh == Token(owner[refresh[q].answer], TRUE) IN
  /\ refresh[q].answer \in Sessions
  /\ cookie' = refresh[q].answer
  /\ token' = [token EXCEPT ![t] = fresh]
  /\ req' = [r \in Requests |-> IF r \in Waiters(t)
                                THEN [req[r] EXCEPT !.state = "resent", !.carried = fresh] ELSE req[r]]
  /\ refreshing' = refreshing \ {t}
  /\ refresh' = [refresh EXCEPT ![q] = NoRefresh]
  /\ UNCHANGED <<sessionServer, me, userCached, leaving, cleanly, bounds>>

RefreshFails(q) ==
  LET t == Tab(q) IN
  /\ refresh[q].answer \in {"refused", "lost"}
  /\ token' = [token EXCEPT ![t] = NoToken]
  /\ req' = [r \in Requests |-> IF r \in Waiters(t) THEN Unused ELSE req[r]]
  /\ Refused(Waiters(t))
  /\ refreshing' = refreshing \ {t}
  /\ refresh' = [refresh EXCEPT ![q] = NoRefresh]
  /\ UNCHANGED <<sessionServer, cookie, userCached, leaving, cleanly, bounds>>
-----------------------------------------------------------------------------
(* A new session beside those the user has; the query cache is not emptied. *)
SignIn(t, u) ==
  /\ token[t] = NoToken /\ New # {}
  /\ active' = active \cup {Issued}
  /\ owner' = [owner EXCEPT ![Issued] = u]
  /\ cookie' = Issued
  /\ token' = [token EXCEPT ![t] = Token(u, TRUE)]
  /\ cleanly' = {}
  /\ UNCHANGED <<revoked, reused, me, userCached, calls, bounds>>
(* LoginPage.                                                              *)
Login(t, u) == SignIn(t, u)
(* InvitePage: an invitation is for somebody who never signed in; its link *)
(* loads the page, over the session another user may have in the browser.  *)
AcceptInvite(t, u) == OfUser(u) = {} /\ me[t] = "loading" /\ SignIn(t, u)

SendLogout(t) ==
  /\ token[t] # NoToken /\ t \notin leaving
  /\ leaving' = leaving \cup {t}
  /\ active' = active \ {cookie}
  /\ revoked' = revoked \cup ({cookie} \ {NoSession})
  /\ UNCHANGED <<owner, reused, cookie, memory, refreshing, req, refresh, cleanly, bounds>>

(* onSettled, whether the answer came or not: the store and the cache are  *)
(* emptied, and what is still on its way finds no query to fill.           *)
LogoutSettled(t, answered) ==
  /\ t \in leaving
  /\ leaving' = leaving \ {t}
  /\ answered \/ lost < MaxLost
  /\ cookie' = IF answered THEN NoSession ELSE cookie
  /\ lost' = IF answered THEN lost ELSE lost + 1
  /\ token' = [token EXCEPT ![t] = NoToken]
  /\ userCached' = [userCached EXCEPT ![t] = {}]
  /\ me' = [me EXCEPT ![t] = "loading"]
  /\ req' = [q \in Requests |-> IF Tab(q) = t /\ req[q].state # "idle"
                                THEN [req[q] EXCEPT !.live = FALSE] ELSE req[q]]
  /\ cleanly' = IF answered /\ refreshing = {} THEN cleanly \cup {t} ELSE cleanly
  /\ UNCHANGED <<sessionServer, refreshing, refresh, expired>>

(* SecurityCard: the server ends every session of the user and opens one   *)
(* for this browser, which the other tabs find in the cookie.              *)
ChangePassword(t, answered) ==
  /\ Live(token[t]) /\ New # {}
  /\ answered \/ lost < MaxLost
  /\ LET u == token[t].user IN
       /\ active' = (active \ OfUser(u)) \cup {Issued}
       /\ revoked' = revoked \cup OfUser(u)
       /\ owner' = [owner EXCEPT ![Issued] = u]
  /\ cookie' = IF answered THEN Issued ELSE cookie
  /\ cleanly' = IF answered THEN {} ELSE cleanly
  /\ lost' = IF answered THEN lost ELSE lost + 1
  /\ UNCHANGED <<reused, memory, calls, expired>>

(* The page is loaded anew; an answer under way is lost with its cookie.   *)
Reload(t) ==
  /\ t \notin refreshing \/ lost < MaxLost
  /\ lost' = IF t \in refreshing THEN lost + 1 ELSE lost
  /\ t \notin leaving
  /\ token' = [token EXCEPT ![t] = NoToken]
  /\ userCached' = [userCached EXCEPT ![t] = {}]
  /\ me' = [me EXCEPT ![t] = "loading"]
  /\ req' = [q \in Requests |-> IF Tab(q) = t THEN Unused ELSE req[q]]
  /\ refreshing' = refreshing \ {t}
  /\ refresh' = [q \in Requests |-> IF Tab(q) = t THEN NoRefresh ELSE refresh[q]]
  /\ cleanly' = cleanly \ {t}
  /\ UNCHANGED <<sessionServer, cookie, leaving, expired>>

Expire(t) ==
  /\ Live(token[t])
  /\ expired < MaxExpired
  /\ expired' = expired + 1
  /\ token' = [token EXCEPT ![t].valid = FALSE]
  /\ req' = [q \in Requests |-> IF Tab(q) = t /\ req[q].carried = token[t]
                                THEN [req[q] EXCEPT !.carried.valid = FALSE] ELSE req[q]]
  /\ UNCHANGED <<sessionServer, cookie, me, userCached, refreshing, refresh, leaving, cleanly,
                 lost>>
-----------------------------------------------------------------------------
Answers(q) == Accepted(q) \/ Unauthorized(q) \/ RefusedAgain(q)
                \/ RotateRefresh(q) \/ RefreshSucceeds(q) \/ RefreshFails(q)
SessionNext ==
  \/ \E q \in Requests : Answers(q) \/ LoseRefresh(q) \/ Send(q)
  \/ \E t \in Tabs : \/ SendLogout(t) \/ Reload(t) \/ Expire(t)
                     \/ \E answered \in BOOLEAN : LogoutSettled(t, answered) \/ ChangePassword(t, answered)
                     \/ \E u \in People : Login(t, u) \/ AcceptInvite(t, u)

SessionSpec == SessionInit /\ [][SessionNext]_sessionVars

(* AuthGuard: what the tab shows.                                          *)
Screen(t) ==
  CASE me[t] = "loading" -> "skeleton"
    [] me[t] = "error" /\ token[t] = NoToken -> "login"
    [] OTHER -> "app"
-----------------------------------------------------------------------------
(* In a browser with one tab, as long as no response is lost, no rotated   *)
(* refresh token is ever shown to the server again: it never mistakes the  *)
(* user for a thief and ends all his sessions (service.py:94-97).          *)
SoleTabIsNeverRevoked == Cardinality(Tabs) = 1 /\ lost = 0 => ~reused

(* service.py:95, "the token is revoked (logout) or forged": nobody else   *)
(* is refused as such.                                                     *)
OnlyGivenUpTokensAreRefused == lost = 0 => ~reused

(* After a sign-out that met no refresh, the tab has no token and shows    *)
(* neither data nor the application, whatever answers arrive, until        *)
(* somebody signs in or another tab opens a session (ChangePassword).      *)
SignedOutIsEmpty ==
  \A t \in cleanly : token[t] = NoToken /\ userCached[t] = {} /\ Screen(t) # "app"

(* The query that every page rests on is answered again and again, as long *)
(* as the bound leaves the server a fresh refresh token: neither it nor    *)
(* another waiter of its refresh is forgotten.                             *)
MeIsAnswered == \A t \in Tabs : req[<<t, MeCall>>].state = "idle" \/ New = {}
=============================================================================
