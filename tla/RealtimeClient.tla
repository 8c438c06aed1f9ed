--------------------------- MODULE RealtimeClient ---------------------------
(***************************************************************************)
(* The WebSocket channel of one browser tab (frontend lib/realtime.ts and  *)
(* features/realtime/useRealtimeSync.ts) against the endpoint /ws/events.  *)
(*                                                                         *)
(* One module-level socket with a reconnect timer, the effect that starts  *)
(* and stops the channel when the access token changes, the set of users   *)
(* online, and the query cache that events of other tabs invalidate.       *)
(*                                                                         *)
(* A socket that is closed reports it later, by a close event; what its    *)
(* listener finds by then may be another socket, or none.                  *)
(***************************************************************************)
EXTENDS Naturals, Sequences

CONSTANTS
  Sockets,      \* WebSocket objects; one is reused when nothing refers to it
  NoSocket,     \* socket = null
  Colleagues,   \* the other users, online or not
  MaxFaults,    \* bound: connections the network or the server breaks
  MaxTokens,    \* bound: changes of the access token
  MaxInbox,     \* bound: events on their way to one socket
  MaxVersion    \* bound: changes of the data the events are about

ASSUME RealtimeAssumption ==
  /\ NoSocket \notin Sockets
  /\ {MaxFaults, MaxTokens, MaxInbox, MaxVersion} \subseteq Nat

VARIABLES
  signedIn,    \* useAuthStore.accessToken is not null
  tokenSeq,    \* changes of the token so far
  seenSeq,     \* the change the effect of useRealtimeSync has run for
  started,
  socket,
  reconnectTimer,
  ws,          \* readyState of every socket
  inbox,       \* what the server has sent, or queued, for it
  greeted,     \* sockets the server has sent hello on
  faults,
  onlineUserIds,
  online,      \* presence as the server knows it
  version,     \* version of the data on the server
  shown,       \* version in the query cache
  shownStale,       \* the cached query is invalidated
  eventsMissed       \* a change by another tab never reached this one

channel == <<started, socket, reconnectTimer>>
wire == <<ws, inbox, greeted, faults>>
tokenState == <<signedIn, tokenSeq, seenSeq>>
presence == <<onlineUserIds, online>>
data == <<version, shown, shownStale, eventsMissed>>
realtimeVars == <<channel, wire, tokenState, presence, data>>

(* echo: the event carries the X-Client-Id of this very tab.               *)
Hello(ids) == [type |-> "hello", ids |-> ids]
Presence(u, isOn) == [type |-> "user.presence", user |-> u, isOn |-> isOn]
Changed(echo) == [type |-> "changed", echo |-> echo]
RealtimeEvent ==
  {Hello(ids) : ids \in SUBSET Colleagues}
    \cup {Presence(u, b) : u \in Colleagues, b \in BOOLEAN}
    \cup {Changed(b) : b \in BOOLEAN}

ReadyState == {"unused", "connecting", "open", "closing"}
Subscribed == {s \in Sockets : ws[s] = "open"}
ForeignEvents(queue) == \E i \in DOMAIN queue : queue[i] = Changed(FALSE)

RealtimeTypeOK ==
  /\ signedIn \in BOOLEAN
  /\ tokenSeq \in 0..MaxTokens /\ seenSeq \in 0..MaxTokens
  /\ started \in BOOLEAN /\ reconnectTimer \in BOOLEAN
  /\ socket \in Sockets \cup {NoSocket}
  /\ ws \in [Sockets -> ReadyState]
  /\ inbox \in [Sockets -> Seq(RealtimeEvent)]
  /\ greeted \subseteq Sockets
  /\ faults \in 0..MaxFaults
  /\ onlineUserIds \subseteq Colleagues /\ online \subseteq Colleagues
  /\ version \in 0..MaxVersion /\ shown \in 0..MaxVersion
  /\ shownStale \in BOOLEAN /\ eventsMissed \in BOOLEAN

(* Before the first sign-in, with the page loaded and the data fetched.    *)
RealtimeInit ==
  /\ signedIn = FALSE /\ tokenSeq = 0 /\ seenSeq = 0
  /\ started = FALSE /\ socket = NoSocket /\ reconnectTimer = FALSE
  /\ ws = [s \in Sockets |-> "unused"]
  /\ inbox = [s \in Sockets |-> <<>>]
  /\ greeted = {} /\ faults = 0
  /\ onlineUserIds = {} /\ online = {}
  /\ version = 0 /\ shown = 0 /\ shownStale = FALSE /\ eventsMissed = FALSE
-----------------------------------------------------------------------------
(* Fault: the old socket is dropped, not closed.                            *)
LeftOpen(states, s) == states
(* close() of a live socket: nothing more is read from it, its close event *)
(* is delivered by CloseEvent.                                             *)
Closed(states, s) ==
  IF s \in Sockets /\ states[s] \in {"connecting", "open"}
  THEN [states EXCEPT ![s] = "closing"] ELSE states
Dropped(s) ==
  IF s \in Sockets THEN [inbox EXCEPT ![s] = <<>>] ELSE inbox
Lost(s) == eventsMissed \/ (s \in Sockets /\ ForeignEvents(inbox[s]))

(* Without a token nothing is opened; the effect will start the channel.   *)
OpenSocket ==
  \/ /\ ~signedIn
     /\ UNCHANGED <<socket, ws, inbox, greeted, eventsMissed>>
  \/ /\ signedIn
     /\ \E s \in Sockets :
          /\ ws[s] = "unused"
          /\ socket' = s
          /\ ws' = [Closed(ws, socket) EXCEPT ![s] = "connecting"]
     /\ inbox' = Dropped(socket)
     /\ eventsMissed' = Lost(socket)
     /\ greeted' = greeted \ {socket}

StartRealtime ==
  /\ started' = TRUE
  /\ \/ started /\ socket # NoSocket /\ UNCHANGED <<socket, ws, inbox, greeted, eventsMissed>>
     \/ (~started \/ socket = NoSocket) /\ OpenSocket
  /\ UNCHANGED <<reconnectTimer, onlineUserIds>>

StopRealtime ==
  /\ started' = FALSE
  /\ reconnectTimer' = FALSE
  /\ ws' = Closed(ws, socket)
  /\ inbox' = Dropped(socket)
  /\ eventsMissed' = Lost(socket)
  /\ greeted' = greeted \ {socket}
  /\ socket' = NoSocket
  /\ onlineUserIds' = {}

(* useRealtimeSync: the effect on [accessToken].                           *)
TokenEffect ==
  /\ seenSeq # tokenSeq
  /\ seenSeq' = tokenSeq
  /\ IF signedIn THEN StartRealtime ELSE StopRealtime
  /\ UNCHANGED <<signedIn, tokenSeq, faults, online, version, shown, shownStale>>

ReconnectTimer ==
  /\ reconnectTimer
  /\ reconnectTimer' = FALSE
  /\ OpenSocket
  /\ UNCHANGED <<started, tokenState, faults, presence, version, shown, shownStale>>

(* The listener was registered by the socket that closes, but it schedules *)
(* a reconnection whatever socket is current.                              *)
CloseEvent(s) ==
  /\ ws[s] = "closing"
  /\ ws' = [ws EXCEPT ![s] = "unused"]
  /\ socket' = IF socket = s THEN NoSocket ELSE socket
  /\ reconnectTimer' = (reconnectTimer \/ started)
  /\ UNCHANGED <<started, inbox, greeted, faults, tokenState, presence, data>>
-----------------------------------------------------------------------------
(* The server: accept and subscribe, then the snapshot, then what came     *)
(* over the bus since the subscription.                                    *)
Accept(s) ==
  /\ ws[s] = "connecting"
  /\ ws' = [ws EXCEPT ![s] = "open"]
  /\ UNCHANGED <<channel, inbox, greeted, faults, tokenState, presence, data>>

Greet(s) ==
  /\ ws[s] = "open" /\ s \notin greeted
  /\ greeted' = greeted \cup {s}
  /\ inbox' = [inbox EXCEPT ![s] = <<Hello(online)>> \o @]
  /\ UNCHANGED <<channel, ws, faults, tokenState, presence, data>>

(* The network, a restart of the server, an expired token.                 *)
Break(s) ==
  /\ ws[s] \in {"connecting", "open"}
  /\ faults < MaxFaults
  /\ faults' = faults + 1
  /\ ws' = Closed(ws, s)
  /\ inbox' = Dropped(s)
  /\ eventsMissed' = Lost(s)
  /\ greeted' = greeted \ {s}
  /\ UNCHANGED <<channel, tokenState, presence, version, shown, shownStale>>

Publish(e) ==
  /\ \A s \in Subscribed : Len(inbox[s]) < MaxInbox
  /\ inbox' = [s \in Sockets |-> IF s \in Subscribed THEN Append(inbox[s], e) ELSE inbox[s]]

ColleagueComesOrGoes(u) ==
  /\ LET isOn == u \notin online IN
       /\ online' = IF isOn THEN online \cup {u} ELSE online \ {u}
       /\ Publish(Presence(u, isOn))
  /\ UNCHANGED <<channel, ws, greeted, faults, tokenState, onlineUserIds, data>>

(* Another tab changes the data; this tab does, and invalidates its own    *)
(* query when the mutation is answered.                                    *)
OthersChange ==
  /\ version < MaxVersion
  /\ version' = version + 1
  /\ Publish(Changed(FALSE))
  /\ eventsMissed' = (eventsMissed \/ Subscribed = {})
  /\ UNCHANGED <<channel, ws, greeted, faults, tokenState, presence, shown, shownStale>>
OwnChange ==
  /\ version < MaxVersion
  /\ version' = version + 1
  /\ Publish(Changed(TRUE))
  /\ shownStale' = TRUE
  /\ UNCHANGED <<channel, ws, greeted, faults, tokenState, presence, shown, eventsMissed>>
-----------------------------------------------------------------------------
(* Fault: the echo rule is turned round.                                    *)
InvalidatedByEcho(e) == e.type = "changed" /\ e.echo
(* useRealtimeSync: events of other tabs invalidate, echoes do not.        *)
InvalidatedBy(e) == e.type = "changed" /\ ~e.echo

Receive(s) ==
  /\ s \in greeted /\ inbox[s] # <<>>
  /\ LET e == Head(inbox[s]) IN
       /\ onlineUserIds' = CASE e.type = "hello" -> e.ids
                             [] e.type = "user.presence" /\ e.isOn -> onlineUserIds \cup {e.user}
                             [] e.type = "user.presence" /\ ~e.isOn -> onlineUserIds \ {e.user}
                             [] OTHER -> onlineUserIds
       /\ shownStale' = (shownStale \/ InvalidatedBy(e))
  /\ inbox' = [inbox EXCEPT ![s] = Tail(@)]
  /\ UNCHANGED <<channel, ws, greeted, faults, tokenState, online, version, shown, eventsMissed>>

(* The query on the screen is fetched again.                               *)
Refetch ==
  /\ shownStale
  /\ shownStale' = FALSE
  /\ shown' = version
  /\ eventsMissed' = FALSE
  /\ UNCHANGED <<channel, wire, tokenState, presence, version>>

(* Sign-in and refresh put a token into the store, sign-out removes it.    *)
TokenChange(present) ==
  /\ tokenSeq < MaxTokens
  /\ tokenSeq' = tokenSeq + 1
  /\ signedIn' = present
  /\ UNCHANGED <<channel, wire, seenSeq, presence, data>>
-----------------------------------------------------------------------------
ClientStep == TokenEffect \/ ReconnectTimer \/ Refetch \/ \E s \in Sockets : CloseEvent(s) \/ Receive(s)
ServerStep == \E s \in Sockets : Accept(s) \/ Greet(s)
RealtimeNext ==
  \/ ClientStep \/ ServerStep
  \/ \E s \in Sockets : Break(s)
  \/ \E u \in Colleagues : ColleagueComesOrGoes(u)
  \/ OthersChange \/ OwnChange
  \/ \E present \in BOOLEAN : TokenChange(present)

RealtimeSpec == RealtimeInit /\ [][RealtimeNext]_realtimeVars

-----------------------------------------------------------------------------
Connected == socket # NoSocket /\ ws[socket] = "open"
HeardAll == Connected /\ socket \in greeted /\ inbox[socket] = <<>>

(* Whoever is shown online is online, once hello and the events after it   *)
(* are read: also for a colleague who came or went between subscription    *)
(* and snapshot (realtime.py:84-102).                                      *)
PresenceIsTrue == HeardAll /\ seenSeq = tokenSeq => onlineUserIds = online

(* No socket but the current one feeds the tab: a replaced one is closed   *)
(* before the next is opened, so nobody is told anything twice.            *)
OneLiveSocket ==
  \A s \in Sockets : ws[s] \in {"connecting", "open"} => s = socket

(* A tab that is signed out holds no connection and has nothing that would *)
(* open one, whatever close events are still to come.                      *)
SignedOutIsSilent ==
  ~started => socket = NoSocket /\ ~reconnectTimer

(* A change by another tab that was delivered is refetched: the echo rule  *)
(* hides only what this tab did itself, which its mutation refetches.      *)
DeliveredIsShown == HeardAll /\ ~shownStale /\ ~eventsMissed => shown = version

(* A signed-in tab is connected: not always, but again and again, whatever *)
(* breaks.                                                                 *)
ConnectedOrOut == Connected \/ ~signedIn

(* lib/realtime.ts:4, "single connection, a singleton of the tab": with a  *)
(* network that has stopped failing, the tab settles on one connection.    *)
SettlesOnOneConnection ==
  (<>[](signedIn /\ seenSeq = tokenSeq)) => \E s \in Sockets : <>[](socket = s /\ Connected)
=============================================================================
