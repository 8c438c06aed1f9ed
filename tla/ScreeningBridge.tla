--------------------------- MODULE ScreeningBridge --------------------------
(***************************************************************************)
(* The server's end of the meeting room (endpoints/screening_ws.py): the   *)
(* connections of one meeting, of which a new one displaces the one        *)
(* before, and the bridges to the speech service they hold, park and hand  *)
(* over. A connection is one coroutine of the event loop; what it does     *)
(* between two awaits is one step.                                         *)
(***************************************************************************)
EXTENDS Naturals, FiniteSets

CONSTANTS
  MaxConns,    \* bound: connections of the meeting
  MaxBridges,  \* bound: connections to the speech service
  Meeting      \* the id of the meeting, where it is the key of a dictionary

(* Both are numbered in the order they are made.                           *)
Conns == 1 .. MaxConns
Bridges == 1 .. MaxBridges
NoConn == 0
NoBridge == 0

ASSUME BridgeAssumption == {MaxConns, MaxBridges} \subseteq Nat /\ Meeting \notin Nat

VARIABLES
  meetingOn,   \* the meeting is live
  step,        \* where the coroutine of each connection waits
  active,      \* _ACTIVE_SOCKETS
  displaces,   \* whether a connection created an event for the one before
  handoffs,    \* _BRIDGE_HANDOFF: whose event lies under each key
  woken,       \* connections whose event is set
  told,        \* connections that were closed with _WS_CLOSE_SUPERSEDED
  holds,       \* the variable "bridge" of each connection
  parkedAt,    \* _LINGERING_BRIDGES
  timers,      \* bridges whose linger task is running
  stt,         \* the state of each bridge
  hearer,      \* whose handler it calls
  stopped      \* connections that asked to stop or timed out

placeVars == <<active, displaces, handoffs, woken, told>>
bridgeVars == <<holds, parkedAt, timers, stt, hearer>>
handoverVars == <<meetingOn, step, placeVars, bridgeVars, stopped>>
-----------------------------------------------------------------------------
At(c, s) == step[c] = s
Connected == {b \in Bridges : stt[b] = "up"}
Goes(c, s) == step' = [step EXCEPT ![c] = s]

(* The previous connection is closed, which waits for its client; only     *)
(* then the new one is registered.                                         *)
Displace(c) ==
  /\ At(c, "new") /\ meetingOn /\ \A d \in 1 .. c - 1 : ~At(d, "new")
  /\ IF active = NoConn
     THEN active' = c /\ Goes(c, "hello") /\ UNCHANGED <<displaces, handoffs, told>>
     ELSE /\ handoffs' = [handoffs EXCEPT ![active] = c] /\ displaces' = displaces \cup {c}
          /\ told' = told \cup {active} /\ Goes(c, "closing") /\ UNCHANGED active
  /\ UNCHANGED <<meetingOn, woken, bridgeVars, stopped>>
Register(c) ==
  /\ At(c, "closing") /\ active' = c /\ Goes(c, "hello")
  /\ UNCHANGED <<meetingOn, displaces, handoffs, woken, told, bridgeVars, stopped>>
SendHello(c) ==
  /\ At(c, "hello") /\ c \notin told /\ Goes(c, "waiting")
  /\ UNCHANGED <<meetingOn, placeVars, bridgeVars, stopped>>
(* The client has gone: the coroutine ends before it reaches its finally.  *)
HelloFails(c) ==
  /\ At(c, "hello") /\ Goes(c, "gone")
  /\ UNCHANGED <<meetingOn, placeVars, bridgeVars, stopped>>

(* _take_lingering_bridge. The wait before it, of who displaced somebody,  *)
(* ends with the event or after _BRIDGE_HANDOFF_WAIT_SEC, so at any time;  *)
(* the event it leaves in the dictionary is looked for under the meeting.  *)
WithoutHandoff(c) == [k \in DOMAIN handoffs |-> IF k = Meeting /\ handoffs[k] = c THEN NoConn ELSE handoffs[k]]
(* Fault: the linger task of a bridge that is taken goes on.               *)
TimersLeft(b) == timers
TimersWithout(b) == timers \ {b}
TakeLingering(c) ==
  /\ At(c, "waiting")
  /\ handoffs' = IF c \in displaces THEN WithoutHandoff(c) ELSE handoffs
  /\ IF parkedAt = NoBridge
     THEN Goes(c, "connecting") /\ UNCHANGED bridgeVars
     ELSE /\ parkedAt' = NoBridge /\ timers' = TimersWithout(parkedAt)
          /\ IF parkedAt \in Connected
             THEN /\ holds' = [holds EXCEPT ![c] = parkedAt]
                  /\ hearer' = [hearer EXCEPT ![parkedAt] = c]
                  /\ Goes(c, "serving") /\ UNCHANGED stt
             ELSE /\ stt' = [stt EXCEPT ![parkedAt] = "closed"]
                  /\ Goes(c, "connecting") /\ UNCHANGED <<holds, hearer>>
  /\ UNCHANGED <<meetingOn, active, displaces, woken, told, stopped>>

NewBridge(c, b) ==
  /\ stt[b] = "new" /\ \A x \in 1 .. b - 1 : stt[x] # "new"
  /\ stt' = [x \in Bridges |-> IF x = b THEN "up" ELSE IF x = holds[c] THEN "closed" ELSE stt[x]]
  /\ hearer' = [hearer EXCEPT ![b] = c] /\ holds' = [holds EXCEPT ![c] = b]
  /\ UNCHANGED <<parkedAt, timers>>
Connect(c) ==
  /\ At(c, "connecting") /\ Goes(c, "serving")
  /\ (\E b \in Bridges : NewBridge(c, b)) \/ UNCHANGED bridgeVars
  /\ UNCHANGED <<meetingOn, placeVars, stopped>>
(* _stt_supervisor                                                         *)
Supervise(c) ==
  /\ At(c, "serving") /\ holds[c] \notin Connected
  /\ \E b \in Bridges : NewBridge(c, b)
  /\ UNCHANGED <<meetingOn, step, placeVars, stopped>>
SttLost(b) ==
  /\ stt[b] = "up" /\ stt' = [stt EXCEPT ![b] = "lost"]
  /\ UNCHANGED <<meetingOn, step, placeVars, holds, parkedAt, timers, hearer, stopped>>
-----------------------------------------------------------------------------
(* The client goes, or was told to.                                        *)
Disconnect(c) ==
  /\ At(c, "serving") /\ Goes(c, "left")
  /\ UNCHANGED <<meetingOn, placeVars, bridgeVars, stopped>>
(* The control message "stop" flushes and closes the bridge.               *)
StopMessage(c) ==
  /\ At(c, "serving") /\ c \notin told /\ Goes(c, "left") /\ stopped' = stopped \cup {c}
  /\ stt' = [b \in Bridges |-> IF b = holds[c] THEN "closed" ELSE stt[b]]
  /\ holds' = [holds EXCEPT ![c] = NoBridge]
  /\ UNCHANGED <<meetingOn, placeVars, parkedAt, timers, hearer>>
(* _duration_watch                                                         *)
TimeOut(c) ==
  /\ At(c, "serving") /\ Goes(c, "left") /\ stopped' = stopped \cup {c} /\ meetingOn' = FALSE
  /\ UNCHANGED <<placeVars, bridgeVars>>
MeetingOver ==
  /\ meetingOn /\ meetingOn' = FALSE
  /\ UNCHANGED <<step, placeVars, bridgeVars, stopped>>

(* The finally: another await lies between the two halves.                 *)
Unregister(c) ==
  /\ At(c, "left") /\ Goes(c, "releasing")
  /\ active' = IF active = c THEN NoConn ELSE active
  /\ UNCHANGED <<meetingOn, displaces, handoffs, woken, told, bridgeVars, stopped>>

StaleFor(b) == {parkedAt} \ {b, NoBridge}
(* _park_bridge                                                            *)
Park(b) ==
  /\ parkedAt' = b /\ timers' = (timers \ StaleFor(b)) \cup {b}
  /\ stt' = [x \in Bridges |-> IF x \in StaleFor(b) THEN "closed" ELSE stt[x]]
Drop(b) ==
  /\ stt' = [x \in Bridges |-> IF x = b THEN "closed" ELSE stt[x]]
  /\ UNCHANGED <<parkedAt, timers>>
Release(c) ==
  LET b == holds[c] IN
  /\ At(c, "releasing") /\ Goes(c, "gone")
  /\ IF b \in Connected /\ c \notin stopped THEN Park(b) ELSE Drop(b)
  /\ holds' = [holds EXCEPT ![c] = NoBridge]
  /\ handoffs' = WithoutHandoff(c)
  /\ woken' = woken \cup ({handoffs'[Meeting]} \ {NoConn})
  /\ UNCHANGED <<meetingOn, active, displaces, told, hearer, stopped>>
(* Nobody came back within SCREENING_WS_HOLD_SEC.                          *)
Linger(b) ==
  /\ b \in timers /\ timers' = timers \ {b}
  /\ parkedAt' = IF parkedAt = b THEN NoBridge ELSE parkedAt
  /\ stt' = [stt EXCEPT ![b] = "closed"]
  /\ UNCHANGED <<meetingOn, step, placeVars, holds, hearer, stopped>>
-----------------------------------------------------------------------------
BridgeInit ==
  /\ meetingOn = TRUE /\ active = NoConn /\ displaces = {} /\ woken = {} /\ told = {} /\ stopped = {}
  /\ step = [c \in Conns |-> "new"] /\ holds = [c \in Conns |-> NoBridge]
  /\ handoffs = [k \in Conns \cup {Meeting} |-> NoConn]
  /\ parkedAt = NoBridge /\ timers = {}
  /\ stt = [b \in Bridges |-> "new"] /\ hearer = [b \in Bridges |-> NoConn]

(* What ends of itself: awaits, and a connection that was told to go.      *)
Proceeds(c) ==
  \/ Register(c) \/ SendHello(c) \/ HelloFails(c) \/ TakeLingering(c) \/ Connect(c)
  \/ c \in told /\ Disconnect(c)
  \/ Unregister(c) \/ Release(c)
BridgeNext ==
  \/ \E c \in Conns : Displace(c) \/ Proceeds(c) \/ Supervise(c) \/ Disconnect(c)
                      \/ StopMessage(c) \/ TimeOut(c)
  \/ \E b \in Bridges : SttLost(b) \/ Linger(b)
  \/ MeetingOver

BridgeSpec == BridgeInit /\ [][BridgeNext]_handoverVars
-----------------------------------------------------------------------------
Waits == {"new", "closing", "hello", "waiting", "connecting", "serving", "left", "releasing", "gone"}
BridgeTypeOK ==
  /\ step \in [Conns -> Waits] /\ active \in Conns \cup {NoConn}
  /\ holds \in [Conns -> Bridges \cup {NoBridge}] /\ hearer \in [Bridges -> Conns \cup {NoConn}]
  /\ parkedAt \in Bridges \cup {NoBridge}
  /\ stt \in [Bridges -> {"new", "up", "lost", "closed"}]

(* A bridge is held by one connection or parked, and speaks to who holds   *)
(* it; nothing closes it under them: a timer runs for the parked one only. *)
BridgesAreKept ==
  /\ timers = {parkedAt} \ {NoBridge}
  /\ parkedAt # NoBridge => stt[parkedAt] \in {"up", "lost"}
  /\ \A c \in Conns : holds[c] # NoBridge =>
       /\ holds[c] # parkedAt /\ hearer[holds[c]] = c /\ stt[holds[c]] \in {"up", "lost"}
       /\ \A d \in Conns : holds[d] = holds[c] => d = c

(* No bridge is left open that no connection serves with: whatever         *)
(* overlaps, times out or is parked over, it is taken or closed, and its   *)
(* place in the speech service free (the comment in _park_bridge).         *)
NoBridgeIsStranded ==
  \A b \in Bridges : []<>(stt[b] = "up" => \E c \in Conns : At(c, "serving") /\ holds[c] = b)

(* The comment at the end of screening_ws: who releases its bridge wakes   *)
(* the connection that displaced it and waits for the bridge.              *)
ReleaseWakes ==
  [][\A c, d \in Conns : At(c, "releasing") /\ step'[c] = "gone" /\ handoffs[c] = d
                         /\ At(d, "waiting") => d \in woken']_handoverVars

(* The header of screening_ws: one connection per meeting, a new one       *)
(* displaces the old.                                                      *)
OneConnectionServes == Cardinality({c \in Conns : At(c, "serving") /\ c \notin told}) <= 1
(* An event does not outlive the connection that made it.                  *)
HandoffsAreRemoved ==
  \A k \in DOMAIN handoffs : handoffs[k] # NoConn => ~At(handoffs[k], "gone")
=============================================================================
