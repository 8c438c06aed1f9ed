--------------------------- MODULE ScreeningSocket ---------------------------
(***************************************************************************)
(* The socket of the meeting room (useScreeningSocket.ts) against the      *)
(* server's end of it (screening_ws.py): tabs of one recruiter in which    *)
(* the room of one meeting is open, one connection each, the audio bridge  *)
(* whose final segments are stored and shown. A segment is its number.     *)
(***************************************************************************)
EXTENDS Naturals, Sequences

CONSTANTS
  RoomTabs, NoTab,
  MaxAuthRetries,   \* MAX_AUTH_RETRIES
  NoBackfill,       \* no request for the stored segments under way
  MaxSpeech,        \* bound: segments of the meeting
  MaxCuts,          \* bound: lost connections, failed requests
  MaxOpenings,      \* bound: times a room is opened or "connect again" is pressed
  MaxRefusals       \* bound: connections of a tab refused for their token in a row

ASSUME SocketAssumption ==
  {MaxAuthRetries, MaxSpeech, MaxCuts, MaxOpenings, MaxRefusals} \subseteq Nat

VARIABLES
  roomLive,    \* the meeting is live (database)
  stored,      \* segments in the database: 1..stored
  streamer,    \* the registered connection (_ACTIVE_SOCKETS)
  bridge,      \* the bridge to the speech service: "none", "up"
  speechTo,    \* the connection its handler writes to; NoTab: parked
  conn,        \* the server's end of a tab's connection
  helloSeq,    \* the last segment the connection read before it was registered
  link,        \* the tab's end
  killed,      \* killedRef with its reason; "no" when it may connect
  authTries,   \* authRetryRef
  pipe,        \* messages on the way to the tab
  shownSegs,   \* the transcript of the tab
  backfilled,  \* backfilledSeqRef
  backfill,    \* the answer to the request for the stored segments
  spoiled,     \* auxiliary: a request for the segments failed, or a final was lost to a closed page
  cuts, openings,
  refusals     \* auxiliary: connections of a tab refused in a row

serverVars == <<roomLive, stored, streamer, bridge, speechTo, conn, helloSeq>>
tabVars == <<link, killed, authTries, pipe, shownSegs, backfilled, backfill, spoiled>>
socketVars == <<serverVars, tabVars, cuts, openings, refusals>>
-----------------------------------------------------------------------------
Highest(S) == IF S = {} THEN 0 ELSE CHOOSE n \in S : \A m \in S : m <= n
(* Fault: the answer takes the place of what is shown.                      *)
SegmentsReplaced(current, incoming) == incoming
MergeSegments(current, incoming) == current \cup incoming
Tell(t, message) == pipe' = [pipe EXCEPT ![t] = Append(@, message)]

(* The effect on "enabled" and on "connect again": nothing is given up.    *)
FreshLink(t) ==
  /\ link' = [link EXCEPT ![t] = "connecting"]
  /\ killed' = [killed EXCEPT ![t] = "no"] /\ authTries' = [authTries EXCEPT ![t] = 0]
  /\ pipe' = [pipe EXCEPT ![t] = <<>>] /\ refusals' = [refusals EXCEPT ![t] = 0]
  /\ conn' = [conn EXCEPT ![t] = "none"]
  /\ streamer' = (IF streamer = t THEN NoTab ELSE streamer)
  /\ speechTo' = (IF speechTo = t THEN NoTab ELSE speechTo)

OpenRoom(t) ==
  /\ link[t] = "off" /\ roomLive /\ openings < MaxOpenings
  /\ FreshLink(t) /\ openings' = openings + 1
  /\ UNCHANGED <<roomLive, stored, bridge, helloSeq, shownSegs, backfilled, backfill, spoiled,
                 cuts>>
(* The button of the banner, and the resumption of a recording.            *)
Reconnect(t) ==
  /\ link[t] # "off" /\ killed[t] # "no" /\ roomLive /\ openings < MaxOpenings
  /\ FreshLink(t) /\ openings' = openings + 1
  /\ UNCHANGED <<roomLive, stored, bridge, helloSeq, shownSegs, backfilled, backfill, spoiled,
                 cuts>>
(* The page is left or reloaded: its transcript goes with it.              *)
CloseRoom(t) ==
  /\ link[t] # "off"
  /\ link' = [link EXCEPT ![t] = "off"] /\ pipe' = [pipe EXCEPT ![t] = <<>>]
  /\ killed' = [killed EXCEPT ![t] = "no"] /\ authTries' = [authTries EXCEPT ![t] = 0]
  /\ shownSegs' = [shownSegs EXCEPT ![t] = {}] /\ backfilled' = [backfilled EXCEPT ![t] = 0]
  /\ backfill' = [backfill EXCEPT ![t] = NoBackfill] /\ spoiled' = [spoiled EXCEPT ![t] = FALSE]
  /\ conn' = [conn EXCEPT ![t] = "none"]
  /\ streamer' = (IF streamer = t THEN NoTab ELSE streamer)
  /\ speechTo' = (IF speechTo = t THEN NoTab ELSE speechTo)
  /\ refusals' = [refusals EXCEPT ![t] = 0]
  /\ UNCHANGED <<roomLive, stored, bridge, helloSeq, cuts, openings>>

(* stop(): "finish" asks the server to end the stream.                     *)
StopStream(t) ==
  /\ link[t] \in {"timer", "connecting", "open", "refreshing"}
  /\ link' = [link EXCEPT ![t] = "down"] /\ killed' = [killed EXCEPT ![t] = "stopped"]
  /\ pipe' = [pipe EXCEPT ![t] = <<>>]
  /\ conn' = [conn EXCEPT ![t] = "none"]
  /\ streamer' = (IF streamer = t THEN NoTab ELSE streamer)
  /\ bridge' = (IF speechTo = t THEN "none" ELSE bridge)
  /\ speechTo' = (IF speechTo = t THEN NoTab ELSE speechTo)
  /\ UNCHANGED <<roomLive, stored, helloSeq, authTries, shownSegs, backfilled, backfill, spoiled,
                 cuts, openings, refusals>>

ScheduleReconnect(t) ==
  link' = [link EXCEPT ![t] = IF killed[t] = "no" THEN "timer" ELSE "down"]
TimerFires(t) ==
  /\ link[t] = "timer"
  /\ link' = [link EXCEPT ![t] = IF killed[t] = "no" THEN "connecting" ELSE "down"]
  /\ UNCHANGED <<serverVars, killed, authTries, pipe, shownSegs, backfilled, backfill, spoiled,
                 cuts, openings, refusals>>
-----------------------------------------------------------------------------
(* onopen: the server accepts a connection before it looks at the token,   *)
(* so every attempt counts as opened.                                      *)
OnOpen(t) ==
  /\ link' = [link EXCEPT ![t] = "open"]
  /\ authTries' = [authTries EXCEPT ![t] = 0]
AcceptConnection(t) ==
  /\ link[t] = "connecting" /\ conn[t] = "none"
  /\ OnOpen(t)
  /\ IF ~roomLive
     THEN Tell(t, <<"close", "forbidden">>) /\ UNCHANGED <<conn, helloSeq>>
     ELSE /\ conn' = [conn EXCEPT ![t] = "read"]
          /\ helloSeq' = [helloSeq EXCEPT ![t] = stored] /\ UNCHANGED pipe
  /\ UNCHANGED <<roomLive, stored, streamer, bridge, speechTo, killed, shownSegs, backfilled,
                 backfill,
                 spoiled, cuts, openings, refusals>>
RefuseToken(t) ==
  /\ link[t] = "connecting" /\ conn[t] = "none" /\ refusals[t] < MaxRefusals
  /\ OnOpen(t)
  /\ Tell(t, <<"close", "token">>) /\ refusals' = [refusals EXCEPT ![t] = @ + 1]
  /\ UNCHANGED <<serverVars, killed, shownSegs, backfilled, backfill, spoiled, cuts, openings>>
(* The previous connection of the meeting is closed with its own code.     *)
Register(t) ==
  /\ conn[t] = "read"
  /\ streamer' = t
  /\ pipe' = [u \in RoomTabs |->
       IF u = t THEN Append(pipe[u], <<"hello", helloSeq[t]>>)
       ELSE IF u = streamer THEN Append(pipe[u], <<"close", "displaced">>) ELSE pipe[u]]
  /\ conn' = [u \in RoomTabs |-> IF u = t THEN "waiting"
                                 ELSE IF u = streamer THEN "closing" ELSE conn[u]]
  /\ helloSeq' = [helloSeq EXCEPT ![t] = 0] /\ refusals' = [refusals EXCEPT ![t] = 0]
  /\ UNCHANGED <<roomLive, stored, bridge, speechTo, link, killed, authTries, shownSegs,
                 backfilled, backfill, spoiled, cuts, openings>>
(* The bridge of the previous connection is taken over, or a new one made. *)
TakeBridge(t) ==
  /\ conn[t] = "waiting"
  /\ conn' = [conn EXCEPT ![t] = "serving"] /\ speechTo' = t /\ bridge' = "up"
  /\ UNCHANGED <<roomLive, stored, streamer, helloSeq, tabVars, cuts, openings, refusals>>
Release(t) ==
  /\ conn[t] = "closing"
  /\ conn' = [conn EXCEPT ![t] = "none"]
  /\ speechTo' = (IF speechTo = t THEN NoTab ELSE speechTo)
  /\ UNCHANGED <<roomLive, stored, streamer, bridge, helloSeq, tabVars, cuts, openings, refusals>>
(* Nobody comes back for SCREENING_WS_HOLD_SEC.                            *)
HoldExpires ==
  /\ bridge = "up" /\ speechTo = NoTab
  /\ bridge' = "none"
  /\ UNCHANGED <<roomLive, stored, streamer, speechTo, conn, helloSeq, tabVars, cuts, openings,
                 refusals>>

(* A segment is stored also while the bridge is parked; then nobody is     *)
(* told.                                                                   *)
Speech ==
  /\ roomLive /\ bridge = "up" /\ stored < MaxSpeech
  /\ stored' = stored + 1
  /\ IF speechTo = NoTab THEN UNCHANGED pipe ELSE Tell(speechTo, <<"final", stored'>>)
  /\ UNCHANGED <<roomLive, streamer, bridge, speechTo, conn, helloSeq, link, killed, authTries,
                 shownSegs,
                 backfilled, backfill, spoiled, cuts, openings, refusals>>
(* The limit of the duration, or "finish" in another tab.                  *)
MeetingEnds ==
  /\ roomLive
  /\ roomLive' = FALSE
  /\ IF streamer = NoTab THEN UNCHANGED pipe ELSE Tell(streamer, <<"limit">>)
  /\ UNCHANGED <<stored, streamer, bridge, speechTo, conn, helloSeq, link, killed, authTries,
                 shownSegs,
                 backfilled, backfill, spoiled, cuts, openings, refusals>>
-----------------------------------------------------------------------------
(* onclose of the current socket, by its code.                             *)
AfterClose(t, code) ==
  CASE code = "token" ->
         IF authTries[t] >= MaxAuthRetries
         THEN killed' = [killed EXCEPT ![t] = "auth"] /\ link' = [link EXCEPT ![t] = "down"]
              /\ UNCHANGED authTries
         ELSE link' = [link EXCEPT ![t] = "refreshing"] /\ UNCHANGED killed
              /\ authTries' = [authTries EXCEPT ![t] = @ + 1]
    [] code \in {"displaced", "forbidden", "limit"} ->
         /\ killed' = [killed EXCEPT ![t] = code] /\ link' = [link EXCEPT ![t] = "down"]
         /\ UNCHANGED authTries
    [] OTHER -> ScheduleReconnect(t) /\ UNCHANGED <<killed, authTries>>
(* Any request: an expired token is replaced on the way, or it fails.      *)
RefreshTokenAndReconnect(t) ==
  /\ link[t] = "refreshing"
  /\ ScheduleReconnect(t)
  /\ UNCHANGED <<serverVars, killed, authTries, pipe, shownSegs, backfilled, backfill, spoiled,
                 cuts, openings, refusals>>

(* hello: what the tab has not got is asked for, unless it has a later one.*)
Backfills(t, lastSeq) == lastSeq > Highest({Highest(shownSegs[t]), backfilled[t]})
OnMessage(t) ==
  /\ link[t] = "open" /\ pipe[t] # <<>>
  /\ LET m == Head(pipe[t]) IN
     /\ CASE m[1] = "hello" ->
               /\ IF Backfills(t, m[2]) THEN backfill' = [backfill EXCEPT ![t] = 0] ELSE UNCHANGED backfill
               /\ pipe' = [pipe EXCEPT ![t] = Tail(@)]
               /\ UNCHANGED <<link, killed, authTries, shownSegs, conn, streamer, speechTo>>
          [] m[1] = "final" ->
               /\ shownSegs' = [shownSegs EXCEPT ![t] = @ \cup {m[2]}]
               /\ pipe' = [pipe EXCEPT ![t] = Tail(@)]
               /\ UNCHANGED <<link, killed, authTries, backfill, conn, streamer, speechTo>>
          [] OTHER ->
               /\ AfterClose(t, IF m[1] = "limit" THEN "limit" ELSE m[2])
               /\ pipe' = [pipe EXCEPT ![t] = <<>>]
               /\ conn' = [conn EXCEPT ![t] = IF @ = "closing" THEN @ ELSE "none"]
               /\ streamer' = (IF streamer = t THEN NoTab ELSE streamer)
               /\ speechTo' = (IF speechTo = t THEN NoTab ELSE speechTo)
               /\ UNCHANGED <<shownSegs, backfill>>
     /\ UNCHANGED <<roomLive, stored, bridge, helloSeq, backfilled, spoiled, cuts, openings,
                    refusals>>
(* The network, or the watchdog that has not heard a ping for 50 seconds:  *)
(* what was on the way is lost.                                            *)
ConnectionLost(t) ==
  /\ link[t] \in {"connecting", "open"} /\ cuts < MaxCuts
  /\ ScheduleReconnect(t) /\ pipe' = [pipe EXCEPT ![t] = <<>>] /\ cuts' = cuts + 1
  /\ conn' = [conn EXCEPT ![t] = "none"]
  /\ streamer' = (IF streamer = t THEN NoTab ELSE streamer)
  /\ speechTo' = (IF speechTo = t THEN NoTab ELSE speechTo)
  /\ UNCHANGED <<roomLive, stored, bridge, helloSeq, killed, authTries, shownSegs, backfilled,
                 backfill,
                 spoiled, openings, refusals>>

(* GET /segments is answered with what is stored then, and merged when it  *)
(* arrives; a failure is left to the next reconnection.                    *)
ReadSegments(t) ==
  /\ backfill[t] = 0
  /\ backfill' = [backfill EXCEPT ![t] = stored]
  /\ UNCHANGED <<serverVars, link, killed, authTries, pipe, shownSegs, backfilled, spoiled,
                 cuts, openings, refusals>>
SegmentsArrive(t) ==
  /\ backfill[t] \notin {NoBackfill, 0}
  /\ shownSegs' = [shownSegs EXCEPT ![t] = MergeSegments(@, 1..backfill[t])]
  /\ backfilled' = [backfilled EXCEPT ![t] = Highest({@, backfill[t]})]
  /\ backfill' = [backfill EXCEPT ![t] = NoBackfill]
  /\ UNCHANGED <<serverVars, link, killed, authTries, pipe, spoiled, cuts, openings, refusals>>
SegmentsFail(t) ==
  /\ backfill[t] # NoBackfill /\ cuts < MaxCuts
  /\ backfill' = [backfill EXCEPT ![t] = NoBackfill] /\ cuts' = cuts + 1
  /\ spoiled' = [spoiled EXCEPT ![t] = TRUE]
  /\ UNCHANGED <<serverVars, link, killed, authTries, pipe, shownSegs, backfilled, openings,
                 refusals>>
-----------------------------------------------------------------------------
EveryTab(x) == [t \in RoomTabs |-> x]
SocketInit ==
  /\ roomLive = TRUE /\ stored = 0 /\ streamer = NoTab /\ bridge = "none" /\ speechTo = NoTab
  /\ conn = EveryTab("none") /\ helloSeq = EveryTab(0) /\ link = EveryTab("off")
  /\ killed = EveryTab("no") /\ authTries = EveryTab(0) /\ pipe = EveryTab(<<>>)
  /\ shownSegs = EveryTab({}) /\ backfilled = EveryTab(0) /\ backfill = EveryTab(NoBackfill)
  /\ spoiled = EveryTab(FALSE) /\ cuts = 0 /\ openings = 0 /\ refusals = EveryTab(0)

(* What a connection does of itself: timers fire, the server answers.      *)
ConnectionGoesOn(t) ==
  \/ TimerFires(t) \/ AcceptConnection(t) \/ Register(t) \/ TakeBridge(t) \/ Release(t)
  \/ OnMessage(t) \/ RefreshTokenAndReconnect(t)
SocketNext ==
  \/ \E t \in RoomTabs :
       \/ ConnectionGoesOn(t) \/ RefuseToken(t) \/ ConnectionLost(t)
       \/ OpenRoom(t) \/ Reconnect(t) \/ CloseRoom(t) \/ StopStream(t)
       \/ ReadSegments(t) \/ SegmentsArrive(t) \/ SegmentsFail(t)
  \/ HoldExpires \/ Speech \/ MeetingEnds

SocketSpec == SocketInit /\ [][SocketNext]_socketVars
-----------------------------------------------------------------------------
SocketTypeOK ==
  /\ {streamer, speechTo} \subseteq RoomTabs \cup {NoTab}
  /\ conn \in [RoomTabs -> {"none", "read", "waiting", "serving", "closing"}]
  /\ link \in [RoomTabs -> {"off", "timer", "connecting", "open", "refreshing", "down"}]
  /\ \A t \in RoomTabs : shownSegs[t] \subseteq 1..stored /\ authTries[t] <= MaxAuthRetries
  /\ \A t \in RoomTabs : link[t] = "down" <=> killed[t] # "no"

(* What a room shows stays: a segment that arrives while the stored ones   *)
(* are being fetched is not taken away by their answer.                    *)
ShownStaysShown ==
  [][\A t \in RoomTabs : (link'[t] # "off") => (shownSegs[t] \subseteq shownSegs'[t])]_socketVars

(* Two tabs with the same room do not push each other out for ever: the    *)
(* one that was displaced waits for its user.                              *)
DisplacedWaits ==
  [][\A t \in RoomTabs : killed[t] = "displaced" /\ link'[t] = "connecting" => openings' > openings]_socketVars

(* A room that lost its connection is connected again, or says that it     *)
(* will not be: no room waits for ever.                                    *)
NoRoomIsBetween == \A t \in RoomTabs : link[t] \notin {"timer", "refreshing"}

(* The comment above backfill(): what was missed is fetched after a        *)
(* reconnection.                                                           *)
GapsAreFilled ==
  \A t \in RoomTabs :
    conn[t] = "serving" /\ link[t] = "open" /\ pipe[t] = <<>> /\ backfill[t] = NoBackfill
    /\ ~spoiled[t] => shownSegs[t] = 1..stored
(* MAX_AUTH_RETRIES: "how many times a token is replaced before it gives   *)
(* up".                                                                    *)
AuthGivesUp ==
  \A t \in RoomTabs : link[t] = "refreshing" => refusals[t] <= MaxAuthRetries
=============================================================================
