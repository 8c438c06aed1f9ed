-------------------------- MODULE WebSessionProofs --------------------------
(*****************************************************************************)
(* Theorems about the parts of the web client that hold a connection or a    *)
(* session: RealtimeClient, AuthSession and ScreeningSocket, each for any    *)
(* number of sockets, tabs, people and requests and any values of the        *)
(* bounds.                                                                   *)
(*****************************************************************************)
EXTENDS RealtimeClient, AuthSession, ScreeningSocket, SequenceTheorems, FiniteSetTheorems, TLAPS

(* RealtimeClient                                                          *)
LiveStates == {"connecting", "open"}

(* What the proofs need of the types.                                      *)
ChannelTyped ==
  /\ ws \in [Sockets -> ReadyState]
  /\ inbox \in [Sockets -> Seq(RealtimeEvent)]
  /\ socket \in Sockets \cup {NoSocket}
  /\ {started, reconnectTimer, signedIn, shownStale, eventsMissed} \subseteq BOOLEAN
  /\ version \in Nat /\ shown \in Nat

(* A socket that is closing or free holds nothing unread, and only an open *)
(* one has been greeted.                                                   *)
NothingBehind ==
  \A s \in Sockets : /\ inbox[s] # <<>> => ws[s] = "open"
                     /\ s \in greeted => ws[s] = "open"

(* What is shown is old only while somebody knows: the query is stale, an  *)
(* event was missed, or it is still to be read.                            *)
OldIsKnown ==
  shown # version => \/ shownStale \/ eventsMissed
                     \/ socket \in Sockets /\ ForeignEvents(inbox[socket])

ChannelInv == ChannelTyped /\ OneLiveSocket /\ SignedOutIsSilent /\ NothingBehind /\ OldIsKnown

-----------------------------------------------------------------------------
(* An event of another tab stays in a queue that grows at either end, and  *)
(* goes from its head only by being read.                                  *)
LEMMA ForeignAppended ==
  ASSUME NEW q \in Seq(RealtimeEvent), NEW e \in RealtimeEvent
  PROVE  /\ ForeignEvents(q) => ForeignEvents(Append(q, e))
         /\ e = Changed(FALSE) => ForeignEvents(Append(q, e))
<1>1. /\ DOMAIN q = 1..Len(q) /\ DOMAIN Append(q, e) = 1..(Len(q) + 1)
      /\ \A i \in 1..Len(q) : Append(q, e)[i] = q[i]
      /\ Append(q, e)[Len(q) + 1] = e
      /\ Len(q) \in Nat
  OBVIOUS
<1>2. ASSUME ForeignEvents(q) PROVE ForeignEvents(Append(q, e))
  <2>1. PICK i \in DOMAIN q : q[i] = Changed(FALSE)
    BY <1>2 DEF ForeignEvents
  <2>2. i \in DOMAIN Append(q, e) /\ Append(q, e)[i] = Changed(FALSE)
    BY <1>1, <2>1
  <2> QED
    BY <2>2 DEF ForeignEvents
<1>3. ASSUME e = Changed(FALSE) PROVE ForeignEvents(Append(q, e))
  <2>1. Len(q) + 1 \in DOMAIN Append(q, e) /\ Append(q, e)[Len(q) + 1] = Changed(FALSE)
    BY <1>1, <1>3
  <2> QED
    BY <2>1 DEF ForeignEvents
<1> QED
  BY <1>2, <1>3

LEMMA ForeignGreeted ==
  ASSUME NEW q \in Seq(RealtimeEvent), NEW e \in RealtimeEvent, ForeignEvents(q)
  PROVE  ForeignEvents(<<e>> \o q)
<1>1. PICK i \in DOMAIN q : q[i] = Changed(FALSE)
  BY DEF ForeignEvents
<1>2. /\ <<e>> \in Seq(RealtimeEvent) /\ Len(<<e>>) = 1
      /\ i \in 1..Len(q) /\ Len(q) \in Nat
  OBVIOUS
<1>3. Len(<<e>> \o q) = 1 + Len(q) /\ (<<e>> \o q)[i + 1] = q[i]
  BY <1>2
<1>4. i + 1 \in DOMAIN (<<e>> \o q)
  BY <1>2, <1>3
<1> QED
  BY <1>1, <1>3, <1>4 DEF ForeignEvents

LEMMA ForeignRead ==
  ASSUME NEW q \in Seq(RealtimeEvent), q # <<>>, ForeignEvents(q)
  PROVE  Head(q) = Changed(FALSE) \/ ForeignEvents(Tail(q))
<1>1. PICK i \in DOMAIN q : q[i] = Changed(FALSE)
  BY DEF ForeignEvents
<1>2. i \in 1..Len(q) /\ Len(q) \in Nat /\ Head(q) = q[1]
  OBVIOUS
<1>3. CASE i = 1
  BY <1>1, <1>2, <1>3
<1>4. CASE i # 1
  <2>1. i - 1 \in 1..(Len(q) - 1)
    BY <1>2, <1>4
  <2>2. Len(Tail(q)) = Len(q) - 1 /\ DOMAIN Tail(q) = 1..(Len(q) - 1)
        /\ Tail(q)[i - 1] = q[(i - 1) + 1]
    BY <2>1, HeadTailProperties
  <2>3. (i - 1) + 1 = i
    BY <1>2
  <2> QED
    BY <1>1, <2>1, <2>2, <2>3 DEF ForeignEvents
<1> QED
  BY <1>3, <1>4

LEMMA NothingForeign == ~ForeignEvents(<<>>)
  BY DEF ForeignEvents

LEMMA EventTypes ==
  /\ \A b \in BOOLEAN : Changed(b) \in RealtimeEvent
  /\ \A u \in Colleagues, b \in BOOLEAN : Presence(u, b) \in RealtimeEvent
  BY DEF RealtimeEvent

-----------------------------------------------------------------------------
(* Closing a socket: it is neither live nor holds anything, and what it    *)
(* held of other tabs counts as missed.                                    *)
LEMMA SocketCloses ==
  ASSUME ChannelTyped, NEW s \in Sockets \cup {NoSocket}
  PROVE  /\ Closed(ws, s) \in [Sockets -> ReadyState]
         /\ Dropped(s) \in [Sockets -> Seq(RealtimeEvent)]
         /\ \A x \in Sockets : x # s => Closed(ws, s)[x] = ws[x] /\ Dropped(s)[x] = inbox[x]
         /\ s \in Sockets => Closed(ws, s)[s] \notin LiveStates /\ Dropped(s)[s] = <<>>
         /\ Lost(s) \in BOOLEAN
         /\ eventsMissed => Lost(s)
         /\ s \in Sockets /\ ForeignEvents(inbox[s]) => Lost(s)
<1>1. /\ Closed(ws, s) \in [Sockets -> ReadyState]
      /\ \A x \in Sockets : x # s => Closed(ws, s)[x] = ws[x]
      /\ s \in Sockets => Closed(ws, s)[s] \notin LiveStates
  BY DEF ChannelTyped, Closed, ReadyState, LiveStates
<1>2. <<>> \in Seq(RealtimeEvent)
  OBVIOUS
<1>3. /\ Dropped(s) \in [Sockets -> Seq(RealtimeEvent)]
      /\ \A x \in Sockets : x # s => Dropped(s)[x] = inbox[x]
      /\ s \in Sockets => Dropped(s)[s] = <<>>
  BY <1>2 DEF ChannelTyped, Dropped
<1>4. Lost(s) \in BOOLEAN
  <2>1. eventsMissed \in BOOLEAN
    BY DEF ChannelTyped
  <2> QED
    BY <2>1, Zenon DEF Lost
<1>5. /\ eventsMissed => Lost(s)
      /\ s \in Sockets /\ ForeignEvents(inbox[s]) => Lost(s)
  BY DEF Lost
<1> QED
  BY <1>1, <1>3, <1>4, <1>5

(* Opening a socket, whoever asks for it.                                  *)
LEMMA SocketOpens ==
  ASSUME ChannelInv, OpenSocket, UNCHANGED <<version, shown, shownStale>>
  PROVE  /\ ws' \in [Sockets -> ReadyState] /\ inbox' \in [Sockets -> Seq(RealtimeEvent)]
         /\ socket' \in Sockets \cup {NoSocket} /\ eventsMissed' \in BOOLEAN
         /\ OneLiveSocket' /\ NothingBehind' /\ OldIsKnown'
<1>1. CASE ~signedIn /\ UNCHANGED <<socket, ws, inbox, greeted, eventsMissed>>
  BY <1>1 DEF ChannelInv, ChannelTyped, OneLiveSocket, NothingBehind, OldIsKnown
<1>2. CASE signedIn /\ \E s \in Sockets : ws[s] = "unused" /\ socket' = s
                                           /\ ws' = [Closed(ws, socket) EXCEPT ![s] = "connecting"]
  <2>1. PICK s \in Sockets : ws[s] = "unused" /\ socket' = s
                              /\ ws' = [Closed(ws, socket) EXCEPT ![s] = "connecting"]
    BY <1>2
  <2>2. inbox' = Dropped(socket) /\ eventsMissed' = Lost(socket) /\ greeted' = greeted \ {socket}
    BY <2>1 DEF OpenSocket, ChannelInv, ChannelTyped, OneLiveSocket
  <2>3. /\ ChannelTyped /\ socket \in Sockets \cup {NoSocket}
        /\ "connecting" \in ReadyState
    BY DEF ChannelInv, ChannelTyped, ReadyState
  <2>4. ws' \in [Sockets -> ReadyState] /\ inbox' \in [Sockets -> Seq(RealtimeEvent)]
        /\ eventsMissed' \in BOOLEAN
    BY <2>1, <2>2, <2>3, SocketCloses
  <2>5. \A x \in Sockets : x # s => ws'[x] = Closed(ws, socket)[x]
    BY <2>1, <2>3, SocketCloses
  <2>6. OneLiveSocket'
    BY <2>1, <2>3, <2>5, SocketCloses DEF ChannelInv, OneLiveSocket, LiveStates
  <2>7. s \notin greeted /\ inbox[s] = <<>>
    BY <2>1 DEF ChannelInv, NothingBehind
  <2>8. inbox'[s] = <<>>
    BY <2>2, <2>3, <2>7, SocketCloses
  <2>9. NothingBehind'
    <3> SUFFICES ASSUME NEW x \in Sockets
                 PROVE  /\ inbox'[x] # <<>> => ws'[x] = "open"
                        /\ x \in greeted' => ws'[x] = "open"
      BY DEF NothingBehind
    <3>1. CASE x = s
      BY <3>1, <2>2, <2>7, <2>8
    <3>2. CASE x # s /\ x = socket
      BY <3>2, <2>2, <2>3, SocketCloses
    <3>3. CASE x # s /\ x # socket
      BY ZenonT(60), <3>3, <2>2, <2>3, <2>5, SocketCloses DEF ChannelInv, NothingBehind
    <3> QED
      BY <3>1, <3>2, <3>3
  <2>10. OldIsKnown'
    BY <2>2, <2>3, SocketCloses DEF ChannelInv, OldIsKnown
  <2> QED
    BY <2>1, <2>4, <2>6, <2>9, <2>10
<1> QED
  BY <1>1, <1>2 DEF OpenSocket

-----------------------------------------------------------------------------
LEMMA ChannelInitInv == RealtimeInit => ChannelInv
<1> SUFFICES ASSUME RealtimeInit PROVE ChannelInv
  OBVIOUS
<1>1. ChannelTyped
  <2>1. <<>> \in Seq(RealtimeEvent)
    OBVIOUS
  <2> QED
    BY <2>1 DEF RealtimeInit, ChannelTyped, ReadyState
<1>2. OneLiveSocket /\ SignedOutIsSilent /\ NothingBehind /\ OldIsKnown
  BY DEF RealtimeInit, OneLiveSocket, SignedOutIsSilent, NothingBehind, OldIsKnown
<1> QED
  BY <1>1, <1>2 DEF ChannelInv

LEMMA TokenEffectInv == ASSUME ChannelInv, TokenEffect PROVE ChannelInv'
<1>1. UNCHANGED <<signedIn, version, shown, shownStale>>
  BY DEF TokenEffect
<1>2. CASE signedIn /\ StartRealtime
  <2>1. started' = TRUE /\ reconnectTimer' = reconnectTimer
    BY <1>2 DEF StartRealtime
  <2>2. CASE UNCHANGED <<socket, ws, inbox, greeted, eventsMissed>>
    BY <1>1, <2>1, <2>2 DEF ChannelInv, ChannelTyped, OneLiveSocket, SignedOutIsSilent, NothingBehind, OldIsKnown
  <2>3. CASE OpenSocket
    BY <1>1, <2>1, <2>3, SocketOpens DEF ChannelInv, ChannelTyped, SignedOutIsSilent
  <2> QED
    BY <1>2, <2>2, <2>3 DEF StartRealtime
<1>3. CASE ~signedIn /\ StopRealtime
  <2>1. /\ started' = FALSE /\ reconnectTimer' = FALSE /\ socket' = NoSocket
        /\ ws' = Closed(ws, socket) /\ inbox' = Dropped(socket) /\ eventsMissed' = Lost(socket)
        /\ greeted' = greeted \ {socket}
    BY <1>3 DEF StopRealtime
  <2>2. ChannelTyped /\ socket \in Sockets \cup {NoSocket}
    BY DEF ChannelInv, ChannelTyped
  <2>3. ChannelTyped' /\ SignedOutIsSilent'
    BY <1>1, <2>1, <2>2, SocketCloses DEF ChannelTyped, SignedOutIsSilent
  <2>4. OneLiveSocket'
    BY <2>1, <2>2, SocketCloses DEF ChannelInv, OneLiveSocket, LiveStates
  <2>5. NothingBehind'
    BY <2>1, <2>2, SocketCloses DEF ChannelInv, NothingBehind
  <2>6. OldIsKnown'
    BY <1>1, <2>1, <2>2, SocketCloses DEF ChannelInv, OldIsKnown
  <2> QED
    BY <2>3, <2>4, <2>5, <2>6 DEF ChannelInv
<1> QED
  BY <1>2, <1>3 DEF TokenEffect

LEMMA ReconnectInv == ASSUME ChannelInv, ReconnectTimer PROVE ChannelInv'
<1>1. /\ started /\ started' = started /\ reconnectTimer' = FALSE
      /\ UNCHANGED <<signedIn, version, shown, shownStale>> /\ OpenSocket
  BY DEF ReconnectTimer, tokenState, ChannelInv, ChannelTyped, SignedOutIsSilent
<1> QED
  BY <1>1, SocketOpens DEF ChannelInv, ChannelTyped, SignedOutIsSilent

(* A close event frees a socket in which nothing was left.                 *)
LEMMA CloseEventInv == ASSUME ChannelInv, NEW s \in Sockets, CloseEvent(s) PROVE ChannelInv'
<1>1. inbox[s] = <<>> /\ s \notin greeted /\ ~ForeignEvents(inbox[s])
  BY NothingForeign DEF ChannelInv, NothingBehind, CloseEvent
<1>2. ChannelTyped'
  BY DEF ChannelInv, ChannelTyped, CloseEvent, tokenState, data, ReadyState
<1>3. OneLiveSocket' /\ SignedOutIsSilent'
  BY DEF ChannelInv, ChannelTyped, OneLiveSocket, SignedOutIsSilent, CloseEvent
<1>4. NothingBehind'
  BY <1>1 DEF ChannelInv, ChannelTyped, NothingBehind, CloseEvent
<1>5. OldIsKnown'
  <2>1. UNCHANGED <<version, shown, shownStale, eventsMissed, inbox>>
        /\ socket' = IF socket = s THEN NoSocket ELSE socket
    BY DEF CloseEvent, data
  <2> QED
    BY <1>1, <2>1 DEF ChannelInv, OldIsKnown
<1> QED
  BY <1>2, <1>3, <1>4, <1>5 DEF ChannelInv

LEMMA AcceptInv == ASSUME ChannelInv, NEW s \in Sockets, Accept(s) PROVE ChannelInv'
<1>1. UNCHANGED <<started, socket, reconnectTimer, inbox, greeted, signedIn, version, shown, shownStale, eventsMissed>>
      /\ ws[s] = "connecting" /\ ws' = [ws EXCEPT ![s] = "open"]
  BY DEF Accept, channel, tokenState, data
<1> QED
  BY <1>1 DEF ChannelInv, ChannelTyped, OneLiveSocket, SignedOutIsSilent, NothingBehind, OldIsKnown, ReadyState

LEMMA GreetInv == ASSUME ChannelInv, NEW s \in Sockets, Greet(s), Hello(online) \in RealtimeEvent PROVE ChannelInv'
<1>1. /\ UNCHANGED <<started, socket, reconnectTimer, ws, signedIn, version, shown, shownStale, eventsMissed>>
      /\ ws[s] = "open" /\ greeted' = greeted \cup {s}
      /\ inbox' = [inbox EXCEPT ![s] = <<Hello(online)>> \o @]
  BY DEF Greet, channel, tokenState, data
<1>2. inbox \in [Sockets -> Seq(RealtimeEvent)]
  BY DEF ChannelInv, ChannelTyped
<1>3. <<Hello(online)>> \o inbox[s] \in Seq(RealtimeEvent)
  BY <1>2
<1>4. /\ inbox' \in [Sockets -> Seq(RealtimeEvent)]
      /\ inbox'[s] = <<Hello(online)>> \o inbox[s]
      /\ \A x \in Sockets : x # s => inbox'[x] = inbox[x]
  BY <1>1, <1>2, <1>3
<1>5. \A x \in Sockets : ForeignEvents(inbox[x]) => ForeignEvents(inbox'[x])
  BY <1>2, <1>4, ForeignGreeted
<1>6. ChannelTyped' /\ OneLiveSocket' /\ SignedOutIsSilent'
  BY <1>1, <1>4 DEF ChannelInv, ChannelTyped, OneLiveSocket, SignedOutIsSilent
<1>7. NothingBehind'
  BY <1>1, <1>4 DEF ChannelInv, NothingBehind
<1>8. OldIsKnown'
  BY <1>1, <1>5 DEF ChannelInv, OldIsKnown
<1> QED
  BY <1>6, <1>7, <1>8 DEF ChannelInv

LEMMA BreakInv == ASSUME ChannelInv, NEW s \in Sockets, Break(s) PROVE ChannelInv'
<1>1. /\ UNCHANGED <<started, socket, reconnectTimer, signedIn, version, shown, shownStale>>
      /\ ws' = Closed(ws, s) /\ inbox' = Dropped(s) /\ eventsMissed' = Lost(s)
      /\ greeted' = greeted \ {s}
  BY DEF Break, channel, tokenState
<1>2. ChannelTyped
  BY DEF ChannelInv
<1>3. ChannelTyped' /\ SignedOutIsSilent'
  BY <1>1, <1>2, SocketCloses DEF ChannelInv, ChannelTyped, SignedOutIsSilent
<1>4. OneLiveSocket'
  BY <1>1, <1>2, SocketCloses DEF ChannelInv, OneLiveSocket, LiveStates
<1>5. NothingBehind'
  BY ZenonT(60), <1>1, <1>2, SocketCloses DEF ChannelInv, NothingBehind
<1>6. OldIsKnown'
  <2>1. CASE socket = s
    BY <1>1, <1>2, <2>1, SocketCloses DEF ChannelInv, OldIsKnown
  <2>2. CASE socket # s
    BY <1>1, <1>2, <2>2, SocketCloses DEF ChannelInv, OldIsKnown
  <2> QED
    BY <2>1, <2>2
<1> QED
  BY <1>3, <1>4, <1>5, <1>6 DEF ChannelInv

(* The bus adds an event to every open socket and to no other.             *)
LEMMA EventPublished ==
  ASSUME ChannelInv, NEW e \in RealtimeEvent, Publish(e), UNCHANGED <<ws, greeted>>
  PROVE  /\ inbox' \in [Sockets -> Seq(RealtimeEvent)]
         /\ NothingBehind'
         /\ \A s \in Sockets : ForeignEvents(inbox[s]) => ForeignEvents(inbox'[s])
         /\ e = Changed(FALSE) => \A s \in Subscribed : ForeignEvents(inbox'[s])
<1>1. inbox' = [s \in Sockets |-> IF s \in Subscribed THEN Append(inbox[s], e) ELSE inbox[s]]
  BY DEF Publish
<1>2. inbox \in [Sockets -> Seq(RealtimeEvent)]
  BY DEF ChannelInv, ChannelTyped
<1>3. \A s \in Sockets : Append(inbox[s], e) \in Seq(RealtimeEvent)
  BY <1>2
<1>4. inbox' \in [Sockets -> Seq(RealtimeEvent)]
  BY <1>1, <1>2, <1>3
<1>5. NothingBehind'
  BY <1>1 DEF ChannelInv, NothingBehind, Subscribed
<1>6. \A s \in Sockets : ForeignEvents(inbox[s]) => ForeignEvents(inbox'[s])
  BY <1>1, <1>2, ForeignAppended
<1>7. e = Changed(FALSE) => \A s \in Subscribed : ForeignEvents(inbox'[s])
  BY <1>1, <1>2, ForeignAppended DEF Subscribed
<1> QED
  BY <1>4, <1>5, <1>6, <1>7

LEMMA ColleagueInv == ASSUME ChannelInv, NEW u \in Colleagues, ColleagueComesOrGoes(u) PROVE ChannelInv'
<1>1. PICK e \in RealtimeEvent : Publish(e)
  <2>1. (u \notin online) \in BOOLEAN
    OBVIOUS
  <2> QED
    BY <2>1, EventTypes DEF ColleagueComesOrGoes
<1>2. UNCHANGED <<started, socket, reconnectTimer, ws, greeted, signedIn, version, shown, shownStale, eventsMissed>>
  BY DEF ColleagueComesOrGoes, channel, tokenState, data
<1>3. ChannelTyped' /\ OneLiveSocket' /\ SignedOutIsSilent'
  BY <1>1, <1>2, EventPublished DEF ChannelInv, ChannelTyped, OneLiveSocket, SignedOutIsSilent
<1>4. NothingBehind' /\ OldIsKnown'
  BY <1>1, <1>2, EventPublished DEF ChannelInv, OldIsKnown
<1> QED
  BY <1>3, <1>4 DEF ChannelInv

(* What another tab changes reaches the one open socket, or is missed.     *)
LEMMA OthersChangeInv == ASSUME ChannelInv, OthersChange PROVE ChannelInv'
<1>1. Publish(Changed(FALSE)) /\ Changed(FALSE) \in RealtimeEvent
  BY EventTypes DEF OthersChange
<1>2. /\ UNCHANGED <<started, socket, reconnectTimer, ws, greeted, signedIn, shown, shownStale>>
      /\ version' = version + 1 /\ eventsMissed' = (eventsMissed \/ Subscribed = {})
  BY DEF OthersChange, channel, tokenState
<1>3. /\ inbox' \in [Sockets -> Seq(RealtimeEvent)] /\ NothingBehind'
      /\ \A s \in Subscribed : ForeignEvents(inbox'[s])
  BY <1>1, <1>2, EventPublished
<1>4. ChannelTyped' /\ OneLiveSocket' /\ SignedOutIsSilent'
  BY <1>2, <1>3 DEF ChannelInv, ChannelTyped, OneLiveSocket, SignedOutIsSilent
<1>5. OldIsKnown'
  <2>1. CASE Subscribed = {}
    BY <1>2, <2>1 DEF OldIsKnown
  <2>2. CASE Subscribed # {}
    <3>1. PICK s \in Subscribed : TRUE
      BY <2>2
    <3>2. s \in Sockets /\ s = socket
      BY <3>1 DEF Subscribed, ChannelInv, OneLiveSocket
    <3> QED
      BY <1>2, <1>3, <3>1, <3>2 DEF OldIsKnown
  <2> QED
    BY <2>1, <2>2
<1> QED
  BY <1>3, <1>4, <1>5 DEF ChannelInv

LEMMA OwnChangeInv == ASSUME ChannelInv, OwnChange PROVE ChannelInv'
<1>1. Publish(Changed(TRUE)) /\ Changed(TRUE) \in RealtimeEvent
  BY EventTypes DEF OwnChange
<1>2. /\ UNCHANGED <<started, socket, reconnectTimer, ws, greeted, signedIn, shown, eventsMissed>>
      /\ version' = version + 1 /\ shownStale' = TRUE
  BY DEF OwnChange, channel, tokenState
<1>3. inbox' \in [Sockets -> Seq(RealtimeEvent)] /\ NothingBehind'
  BY <1>1, <1>2, EventPublished
<1>4. ChannelTyped' /\ OneLiveSocket' /\ SignedOutIsSilent'
  BY <1>2, <1>3 DEF ChannelInv, ChannelTyped, OneLiveSocket, SignedOutIsSilent
<1>5. OldIsKnown'
  BY <1>2 DEF OldIsKnown
<1> QED
  BY <1>3, <1>4, <1>5 DEF ChannelInv

(* An event of another tab that is read makes the query stale.             *)
LEMMA ReceiveInv == ASSUME ChannelInv, NEW s \in Sockets, Receive(s) PROVE ChannelInv'
<1>1. /\ UNCHANGED <<started, socket, reconnectTimer, ws, greeted, signedIn, version, shown, eventsMissed>>
      /\ s \in greeted /\ inbox[s] # <<>>
      /\ inbox' = [inbox EXCEPT ![s] = Tail(@)]
      /\ shownStale' = (shownStale \/ InvalidatedBy(Head(inbox[s])))
  BY DEF Receive, channel, tokenState
<1>2. inbox \in [Sockets -> Seq(RealtimeEvent)]
  BY DEF ChannelInv, ChannelTyped
<1>3. Tail(inbox[s]) \in Seq(RealtimeEvent)
  BY <1>1, <1>2
<1>4. /\ inbox' \in [Sockets -> Seq(RealtimeEvent)]
      /\ inbox'[s] = Tail(inbox[s])
      /\ \A x \in Sockets : x # s => inbox'[x] = inbox[x]
  BY <1>1, <1>2, <1>3
<1>5. ChannelTyped' /\ OneLiveSocket' /\ SignedOutIsSilent'
  BY <1>1, <1>4 DEF ChannelInv, ChannelTyped, OneLiveSocket, SignedOutIsSilent, InvalidatedBy
<1>6. NothingBehind'
  BY <1>1, <1>4 DEF ChannelInv, NothingBehind
<1>7. InvalidatedBy(Changed(FALSE))
  BY DEF InvalidatedBy, Changed
<1>8. OldIsKnown'
  <2>1. ForeignEvents(inbox[s]) => shownStale' \/ ForeignEvents(inbox'[s])
    BY <1>1, <1>2, <1>4, <1>7, ForeignRead
  <2> QED
    BY <1>1, <1>4, <2>1 DEF ChannelInv, OldIsKnown
<1> QED
  BY <1>5, <1>6, <1>8 DEF ChannelInv

LEMMA ChannelRestInv ==
  ASSUME ChannelInv, Refetch \/ (\E present \in BOOLEAN : TokenChange(present)) \/ UNCHANGED realtimeVars
  PROVE  ChannelInv'
<1>1. UNCHANGED <<started, socket, reconnectTimer, ws, inbox, greeted>>
  BY DEF Refetch, TokenChange, realtimeVars, channel, wire
<1>2. CASE Refetch
  BY <1>1, <1>2 DEF Refetch, tokenState, ChannelInv, ChannelTyped, OneLiveSocket, SignedOutIsSilent, NothingBehind, OldIsKnown
<1>3. CASE \E present \in BOOLEAN : TokenChange(present)
  BY <1>1, <1>3 DEF TokenChange, data, ChannelInv, ChannelTyped, OneLiveSocket, SignedOutIsSilent, NothingBehind, OldIsKnown
<1>4. CASE UNCHANGED realtimeVars
  BY <1>1, <1>4 DEF realtimeVars, tokenState, data, ChannelInv, ChannelTyped, OneLiveSocket, SignedOutIsSilent, NothingBehind, OldIsKnown
<1> QED
  BY <1>2, <1>3, <1>4

(* Who is online stays a set of colleagues.                                *)
OnlineTyped == online \subseteq Colleagues

LEMMA OnlineInv == OnlineTyped /\ [RealtimeNext]_realtimeVars => OnlineTyped'
<1> SUFFICES ASSUME OnlineTyped, [RealtimeNext]_realtimeVars PROVE OnlineTyped'
  OBVIOUS
<1>1. CASE \E u \in Colleagues : ColleagueComesOrGoes(u)
  BY <1>1 DEF ColleagueComesOrGoes, OnlineTyped
<1>2. CASE UNCHANGED online
  BY <1>2 DEF OnlineTyped
<1>3. (\E u \in Colleagues : ColleagueComesOrGoes(u)) \/ UNCHANGED online
  BY Zenon DEF RealtimeNext, ClientStep, ServerStep, TokenEffect, ReconnectTimer, Refetch, CloseEvent,
     Receive, Accept, Greet, Break, OthersChange, OwnChange, TokenChange, realtimeVars, presence
<1> QED
  BY <1>1, <1>2, <1>3

LEMMA ChannelStepInv == OnlineTyped /\ ChannelInv /\ [RealtimeNext]_realtimeVars => ChannelInv'
<1> SUFFICES ASSUME OnlineTyped, ChannelInv, [RealtimeNext]_realtimeVars PROVE ChannelInv'
  OBVIOUS
<1>1. Hello(online) \in RealtimeEvent
  BY DEF OnlineTyped, RealtimeEvent
<1>2. CASE ClientStep
  BY <1>2, TokenEffectInv, ReconnectInv, ChannelRestInv, CloseEventInv, ReceiveInv DEF ClientStep
<1>3. CASE ServerStep
  BY <1>1, <1>3, AcceptInv, GreetInv DEF ServerStep
<1>4. CASE \E s \in Sockets : Break(s)
  BY <1>4, BreakInv
<1>5. CASE \E u \in Colleagues : ColleagueComesOrGoes(u)
  BY <1>5, ColleagueInv
<1>6. CASE OthersChange
  BY <1>6, OthersChangeInv
<1>7. CASE OwnChange
  BY <1>7, OwnChangeInv
<1>8. CASE (\E present \in BOOLEAN : TokenChange(present)) \/ UNCHANGED realtimeVars
  BY <1>8, ChannelRestInv
<1> QED
  BY <1>2, <1>3, <1>4, <1>5, <1>6, <1>7, <1>8 DEF RealtimeNext

LEMMA ChannelAlwaysInv == RealtimeSpec => []ChannelInv
<1>1. RealtimeInit => OnlineTyped
  BY DEF RealtimeInit, OnlineTyped
<1>2. RealtimeSpec => []OnlineTyped
  BY <1>1, OnlineInv, PTL DEF RealtimeSpec
<1> QED
  BY <1>2, ChannelInitInv, ChannelStepInv, PTL DEF RealtimeSpec

-----------------------------------------------------------------------------
(* Only the current socket ever feeds the tab: however tokens change,      *)
(* connections break and late close events come in, and for any number of  *)
(* sockets, no other is connecting or open.                                *)
THEOREM AlwaysOneLiveSocket == RealtimeSpec => []OneLiveSocket
<1>1. ChannelInv => OneLiveSocket
  BY DEF ChannelInv
<1> QED
  BY <1>1, ChannelAlwaysInv, PTL

(* After sign-out nothing is connected and no timer will connect it.       *)
THEOREM SignedOutAlwaysSilent == RealtimeSpec => []SignedOutIsSilent
<1>1. ChannelInv => SignedOutIsSilent
  BY DEF ChannelInv
<1> QED
  BY <1>1, ChannelAlwaysInv, PTL

(* Once everything delivered is read and refetched, the tab shows what the *)
(* server has, unless an event never reached it.                           *)
THEOREM DeliveredAlwaysShown == RealtimeSpec => []DeliveredIsShown
<1>1. ChannelInv => DeliveredIsShown
  BY NothingForeign DEF ChannelInv, OldIsKnown, DeliveredIsShown, HeardAll
<1> QED
  BY <1>1, ChannelAlwaysInv, PTL

-----------------------------------------------------------------------------
(* Who is online.                                                          *)

(* What an event says of one colleague, and which event of a queue is the  *)
(* last to speak of them.                                                  *)
SpeaksOf(e, u) == e.type = "hello" \/ (e.type = "user.presence" /\ e.user = u)
SaysOn(e, u) == IF e.type = "hello" THEN u \in e.ids ELSE e.isOn
LastWord(q, u, i) ==
  /\ SpeaksOf(q[i], u)
  /\ \A j \in DOMAIN q : j > i => ~SpeaksOf(q[j], u)
LastWordIsTrue(q, u, present) ==
  \A i \in DOMAIN q : LastWord(q, u, i) => (SaysOn(q[i], u) <=> u \in present)
Unsaid(q, u) == \A i \in DOMAIN q : ~SpeaksOf(q[i], u)

(* The last event on its way about a colleague is right; when none is, the *)
(* tab that has been greeted is.                                           *)
PresenceIsKnown ==
  \A s \in Sockets, u \in Colleagues :
    /\ LastWordIsTrue(inbox[s], u, online)
    /\ s \in greeted /\ Unsaid(inbox[s], u) => (u \in onlineUserIds <=> u \in online)

RealtimeRanges ==
  /\ tokenSeq \in 0..MaxTokens /\ seenSeq \in 0..MaxTokens
  /\ greeted \subseteq Sockets /\ faults \in 0..MaxFaults
  /\ onlineUserIds \subseteq Colleagues
  /\ version \in 0..MaxVersion /\ shown \in 0..MaxVersion

-----------------------------------------------------------------------------
LEMMA WordAppended ==
  ASSUME NEW q \in Seq(RealtimeEvent), NEW e \in RealtimeEvent, NEW u,
         NEW before, NEW after, LastWordIsTrue(q, u, before),
         SpeaksOf(e, u) => (SaysOn(e, u) <=> u \in after),
         ~SpeaksOf(e, u) => (u \in before <=> u \in after)
  PROVE  /\ LastWordIsTrue(Append(q, e), u, after)
         /\ Unsaid(Append(q, e), u) => Unsaid(q, u) /\ ~SpeaksOf(e, u)
<1> DEFINE n == Len(q)
           p == Append(q, e)
<1>1. /\ DOMAIN q = 1..n /\ DOMAIN p = 1..(n + 1) /\ n \in Nat
      /\ p[n + 1] = e /\ \A i \in 1..n : p[i] = q[i]
  OBVIOUS
<1> HIDE DEF n, p
<1>2. ASSUME NEW i \in DOMAIN p, LastWord(p, u, i) PROVE SaysOn(p[i], u) <=> u \in after
  <2>1. CASE i = n + 1
    BY <1>1, <1>2, <2>1 DEF LastWord
  <2>2. CASE i # n + 1
    <3>1. i \in 1..n /\ p[i] = q[i] /\ n + 1 \in DOMAIN p /\ n + 1 > i
      BY <1>1, <2>2
    <3>2. ~SpeaksOf(e, u)
      BY <1>1, <1>2, <3>1 DEF LastWord
    <3>3. ASSUME NEW j \in DOMAIN q, j > i PROVE ~SpeaksOf(q[j], u)
      <4>1. j \in DOMAIN p /\ p[j] = q[j]
        BY <1>1
      <4> QED
        BY <1>2, <3>3, <4>1 DEF LastWord
    <3>4. LastWord(q, u, i)
      BY <1>2, <3>1, <3>3 DEF LastWord
    <3> QED
      BY <1>1, <3>1, <3>2, <3>4 DEF LastWordIsTrue
  <2> QED
    BY <2>1, <2>2
<1>3. ASSUME Unsaid(p, u) PROVE Unsaid(q, u) /\ ~SpeaksOf(e, u)
  <2>1. n + 1 \in DOMAIN p /\ \A i \in DOMAIN q : i \in DOMAIN p /\ p[i] = q[i]
    BY <1>1
  <2> QED
    BY <1>1, <1>3, <2>1 DEF Unsaid
<1>4. LastWordIsTrue(p, u, after)
  BY <1>2 DEF LastWordIsTrue
<1> QED
  BY <1>3, <1>4 DEF p

LEMMA WordGreeted ==
  ASSUME NEW q \in Seq(RealtimeEvent), NEW e \in RealtimeEvent, NEW u, NEW present,
         LastWordIsTrue(q, u, present), SpeaksOf(e, u), SaysOn(e, u) <=> u \in present
  PROVE  LastWordIsTrue(<<e>> \o q, u, present) /\ ~Unsaid(<<e>> \o q, u)
<1> DEFINE n == Len(q)
           p == <<e>> \o q
<1>1. <<e>> \in Seq(RealtimeEvent) /\ Len(<<e>>) = 1 /\ <<e>>[1] = e
  OBVIOUS
<1>2. /\ DOMAIN q = 1..n /\ DOMAIN p = 1..(n + 1) /\ n \in Nat
      /\ p[1] = e /\ \A i \in 1..n : p[i + 1] = q[i]
  BY <1>1
<1> HIDE DEF n, p
<1>3. ASSUME NEW i \in DOMAIN p, LastWord(p, u, i) PROVE SaysOn(p[i], u) <=> u \in present
  <2>1. CASE i = 1
    BY <1>2, <2>1
  <2>2. CASE i # 1
    <3>1. i - 1 \in 1..n /\ (i - 1) + 1 = i
      BY <1>2, <2>2
    <3>2. p[i] = q[i - 1]
      BY <1>2, <3>1
    <3>3. ASSUME NEW j \in DOMAIN q, j > i - 1 PROVE ~SpeaksOf(q[j], u)
      <4>1. j + 1 \in DOMAIN p /\ p[j + 1] = q[j] /\ j + 1 > i
        BY <1>2, <3>1, <3>3
      <4> QED
        BY <1>3, <4>1 DEF LastWord
    <3>4. LastWord(q, u, i - 1)
      BY <1>3, <3>2, <3>3 DEF LastWord
    <3> QED
      BY <1>2, <3>1, <3>2, <3>4 DEF LastWordIsTrue
  <2> QED
    BY <2>1, <2>2
<1>4. ~Unsaid(p, u)
  <2>1. 1 \in DOMAIN p
    BY <1>2
  <2> QED
    BY <1>2, <2>1 DEF Unsaid
<1>5. LastWordIsTrue(p, u, present)
  BY <1>3 DEF LastWordIsTrue
<1> QED
  BY <1>4, <1>5 DEF p

LEMMA WordRead ==
  ASSUME NEW q \in Seq(RealtimeEvent), q # <<>>, NEW u, NEW present,
         LastWordIsTrue(q, u, present)
  PROVE  /\ LastWordIsTrue(Tail(q), u, present)
         /\ Unsaid(Tail(q), u) => IF SpeaksOf(Head(q), u)
                                  THEN SaysOn(Head(q), u) <=> u \in present ELSE Unsaid(q, u)
<1> DEFINE n == Len(q)
           p == Tail(q)
<1>1. /\ DOMAIN q = 1..n /\ n \in Nat \ {0} /\ DOMAIN p = 1..(n - 1) /\ Head(q) = q[1]
      /\ \A i \in 1..(n - 1) : p[i] = q[i + 1]
  BY HeadTailProperties
<1> HIDE DEF n, p
<1>2. ASSUME NEW i \in DOMAIN p, LastWord(p, u, i) PROVE SaysOn(p[i], u) <=> u \in present
  <2>1. i + 1 \in DOMAIN q /\ p[i] = q[i + 1]
    BY <1>1
  <2>2. ASSUME NEW j \in DOMAIN q, j > i + 1 PROVE ~SpeaksOf(q[j], u)
    <3>1. j - 1 \in 1..(n - 1) /\ (j - 1) + 1 = j /\ j - 1 > i
      BY <1>1, <2>2
    <3>2. j - 1 \in DOMAIN p /\ p[j - 1] = q[j]
      BY <1>1, <3>1
    <3> QED
      BY <1>2, <3>1, <3>2 DEF LastWord
  <2>3. LastWord(q, u, i + 1)
    BY <1>2, <2>1, <2>2 DEF LastWord
  <2> QED
    BY <2>1, <2>3 DEF LastWordIsTrue
<1>3. ASSUME Unsaid(p, u), NEW j \in DOMAIN q, j > 1 PROVE ~SpeaksOf(q[j], u)
  <2>1. j - 1 \in 1..(n - 1) /\ (j - 1) + 1 = j
    BY <1>1, <1>3
  <2>2. j - 1 \in DOMAIN p /\ p[j - 1] = q[j]
    BY <1>1, <2>1
  <2> QED
    BY <1>3, <2>2 DEF Unsaid
<1>4. 1 \in DOMAIN q
  BY <1>1
<1>5. ASSUME Unsaid(p, u), SpeaksOf(q[1], u) PROVE SaysOn(q[1], u) <=> u \in present
  <2>1. LastWord(q, u, 1)
    BY <1>3, <1>5 DEF LastWord
  <2> QED
    BY <1>4, <2>1 DEF LastWordIsTrue
<1>6. ASSUME Unsaid(p, u), ~SpeaksOf(q[1], u) PROVE Unsaid(q, u)
  <2>1. \A j \in DOMAIN q : j = 1 \/ j > 1
    BY <1>1
  <2> QED
    BY <1>3, <1>6, <2>1 DEF Unsaid
<1>7. LastWordIsTrue(p, u, present)
  BY <1>2 DEF LastWordIsTrue
<1> QED
  BY <1>1, <1>5, <1>6, <1>7 DEF p

LEMMA NothingSaid == \A u, present : LastWordIsTrue(<<>>, u, present)
  BY DEF LastWordIsTrue

-----------------------------------------------------------------------------
(* What a socket that is closed took with it is nobody's any more.         *)
LEMMA PresenceClosed ==
  ASSUME ChannelInv, PresenceIsKnown, NEW s \in Sockets \cup {NoSocket},
         inbox' = Dropped(s), greeted' = greeted \ {s}, UNCHANGED <<online, onlineUserIds>>
  PROVE  PresenceIsKnown'
<1> SUFFICES ASSUME NEW x \in Sockets, NEW u \in Colleagues
             PROVE  /\ LastWordIsTrue(inbox'[x], u, online')
                    /\ x \in greeted' /\ Unsaid(inbox'[x], u) => (u \in onlineUserIds' <=> u \in online')
  BY DEF PresenceIsKnown
<1>1. ChannelTyped
  BY DEF ChannelInv
<1>2. CASE x = s
  <2>1. inbox'[x] = <<>> /\ x \notin greeted'
    BY <1>1, <1>2, SocketCloses
  <2> QED
    BY <2>1, NothingSaid
<1>3. CASE x # s
  <2>1. inbox'[x] = inbox[x]
    BY <1>1, <1>3, SocketCloses
  <2> QED
    BY <2>1 DEF PresenceIsKnown
<1> QED
  BY <1>2, <1>3

(* Signing out forgets who is online, with the socket it was heard on.     *)
LEMMA PresenceStopped ==
  ASSUME ChannelInv, PresenceIsKnown, inbox' = Dropped(socket), greeted' = greeted \ {socket}, online' = online
  PROVE  PresenceIsKnown'
<1> SUFFICES ASSUME NEW x \in Sockets, NEW u \in Colleagues
             PROVE  LastWordIsTrue(inbox'[x], u, online') /\ x \notin greeted'
  BY DEF PresenceIsKnown
<1>1. ChannelTyped /\ socket \in Sockets \cup {NoSocket}
  BY DEF ChannelInv, ChannelTyped
<1>2. inbox'[x] = <<>> \/ inbox'[x] = inbox[x]
  BY <1>1, SocketCloses
<1>3. x \notin greeted'
  BY DEF ChannelInv, NothingBehind, OneLiveSocket
<1> QED
  BY <1>2, <1>3, NothingSaid DEF PresenceIsKnown

LEMMA PresenceOpened ==
  ASSUME ChannelInv, PresenceIsKnown, OpenSocket, UNCHANGED presence
  PROVE  PresenceIsKnown'
<1>1. online' = online /\ onlineUserIds' = onlineUserIds
  BY DEF presence
<1>2. CASE inbox' = Dropped(socket) /\ greeted' = greeted \ {socket}
  BY <1>1, <1>2, PresenceClosed DEF ChannelInv, ChannelTyped
<1>3. CASE UNCHANGED <<inbox, greeted>>
  BY <1>1, <1>3 DEF PresenceIsKnown
<1> QED
  BY <1>2, <1>3 DEF OpenSocket

LEMMA PresencePublished ==
  ASSUME ChannelInv, PresenceIsKnown, NEW e \in RealtimeEvent, Publish(e), UNCHANGED <<greeted, onlineUserIds>>,
         \A u \in Colleagues : IF SpeaksOf(e, u) THEN SaysOn(e, u) <=> u \in online'
                               ELSE u \in online <=> u \in online'
  PROVE  PresenceIsKnown'
<1> SUFFICES ASSUME NEW s \in Sockets, NEW u \in Colleagues
             PROVE  /\ LastWordIsTrue(inbox'[s], u, online')
                    /\ s \in greeted' /\ Unsaid(inbox'[s], u) => (u \in onlineUserIds' <=> u \in online')
  BY DEF PresenceIsKnown
<1>1. inbox'[s] = IF s \in Subscribed THEN Append(inbox[s], e) ELSE inbox[s]
  BY DEF Publish
<1>2. inbox[s] \in Seq(RealtimeEvent)
  BY DEF ChannelInv, ChannelTyped
<1>3. /\ LastWordIsTrue(inbox[s], u, online)
      /\ s \in greeted /\ Unsaid(inbox[s], u) => (u \in onlineUserIds <=> u \in online)
  BY DEF PresenceIsKnown
<1>4. CASE s \in Subscribed
  <2>1. /\ LastWordIsTrue(Append(inbox[s], e), u, online')
        /\ Unsaid(Append(inbox[s], e), u) => Unsaid(inbox[s], u) /\ ~SpeaksOf(e, u)
    BY <1>2, <1>3, WordAppended
  <2> QED
    BY <1>1, <1>3, <1>4, <2>1
<1>5. CASE s \notin Subscribed
  <2>1. inbox[s] = <<>> /\ s \notin greeted'
    BY <1>5 DEF Subscribed, ChannelInv, NothingBehind
  <2> QED
    BY <1>1, <1>5, <2>1, NothingSaid
<1> QED
  BY <1>4, <1>5

LEMMA PresenceGreet == ASSUME ChannelInv, OnlineTyped, PresenceIsKnown, NEW s \in Sockets, Greet(s) PROVE PresenceIsKnown'
<1>1. /\ UNCHANGED <<onlineUserIds, online>> /\ greeted' = greeted \cup {s}
      /\ inbox' = [inbox EXCEPT ![s] = <<Hello(online)>> \o @]
  BY DEF Greet, presence
<1>2. inbox \in [Sockets -> Seq(RealtimeEvent)] /\ Hello(online) \in RealtimeEvent
  BY DEF ChannelInv, ChannelTyped, OnlineTyped, RealtimeEvent
<1> SUFFICES ASSUME NEW x \in Sockets, NEW u \in Colleagues
             PROVE  /\ LastWordIsTrue(inbox'[x], u, online')
                    /\ x \in greeted' /\ Unsaid(inbox'[x], u) => (u \in onlineUserIds' <=> u \in online')
  BY DEF PresenceIsKnown
<1>3. /\ LastWordIsTrue(inbox[x], u, online)
      /\ x \in greeted /\ Unsaid(inbox[x], u) => (u \in onlineUserIds <=> u \in online)
  BY DEF PresenceIsKnown
<1>4. CASE x = s
  <2>1. inbox'[x] = <<Hello(online)>> \o inbox[x]
    BY <1>1, <1>2, <1>4
  <2>2. SpeaksOf(Hello(online), u) /\ (SaysOn(Hello(online), u) <=> u \in online)
    BY DEF SpeaksOf, SaysOn, Hello
  <2> QED
    BY <1>1, <1>2, <1>3, <2>1, <2>2, WordGreeted
<1>5. CASE x # s
  BY <1>1, <1>2, <1>3, <1>5
<1> QED
  BY <1>4, <1>5

LEMMA PresenceReceive == ASSUME ChannelInv, PresenceIsKnown, NEW s \in Sockets, Receive(s) PROVE PresenceIsKnown'
<1> DEFINE e == Head(inbox[s])
<1>1. /\ online' = online /\ greeted' = greeted /\ s \in greeted /\ inbox[s] # <<>>
      /\ inbox' = [inbox EXCEPT ![s] = Tail(@)]
      /\ onlineUserIds' = CASE e.type = "hello" -> e.ids
                            [] e.type = "user.presence" /\ e.isOn -> onlineUserIds \cup {e.user}
                            [] e.type = "user.presence" /\ ~e.isOn -> onlineUserIds \ {e.user}
                            [] OTHER -> onlineUserIds
  BY DEF Receive
<1>2. inbox \in [Sockets -> Seq(RealtimeEvent)] /\ inbox[s] \in Seq(RealtimeEvent)
  BY DEF ChannelInv, ChannelTyped
<1>3. e \in RealtimeEvent
  BY <1>1, <1>2
<1> HIDE DEF e
<1>4. \A u \in Colleagues : u \in onlineUserIds' <=> IF SpeaksOf(e, u) THEN SaysOn(e, u) ELSE u \in onlineUserIds
  <2>1. CASE \E ids \in SUBSET Colleagues : e = Hello(ids)
    BY <1>1, <2>1 DEF Hello, SpeaksOf, SaysOn
  <2>2. CASE \E v \in Colleagues, b \in BOOLEAN : e = Presence(v, b)
    <3>1. PICK v \in Colleagues, b \in BOOLEAN : e = Presence(v, b)
      BY <2>2
    <3>2. e.type = "user.presence" /\ e.user = v /\ e.isOn = b
      BY <3>1 DEF Presence
    <3>3. CASE b = TRUE
      <4>1. onlineUserIds' = onlineUserIds \cup {v}
        BY <1>1, <3>2, <3>3
      <4> QED
        BY <3>2, <3>3, <4>1 DEF SpeaksOf, SaysOn
    <3>4. CASE b = FALSE
      <4>1. onlineUserIds' = onlineUserIds \ {v}
        BY <1>1, <3>2, <3>4
      <4> QED
        BY <3>2, <3>4, <4>1 DEF SpeaksOf, SaysOn
    <3> QED
      BY <3>3, <3>4
  <2>3. CASE \E b \in BOOLEAN : e = Changed(b)
    BY <1>1, <2>3 DEF Changed, SpeaksOf, SaysOn
  <2> QED
    BY <1>3, <2>1, <2>2, <2>3 DEF RealtimeEvent
<1> SUFFICES ASSUME NEW x \in Sockets, NEW u \in Colleagues
             PROVE  /\ LastWordIsTrue(inbox'[x], u, online')
                    /\ x \in greeted' /\ Unsaid(inbox'[x], u) => (u \in onlineUserIds' <=> u \in online')
  BY DEF PresenceIsKnown
<1>5. /\ LastWordIsTrue(inbox[x], u, online)
      /\ x \in greeted /\ Unsaid(inbox[x], u) => (u \in onlineUserIds <=> u \in online)
  BY DEF PresenceIsKnown
<1>6. CASE x = s
  <2>1. inbox'[x] = Tail(inbox[x]) /\ e = Head(inbox[x])
    BY <1>1, <1>2, <1>6 DEF e
  <2>2. /\ LastWordIsTrue(Tail(inbox[x]), u, online)
        /\ Unsaid(Tail(inbox[x]), u) => IF SpeaksOf(e, u)
                                        THEN SaysOn(e, u) <=> u \in online ELSE Unsaid(inbox[x], u)
    BY <1>1, <1>2, <1>5, <1>6, <2>1, WordRead
  <2> QED
    BY <1>1, <1>4, <1>5, <1>6, <2>1, <2>2
<1>7. CASE x # s
  <2>1. inbox'[x] = inbox[x] /\ x \notin greeted'
    BY <1>1, <1>2, <1>7 DEF ChannelInv, NothingBehind, OneLiveSocket
  <2> QED
    BY <1>1, <1>5, <2>1
<1> QED
  BY <1>6, <1>7

LEMMA PresenceStep ==
  OnlineTyped /\ ChannelInv /\ PresenceIsKnown /\ [RealtimeNext]_realtimeVars => PresenceIsKnown'
<1> SUFFICES ASSUME OnlineTyped, ChannelInv, PresenceIsKnown, [RealtimeNext]_realtimeVars PROVE PresenceIsKnown'
  OBVIOUS
<1>1. CASE UNCHANGED <<inbox, greeted, onlineUserIds, online>>
  BY <1>1 DEF PresenceIsKnown
<1>2. CASE TokenEffect
  <2>1. CASE StartRealtime
    <3>1. online' = online /\ onlineUserIds' = onlineUserIds
      BY <1>2, <2>1 DEF TokenEffect, StartRealtime
    <3> QED
      BY <1>1, <2>1, <3>1, PresenceOpened DEF StartRealtime, presence
  <2>2. CASE StopRealtime
    <3>1. inbox' = Dropped(socket) /\ greeted' = greeted \ {socket} /\ online' = online
      BY <1>2, <2>2 DEF TokenEffect, StopRealtime
    <3> QED
      BY <3>1, PresenceStopped
  <2> QED
    BY <1>2, <2>1, <2>2 DEF TokenEffect
<1>3. CASE ReconnectTimer
  BY <1>3, PresenceOpened DEF ReconnectTimer
<1>4. CASE \E s \in Sockets : Receive(s)
  BY <1>4, PresenceReceive
<1>5. CASE \E s \in Sockets : Greet(s)
  BY <1>5, PresenceGreet
<1>6. CASE \E s \in Sockets : Break(s)
  <2>1. PICK s \in Sockets : inbox' = Dropped(s) /\ greeted' = greeted \ {s} /\ UNCHANGED <<online, onlineUserIds>>
    BY <1>6 DEF Break, presence
  <2> QED
    BY <2>1, PresenceClosed
<1>7. CASE \E u \in Colleagues : ColleagueComesOrGoes(u)
  <2>1. PICK u \in Colleagues : ColleagueComesOrGoes(u)
    BY <1>7
  <2> DEFINE isOn == u \notin online
             e == Presence(u, isOn)
  <2>2. /\ isOn \in BOOLEAN /\ e \in RealtimeEvent /\ Publish(e) /\ UNCHANGED <<greeted, onlineUserIds>>
        /\ online' = IF isOn THEN online \cup {u} ELSE online \ {u}
    <3>1. isOn \in BOOLEAN
      OBVIOUS
    <3> QED
      BY <2>1, <3>1, EventTypes DEF ColleagueComesOrGoes
  <2>3. \A v \in Colleagues : /\ SpeaksOf(e, v) <=> v = u
                              /\ SaysOn(e, v) <=> isOn
    BY DEF SpeaksOf, SaysOn, Presence
  <2> HIDE DEF e
  <2>4. ASSUME NEW v \in Colleagues
        PROVE  IF SpeaksOf(e, v) THEN SaysOn(e, v) <=> v \in online' ELSE v \in online <=> v \in online'
    <3>1. CASE v = u
      <4>1. v \in online' <=> isOn
        BY <2>2, <3>1
      <4> QED
        BY <2>3, <3>1, <4>1
    <3>2. CASE v # u
      <4>1. v \in online' <=> v \in online
        BY <2>2, <3>2
      <4> QED
        BY <2>3, <3>2, <4>1
    <3> QED
      BY <3>1, <3>2
  <2> QED
    BY <2>2, <2>4, PresencePublished
<1>8. ASSUME NEW b \in BOOLEAN, Publish(Changed(b)), UNCHANGED <<greeted, onlineUserIds, online>>
      PROVE  PresenceIsKnown'
  <2>1. \A u \in Colleagues : ~SpeaksOf(Changed(b), u)
    BY DEF SpeaksOf, Changed
  <2> QED
    BY <1>8, <2>1, PresencePublished, EventTypes
<1>9. CASE OthersChange
  BY <1>8, <1>9 DEF OthersChange, presence
<1>10. CASE OwnChange
  BY <1>8, <1>10 DEF OwnChange, presence
<1>11. CASE \/ Refetch \/ \E s \in Sockets : CloseEvent(s) \/ Accept(s)
            \/ \E present \in BOOLEAN : TokenChange(present)
            \/ UNCHANGED realtimeVars
  <2>1. UNCHANGED <<inbox, greeted, onlineUserIds, online>>
    BY <1>11, Zenon DEF Refetch, CloseEvent, Accept, TokenChange, realtimeVars, wire, presence
  <2> QED
    BY <1>1, <2>1
<1> QED
  BY <1>2, <1>3, <1>4, <1>5, <1>6, <1>7, <1>9, <1>10, <1>11, Zenon DEF RealtimeNext, ClientStep, ServerStep

-----------------------------------------------------------------------------
LEMMA RangesStep ==
  ChannelInv /\ OnlineTyped /\ RealtimeRanges /\ [RealtimeNext]_realtimeVars => RealtimeRanges'
<1> SUFFICES ASSUME ChannelInv, OnlineTyped, RealtimeRanges, [RealtimeNext]_realtimeVars PROVE RealtimeRanges'
  OBVIOUS
<1> DEFINE Numbers == UNCHANGED <<tokenSeq, faults, version>>
<1>0. UNCHANGED <<seenSeq, tokenSeq>> \/ (seenSeq' = tokenSeq /\ tokenSeq' = tokenSeq)
        \/ (seenSeq' = seenSeq /\ tokenSeq < MaxTokens /\ tokenSeq' = tokenSeq + 1)
  BY Zenon DEF RealtimeNext, ClientStep, ServerStep, TokenEffect, ReconnectTimer, Refetch, CloseEvent,
     Receive, Accept, Greet, Break, OthersChange, OwnChange, TokenChange, realtimeVars, tokenState, ColleagueComesOrGoes
<1>1. tokenSeq' \in 0..MaxTokens /\ seenSeq' \in 0..MaxTokens
  BY <1>0, RealtimeAssumption DEF RealtimeRanges
<1>2. faults' = faults \/ (faults < MaxFaults /\ faults' = faults + 1)
  BY Zenon DEF RealtimeNext, ClientStep, ServerStep, TokenEffect, ReconnectTimer, Refetch, CloseEvent,
     Receive, Accept, Greet, Break, OthersChange, OwnChange, TokenChange, realtimeVars, wire, ColleagueComesOrGoes
<1>3. faults' \in 0..MaxFaults
  BY <1>2, RealtimeAssumption DEF RealtimeRanges
<1>4. UNCHANGED <<version, shown>> \/ (version < MaxVersion /\ version' = version + 1 /\ shown' = shown)
        \/ (shown' = version /\ version' = version)
  BY Zenon DEF RealtimeNext, ClientStep, ServerStep, TokenEffect, ReconnectTimer, Refetch, CloseEvent,
     Receive, Accept, Greet, Break, OthersChange, OwnChange, TokenChange, realtimeVars, data, ColleagueComesOrGoes
<1>5. version' \in 0..MaxVersion /\ shown' \in 0..MaxVersion
  BY <1>4, RealtimeAssumption DEF RealtimeRanges
<1>6. greeted' \subseteq greeted \/ \E s \in Sockets : greeted' = greeted \cup {s}
  <2>1. greeted' = greeted \/ (\E s \in Sockets \cup {NoSocket} : greeted' = greeted \ {s})
          \/ (\E s \in Sockets : greeted' = greeted \cup {s})
    <3>1. socket \in Sockets \cup {NoSocket}
      BY DEF ChannelInv, ChannelTyped
    <3>2. CASE ClientStep
      BY <3>1, <3>2, Zenon DEF ClientStep, TokenEffect, StartRealtime, StopRealtime, OpenSocket,
         ReconnectTimer, Refetch, CloseEvent, Receive, wire
    <3>3. CASE ServerStep \/ (\E s \in Sockets : Break(s))
      BY <3>3 DEF ServerStep, Accept, Greet, Break
    <3>4. CASE \/ \E u \in Colleagues : ColleagueComesOrGoes(u)
               \/ OthersChange \/ OwnChange \/ (\E present \in BOOLEAN : TokenChange(present))
               \/ UNCHANGED realtimeVars
      BY <3>4, Zenon DEF ColleagueComesOrGoes, OthersChange, OwnChange, TokenChange, realtimeVars, wire
    <3> QED
      BY <3>2, <3>3, <3>4 DEF RealtimeNext
  <2> QED
    BY <2>1
<1>7. greeted' \subseteq Sockets
  BY <1>6 DEF RealtimeRanges
<1>8. onlineUserIds' \subseteq Colleagues
  <2>1. CASE \E s \in Sockets : Receive(s)
    <3>1. PICK s \in Sockets : Receive(s)
      BY <2>1
    <3> DEFINE e == Head(inbox[s])
    <3>2. onlineUserIds' = CASE e.type = "hello" -> e.ids
                             [] e.type = "user.presence" /\ e.isOn -> onlineUserIds \cup {e.user}
                             [] e.type = "user.presence" /\ ~e.isOn -> onlineUserIds \ {e.user}
                             [] OTHER -> onlineUserIds
      BY <3>1 DEF Receive
    <3>3. e \in RealtimeEvent
      <4>1. inbox[s] \in Seq(RealtimeEvent) /\ inbox[s] # <<>>
        BY <3>1 DEF Receive, ChannelInv, ChannelTyped
      <4> QED
        BY <4>1
    <3> HIDE DEF e
    <3>4. CASE \E ids \in SUBSET Colleagues : e = Hello(ids)
      BY <3>2, <3>4 DEF Hello
    <3>5. CASE \E v \in Colleagues, b \in BOOLEAN : e = Presence(v, b)
      <4>1. PICK v \in Colleagues, b \in BOOLEAN : e = Presence(v, b)
        BY <3>5
      <4>2. e.type = "user.presence" /\ e.user = v /\ e.isOn = b
        BY <4>1 DEF Presence
      <4>3. onlineUserIds' = onlineUserIds \cup {v} \/ onlineUserIds' = onlineUserIds \ {v}
        BY <3>2, <4>2
      <4> QED
        BY <4>3 DEF RealtimeRanges
    <3>6. CASE \E b \in BOOLEAN : e = Changed(b)
      <4>1. onlineUserIds' = onlineUserIds
        BY <3>2, <3>6 DEF Changed
      <4> QED
        BY <4>1 DEF RealtimeRanges
    <3> QED
      BY <3>3, <3>4, <3>5, <3>6 DEF RealtimeEvent
  <2>2. CASE onlineUserIds' = onlineUserIds \/ onlineUserIds' = {}
    BY <2>2 DEF RealtimeRanges
  <2>3. (\E s \in Sockets : Receive(s)) \/ onlineUserIds' = onlineUserIds \/ onlineUserIds' = {}
    BY Zenon DEF RealtimeNext, ClientStep, ServerStep, TokenEffect, StartRealtime, StopRealtime, ReconnectTimer, Refetch, CloseEvent,
       Accept, Greet, Break, OthersChange, OwnChange, TokenChange, realtimeVars, presence, ColleagueComesOrGoes
  <2> QED
    BY <2>1, <2>2, <2>3
<1> QED
  BY <1>1, <1>3, <1>5, <1>7, <1>8 DEF RealtimeRanges

LEMMA AlwaysKnown == RealtimeSpec => [](OnlineTyped /\ ChannelInv /\ PresenceIsKnown /\ RealtimeRanges)
<1>1. RealtimeInit => OnlineTyped /\ PresenceIsKnown /\ RealtimeRanges
  <2>1. RealtimeInit => PresenceIsKnown
    BY NothingSaid DEF RealtimeInit, PresenceIsKnown
  <2> QED
    BY <2>1, RealtimeAssumption DEF RealtimeInit, OnlineTyped, RealtimeRanges
<1> QED
  BY <1>1, ChannelInitInv, ChannelStepInv, OnlineInv, PresenceStep, RangesStep, PTL DEF RealtimeSpec

(* Once the greeting and the events after it are read, the tab shows       *)
(* online exactly who is online, for any number of colleagues who came or  *)
(* went between subscription and snapshot.                                 *)
THEOREM PresenceAlwaysTrue == RealtimeSpec => []PresenceIsTrue
<1>1. OnlineTyped /\ ChannelInv /\ PresenceIsKnown /\ RealtimeRanges => PresenceIsTrue
  <2> SUFFICES ASSUME OnlineTyped, ChannelInv, PresenceIsKnown, RealtimeRanges, HeardAll PROVE onlineUserIds = online
    BY DEF PresenceIsTrue
  <2>1. socket \in Sockets /\ socket \in greeted /\ inbox[socket] = <<>>
    BY DEF HeardAll, RealtimeRanges
  <2>2. \A u : Unsaid(inbox[socket], u)
    BY <2>1 DEF Unsaid
  <2> QED
    BY <2>1, <2>2 DEF PresenceIsKnown, OnlineTyped, RealtimeRanges
<1> QED
  BY <1>1, AlwaysKnown, PTL

(* Every variable of the channel keeps its type and its bound.             *)
THEOREM RealtimeTyped == RealtimeSpec => []RealtimeTypeOK
<1>1. OnlineTyped /\ ChannelInv /\ PresenceIsKnown /\ RealtimeRanges => RealtimeTypeOK
  BY DEF OnlineTyped, ChannelInv, ChannelTyped, RealtimeRanges, RealtimeTypeOK
<1> QED
  BY <1>1, AlwaysKnown, PTL

-----------------------------------------------------------------------------
(* AuthSession                                                             *)
Refreshing(q) == refresh[q] # NoRefresh

(* Tokens that are in use or travel were issued to somebody.               *)
TokensAreOwned ==
  /\ \A s \in active : owner[s] \in People
  /\ \A q \in Requests : refresh[q].answer \in Sessions => owner[refresh[q].answer] \in People

(* refreshPromise: a tab has one refresh under way, for one request, and   *)
(* whoever waits does so for it.                                           *)
OneRefresh ==
  /\ \A q \in Requests : Refreshing(q) => Tab(q) \in refreshing
  /\ \A q, r \in Requests : Refreshing(q) /\ Refreshing(r) /\ Tab(q) = Tab(r) => q = r

WaitersWait == \A q \in Requests : req[q].state = "waiting" => Tab(q) \in refreshing

(* A browser from which somebody has signed out has no refresh token, and  *)
(* nothing is on its way that would bring it one.                          *)
NothingComesBack ==
  cleanly # {} =>
    /\ cookie = NoSession
    /\ \A q \in Requests : /\ refresh[q].answer \notin Sessions
                           /\ refresh[q].answer = "pending" => refresh[q].sent = NoSession

(* Nor does a tab that shows it hold a request that could fill its cache.  *)
EmptyStays ==
  \A t \in cleanly :
    /\ token[t] = NoToken /\ userCached[t] = {} /\ me[t] # "ok"
    /\ \A q \in Requests : Tab(q) = t /\ req[q].state # "idle" /\ req[q].live => req[q].carried = NoToken

SessionInv ==
  /\ SessionTypeOK /\ TokensAreOwned /\ OneRefresh /\ WaitersWait /\ NothingComesBack /\ EmptyStays

(* The refresh token of the only tab is one the server knows or was told   *)
(* to forget, except while the answer that replaces it is on its way.      *)
Known(s) == s \in active \cup revoked \cup {NoSession}
SoleTabIsKnown ==
  Cardinality(Tabs) = 1 /\ lost = 0 =>
    /\ ~reused
    /\ \A q \in Requests : /\ refresh[q].answer = "pending" => Known(refresh[q].sent)
                           /\ refresh[q].answer \in Sessions => Known(refresh[q].answer)
    /\ Known(cookie) \/ \E q \in Requests : refresh[q].answer \in Sessions

-----------------------------------------------------------------------------
LEMMA IssuedIsFresh ==
  ASSUME New # {}
  PROVE  Issued \in Sessions /\ owner[Issued] = Nobody
BY DEF Issued, New

LEMMA RequestsHaveTabs == \A q \in Requests : Tab(q) \in Tabs
BY DEF Requests, Tab

ARequest == [state : Phases, carried : AccessToken, live : BOOLEAN]
LEMMA SessionStep ==
  ASSUME SessionInv, SessionNext
  PROVE  SessionInv'
<1> USE SessionAssumption, RequestsHaveTabs, IssuedIsFresh
<1> USE DEF SessionInv, SessionTypeOK, TokensAreOwned, OneRefresh, WaitersWait, NothingComesBack,
            EmptyStays, Refreshing, AccessToken, Phases, Refreshes, NoRefresh, sessionServer, memory, bounds
<1>1. ASSUME NEW q \in Requests, Send(q) PROVE SessionInv'
  <2>1. SessionTypeOK'
    BY <1>1 DEF Send, Request
  <2>2. TokensAreOwned'
    BY <1>1 DEF Send, Request
  <2>3. OneRefresh'
    BY <1>1 DEF Send, Request
  <2>4. WaitersWait'
    BY <1>1 DEF Send, Request
  <2>5. NothingComesBack'
    BY <1>1 DEF Send, Request
  <2>6. EmptyStays'
    BY <1>1 DEF Send, Request
  <2> QED
    BY <2>1, <2>2, <2>3, <2>4, <2>5, <2>6 DEF SessionInv
<1>2. ASSUME NEW q \in Requests, Accepted(q) PROVE SessionInv'
  <2>1. SessionTypeOK'
    BY <1>2 DEF Accepted, Served, Live, OfMe, Unused, Request
  <2>2. TokensAreOwned'
    BY <1>2 DEF Accepted, Served, Live, OfMe, Unused, Request
  <2>3. OneRefresh'
    BY <1>2 DEF Accepted, Served, Live, OfMe, Unused, Request
  <2>4. WaitersWait'
    BY <1>2 DEF Accepted, Served, Live, OfMe, Unused, Request
  <2>5. NothingComesBack'
    BY <1>2 DEF Accepted, Served, Live, OfMe, Unused, Request
  <2>6. EmptyStays'
    BY <1>2 DEF Accepted, Served, Live, OfMe, Unused, Request
  <2> QED
    BY <2>1, <2>2, <2>3, <2>4, <2>5, <2>6 DEF SessionInv
<1>3. ASSUME NEW q \in Requests, Unauthorized(q) PROVE SessionInv'
  <2>1. SessionTypeOK'
    BY <1>3 DEF Unauthorized, StartsRefresh, Live
  <2>2. TokensAreOwned'
    BY <1>3 DEF Unauthorized, StartsRefresh, Live
  <2>3. OneRefresh'
    BY <1>3 DEF Unauthorized, StartsRefresh, Live
  <2>4. WaitersWait'
    BY <1>3 DEF Unauthorized, StartsRefresh, Live
  <2>5. NothingComesBack'
    BY <1>3 DEF Unauthorized, StartsRefresh, Live
  <2>6. EmptyStays'
    BY <1>3 DEF Unauthorized, StartsRefresh, Live
  <2> QED
    BY <2>1, <2>2, <2>3, <2>4, <2>5, <2>6 DEF SessionInv
<1>4. ASSUME NEW q \in Requests, RefusedAgain(q) PROVE SessionInv'
  <2>1. SessionTypeOK'
    BY <1>4 DEF RefusedAgain, Refused, Live, OfMe, Unused, Request
  <2>2. TokensAreOwned'
    BY <1>4 DEF RefusedAgain, Refused, Live, OfMe, Unused, Request
  <2>3. OneRefresh'
    BY <1>4 DEF RefusedAgain, Refused, Live, OfMe, Unused, Request
  <2>4. WaitersWait'
    BY <1>4 DEF RefusedAgain, Refused, Live, OfMe, Unused, Request
  <2>5. NothingComesBack'
    BY <1>4 DEF RefusedAgain, Refused, Live, OfMe, Unused, Request
  <2>6. EmptyStays'
    BY <1>4 DEF RefusedAgain, Refused, Live, OfMe, Unused, Request
  <2> QED
    BY <2>1, <2>2, <2>3, <2>4, <2>5, <2>6 DEF SessionInv
<1>5. ASSUME NEW q \in Requests, RotateRefresh(q) PROVE SessionInv'
  <2>0. PICK answer \in Sessions \cup {"refused"} : refresh' = [refresh EXCEPT ![q].answer = answer]
    BY <1>5 DEF RotateRefresh
  <2>a. /\ refresh[q].answer = "pending" /\ refresh[q] \in Refreshes
        /\ refresh'[q] = [sent |-> refresh[q].sent, answer |-> answer]
        /\ refresh'[q] \in Refreshes /\ refresh'[q] # NoRefresh
        /\ refresh' \in [Requests -> Refreshes \cup {NoRefresh}]
        /\ \A r \in Requests \ {q} : refresh'[r] = refresh[r]
    BY <2>0, <1>5 DEF RotateRefresh
  <2>b. /\ active' \subseteq Sessions /\ revoked' \subseteq Sessions /\ reused' \in BOOLEAN
        /\ owner' \in [Sessions -> People \cup {Nobody}]
    BY <1>5 DEF RotateRefresh, OfUser
  <2>1. SessionTypeOK'
    BY <1>5, <2>a, <2>b DEF RotateRefresh
  <2>2. TokensAreOwned'
    <3>1. CASE answer = "refused"
      BY <1>5, <2>a, <3>1 DEF RotateRefresh
    <3>2. CASE answer \in Sessions
      <4>1. /\ refresh[q].sent \in active /\ New # {}
            /\ active' = (active \ {refresh[q].sent}) \cup {Issued}
            /\ owner' = [owner EXCEPT ![Issued] = owner[refresh[q].sent]]
            /\ answer = Issued
        BY <1>5, <2>a, <3>2 DEF RotateRefresh
      <4>2. owner'[Issued] \in People /\ \A s \in Sessions : owner[s] \in People => owner'[s] \in People
        BY <4>1
      <4> QED
        BY <2>a, <4>1, <4>2
    <3> QED
      BY <3>1, <3>2
  <2>3. OneRefresh'
    BY <1>5, <2>a DEF RotateRefresh
  <2>4. WaitersWait'
    BY <1>5 DEF RotateRefresh
  <2>5. NothingComesBack'
    BY <1>5 DEF RotateRefresh
  <2>6. EmptyStays'
    BY <1>5 DEF RotateRefresh
  <2> QED
    BY <2>1, <2>2, <2>3, <2>4, <2>5, <2>6 DEF SessionInv
<1>6. ASSUME NEW q \in Requests, LoseRefresh(q) PROVE SessionInv'
  <2>1. SessionTypeOK'
    BY <1>6 DEF LoseRefresh
  <2>2. TokensAreOwned'
    BY <1>6 DEF LoseRefresh
  <2>3. OneRefresh'
    BY SMTT(60), <1>6 DEF LoseRefresh
  <2>4. WaitersWait'
    BY <1>6 DEF LoseRefresh
  <2>5. NothingComesBack'
    BY <1>6 DEF LoseRefresh
  <2>6. EmptyStays'
    BY <1>6 DEF LoseRefresh
  <2> QED
    BY <2>1, <2>2, <2>3, <2>4, <2>5, <2>6 DEF SessionInv
<1>7. ASSUME NEW q \in Requests, RefreshSucceeds(q) PROVE SessionInv'
  <2>0. Token(owner[refresh[q].answer], TRUE) \in AccessToken
    BY <1>7 DEF RefreshSucceeds, Token
  <2>d. refresh[q].answer # "none"
    BY <1>7 DEF RefreshSucceeds
  <2>a. /\ refresh' = [refresh EXCEPT ![q] = NoRefresh] /\ refreshing' = refreshing \ {Tab(q)}
        /\ refresh[q] # NoRefresh
    <3>1. refresh[q] # NoRefresh
      BY <2>d DEF NoRefresh
    <3> QED
      BY <1>7, <3>1, Zenon DEF RefreshSucceeds
  <2>e. req' = [r \in Requests |->
                  IF r \in Waiters(Tab(q))
                  THEN [req[r] EXCEPT !.state = "resent",
                                      !.carried = Token(owner[refresh[q].answer], TRUE)]
                  ELSE req[r]]
    BY <1>7, Zenon DEF RefreshSucceeds
  <2>b. ASSUME NEW r \in Requests
        PROVE  /\ req'[r] \in [state : Phases, carried : AccessToken, live : BOOLEAN]
               /\ req'[r].state = "waiting" => req[r].state = "waiting" /\ Tab(r) # Tab(q)
    <3>1. CASE r \in Waiters(Tab(q))
      <4>1. req'[r] = [req[r] EXCEPT !.state = "resent", !.carried = Token(owner[refresh[q].answer], TRUE)]
        BY <2>e, <3>1, Zenon
      <4>2. req[r] \in ARequest /\ "resent" \in Phases
        BY DEF ARequest
      <4>3. req'[r] \in ARequest /\ req'[r].state = "resent"
        <5> HIDE DEF SessionInv, SessionTypeOK, TokensAreOwned, OneRefresh, WaitersWait, NothingComesBack,
            EmptyStays, AccessToken, Phases
        <5> QED
          BY <2>0, <4>1, <4>2 DEF ARequest
      <4> QED
        BY <4>3 DEF ARequest
    <3>2. CASE r \notin Waiters(Tab(q))
      BY <2>e, <3>2 DEF Waiters
    <3> QED
      BY <3>1, <3>2
  <2>c. req' \in [Requests -> [state : Phases, carried : AccessToken, live : BOOLEAN]]
    BY <2>b, <2>e
  <2>f. refresh' \in [Requests -> Refreshes \cup {NoRefresh}] /\ refreshing' \subseteq Tabs
    BY <2>a
  <2>g. token' \in [Tabs -> AccessToken] /\ cookie' \in Sessions
    BY <1>7, <2>0 DEF RefreshSucceeds
  <2>1. SessionTypeOK'
    BY ZenonT(60), <1>7, <2>c, <2>f, <2>g DEF RefreshSucceeds
  <2>2. TokensAreOwned'
    BY <1>7 DEF RefreshSucceeds, Waiters, Token
  <2>3. OneRefresh'
    <3>1. \A r \in Requests : refresh'[r] # NoRefresh => r # q /\ refresh[r] # NoRefresh
      BY <2>a
    <3> QED
      BY <3>1, <2>a
  <2>4. WaitersWait'
    BY <2>a, <2>b
  <2>5. NothingComesBack'
    BY <1>7 DEF RefreshSucceeds, Waiters, Token
  <2>6. EmptyStays'
    BY <1>7 DEF RefreshSucceeds, Waiters, Token
  <2> QED
    BY <2>1, <2>2, <2>3, <2>4, <2>5, <2>6 DEF SessionInv
<1>8. ASSUME NEW q \in Requests, RefreshFails(q) PROVE SessionInv'
  <2>1. SessionTypeOK'
    BY <1>8 DEF RefreshFails, Refused, Waiters, OfMe, Unused, Request
  <2>2. TokensAreOwned'
    BY <1>8 DEF RefreshFails, Refused, Waiters, OfMe, Unused, Request
  <2>3. OneRefresh'
    BY <1>8 DEF RefreshFails, Refused, Waiters, OfMe, Unused, Request
  <2>4. WaitersWait'
    BY <1>8 DEF RefreshFails, Refused, Waiters, OfMe, Unused, Request
  <2>5. NothingComesBack'
    BY <1>8 DEF RefreshFails, Refused, Waiters, OfMe, Unused, Request
  <2>6. EmptyStays'
    BY <1>8 DEF RefreshFails, Refused, Waiters, OfMe, Unused, Request
  <2> QED
    BY <2>1, <2>2, <2>3, <2>4, <2>5, <2>6 DEF SessionInv
<1>9. ASSUME NEW t \in Tabs, NEW u \in People, SignIn(t, u) PROVE SessionInv'
  <2>1. SessionTypeOK'
    BY <1>9 DEF SignIn, calls, bounds, Token
  <2>2. TokensAreOwned'
    BY <1>9 DEF SignIn, calls, bounds, Token
  <2>3. OneRefresh'
    BY <1>9 DEF SignIn, calls, bounds, Token
  <2>4. WaitersWait'
    BY <1>9 DEF SignIn, calls, bounds, Token
  <2>5. NothingComesBack'
    BY <1>9 DEF SignIn, calls, bounds, Token
  <2>6. EmptyStays'
    BY <1>9 DEF SignIn, calls, bounds, Token
  <2> QED
    BY <2>1, <2>2, <2>3, <2>4, <2>5, <2>6 DEF SessionInv
<1>10. ASSUME NEW t \in Tabs, SendLogout(t) PROVE SessionInv'
  <2>1. SessionTypeOK'
    BY <1>10 DEF SendLogout
  <2>2. TokensAreOwned'
    BY <1>10 DEF SendLogout
  <2>3. OneRefresh'
    BY <1>10 DEF SendLogout
  <2>4. WaitersWait'
    BY <1>10 DEF SendLogout
  <2>5. NothingComesBack'
    BY <1>10 DEF SendLogout
  <2>6. EmptyStays'
    BY <1>10 DEF SendLogout
  <2> QED
    BY <2>1, <2>2, <2>3, <2>4, <2>5, <2>6 DEF SessionInv
<1>11. ASSUME NEW t \in Tabs, NEW answered \in BOOLEAN, LogoutSettled(t, answered) PROVE SessionInv'
  <2>0. req' \in [Requests -> [state : Phases, carried : AccessToken, live : BOOLEAN]]
    <3>1. \A r \in Requests : req'[r] = req[r] \/ req'[r] = [req[r] EXCEPT !.live = FALSE]
      BY <1>11, Zenon DEF LogoutSettled
    <3>2. \A r \in Requests : req[r] \in ARequest
      BY DEF ARequest
    <3>3. \A r \in Requests : req'[r] \in ARequest
      <4> HIDE DEF SessionInv, SessionTypeOK, TokensAreOwned, OneRefresh, WaitersWait, NothingComesBack,
            EmptyStays, AccessToken, Phases
      <4> QED
        BY <3>1, <3>2 DEF ARequest
    <3>4. req' = [r \in Requests |-> req'[r]]
      BY <1>11 DEF LogoutSettled
    <3> QED
      BY <3>3, <3>4, Zenon DEF ARequest
  <2>a. lost' \in 0..MaxLost
    BY <1>11 DEF LogoutSettled
  <2>1. SessionTypeOK'
    BY <1>11, <2>0, <2>a DEF LogoutSettled
  <2>2. TokensAreOwned'
    BY <1>11 DEF LogoutSettled
  <2>3. OneRefresh'
    BY <1>11 DEF LogoutSettled
  <2>4. WaitersWait'
    BY <1>11 DEF LogoutSettled
  <2>5. NothingComesBack'
    BY <1>11 DEF LogoutSettled
  <2>6. EmptyStays'
    BY <1>11 DEF LogoutSettled
  <2> QED
    BY <2>1, <2>2, <2>3, <2>4, <2>5, <2>6 DEF SessionInv
<1>12. ASSUME NEW t \in Tabs, NEW answered \in BOOLEAN, ChangePassword(t, answered) PROVE SessionInv'
  <2>1. SessionTypeOK'
    BY <1>12 DEF ChangePassword, Live, OfUser, calls
  <2>2. TokensAreOwned'
    BY <1>12 DEF ChangePassword, Live, OfUser, calls
  <2>3. OneRefresh'
    BY <1>12 DEF ChangePassword, Live, OfUser, calls
  <2>4. WaitersWait'
    BY <1>12 DEF ChangePassword, Live, OfUser, calls
  <2>5. NothingComesBack'
    BY <1>12 DEF ChangePassword, Live, OfUser, calls
  <2>6. EmptyStays'
    BY <1>12 DEF ChangePassword, Live, OfUser, calls
  <2> QED
    BY <2>1, <2>2, <2>3, <2>4, <2>5, <2>6 DEF SessionInv
<1>13. ASSUME NEW t \in Tabs, Reload(t) PROVE SessionInv'
  <2>1. SessionTypeOK'
    BY <1>13 DEF Reload, Unused, Request
  <2>2. TokensAreOwned'
    BY <1>13 DEF Reload, Unused, Request
  <2>3. OneRefresh'
    BY <1>13 DEF Reload, Unused, Request
  <2>4. WaitersWait'
    BY <1>13 DEF Reload, Unused, Request
  <2>5. NothingComesBack'
    BY <1>13 DEF Reload, Unused, Request
  <2>6. EmptyStays'
    BY <1>13 DEF Reload, Unused, Request
  <2> QED
    BY <2>1, <2>2, <2>3, <2>4, <2>5, <2>6 DEF SessionInv
<1>14. ASSUME NEW t \in Tabs, Expire(t) PROVE SessionInv'
  <2>0. token[t] \in [user : People, valid : BOOLEAN]
    BY <1>14 DEF Expire, Live
  <2>a. token' \in [Tabs -> AccessToken]
    BY <1>14, <2>0 DEF Expire
  <2>b. req' \in [Requests -> [state : Phases, carried : AccessToken, live : BOOLEAN]]
    <3>1. \A r \in Requests :
            \/ req'[r] = req[r]
            \/ req[r].carried = token[t] /\ req'[r] = [req[r] EXCEPT !.carried = [@ EXCEPT !.valid = FALSE]]
      BY <1>14, Zenon DEF Expire
    <3>6. \A r \in Requests : req'[r] = req[r] \/ req'[r] = [req[r] EXCEPT !.carried = [token[t] EXCEPT !.valid = FALSE]]
      BY <3>1
    <3>2. \A r \in Requests : req[r] \in ARequest
      BY DEF ARequest
    <3>3. [token[t] EXCEPT !.valid = FALSE] \in AccessToken
      BY <2>0
    <3>4. \A r \in Requests : req'[r] \in ARequest
      <4> HIDE DEF SessionInv, SessionTypeOK, TokensAreOwned, OneRefresh, WaitersWait, NothingComesBack,
            EmptyStays, AccessToken, Phases
      <4> QED
        BY <3>6, <3>2, <3>3 DEF ARequest
    <3>5. req' = [r \in Requests |-> req'[r]]
      BY <1>14 DEF Expire
    <3> QED
      BY <3>4, <3>5, Zenon DEF ARequest
  <2>c. /\ UNCHANGED <<active, revoked, reused, owner, cookie, me, userCached, refreshing, refresh, leaving, cleanly, lost>>
        /\ expired < MaxExpired /\ expired' = expired + 1
    BY <1>14 DEF Expire, sessionServer
  <2>d. expired' \in 0..MaxExpired
    BY <2>c, SessionAssumption
  <2>1. SessionTypeOK'
    <3> HIDE DEF TokensAreOwned, OneRefresh, WaitersWait, NothingComesBack, EmptyStays, SessionInv
    <3>1. SessionTypeOK
      BY DEF SessionInv
    <3> QED
      BY <2>a, <2>b, <2>c, <2>d, <3>1, Zenon DEF SessionTypeOK
  <2>2. TokensAreOwned'
    BY <1>14 DEF Expire, Live
  <2>3. OneRefresh'
    BY <1>14 DEF Expire, Live
  <2>4. WaitersWait'
    BY <1>14 DEF Expire, Live
  <2>5. NothingComesBack'
    BY <1>14 DEF Expire, Live
  <2>6. EmptyStays'
    BY <1>14 DEF Expire, Live
  <2> QED
    BY <2>1, <2>2, <2>3, <2>4, <2>5, <2>6 DEF SessionInv

<1> QED
  BY SMTT(60), <1>1, <1>2, <1>3, <1>4, <1>5, <1>6, <1>7, <1>8, <1>9, <1>10, <1>11, <1>12, <1>13, <1>14
     DEF SessionNext, Answers, Login, AcceptInvite

LEMMA SoleTabStep ==
  ASSUME SessionInv, SessionInv', SessionNext, SoleTabIsKnown
  PROVE  SoleTabIsKnown'
<1> SUFFICES ASSUME Cardinality(Tabs) = 1, lost' = 0
             PROVE  SoleTabIsKnown'
  BY DEF SoleTabIsKnown
<1> USE SessionAssumption, RequestsHaveTabs, IssuedIsFresh
<1>1. PICK tab : Tabs = {tab}
  BY FS_Singleton
<1>2. lost = 0
  <2>1. lost \in Nat
    BY DEF SessionInv, SessionTypeOK
  <2>2. lost' = lost \/ lost' = lost + 1
    BY ZenonT(60) DEF SessionNext, Answers, Login, AcceptInvite, Send, Accepted, Served,
           Unauthorized, RefusedAgain, RotateRefresh, LoseRefresh, RefreshSucceeds, RefreshFails, SignIn,
           SendLogout, LogoutSettled, ChangePassword, Reload, Expire, bounds
  <2> QED
    BY <2>1, <2>2
<1>3. lost' = lost
  BY <1>2
<1> DEFINE AllKnown ==
      /\ ~reused
      /\ \A q \in Requests : /\ refresh[q].answer = "pending" => Known(refresh[q].sent)
                             /\ refresh[q].answer \in Sessions => Known(refresh[q].answer)
      /\ Known(cookie) \/ \E q \in Requests : refresh[q].answer \in Sessions
<1>4. AllKnown
  BY <1>1, <1>2, FS_Singleton DEF SoleTabIsKnown
<1>5. \A q, r \in Requests : Refreshing(q) /\ Refreshing(r) => q = r
  BY <1>1 DEF SessionInv, OneRefresh
<1>6. \A q \in Requests : Refreshing(q) <=> refresh[q].answer # "none"
  BY DEF SessionInv, SessionTypeOK, Refreshing, NoRefresh, Refreshes
<1>7. \A q \in Requests : Refreshing(q) => refreshing = {tab}
  BY <1>1 DEF SessionInv, SessionTypeOK, OneRefresh
<1>8. /\ cookie \in Sessions \cup {NoSession} /\ active \subseteq Sessions
      /\ refresh \in [Requests -> Refreshes \cup {NoRefresh}]
      /\ owner \in [Sessions -> People \cup {Nobody}]
      /\ reused \in BOOLEAN
  BY DEF SessionInv, SessionTypeOK
<1>9. /\ \A q \in Requests : refresh[q].answer = "pending" => refresh[q].sent \in Sessions \cup {NoSession}
      /\ \A q \in Requests : Tab(q) = tab
  BY <1>1, <1>8 DEF Refreshes, NoRefresh
<1> HIDE DEF AllKnown
<1> SUFFICES AllKnown'
  BY DEF AllKnown, SoleTabIsKnown
<1>11. ASSUME NEW q \in Requests, Send(q) \/ Accepted(q) \/ RefusedAgain(q) PROVE AllKnown'
  BY <1>1, <1>3, <1>4, <1>5, <1>6, <1>7, <1>8, <1>9, <1>11 DEF AllKnown, Known, Refreshing, Send, Accepted, RefusedAgain, Served, sessionServer
<1>12. ASSUME NEW q \in Requests, Unauthorized(q) PROVE AllKnown'
  <2>1. UNCHANGED <<active, revoked, reused, cookie>>
    BY <1>12 DEF Unauthorized, sessionServer
  <2>2. CASE tab \in refreshing
    <3>1. UNCHANGED refresh
      BY <1>9, <1>12, <2>2 DEF Unauthorized, StartsRefresh
    <3> QED
      BY <1>4, <2>1, <3>1 DEF AllKnown, Known
  <2>3. CASE tab \notin refreshing
    <3>1. \A r \in Requests : refresh[r].answer = "none"
      BY <1>1, <1>6, <1>7, <2>3
    <3>2. refresh' = [refresh EXCEPT ![q] = [sent |-> cookie, answer |-> "pending"]]
      BY <1>9, <1>12, <2>3 DEF Unauthorized, StartsRefresh
    <3>3. \A r \in Requests : refresh'[r] = refresh[r] \/ refresh'[r] = [sent |-> cookie, answer |-> "pending"]
      BY <1>8, <3>2
    <3>4. Known(cookie)
      BY <1>4, <3>1 DEF AllKnown
    <3> QED
      BY <1>4, <2>1, <3>1, <3>3, <3>4 DEF AllKnown, Known
  <2> QED
    BY <2>2, <2>3
<1>13. ASSUME NEW q \in Requests, RotateRefresh(q) PROVE AllKnown'
  <2> DEFINE s == refresh[q].sent
  <2>1. refresh[q].answer = "pending" /\ Known(s) /\ cookie' = cookie
    BY <1>4, <1>13 DEF AllKnown, RotateRefresh
  <2>2. \A r \in Requests \ {q} : refresh[r].answer = "none"
    BY <1>5, <1>6, <2>1
  <2>3. CASE s \in active
    <3>1. /\ New # {} /\ active' = (active \ {s}) \cup {Issued} /\ UNCHANGED <<revoked, reused>>
          /\ refresh' = [refresh EXCEPT ![q].answer = Issued]
      BY <1>13, <2>3 DEF RotateRefresh
    <3>2. refresh'[q].answer = Issued /\ \A r \in Requests \ {q} : refresh'[r] = refresh[r]
      BY <1>8, <3>1
    <3> QED
      BY <1>4, <2>1, <2>2, <3>1, <3>2 DEF AllKnown, Known
  <2>4. CASE s \notin active
    <3>1. /\ refresh' = [refresh EXCEPT ![q].answer = "refused"]
          /\ \E ended \in SUBSET Sessions : active' = active \ ended /\ revoked' = revoked \cup ended
          /\ reused' = (reused \/ s \notin revoked \cup {NoSession})
      BY <1>8, <1>13, <2>4 DEF RotateRefresh, OfUser
    <3>2. refresh'[q].answer = "refused" /\ \A r \in Requests \ {q} : refresh'[r] = refresh[r]
      BY <1>8, <3>1
    <3>3. ~reused'
      BY <1>4, <2>1, <2>4, <3>1 DEF AllKnown, Known
    <3>4. Known(cookie) /\ Known(cookie)'
      <4>1. Known(cookie)
        BY <1>4, <2>1, <2>2 DEF AllKnown
      <4> QED
        BY <2>1, <3>1, <4>1 DEF Known
    <3> QED
      BY <2>2, <3>2, <3>3, <3>4 DEF AllKnown
  <2> QED
    BY <2>3, <2>4
<1>14. ASSUME NEW q \in Requests, RefreshSucceeds(q) PROVE AllKnown'
  <2>1. /\ UNCHANGED <<active, revoked, reused>> /\ refresh' = [refresh EXCEPT ![q] = NoRefresh]
        /\ cookie' = refresh[q].answer /\ refresh[q].answer \in Sessions
    BY <1>14 DEF RefreshSucceeds, sessionServer
  <2>2. \A r \in Requests \ {q} : refresh[r].answer = "none"
    BY <1>5, <1>6, <2>1
  <2>3. \A r \in Requests : refresh'[r].answer = "none"
    BY <1>8, <2>1, <2>2 DEF NoRefresh
  <2>4. Known(cookie')
    BY <1>4, <2>1, <2>2 DEF AllKnown, Known
  <2> QED
    BY <1>4, <2>1, <2>3, <2>4 DEF AllKnown, Known
<1>15. ASSUME NEW q \in Requests, RefreshFails(q) PROVE AllKnown'
  <2>1. /\ UNCHANGED <<active, revoked, reused>> /\ refresh' = [refresh EXCEPT ![q] = NoRefresh]
        /\ cookie' = cookie /\ refresh[q].answer \in {"refused", "lost"}
    BY <1>15 DEF RefreshFails, sessionServer
  <2>2. \A r \in Requests \ {q} : refresh[r].answer = "none"
    BY <1>5, <1>6, <2>1
  <2>3. \A r \in Requests : refresh'[r].answer = "none"
    BY <1>8, <2>1, <2>2 DEF NoRefresh
  <2>4. Known(cookie')
    BY <1>4, <2>1, <2>2 DEF AllKnown, Known
  <2> QED
    BY <1>4, <2>1, <2>3, <2>4 DEF AllKnown, Known
<1>16. ASSUME NEW t \in Tabs, NEW u \in People, SignIn(t, u) PROVE AllKnown'
  BY <1>1, <1>3, <1>4, <1>5, <1>6, <1>7, <1>8, <1>9, <1>16 DEF AllKnown, Known, Refreshing, SignIn, calls
<1>17. ASSUME NEW t \in Tabs, SendLogout(t) PROVE AllKnown'
  BY <1>1, <1>3, <1>4, <1>5, <1>6, <1>7, <1>8, <1>9, <1>17 DEF AllKnown, Known, Refreshing, SendLogout
<1>18. ASSUME NEW t \in Tabs, NEW answered \in BOOLEAN, LogoutSettled(t, answered) PROVE AllKnown'
  <2>1. UNCHANGED <<active, revoked, reused, refresh>> /\ cookie' \in {cookie, NoSession}
    BY <1>18 DEF LogoutSettled, sessionServer
  <2> QED
    BY <1>4, <2>1 DEF AllKnown, Known
<1>19. ASSUME NEW t \in Tabs, NEW answered \in BOOLEAN, ChangePassword(t, answered) PROVE AllKnown'
  <2>1. /\ New # {} /\ UNCHANGED <<reused, refresh>> /\ answered
        /\ \E ended \in SUBSET Sessions : active' = (active \ ended) \cup {Issued} /\ revoked' = revoked \cup ended
        /\ cookie' = Issued
    <3>1. answered /\ New # {} /\ UNCHANGED <<reused, refresh>>
      BY <1>2, <1>3, <1>19 DEF ChangePassword, calls
    <3>2. OfUser(token[t].user) \in SUBSET Sessions
      BY DEF OfUser
    <3>3. /\ active' = (active \ OfUser(token[t].user)) \cup {Issued}
          /\ revoked' = revoked \cup OfUser(token[t].user)
          /\ cookie' = Issued
      BY <1>19, <3>1 DEF ChangePassword
    <3> QED
      BY <3>1, <3>2, <3>3
  <2> QED
    BY <1>4, <2>1 DEF AllKnown, Known
<1>20. ASSUME NEW t \in Tabs, Reload(t) \/ Expire(t) PROVE AllKnown'
  <2>1. CASE Expire(t)
    BY <1>4, <2>1 DEF Expire, sessionServer, AllKnown, Known
  <2>2. CASE Reload(t)
    <3>1. t \notin refreshing /\ UNCHANGED <<active, revoked, reused, cookie>>
          /\ refresh' = [r \in Requests |-> IF Tab(r) = t THEN NoRefresh ELSE refresh[r]]
      BY <1>2, <1>3, <2>2 DEF Reload, sessionServer
    <3>2. \A r \in Requests : refresh[r].answer = "none" /\ refresh'[r].answer = "none"
      BY <1>1, <1>6, <1>7, <3>1 DEF NoRefresh
    <3> QED
      BY <1>4, <3>1, <3>2 DEF AllKnown, Known
  <2> QED
    BY <1>20, <2>1, <2>2
<1>21. ASSUME NEW q \in Requests, LoseRefresh(q) PROVE AllKnown'
  BY <1>1, <1>3, <1>4, <1>5, <1>6, <1>7, <1>8, <1>9, <1>21 DEF AllKnown, Known, Refreshing, LoseRefresh
<1> QED
  BY <1>11, <1>12, <1>13, <1>14, <1>15, <1>16, <1>17, <1>18, <1>19, <1>20, <1>21
     DEF SessionNext, Answers, Login, AcceptInvite

-----------------------------------------------------------------------------
(* Of tokens in use and on their way, of the one refresh a tab has under   *)
(* way, and of what could still bring a token to a browser from which      *)
(* somebody signed out, what the theorems below rest on.                   *)
THEOREM SessionInvariant == SessionSpec => []SessionInv
<1>1. SessionInit => SessionInv
  <2> HAVE SessionInit
  <2>1. \A q \in Requests : refresh[q] = NoRefresh /\ refresh[q].answer \notin Sessions \cup {"pending"}
    BY SessionAssumption DEF SessionInit, NoRefresh
  <2>2. \A q \in Requests : req[q].state = "idle"
    BY DEF SessionInit, Unused, Request
  <2>3. SessionTypeOK
    <3>1. req \in [Requests -> [state : Phases, carried : AccessToken, live : BOOLEAN]]
      BY DEF SessionInit, AccessToken, Phases, Unused, Request
    <3>2. token \in [Tabs -> AccessToken] /\ me \in [Tabs -> {"loading", "ok", "error"}]
      BY DEF SessionInit, AccessToken
    <3>3. MaxExpired \in Nat /\ MaxLost \in Nat /\ expired = 0 /\ lost = 0
      BY SessionAssumption DEF SessionInit
    <3>4. refresh \in [Requests -> Refreshes \cup {NoRefresh}]
      BY DEF SessionInit
    <3>5. /\ {refreshing, leaving, cleanly} \subseteq SUBSET Tabs
          /\ owner \in [Sessions -> People \cup {Nobody}] /\ userCached \in [Tabs -> SUBSET People]
          /\ active \subseteq Sessions /\ revoked \subseteq Sessions /\ reused \in BOOLEAN
          /\ cookie \in Sessions \cup {NoSession}
      BY DEF SessionInit
    <3>6. expired \in 0..MaxExpired /\ lost \in 0..MaxLost
      BY <3>3
    <3> QED
      BY <3>1, <3>2, <3>4, <3>5, <3>6 DEF SessionTypeOK
  <2> QED
    BY <2>1, <2>2, <2>3 DEF SessionInit, SessionInv, TokensAreOwned, OneRefresh, WaitersWait,
       NothingComesBack, EmptyStays, Refreshing
<1>2. SessionInv /\ [SessionNext]_sessionVars => SessionInv'
  <2>1. CASE UNCHANGED sessionVars
    BY <2>1 DEF sessionVars, sessionServer, memory, calls, bounds, SessionInv, SessionTypeOK,
       TokensAreOwned, OneRefresh, WaitersWait, NothingComesBack, EmptyStays, Refreshing
  <2> QED
    BY <2>1, SessionStep
<1> QED
  BY <1>1, <1>2, PTL DEF SessionSpec

(* Every variable of the sessions keeps its type.                          *)
THEOREM SessionTyped == SessionSpec => []SessionTypeOK
<1>1. SessionInv => SessionTypeOK
  BY DEF SessionInv
<1> QED
  BY <1>1, SessionInvariant, PTL

(* A tab from which somebody signed out shows nothing of theirs, for any   *)
(* number of tabs, requests and people: no answer that comes late brings   *)
(* the user or the token back.                                             *)
THEOREM SignedOutAlwaysEmpty == SessionSpec => []SignedOutIsEmpty
<1>1. SessionInv => SignedOutIsEmpty
  BY DEF SessionInv, SessionTypeOK, EmptyStays, SignedOutIsEmpty, Screen
<1> QED
  BY <1>1, SessionInvariant, PTL

(* With one tab the refresh token is never the reason to be signed out,    *)
(* whatever expires and whichever answers are lost: the rotation of        *)
(* refresh tokens locks nobody out. Two tabs are excluded, see the         *)
(* hazards.                                                                *)
THEOREM SoleTabNeverRevoked == SessionSpec => []SoleTabIsNeverRevoked
<1>1. SessionInit => SoleTabIsKnown
  BY SessionAssumption DEF SessionInit, SoleTabIsKnown, Known, NoRefresh
<1>2. SessionInv /\ SessionInv' /\ SoleTabIsKnown /\ [SessionNext]_sessionVars => SoleTabIsKnown'
  <2>1. CASE UNCHANGED sessionVars
    BY <2>1 DEF sessionVars, sessionServer, memory, calls, bounds, SoleTabIsKnown, Known
  <2> QED
    BY <2>1, SoleTabStep
<1>3. SoleTabIsKnown => SoleTabIsNeverRevoked
  BY DEF SoleTabIsKnown, SoleTabIsNeverRevoked
<1> QED
  BY <1>1, <1>2, <1>3, SessionInvariant, PTL DEF SessionSpec

-----------------------------------------------------------------------------
(* ScreeningSocket                                                         *)
Codes == {"token", "displaced", "forbidden"}
(* What the server tells a tab while n segments are stored.                *)
Messages(n) == ({"hello"} \X Nat) \cup ({"final"} \X (1..n)) \cup ({"close"} \X Codes) \cup {<<"limit">>}
Conns == {"none", "read", "waiting", "serving", "closing"}
Links == {"off", "timer", "connecting", "open", "refreshing", "down"}
SocketData ==
  /\ stored \in Nat /\ openings \in Nat
  /\ streamer \in RoomTabs \cup {NoTab} /\ speechTo \in RoomTabs \cup {NoTab}
  /\ conn \in [RoomTabs -> Conns] /\ link \in [RoomTabs -> Links]
  /\ killed \in [RoomTabs -> {"no", "stopped", "auth", "displaced", "forbidden", "limit"}]
  /\ authTries \in [RoomTabs -> 0..MaxAuthRetries] /\ helloSeq \in [RoomTabs -> Nat]
  /\ pipe \in [RoomTabs -> Seq(Messages(stored))]
  /\ shownSegs \in [RoomTabs -> SUBSET (1..stored)]
  /\ backfill \in [RoomTabs -> (0..stored) \cup {NoBackfill}]
DownIsKilled == \A t \in RoomTabs : link[t] = "down" <=> killed[t] # "no"
SocketInv == SocketData /\ DownIsKilled

LEMMA MessageQueued ==
  ASSUME SocketData, NEW t \in RoomTabs, NEW m \in Messages(stored)
  PROVE  [pipe EXCEPT ![t] = Append(@, m)] \in [RoomTabs -> Seq(Messages(stored))]
<1>1. Append(pipe[t], m) \in Seq(Messages(stored)) BY AppendProperties DEF SocketData
<1> QED BY <1>1 DEF SocketData

LEMMA QueueEmptied ==
  ASSUME SocketData, NEW t \in RoomTabs
  PROVE  /\ [pipe EXCEPT ![t] = <<>>] \in [RoomTabs -> Seq(Messages(stored))]
         /\ pipe[t] # <<>> => /\ [pipe EXCEPT ![t] = Tail(@)] \in [RoomTabs -> Seq(Messages(stored))]
                              /\ Head(pipe[t]) \in Messages(stored)
<1>1. <<>> \in Seq(Messages(stored)) OBVIOUS
<1>2. ASSUME pipe[t] # <<>> PROVE Tail(pipe[t]) \in Seq(Messages(stored)) /\ Head(pipe[t]) \in Messages(stored)
  BY <1>2, HeadTailProperties DEF SocketData
<1> QED BY <1>1, <1>2 DEF SocketData

LEMMA SocketStep == SocketInv /\ [SocketNext]_socketVars => SocketInv'
<1> SUFFICES ASSUME SocketInv, [SocketNext]_socketVars PROVE SocketInv' OBVIOUS
<1>0. SocketData /\ DownIsKilled BY DEF SocketInv
<1> USE DEF Conns, Links
<1>b. MaxAuthRetries \in Nat /\ 0 \in 0..MaxAuthRetries BY SocketAssumption
<1>c. 0 \in 0..stored /\ stored \in 0..stored BY <1>0 DEF SocketData
<1>d. pipe \in [RoomTabs -> Seq(Messages(stored))] BY <1>0 DEF SocketData
<1>1. CASE UNCHANGED socketVars
  BY <1>0, <1>1 DEF socketVars, serverVars, tabVars, SocketInv, SocketData, DownIsKilled
<1>2. ASSUME NEW t \in RoomTabs, OpenRoom(t) \/ Reconnect(t) PROVE SocketInv'
  <2>1. pipe' \in [RoomTabs -> Seq(Messages(stored))]
    BY <1>0, <1>2, QueueEmptied DEF OpenRoom, Reconnect, FreshLink
  <2>a. FreshLink(t) /\ openings' = openings + 1 /\ UNCHANGED <<stored, helloSeq, shownSegs, backfill>>
    BY <1>2 DEF OpenRoom, Reconnect
  <2>b. /\ authTries' \in [RoomTabs -> 0..MaxAuthRetries] /\ conn' \in [RoomTabs -> Conns]
        /\ link' \in [RoomTabs -> Links]
        /\ killed' \in [RoomTabs -> {"no", "stopped", "auth", "displaced", "forbidden", "limit"}]
    BY <1>0, <1>b, <2>a DEF FreshLink, SocketData
  <2>2. SocketData' BY <1>0, <2>1, <2>a, <2>b DEF FreshLink, SocketData
  <2>3. DownIsKilled' BY <1>0, <1>2 DEF OpenRoom, Reconnect, FreshLink, SocketData, DownIsKilled
  <2> QED BY <2>2, <2>3 DEF SocketInv
<1>3. ASSUME NEW t \in RoomTabs, CloseRoom(t) PROVE SocketInv'
  <2>1. pipe' \in [RoomTabs -> Seq(Messages(stored))] BY <1>0, <1>3, QueueEmptied DEF CloseRoom
  <2>2. SocketData' BY <1>0, <1>b, <1>3, <2>1 DEF CloseRoom, SocketData
  <2>3. DownIsKilled' BY <1>0, <1>3 DEF CloseRoom, SocketData, DownIsKilled
  <2> QED BY <2>2, <2>3 DEF SocketInv
<1>4. ASSUME NEW t \in RoomTabs, StopStream(t) PROVE SocketInv'
  <2>1. pipe' \in [RoomTabs -> Seq(Messages(stored))] BY <1>0, <1>4, QueueEmptied DEF StopStream
  <2>2. SocketData' BY <1>0, <1>4, <2>1 DEF StopStream, SocketData
  <2>3. DownIsKilled' BY <1>0, <1>4 DEF StopStream, SocketData, DownIsKilled
  <2> QED BY <2>2, <2>3 DEF SocketInv
<1>5. ASSUME NEW t \in RoomTabs, TimerFires(t) \/ RefreshTokenAndReconnect(t) PROVE SocketInv'
  <2>2. SocketData'
    BY <1>0, <1>5 DEF TimerFires, RefreshTokenAndReconnect, ScheduleReconnect, serverVars, SocketData
  <2>3. DownIsKilled'
    BY <1>0, <1>5 DEF TimerFires, RefreshTokenAndReconnect, ScheduleReconnect, SocketData, DownIsKilled
  <2> QED BY <2>2, <2>3 DEF SocketInv
<1>6. ASSUME NEW t \in RoomTabs, AcceptConnection(t) PROVE SocketInv'
  <2>0. <<"close", "forbidden">> \in Messages(stored) BY DEF Messages, Codes
  <2>1. pipe' \in [RoomTabs -> Seq(Messages(stored))]
    <3>1. [pipe EXCEPT ![t] = Append(@, <<"close", "forbidden">>)] \in [RoomTabs -> Seq(Messages(stored))]
      BY <1>0, <2>0, MessageQueued
    <3> QED BY <3>1, <1>d, <1>6 DEF AcceptConnection, Tell
  <2>a. /\ authTries' \in [RoomTabs -> 0..MaxAuthRetries] /\ link' \in [RoomTabs -> Links]
    BY <1>0, <1>b, <1>6 DEF AcceptConnection, OnOpen, SocketData
  <2>c. /\ conn' = conn \/ conn' = [conn EXCEPT ![t] = "read"]
        /\ helloSeq' = helloSeq \/ helloSeq' = [helloSeq EXCEPT ![t] = stored]
    BY <1>6, Zenon DEF AcceptConnection
  <2>b. conn' \in [RoomTabs -> Conns] /\ helloSeq' \in [RoomTabs -> Nat]
    <3>1. /\ conn \in [RoomTabs -> Conns] /\ helloSeq \in [RoomTabs -> Nat]
          /\ "read" \in Conns /\ stored \in Nat
      BY <1>0 DEF SocketData, Conns
    <3> QED BY <2>c, <3>1
  <2>2. SocketData' BY <1>0, <1>6, <2>1, <2>a, <2>b DEF AcceptConnection, SocketData
  <2>3. DownIsKilled' BY <1>0, <1>6 DEF AcceptConnection, OnOpen, SocketData, DownIsKilled
  <2> QED BY <2>2, <2>3 DEF SocketInv
<1>7. ASSUME NEW t \in RoomTabs, RefuseToken(t) PROVE SocketInv'
  <2>0. <<"close", "token">> \in Messages(stored) BY DEF Messages, Codes
  <2>1. pipe' \in [RoomTabs -> Seq(Messages(stored))] BY <1>0, <1>7, <2>0, MessageQueued DEF RefuseToken, Tell
  <2>2. SocketData' BY <1>0, <1>b, <1>7, <2>1 DEF RefuseToken, OnOpen, serverVars, SocketData
  <2>3. DownIsKilled' BY <1>0, <1>7 DEF RefuseToken, OnOpen, SocketData, DownIsKilled
  <2> QED BY <2>2, <2>3 DEF SocketInv
<1>8. ASSUME NEW t \in RoomTabs, Register(t) PROVE SocketInv'
  <2>0. <<"close", "displaced">> \in Messages(stored) /\ <<"hello", helloSeq[t]>> \in Messages(stored)
    BY <1>0 DEF Messages, Codes, SocketData
  <2>1. pipe' \in [RoomTabs -> Seq(Messages(stored))]
    <3>1. \A u \in RoomTabs : /\ Append(pipe[u], <<"close", "displaced">>) \in Seq(Messages(stored))
                              /\ Append(pipe[u], <<"hello", helloSeq[t]>>) \in Seq(Messages(stored))
                              /\ pipe[u] \in Seq(Messages(stored))
      BY <1>0, <2>0, AppendProperties DEF SocketData
    <3> QED BY <3>1, <1>8 DEF Register
  <2>2. SocketData' BY <1>0, <1>8, <2>1 DEF Register, SocketData
  <2>3. DownIsKilled' BY <1>0, <1>8 DEF Register, DownIsKilled
  <2> QED BY <2>2, <2>3 DEF SocketInv
<1>9. ASSUME NEW t \in RoomTabs, TakeBridge(t) \/ Release(t) PROVE SocketInv'
  <2>2. SocketData' BY <1>0, <1>9 DEF TakeBridge, Release, tabVars, SocketData
  <2>3. DownIsKilled' BY <1>0, <1>9 DEF TakeBridge, Release, tabVars, DownIsKilled
  <2> QED BY <2>2, <2>3 DEF SocketInv
<1>10. CASE HoldExpires
  BY <1>0, <1>10 DEF HoldExpires, tabVars, SocketInv, SocketData, DownIsKilled
<1>11. CASE Speech
  <2>0. stored' = stored + 1 /\ stored' \in Nat BY <1>0, <1>11 DEF Speech, SocketData
  <2>1. Messages(stored) \subseteq Messages(stored') /\ 1..stored \subseteq 1..stored'
        /\ 0..stored \subseteq 0..stored' /\ <<"final", stored'>> \in Messages(stored')
    BY <2>0, <1>0 DEF Messages, SocketData
  <2>2. \A t \in RoomTabs : pipe[t] \in Seq(Messages(stored'))
    <3>1. Seq(Messages(stored)) \subseteq Seq(Messages(stored'))
      <4> SUFFICES ASSUME NEW s \in Seq(Messages(stored)) PROVE s \in Seq(Messages(stored')) OBVIOUS
      <4>1. s \in [1..Len(s) -> Messages(stored)] /\ Len(s) \in Nat OBVIOUS
      <4>2. s \in [1..Len(s) -> Messages(stored')] BY <4>1, <2>1
      <4> QED BY <4>1, <4>2, SeqDef
    <3> QED BY <3>1, <1>0 DEF SocketData
  <2>3. \A t \in RoomTabs : Append(pipe[t], <<"final", stored'>>) \in Seq(Messages(stored'))
    BY <2>1, <2>2, AppendProperties
  <2>4. pipe' \in [RoomTabs -> Seq(Messages(stored'))]
    BY <2>2, <2>3, <1>0, <1>11 DEF Speech, Tell, SocketData
  <2>5. /\ shownSegs' \in [RoomTabs -> SUBSET (1..stored')]
        /\ backfill' \in [RoomTabs -> (0..stored') \cup {NoBackfill}]
    BY <2>1, <1>0, <1>11 DEF Speech, SocketData
  <2>6. SocketData' BY <2>0, <2>4, <2>5, <1>0, <1>11 DEF Speech, SocketData
  <2>7. DownIsKilled' BY <1>0, <1>11 DEF Speech, DownIsKilled
  <2> QED BY <2>6, <2>7 DEF SocketInv
<1>12. CASE MeetingEnds
  <2>0. <<"limit">> \in Messages(stored) BY DEF Messages
  <2>1. pipe' \in [RoomTabs -> Seq(Messages(stored))]
    <3>1. streamer # NoTab => [pipe EXCEPT ![streamer] = Append(@, <<"limit">>)] \in [RoomTabs -> Seq(Messages(stored))]
      <4>1. streamer # NoTab => streamer \in RoomTabs BY <1>0 DEF SocketData
      <4> QED BY <4>1, <1>0, <2>0, MessageQueued
    <3> QED BY <3>1, <1>d, <1>12 DEF MeetingEnds, Tell
  <2>2. SocketData' BY <1>0, <1>12, <2>1 DEF MeetingEnds, SocketData
  <2>3. DownIsKilled' BY <1>0, <1>12 DEF MeetingEnds, DownIsKilled
  <2> QED BY <2>2, <2>3 DEF SocketInv
<1>13. ASSUME NEW t \in RoomTabs, OnMessage(t) PROVE SocketInv'
  <2> DEFINE m == Head(pipe[t])
  <2>0. link[t] = "open" /\ killed[t] = "no" /\ m \in Messages(stored) /\ pipe[t] # <<>>
    BY <1>0, <1>13, QueueEmptied DEF OnMessage, DownIsKilled, SocketData
  <2>u. UNCHANGED <<stored, helloSeq, openings>> BY <1>13 DEF OnMessage
  <2>1. CASE m[1] = "hello"
    <3>1. pipe' \in [RoomTabs -> Seq(Messages(stored))] /\ UNCHANGED <<link, killed, authTries, shownSegs, conn, streamer, speechTo>>
      BY <2>1, <2>0, <1>0, <1>13, QueueEmptied DEF OnMessage
    <3>2. backfill' \in [RoomTabs -> (0..stored) \cup {NoBackfill}]
      <4>1. backfill' \in {backfill, [backfill EXCEPT ![t] = 0]} BY <2>1, <1>13 DEF OnMessage
      <4>2. backfill \in [RoomTabs -> (0..stored) \cup {NoBackfill}] BY <1>0 DEF SocketData
      <4> QED BY <4>1, <4>2, <1>c
    <3> QED BY <3>1, <3>2, <2>u, <1>0 DEF SocketInv, SocketData, DownIsKilled
  <2>2. CASE m[1] = "final"
    <3>1. pipe' \in [RoomTabs -> Seq(Messages(stored))] /\ UNCHANGED <<link, killed, authTries, backfill, conn, streamer, speechTo>>
      BY <2>2, <2>0, <1>0, <1>13, QueueEmptied DEF OnMessage
    <3>2. m[2] \in 1..stored BY <2>0, <2>2 DEF Messages
    <3>3. shownSegs' \in [RoomTabs -> SUBSET (1..stored)]
      <4>1. shownSegs' = [shownSegs EXCEPT ![t] = @ \cup {m[2]}] BY <2>2, <1>13 DEF OnMessage
      <4>2. shownSegs \in [RoomTabs -> SUBSET (1..stored)] BY <1>0 DEF SocketData
      <4> HIDE DEF m
      <4> QED BY <4>1, <4>2, <3>2
    <3> QED BY <3>1, <3>3, <2>u, <1>0 DEF SocketInv, SocketData, DownIsKilled
  <2>3. CASE m[1] \notin {"hello", "final"}
    <3> DEFINE code == IF m[1] = "limit" THEN "limit" ELSE m[2]
    <3>0. code \in {"token", "displaced", "forbidden", "limit"} BY <2>0, <2>3 DEF Messages, Codes
    <3>1. /\ AfterClose(t, code) /\ pipe' = [pipe EXCEPT ![t] = <<>>]
          /\ conn' = [conn EXCEPT ![t] = IF @ = "closing" THEN @ ELSE "none"]
          /\ streamer' = (IF streamer = t THEN NoTab ELSE streamer)
          /\ speechTo' = (IF speechTo = t THEN NoTab ELSE speechTo)
          /\ UNCHANGED <<shownSegs, backfill>>
      BY <2>3, <1>13 DEF OnMessage
    <3> HIDE DEF code
    <3>2. pipe' \in [RoomTabs -> Seq(Messages(stored))] BY <3>1, <1>0, QueueEmptied
    <3>3. /\ link' \in [RoomTabs -> Links] /\ authTries' \in [RoomTabs -> 0..MaxAuthRetries]
          /\ killed' \in [RoomTabs -> {"no", "stopped", "auth", "displaced", "forbidden", "limit"}]
      <4>1. CASE code = "token" /\ authTries[t] >= MaxAuthRetries
        BY <4>1, <3>1, <1>0 DEF AfterClose, SocketData
      <4>2. CASE code = "token" /\ ~(authTries[t] >= MaxAuthRetries)
        <5>1. authTries[t] + 1 \in 0..MaxAuthRetries BY <4>2, <1>0, <1>b DEF SocketData
        <5> QED BY <4>2, <5>1, <3>1, <1>0 DEF AfterClose, SocketData
      <4>3. CASE code \in {"displaced", "forbidden", "limit"}
        BY <4>3, <3>1, <1>0 DEF AfterClose, SocketData
      <4> QED BY <4>1, <4>2, <4>3, <3>0
    <3>4. SocketData' BY <3>1, <3>2, <3>3, <2>u, <1>0 DEF SocketData
    <3>5. \A u \in RoomTabs \ {t} : link'[u] = link[u] /\ killed'[u] = killed[u]
      BY <3>0, <3>1, <1>0 DEF AfterClose, SocketData
    <3>6. link'[t] = "down" <=> killed'[t] # "no"
      BY <3>0, <3>1, <2>0, <1>0 DEF AfterClose, SocketData
    <3> QED BY <3>4, <3>5, <3>6, <1>0 DEF SocketInv, DownIsKilled
  <2> QED BY <2>1, <2>2, <2>3
<1>14. ASSUME NEW t \in RoomTabs, ConnectionLost(t) PROVE SocketInv'
  <2>1. pipe' \in [RoomTabs -> Seq(Messages(stored))] BY <1>0, <1>14, QueueEmptied DEF ConnectionLost
  <2>2. SocketData' BY <1>0, <1>14, <2>1 DEF ConnectionLost, ScheduleReconnect, SocketData
  <2>3. DownIsKilled' BY <1>0, <1>14 DEF ConnectionLost, ScheduleReconnect, SocketData, DownIsKilled
  <2> QED BY <2>2, <2>3 DEF SocketInv
<1>15. ASSUME NEW t \in RoomTabs, ReadSegments(t) \/ SegmentsFail(t) PROVE SocketInv'
  <2>1. backfill' \in [RoomTabs -> (0..stored) \cup {NoBackfill}]
    BY <1>0, <1>c, <1>15 DEF ReadSegments, SegmentsFail, SocketData
  <2>2. SocketData' BY <1>0, <1>15, <2>1 DEF ReadSegments, SegmentsFail, serverVars, SocketData
  <2>3. DownIsKilled' BY <1>0, <1>15 DEF ReadSegments, SegmentsFail, DownIsKilled
  <2> QED BY <2>2, <2>3 DEF SocketInv
<1>16. ASSUME NEW t \in RoomTabs, SegmentsArrive(t) PROVE SocketInv'
  <2>1. 1..backfill[t] \subseteq 1..stored BY <1>0, <1>16 DEF SegmentsArrive, SocketData
  <2>2. SocketData' BY <1>0, <1>16, <2>1 DEF SegmentsArrive, MergeSegments, serverVars, SocketData
  <2>3. DownIsKilled' BY <1>0, <1>16 DEF SegmentsArrive, DownIsKilled
  <2> QED BY <2>2, <2>3 DEF SocketInv
<1> QED BY <1>1, <1>2, <1>3, <1>4, <1>5, <1>6, <1>7, <1>8, <1>9, <1>10, <1>11, <1>12, <1>13, <1>14,
        <1>15, <1>16 DEF SocketNext, ConnectionGoesOn

(* What travels to a tab of the meeting room is a segment that is stored,  *)
(* a greeting or a reason to close, and who is down was told so.           *)
THEOREM SocketInvariant == SocketSpec => []SocketInv
<1>1. SocketInit => SocketInv
  <2> SUFFICES ASSUME SocketInit PROVE SocketInv OBVIOUS
  <2>1. \A S : <<>> \in Seq(S) OBVIOUS
  <2>2. MaxAuthRetries \in Nat BY SocketAssumption
  <2> QED BY <2>1, <2>2 DEF SocketInit, EveryTab, SocketInv, SocketData, DownIsKilled, Conns, Links
<1> QED BY <1>1, SocketStep, PTL DEF SocketSpec

(* Every variable of the sockets of the meeting room keeps its type.       *)
THEOREM SocketTyped == SocketSpec => []SocketTypeOK
<1>1. SocketInv => SocketTypeOK
  <2> SUFFICES ASSUME SocketInv PROVE SocketTypeOK OBVIOUS
  <2>1. \A t \in RoomTabs : shownSegs[t] \subseteq 1..stored /\ authTries[t] <= MaxAuthRetries
    BY SocketAssumption DEF SocketInv, SocketData
  <2> QED BY <2>1 DEF SocketInv, SocketData, DownIsKilled, SocketTypeOK, Conns, Links
<1> QED BY <1>1, SocketInvariant, PTL

LEMMA SegmentsStay ==
  ASSUME SocketInv, [SocketNext]_socketVars, NEW t \in RoomTabs, link'[t] # "off"
  PROVE  shownSegs[t] \subseteq shownSegs'[t]
<1>0. SocketData BY DEF SocketInv
<1>1. ASSUME NEW u \in RoomTabs, CloseRoom(u) PROVE shownSegs[t] \subseteq shownSegs'[t]
  BY <1>0, <1>1 DEF CloseRoom, SocketData
<1>2. ASSUME NEW u \in RoomTabs, OnMessage(u) PROVE shownSegs[t] \subseteq shownSegs'[t]
  <2> DEFINE m == Head(pipe[u])
  <2>1. shownSegs' = shownSegs \/ shownSegs' = [shownSegs EXCEPT ![u] = @ \cup {m[2]}]
    <3>1. CASE m[1] = "hello" BY <1>2, <3>1 DEF OnMessage
    <3>2. CASE m[1] = "final" BY <1>2, <3>2 DEF OnMessage
    <3>3. CASE m[1] \notin {"hello", "final"} BY <1>2, <3>3 DEF OnMessage
    <3> QED BY <3>1, <3>2, <3>3
  <2> HIDE DEF m
  <2> QED BY <1>0, <2>1 DEF SocketData
<1>3. ASSUME NEW u \in RoomTabs, SegmentsArrive(u) PROVE shownSegs[t] \subseteq shownSegs'[t]
  BY <1>0, <1>3 DEF SegmentsArrive, MergeSegments, SocketData
<1>4. CASE UNCHANGED shownSegs BY <1>4
<1> QED BY <1>1, <1>2, <1>3, <1>4 DEF SocketNext, ConnectionGoesOn, socketVars, tabVars, OpenRoom, Reconnect,
      StopStream, TimerFires, AcceptConnection, RefuseToken, Register, TakeBridge, Release, HoldExpires,
      Speech, MeetingEnds, RefreshTokenAndReconnect, ConnectionLost, ReadSegments, SegmentsFail

LEMMA DisplacedStays ==
  ASSUME SocketInv, [SocketNext]_socketVars, NEW t \in RoomTabs, killed[t] = "displaced",
         link'[t] = "connecting"
  PROVE  openings' > openings
<1>0. SocketData /\ link[t] = "down" BY DEF SocketInv, DownIsKilled
<1>1. ASSUME NEW u \in RoomTabs, OpenRoom(u) \/ Reconnect(u) PROVE openings' > openings
  BY <1>0, <1>1 DEF OpenRoom, Reconnect, SocketData
<1>2. link'[t] # link[t] BY <1>0
<1>3. ASSUME NEW u \in RoomTabs,
             \/ CloseRoom(u) \/ StopStream(u) \/ TimerFires(u) \/ AcceptConnection(u) \/ RefuseToken(u)
             \/ RefreshTokenAndReconnect(u) \/ ConnectionLost(u)
      PROVE  FALSE
  <2>1. u = t => link[u] = "down" BY <1>0
  <2> QED BY <1>0, <1>2, <1>3, <2>1 DEF CloseRoom, StopStream, TimerFires, AcceptConnection, RefuseToken, OnOpen,
          RefreshTokenAndReconnect, ConnectionLost, ScheduleReconnect, SocketData
<1>4. ASSUME NEW u \in RoomTabs, OnMessage(u) PROVE FALSE
  BY <1>0, <1>2, <1>4 DEF OnMessage, AfterClose, ScheduleReconnect, SocketData
<1> QED BY <1>1, <1>2, <1>3, <1>4 DEF SocketNext, ConnectionGoesOn, socketVars, tabVars,
      Register, TakeBridge, Release, HoldExpires, Speech, MeetingEnds, ReadSegments, SegmentsArrive, SegmentsFail

(* A segment on the screen of a tab stays there while its room is open,    *)
(* whatever connections break, are displaced or are opened again, and in   *)
(* whatever order the segments that were read again arrive.                *)
THEOREM ShownAlwaysStays == SocketSpec => ShownStaysShown
<1>1. SocketInv /\ [SocketNext]_socketVars =>
        \A t \in RoomTabs : (link'[t] # "off") => (shownSegs[t] \subseteq shownSegs'[t])
  BY SegmentsStay
<1> QED BY <1>1, SocketInvariant, PTL DEF SocketSpec, ShownStaysShown

(* A room that another tab displaced does not connect by itself, for any   *)
(* number of tabs: two tabs never throw each other out in turn.            *)
THEOREM DisplacedAlwaysWaits == SocketSpec => DisplacedWaits
<1>1. SocketInv /\ [SocketNext]_socketVars =>
        \A t \in RoomTabs : killed[t] = "displaced" /\ link'[t] = "connecting" => openings' > openings
  BY DisplacedStays
<1> QED BY <1>1, SocketInvariant, PTL DEF SocketSpec, DisplacedWaits
=============================================================================
