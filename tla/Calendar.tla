------------------------------- MODULE Calendar -------------------------------
(***************************************************************************)
(* The calendar of interviews: the day, week and month pages over the      *)
(* query cache, the sheet that creates or edits an event, the sheet that   *)
(* shows one, the drag of an event over the grid, and how the events of a  *)
(* day are laid out side by side.                                          *)
(*                                                                         *)
(* Time is counted in quarters of an hour from the first midnight. The     *)
(* week and the month shown hold every day of the model. The filters of    *)
(* the page (they only make more keys), titles, places, attendees and the  *)
(* links to candidates and vacancies are abstracted.                       *)
(***************************************************************************)
EXTENDS Integers, FiniteSets, SequencesExt

CONSTANTS
  CalEvents,       \* identifiers of events
  CalDays,         \* number of days
  CalKinds,        \* bound: the pages turned to, of "day", "week" and "month"
  DaySlots,        \* quarters of an hour in a day
  HourSlots,       \* quarters of an hour in an hour
  DefaultSlot,     \* the quarter the month page proposes (10:00)
  Places,          \* bound: the quarters of a day the pointer and the form pick
  NoEvent,         \* no event, an event that does not exist
  NoEnd,           \* an event without an end
  NoCalRead,       \* nothing fetched, or being fetched
  CalAsking,       \* a fetch the server has not answered yet
  MaxCalOps        \* bound: requests of this person and changes by colleagues

ASSUME CalendarAssumption ==
  /\ IsFiniteSet(CalEvents)
  /\ Places \subseteq 0 .. DaySlots - 1
  /\ "week" \in CalKinds /\ CalKinds \subseteq {"day", "week", "month"}
  /\ {CalDays, DaySlots, HourSlots} \subseteq Nat \ {0}
  /\ {DefaultSlot, MaxCalOps} \subseteq Nat

VARIABLES
  calStore,   \* the events in the database
  calData,    \* per key of the query cache, the events it holds
  calStale,   \* the keys that were invalidated
  calDoubt,   \* auxiliary: keys that may miss a change, and why, see CalWhys
  calLate,    \* auxiliary: the same for the answer on its way to the page
  calFetch,   \* the fetch of the shown key
  calView,    \* the page shown
  calSheet,   \* the sheet on top of the page
  calNote,    \* the event whose outcome is in the text box of the detail sheet
  calJobs,    \* requests under way
  calOps      \* requests of this person and changes by colleagues so far

calVars == <<calStore, calData, calStale, calDoubt, calLate, calFetch, calView, calSheet,
             calNote, calJobs, calOps>>

\* The days shown, and the quarters of an hour up to the end of the day after.
Midnights == 0 .. CalDays - 1
Times == 0 .. (CalDays + 1) * DaySlots
DayOf(t) == t \div DaySlots

\* An event may end before it begins, and a drag may take its end to any day.
EventRecords == [start : Nat, end : Int \cup {NoEnd},
                 status : {"scheduled", "held", "no_show", "canceled"},
                 note : CalEvents \cup {NoEvent}]

CalExisting(s) == {e \in CalEvents : s[e] # NoEvent}

Views == {v \in CalKinds \X Midnights : v[1] = "day" \/ v[2] = 0}

\* The events of the range of a key.
InRange(s, k) == [e \in CalEvents |->
   IF s[e] # NoEvent /\ DayOf(s[e].start) \in (IF k[1] = "day" THEN {k[2]} ELSE Midnights)
   THEN s[e] ELSE NoEvent]

CalShown == calData[calView]

(***************************************************************************)
(* Why a range may miss a change, from the events that cause it: the page  *)
(* was not told of it (a colleague, a lost answer), or it was told while   *)
(* the first load of the range was under way and already read by the       *)
(* server: a success fetches a range anew only when it has one.            *)
(***************************************************************************)
CalWhys == {"untold", "first load"}

\* The server has read the answer of the fetch under way.
CalOnItsWay == calFetch \notin {NoCalRead, CalAsking}

CalLateFor(why) == IF CalOnItsWay THEN calLate \cup {why} ELSE calLate

\* The end an event is drawn with: an hour after its start when it has none.
EndOf(r) == IF r.end = NoEnd THEN r.start + HourSlots ELSE r.end

-----------------------------------------------------------------------------
(***************************************************************************)
(* Layout of one day: the events, earliest first, each in the first lane   *)
(* whose last event is over; an event that starts after all of them are    *)
(* over begins a new cluster, whose lanes share the width of the day.      *)
(***************************************************************************)
Earlier(s, e, f) ==
  \/ s[e].start < s[f].start
  \/ s[e].start = s[f].start /\ EndOf(s[e]) < EndOf(s[f])

FreeLanes(ends, start) == {i \in DOMAIN ends : ends[i] <= start}

Lane(ends, start) ==
  IF FreeLanes(ends, start) = {} THEN Len(ends) + 1
  ELSE CHOOSE i \in FreeLanes(ends, start) : \A j \in FreeLanes(ends, start) : i <= j

PlaceEvent(s, acc, e) ==
  LET fresh == s[e].start >= acc.over
      ends  == IF fresh THEN <<>> ELSE acc.ends
      lane  == Lane(ends, s[e].start)
      end   == EndOf(s[e])
  IN [cluster |-> IF fresh THEN acc.cluster + 1 ELSE acc.cluster,
      ends    |-> IF lane > Len(ends) THEN Append(ends, end) ELSE [ends EXCEPT ![lane] = end],
      over    |-> IF fresh \/ end > acc.over THEN end ELSE acc.over,
      slots   |-> [acc.slots EXCEPT ![e] = <<IF fresh THEN acc.cluster + 1 ELSE acc.cluster, lane>>]]

\* The layout as it is after each of the events q, in their order.
Placings(s, q) ==
  LET placed[n \in 0 .. Len(q)] ==
        IF n = 0 THEN [cluster |-> 0, ends |-> <<>>, over |-> 0, slots |-> [e \in CalEvents |-> <<0, 0>>]]
        ELSE PlaceEvent(s, placed[n - 1], q[n])
  IN placed

LayoutDay(s, day) ==
  LET events == {e \in CalExisting(s) : DayOf(s[e].start) = day}
      sorted == CHOOSE q \in SetToSeqs(events) :
                  \A i, j \in DOMAIN q : i < j => ~Earlier(s, q[j], q[i])
  IN Placings(s, sorted)[Len(sorted)].slots

-----------------------------------------------------------------------------
NoSheet == [kind |-> "none", event |-> NoEvent, start |-> 0, end |-> NoEnd, on |-> NoEvent]

CalInit ==
  /\ calStore \in [CalEvents -> {NoEvent} \cup
        {[start |-> 1, end |-> n, status |-> "scheduled", note |-> NoEvent] :
            n \in {NoEnd, 1 + HourSlots}}]
  /\ calData = [k \in Views |-> NoCalRead]
  /\ calStale = {} /\ calDoubt = {} /\ calLate = {}
  /\ calView = <<"week", 0>>
  /\ calFetch = CalAsking
  /\ calSheet = NoSheet /\ calNote = NoEvent
  /\ calJobs = {} /\ calOps = 0

(***************************************************************************)
(* The query of the shown range. A page shown again fetches when its data  *)
(* were invalidated or are older than the time they are taken as fresh.    *)
(***************************************************************************)
CalServed ==
  /\ calFetch = CalAsking
  /\ calFetch' = InRange(calStore, calView)
  /\ UNCHANGED <<calStore, calData, calStale, calDoubt, calLate, calView, calSheet, calNote, calJobs,
                 calOps>>

CalArrives ==
  /\ calFetch \notin {NoCalRead, CalAsking}
  /\ calData' = [calData EXCEPT ![calView] = calFetch]
  /\ calStale' = calStale \ {calView}
  /\ calDoubt' = {d \in calDoubt : d[1] # calView} \cup ({calView} \X calLate)
  /\ calFetch' = NoCalRead /\ calLate' = {}
  /\ UNCHANGED <<calStore, calView, calSheet, calNote, calJobs, calOps>>

\* The key the page turns to. Bound: a page is left when its fetch has ended.
ShowView(v) ==
  /\ calView' = v
  /\ calFetch' \in IF v = calView THEN {calFetch}
                   ELSE IF calData[v] = NoCalRead \/ v \in calStale THEN {CalAsking}
                   ELSE {CalAsking, NoCalRead}

TurnPage ==
  /\ calSheet.kind = "none"
  /\ calFetch = NoCalRead
  /\ \E v \in Views \ {calView} : ShowView(v)
  /\ UNCHANGED <<calStore, calData, calStale, calDoubt, calLate, calSheet, calNote, calJobs, calOps>>

-----------------------------------------------------------------------------
(***************************************************************************)
(* The grid: a click on an empty place proposes a new event, a click on an *)
(* event shows it, a press that moves drags it.                            *)
(***************************************************************************)
OnGrid == calSheet.kind = "none" /\ CalShown # NoCalRead

\* The end the form proposes: the time of day an hour later, on the day of the start.
SameDay(start, t) == (DayOf(start) * DaySlots) + (t % DaySlots)

FormAt(t) == [NoSheet EXCEPT !.kind = "form", !.start = t, !.end = SameDay(t, t + HourSlots)]

\* The quarter clicked, rounded to half an hour.
Snapped(t) == ((2 * t + HourSlots \div 2) \div HourSlots) * (HourSlots \div 2)

Proposed(d) ==
  IF calView[1] = "month" THEN {d * DaySlots + DefaultSlot}
  ELSE {Snapped(d * DaySlots + y) : y \in Places}

\* The button "create" proposes the next full hour.
NextHours == {t \in Times : DayOf(t) \in Midnights /\ t % HourSlots = 0}

OpenForm ==
  /\ \/ calSheet.kind = "none" /\ \E t \in NextHours : calSheet' = FormAt(t)
     \/ OnGrid /\ \E d \in Midnights : \E t \in Proposed(d) : calSheet' = FormAt(t)
  /\ UNCHANGED <<calStore, calData, calStale, calDoubt, calLate, calFetch, calView, calNote, calJobs,
                 calOps>>

OpenEvent ==
  /\ OnGrid
  /\ \E e \in CalExisting(CalShown) :
       calSheet' = [NoSheet EXCEPT !.kind = "detail", !.event = CalShown[e], !.on = e]
  /\ UNCHANGED <<calStore, calData, calStale, calDoubt, calLate, calFetch, calView, calNote, calJobs,
                 calOps>>

CloseCalSheet ==
  /\ calSheet.kind # "none"
  /\ calSheet' = NoSheet
  /\ UNCHANGED <<calStore, calData, calStale, calDoubt, calLate, calFetch, calView, calNote, calJobs,
                 calOps>>

\* A request by one of the three: "form", "detail" or "grid".
CalSend(by, kind, e, start, end, note) ==
  /\ calOps < MaxCalOps
  /\ calOps' = calOps + 1
  /\ calJobs' = calJobs \cup {[n |-> calOps, by |-> by, kind |-> kind, event |-> e,
                               start |-> start, end |-> end, note |-> note]}

SheetBusy(by) == \E j \in calJobs : j.by = by

\* The height a dragged block is given.
Height(r) == IF 2 * (EndOf(r) - r.start) < HourSlots THEN HourSlots \div 2
             ELSE EndOf(r) - r.start

CalClamp(y, height) ==
  LET lowest == DaySlots - height
  IN IF y > lowest THEN (IF lowest < 0 THEN 0 ELSE lowest) ELSE y

DragTo(r, d, y) == d * DaySlots + CalClamp(y, Height(r))

DragEvent ==
  /\ OnGrid /\ calView[1] # "month"
  /\ \E e \in CalExisting(CalShown), y \in Places,
        d \in IF calView[1] = "day" THEN {calView[2]} ELSE Midnights :
       LET r == CalShown[e]
           t == DragTo(r, d, y)
       IN /\ t # r.start
          /\ CalSend("grid", "update", e, t, t + (EndOf(r) - r.start), NoEvent)
  /\ UNCHANGED <<calStore, calData, calStale, calDoubt, calLate, calFetch, calView, calSheet, calNote>>

-----------------------------------------------------------------------------
(***************************************************************************)
(* The sheets. The form keeps one date; both times are times of that date. *)
(***************************************************************************)
\* What is proposed, or another date and times of it; the end may be cleared.
FilledIn(f) ==
  LET other == {d * DaySlots + y : d \in Midnights, y \in Places}
      moved == {<<t, IF f.end = NoEnd THEN NoEnd ELSE SameDay(t, f.end)>> : t \in {f.start} \cup other}
  IN moved \cup {<<p[1], NoEnd>> : p \in moved}

SubmitForm ==
  /\ calSheet.kind = "form" /\ ~SheetBusy("form")
  /\ \E p \in FilledIn(calSheet) :
       CalSend("form", IF calSheet.on = NoEvent THEN "create" ELSE "update",
            calSheet.on, p[1], p[2], NoEvent)
  /\ UNCHANGED <<calStore, calData, calStale, calDoubt, calLate, calFetch, calView, calSheet, calNote>>

StartEdit ==
  /\ calSheet.kind = "detail" /\ ~SheetBusy("detail")
  /\ LET r == calSheet.event
     IN calSheet' = [NoSheet EXCEPT !.kind = "form", !.on = calSheet.on, !.start = r.start,
                       !.end = IF r.end = NoEnd THEN NoEnd ELSE SameDay(r.start, r.end)]
  /\ UNCHANGED <<calStore, calData, calStale, calDoubt, calLate, calFetch, calView, calNote, calJobs,
                 calOps>>

\* The text box is one for all events: nothing empties it.
TypeOutcome ==
  /\ calSheet.kind = "detail" /\ calSheet.event.status = "scheduled"
  /\ calNote' = calSheet.on
  /\ UNCHANGED <<calStore, calData, calStale, calDoubt, calLate, calFetch, calView, calSheet, calJobs,
                 calOps>>

\* An event that is over is shown without the buttons of the outcome.
ActOnEvent ==
  /\ calSheet.kind = "detail" /\ ~SheetBusy("detail")
  /\ \E k \in {"held", "no_show", "canceled", "delete"} :
       /\ k = "delete" \/ calSheet.event.status = "scheduled"
       /\ CalSend("detail", k, calSheet.on, 0, NoEnd, IF k = "delete" THEN NoEvent ELSE calNote)
  /\ UNCHANGED <<calStore, calData, calStale, calDoubt, calLate, calFetch, calView, calSheet, calNote>>

-----------------------------------------------------------------------------
(***************************************************************************)
(* The server, the answers and the colleagues. An update takes what it is  *)
(* sent except the fields left empty; nothing compares end and start.      *)
(***************************************************************************)
CalApplied(s, j) ==
  CASE j.kind = "create" ->
         [s EXCEPT ![CHOOSE e \in CalEvents \ CalExisting(s) : TRUE] =
            [start |-> j.start, end |-> j.end, status |-> "scheduled", note |-> NoEvent]]
    [] j.kind = "update" ->
         [s EXCEPT ![j.event].start = j.start, ![j.event].end = IF j.end = NoEnd THEN @ ELSE j.end]
    [] j.kind = "delete" -> [s EXCEPT ![j.event] = NoEvent]
    [] OTHER -> [s EXCEPT ![j.event].status = j.kind,
                          ![j.event].note = IF j.note = NoEvent THEN @ ELSE j.note]

Takes(s, j) == IF j.kind = "create" THEN CalExisting(s) # CalEvents ELSE s[j.event] # NoEvent

\* What a success makes stale: every range that was fetched. A first fetch under way goes on.
Related(data) == {k \in Views : data[k] # NoCalRead}

Unseen == {k \in Views : calData[k] # NoCalRead}

\* The server does what the request says and its answer arrives.
CalAccepted(j) ==
  /\ Takes(calStore, j)
  /\ calStore' = CalApplied(calStore, j)
  /\ calStale' = calStale \cup Related(calData)
  /\ calFetch' = IF CalShown # NoCalRead THEN CalAsking ELSE calFetch
  /\ calLate' = IF CalShown # NoCalRead THEN {} ELSE CalLateFor("first load")
  /\ calSheet' = IF (j.by = "form" /\ calSheet.kind = "form") \/ (j.by = "detail" /\ calSheet.kind = "detail")
                 THEN NoSheet ELSE calSheet
  /\ UNCHANGED <<calData, calDoubt, calView, calNote>>

\* The answer is lost: the page reports a failure and fetches nothing.
CalLost(j) ==
  /\ Takes(calStore, j)
  /\ calStore' = CalApplied(calStore, j)
  /\ calDoubt' = calDoubt \cup (Unseen \X {"untold"})
  /\ calLate' = CalLateFor("untold")
  /\ UNCHANGED <<calData, calStale, calFetch, calView, calSheet, calNote>>

CalRefused(j) ==
  /\ ~Takes(calStore, j)
  /\ UNCHANGED <<calStore, calData, calStale, calDoubt, calLate, calFetch, calView, calSheet, calNote>>

CalAnswers ==
  \E j \in calJobs :
    /\ CalAccepted(j) \/ CalLost(j) \/ CalRefused(j)
    /\ calJobs' = calJobs \ {j}
    /\ UNCHANGED calOps

\* The page does not listen to the events the server publishes about the calendar.
CalOthers ==
  /\ calOps < MaxCalOps
  /\ calOps' = calOps + 1
  /\ \E e \in CalEvents, n \in {NoEnd, DaySlots + 1} :
       \/ calStore' = [calStore EXCEPT ![e] = [start |-> DaySlots - 1, end |-> n,
                                               status |-> "scheduled", note |-> NoEvent]]
       \/ calStore' = [calStore EXCEPT ![e] = NoEvent]
  /\ calDoubt' = calDoubt \cup (Unseen \X {"untold"})
  /\ calLate' = CalLateFor("untold")
  /\ UNCHANGED <<calData, calStale, calFetch, calView, calSheet, calNote, calJobs>>

CalNext ==
  \/ CalServed \/ CalArrives \/ TurnPage
  \/ OpenForm \/ OpenEvent \/ CloseCalSheet \/ DragEvent
  \/ SubmitForm \/ StartEdit \/ TypeOutcome \/ ActOnEvent
  \/ CalAnswers \/ CalOthers

CalSpec == CalInit /\ [][CalNext]_calVars

-----------------------------------------------------------------------------
(* Types of the variables above.                                           *)
CalendarTypeOK ==
  /\ calStore \in [CalEvents -> EventRecords \cup {NoEvent}]
  /\ calData \in [Views -> [CalEvents -> EventRecords \cup {NoEvent}] \cup {NoCalRead}]
  /\ calStale \subseteq Views /\ calDoubt \subseteq Views \X CalWhys
  /\ calLate \subseteq CalWhys /\ (CalOnItsWay \/ calLate = {})
  /\ calFetch \in [CalEvents -> EventRecords \cup {NoEvent}] \cup {NoCalRead, CalAsking}
  /\ calView \in Views
  /\ calSheet \in [kind : {"none", "form", "detail"}, event : EventRecords \cup {NoEvent},
                   start : Nat, end : Int \cup {NoEnd}, on : CalEvents \cup {NoEvent}]
  /\ calNote \in CalEvents \cup {NoEvent}
  /\ calJobs \subseteq [n : 0 .. MaxCalOps - 1, by : {"form", "detail", "grid"},
       kind : {"create", "update", "held", "no_show", "canceled", "delete"},
       event : CalEvents \cup {NoEvent}, start : Nat, end : Int \cup {NoEnd},
       note : CalEvents \cup {NoEvent}]
  /\ calOps \in 0 .. MaxCalOps

(***************************************************************************)
(* A range that is not marked for a new fetch holds exactly the events the *)
(* server has in it, also when the change was made on another page of the  *)
(* calendar and whichever of fetch, answer and change came first. Excepted *)
(* are a change by a colleague, a change whose answer was lost, and a      *)
(* change of this page stored while the first load of the range was under  *)
(* way and already read by the server.                                     *)
(***************************************************************************)
QuietCalendarIsTrue ==
  \A k \in Views :
    (calData[k] # NoCalRead /\ k \notin calStale /\ calDoubt \cap ({k} \X CalWhys) = {})
      => calData[k] = InRange(calStore, k)

(***************************************************************************)
(* Events of a day that overlap in time lie in one cluster and in          *)
(* different lanes of it, so none is drawn over another.                   *)
(***************************************************************************)
Overlap(r, q) == r.start < EndOf(q) /\ q.start < EndOf(r)

OverlappingAreSideBySide ==
  (CalShown # NoCalRead) =>
    \A d \in Midnights :
      LET slots == LayoutDay(CalShown, d)
      IN \A e, f \in {g \in CalExisting(CalShown) : DayOf(CalShown[g].start) = d} :
           (e # f /\ Overlap(CalShown[e], CalShown[f]))
             => (slots[e][1] = slots[f][1] /\ slots[e][2] # slots[f][2])

(***************************************************************************)
(* A drag never makes an event longer or shorter, and an event that ended  *)
(* on the day it began still does so where it is dropped.                  *)
(***************************************************************************)
Fits(start, end) == end <= (DayOf(start) + 1) * DaySlots

DragStaysInItsDay ==
  [][\A j \in calJobs' \ calJobs :
       (j.by = "grid") =>
         LET r == CalShown[j.event]
         IN /\ j.end - j.start = EndOf(r) - r.start
            /\ Fits(r.start, EndOf(r)) => Fits(j.start, j.end)]_calVars

-----------------------------------------------------------------------------
(* What the code does not give; see the README.                            *)

(* A change made on this page is shown, also when it was stored while a    *)
(* first load was under way.                                               *)
OwnEventsAreShown ==
  \A k \in Views :
    (calData[k] # NoCalRead /\ k \notin calStale /\ <<k, "untold">> \notin calDoubt)
      => calData[k] = InRange(calStore, k)

(* A click in the column of a day proposes an event of that day.           *)
ClickCreatesThatDay ==
  [][\A d \in Midnights : \A t \in Proposed(d) : DayOf(t) = d]_calVars

(* No event made on this page ends before it begins.                       *)
EndsAfterItsStart ==
  \A e \in CalExisting(calStore) : calStore[e].end # NoEnd => calStore[e].start < calStore[e].end

(* The outcome stored with an event was typed for that event.              *)
NoteIsItsOwn == \A e \in CalExisting(calStore) : calStore[e].note \in {e, NoEvent}
=============================================================================
