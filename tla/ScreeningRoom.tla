---------------------------- MODULE ScreeningRoom ----------------------------
(***************************************************************************)
(* The page of one screening meeting (ScreeningRoomPage.tsx with           *)
(* audioCapture.ts): the recruiter captures the microphone and the tab of  *)
(* the call, every capture is a take that lives in this tab's memory until *)
(* it is uploaded and attached to the meeting; and, on the other side of   *)
(* the page, the plan of questions that the recruiter and the AI agent     *)
(* mark at the same time. Init picks one of the two sides.                 *)
(***************************************************************************)
EXTENDS Naturals

CONSTANTS
  MaxTakes,     \* bound: captures started
  MaxUploads,   \* bound: uploads and attachments that fail, and reloads
  MaxMarks      \* bound: questions marked by the recruiter, by the agent

ASSUME RoomAssumption == {MaxTakes, MaxUploads, MaxMarks} \subseteq Nat

VARIABLES
  side,
  meeting, consentGiven,  \* the meeting in the database
  attachedTake,           \* the take its recording holds (0: none)
  storedTakes,            \* takes in the store, attached or not
  seenMeeting, seenConsent, seenTake,  \* the meeting in the query cache
  playerUrl, urlAsked, urlAnswers,  \* the link the player has, the one it waits for, those under way
  micReady, tabReady,
  recording,              \* the take being captured (0: none)
  takes,                  \* captures started so far
  pendingTake,            \* pendingBlob
  uploadedTake,           \* uploadedFileIdRef
  finalizing,             \* finalizingRef
  uploading,              \* one flag for all who upload
  limitHit,               \* the socket reported the end by its limit
  handlers,               \* finish, limit and repeated attempts between two awaits
  picked,                 \* attachFromDisk, likewise
  saidSaved,              \* auxiliary: takes the page reported as saved
  lostTakes, leftTakes,   \* auxiliary: takes that went without a warning, after one
  uploadsOf,              \* auxiliary: how often a take was uploaded and stored
  excused,                \* auxiliary: uploads whose answer was lost or that were begun
                          \* while another of the same take was under way
  trouble,
  mark, shownMark, markJobs, markNews, markFetch, markMissed, marks, agentMarks,
  markVersion, toldVersion  \* changes of the mark so far; the newest the page heard of

serverSide == <<meeting, consentGiven, attachedTake, storedTakes>>
playerSide == <<playerUrl, urlAsked, urlAnswers>>
roomCache == <<seenMeeting, seenConsent, seenTake, playerSide>>
capture == <<micReady, tabReady, recording, takes>>
saving == <<pendingTake, uploadedTake, finalizing, uploading, handlers, picked>>
tallies == <<saidSaved, lostTakes, leftTakes, uploadsOf, excused>>
pageSide == <<roomCache, capture, saving, limitHit, tallies, trouble>>
planSide == <<mark, shownMark, markJobs, markNews, markFetch, markMissed, marks, agentMarks,
              markVersion, toldVersion>>
roomVars == <<side, serverSide, pageSide, planSide>>

(* "Again": pressed while an attempt is under way, which the flag does not *)
(* prevent once another handler has cleared it.                            *)
Retries == {"retry", "again"}
Handlers == {"finish", "limit"} \cup Retries
Resting == [step |-> "idle", take |-> 0, file |-> 0]
NotPicked == [step |-> "idle", take |-> 0]
Idle(h) == handlers[h].step = "idle"
Saving(h) == handlers[h].step \in {"upload", "attach"}
-----------------------------------------------------------------------------
(* What the page offers to whoever leads the meeting and may run it.       *)
RoomOffers ==
  {"delete"}
  \cup (IF seenMeeting \in {"draft", "live"} THEN {"telemost", "question"} ELSE {})
  \cup (IF seenMeeting = "draft" THEN {"consent", "regenerate"} ELSE {})
  \cup (IF seenMeeting = "draft" /\ seenConsent /\ micReady /\ tabReady THEN {"start"} ELSE {})
  \cup (IF seenMeeting = "live" /\ recording = 0 /\ micReady /\ tabReady THEN {"resume"} ELSE {})
  \cup (IF seenMeeting = "live" /\ ~uploading /\ handlers["finish"].step # "end" THEN {"finish"} ELSE {})
  \cup (IF pendingTake # 0 /\ ~uploading THEN {"retry", "disk"} ELSE {})
  \cup (IF seenMeeting = "over" /\ seenTake = 0 /\ ~uploading THEN {"disk"} ELSE {})
  \cup (IF seenMeeting = "over" /\ seenTake # 0 THEN {"play"} ELSE {})
  \cup (IF seenMeeting = "over" /\ seenTake # 0 /\ ~uploading THEN {"retranscribe"} ELSE {})
CaptureOffers ==
  IF seenMeeting = "draft" \/ (seenMeeting = "live" /\ recording = 0)
  THEN (IF ~micReady THEN {"mic"} ELSE IF ~tabReady THEN {"tab"} ELSE {})
  ELSE IF seenMeeting = "live" THEN {"tab"} ELSE {}

(* The player follows the meeting: another recording, another link; an     *)
(* answer that is not waited for any more is dropped.                      *)
PlayerEffect ==
  IF <<seenMeeting', seenTake'>> = <<seenMeeting, seenTake>> THEN UNCHANGED playerSide
  ELSE /\ playerUrl' = 0
       /\ urlAsked' = (IF seenMeeting' = "over" THEN seenTake' ELSE 0)
       /\ urlAnswers' = urlAnswers \cup ({urlAsked'} \ {0})
Awaited(f) == f = urlAsked
(* Every answer carries the whole meeting into the cache.                  *)
Seen ==
  /\ seenMeeting' = meeting' /\ seenConsent' = consentGiven' /\ seenTake' = attachedTake'
  /\ PlayerEffect
Refreshed == side = "recording" /\ meeting # "gone"

SaveConsent(v) ==
  /\ "consent" \in RoomOffers /\ Refreshed
  /\ consentGiven' = (IF v \/ meeting = "draft" THEN v ELSE consentGiven)
  /\ UNCHANGED <<meeting, attachedTake, storedTakes>>
  /\ IF v \/ meeting = "draft" THEN Seen ELSE UNCHANGED roomCache
  /\ UNCHANGED <<side, capture, saving, limitHit, tallies, trouble, planSide>>
RequestMic ==
  /\ "mic" \in CaptureOffers /\ Refreshed
  /\ micReady' = TRUE
  /\ UNCHANGED <<side, serverSide, roomCache, tabReady, recording, takes, saving, limitHit, tallies,
                 trouble, planSide>>
(* A tab shared without its sound changes nothing.                         *)
RequestTab ==
  /\ "tab" \in CaptureOffers /\ Refreshed
  /\ tabReady' = TRUE
  /\ UNCHANGED <<side, serverSide, roomCache, micReady, recording, takes, saving, limitHit, tallies,
                 trouble, planSide>>
(* The sharing is stopped; the microphone goes on being recorded.          *)
TabEnded ==
  /\ tabReady
  /\ tabReady' = FALSE
  /\ UNCHANGED <<side, serverSide, roomCache, micReady, recording, takes, saving, limitHit, tallies,
                 trouble, planSide>>

(* capture.start(): a new recording is a new file.                         *)
Forgets == 0
StartCapture(works) ==
  IF works
  THEN /\ takes < MaxTakes
       /\ takes' = takes + 1 /\ recording' = takes + 1 /\ uploadedTake' = Forgets
  ELSE UNCHANGED <<takes, recording, uploadedTake>>
StartMeeting(works) ==
  /\ "start" \in RoomOffers /\ Refreshed
  /\ IF meeting \in {"draft", "live"} /\ consentGiven
     THEN meeting' = "live" /\ StartCapture(works)
     ELSE UNCHANGED <<meeting, takes, recording, uploadedTake>>
  /\ UNCHANGED <<consentGiven, attachedTake, storedTakes>> /\ Seen
  /\ UNCHANGED <<side, micReady, tabReady, pendingTake, finalizing, uploading, handlers, picked,
                 limitHit, tallies, trouble, planSide>>
ResumeCapture ==
  /\ "resume" \in RoomOffers /\ Refreshed
  /\ StartCapture(TRUE)
  /\ UNCHANGED <<side, serverSide, roomCache, micReady, tabReady, pendingTake, finalizing, uploading,
                 handlers, picked, limitHit, tallies, trouble, planSide>>
-----------------------------------------------------------------------------
(* uploadRecording: the file of the reference, or a new one.               *)
\* Fault: a recording counts as uploaded when it is taken.
FileOfTake(take) == take
FileOf(take) == uploadedTake
BeginUpload(h, take) ==
  handlers' = [handlers EXCEPT ![h] =
    IF take = 0 THEN [step |-> "end", take |-> 0, file |-> 0]
    ELSE IF FileOf(take) # 0 THEN [step |-> "attach", take |-> take, file |-> FileOf(take)]
    ELSE [step |-> "upload", take |-> take, file |-> 0]]

(* "Finish" and the end by the limit stop the capture and take the blob;   *)
(* whichever comes second finds that the first is at it. The limit clears  *)
(* the flag when it has nothing to upload.                                 *)
MayFinalize(h) == ~finalizing /\ Idle(h)
Finalize(h) ==
  /\ MayFinalize(h) /\ Refreshed
  /\ finalizing' = TRUE /\ uploading' = (h = "finish" \/ recording # 0)
  /\ recording' = 0 /\ micReady' = FALSE /\ tabReady' = FALSE
  /\ BeginUpload(h, recording)
  /\ UNCHANGED <<side, serverSide, roomCache, takes, pendingTake, uploadedTake, picked,
                 limitHit, tallies, trouble, planSide>>
Finish == "finish" \in RoomOffers /\ Finalize("finish")
MaxDurationEffect == limitHit /\ Finalize("limit")

Excuse(take) == excused' = [excused EXCEPT ![take] = @ + 1]
UnderWay(take) == \E g \in Handlers : handlers[g].step = "upload" /\ handlers[g].take = take
(* Bound: two attempts at a time.                                          *)
RetryUpload(h) ==
  /\ "retry" \in RoomOffers /\ Refreshed
  /\ Idle(h) /\ (h = "again" => ~Idle("retry"))
  /\ uploading' = TRUE
  /\ BeginUpload(h, pendingTake)
  /\ IF FileOf(pendingTake) = 0 /\ UnderWay(pendingTake) THEN Excuse(pendingTake) ELSE UNCHANGED excused
  /\ UNCHANGED <<side, serverSide, roomCache, capture, pendingTake, uploadedTake, finalizing, picked,
                 limitHit, saidSaved, lostTakes, leftTakes, uploadsOf, trouble, planSide>>

Stores(take) ==
  storedTakes' = storedTakes \cup {take} /\ uploadsOf' = [uploadsOf EXCEPT ![take] = @ + 1]
UploadDone(h) ==
  /\ handlers[h].step = "upload"
  /\ LET take == handlers[h].take IN
     /\ Stores(take) /\ uploadedTake' = take
     /\ handlers' = [handlers EXCEPT ![h].step = "attach", ![h].file = take]
  /\ UNCHANGED <<side, meeting, consentGiven, attachedTake, roomCache, capture, pendingTake, finalizing,
                 uploading, picked, limitHit, saidSaved, lostTakes, leftTakes, excused, trouble, planSide>>
AfterAttach(h) == IF h \in Retries THEN Resting ELSE [handlers[h] EXCEPT !.step = "end"]
(* "Finish" holds the flag until the meeting is closed.                    *)
FlagAfter(h) == IF h = "finish" THEN uploading ELSE FALSE
AttachDone(h) ==
  /\ handlers[h].step = "attach" /\ meeting # "gone"
  /\ attachedTake' = handlers[h].file
  /\ saidSaved' = saidSaved \cup {handlers[h].take}
  /\ pendingTake' = (IF h \in Retries THEN 0 ELSE pendingTake)
  /\ handlers' = [handlers EXCEPT ![h] = AfterAttach(h)]
  /\ uploading' = FlagAfter(h)
  /\ UNCHANGED <<meeting, consentGiven>> /\ Seen
  /\ UNCHANGED <<side, storedTakes, capture, uploadedTake, finalizing, picked, limitHit, lostTakes,
                 leftTakes, uploadsOf, excused, trouble, planSide>>
(* Either request fails: the blob is kept and offered again. Unanswered:   *)
(* it was served and only its answer is lost; the page does not know the   *)
(* file it stored, nor that it is attached.                                *)
\* Fault: a recording that could not be saved is not kept.
KeptNothing(h) == pendingTake
KeptTake(h) == IF h \in Retries THEN pendingTake ELSE handlers[h].take
Fails(h) ==
  /\ trouble < MaxUploads /\ trouble' = trouble + 1
  /\ pendingTake' = KeptTake(h)
  /\ handlers' = [handlers EXCEPT ![h] = AfterAttach(h)]
  /\ uploading' = FlagAfter(h)
  /\ UNCHANGED <<side, meeting, consentGiven, roomCache, capture, uploadedTake, finalizing, picked,
                 limitHit, saidSaved, lostTakes, leftTakes, planSide>>
SavingFails(h) ==
  /\ Saving(h) /\ Fails(h)
  /\ UNCHANGED <<attachedTake, storedTakes, uploadsOf, excused>>
UploadUnanswered(h) ==
  /\ handlers[h].step = "upload" /\ Fails(h)
  /\ Stores(handlers[h].take) /\ Excuse(handlers[h].take)
  /\ UNCHANGED attachedTake
AttachUnanswered(h) ==
  /\ handlers[h].step = "attach" /\ meeting # "gone" /\ Fails(h)
  /\ attachedTake' = handlers[h].file
  /\ UNCHANGED <<storedTakes, uploadsOf, excused>>
(* The last step: the meeting is closed, or read again after the limit. A  *)
(* failure, also one after which the meeting is closed, lets "finish" be   *)
(* pressed once more.                                                      *)
Closed(h) == IF h = "finish" /\ meeting = "live" THEN "over" ELSE meeting
EndDone(h) ==
  /\ handlers[h].step = "end"
  /\ handlers' = [handlers EXCEPT ![h] = Resting]
  /\ uploading' = (IF h = "finish" THEN FALSE ELSE uploading)
  /\ meeting' = Closed(h)
  /\ UNCHANGED <<consentGiven, attachedTake, storedTakes>> /\ Seen
  /\ UNCHANGED <<side, capture, pendingTake, uploadedTake, finalizing, picked, limitHit, tallies, trouble,
                 planSide>>
FinishFails(served) ==
  /\ handlers["finish"].step = "end" /\ trouble < MaxUploads
  /\ trouble' = trouble + 1
  /\ handlers' = [handlers EXCEPT !["finish"] = Resting]
  /\ finalizing' = FALSE /\ uploading' = FALSE
  /\ meeting' = (IF served THEN Closed("finish") ELSE meeting)
  /\ UNCHANGED <<side, consentGiven, attachedTake, storedTakes, roomCache, capture, pendingTake,
                 uploadedTake, picked, limitHit, tallies, planSide>>
-----------------------------------------------------------------------------
(* A file from the disk; when a recording is pending, its downloaded copy. *)
(* Bound: one such file at a time.                                         *)
AttachFromDisk ==
  /\ "disk" \in RoomOffers /\ Refreshed /\ picked.step = "idle"
  /\ picked' = [step |-> "upload", take |-> IF pendingTake # 0 THEN pendingTake ELSE MaxTakes + 1]
  /\ uploading' = TRUE
  /\ UNCHANGED <<side, serverSide, roomCache, capture, pendingTake, uploadedTake, finalizing, handlers,
                 limitHit, tallies, trouble, planSide>>
DiskUploaded ==
  /\ picked.step = "upload"
  /\ storedTakes' = storedTakes \cup {picked.take}
  /\ picked' = [picked EXCEPT !.step = "attach"]
  /\ UNCHANGED <<side, meeting, consentGiven, attachedTake, roomCache, capture, pendingTake, uploadedTake,
                 finalizing, uploading, handlers, limitHit, tallies, trouble, planSide>>
(* What became pending meanwhile goes with it.                             *)
DiskAttached ==
  /\ picked.step = "attach" /\ meeting # "gone"
  /\ attachedTake' = picked.take
  /\ saidSaved' = saidSaved \cup {picked.take}
  /\ lostTakes' = lostTakes \cup ({pendingTake} \ ({0, picked.take} \cup saidSaved))
  /\ pendingTake' = 0 /\ picked' = NotPicked /\ uploading' = FALSE
  /\ UNCHANGED <<meeting, consentGiven>> /\ Seen
  /\ UNCHANGED <<side, storedTakes, capture, uploadedTake, finalizing, handlers, limitHit, leftTakes,
                 uploadsOf, excused, trouble, planSide>>
DiskFails(served) ==
  /\ picked.step # "idle" /\ trouble < MaxUploads
  /\ trouble' = trouble + 1
  /\ storedTakes' = (IF served THEN storedTakes \cup {picked.take} ELSE storedTakes)
  /\ attachedTake' = (IF served /\ picked.step = "attach" THEN picked.take ELSE attachedTake)
  /\ picked' = NotPicked /\ uploading' = FALSE
  /\ UNCHANGED <<side, meeting, consentGiven, roomCache, capture, pendingTake, uploadedTake, finalizing,
                 handlers, limitHit, tallies, planSide>>
-----------------------------------------------------------------------------
LinkArrives(f, works) ==
  /\ f \in urlAnswers
  /\ urlAnswers' = urlAnswers \ {f}
  /\ playerUrl' = (IF works /\ Awaited(f) THEN f ELSE playerUrl)
  /\ urlAsked' = (IF Awaited(f) THEN 0 ELSE urlAsked)
  /\ UNCHANGED <<side, serverSide, seenMeeting, seenConsent, seenTake, capture, saving, limitHit, tallies,
                 trouble, planSide>>
(* The player fails, its link has expired: another one on request.         *)
ReloadPlayer ==
  /\ seenMeeting = "over" /\ seenTake # 0 /\ playerUrl = 0 /\ urlAsked = 0
  /\ urlAsked' = seenTake /\ urlAnswers' = urlAnswers \cup {seenTake}
  /\ UNCHANGED <<side, serverSide, playerUrl, seenMeeting, seenConsent, seenTake, capture, saving,
                 limitHit, tallies, trouble, planSide>>
-----------------------------------------------------------------------------
(* The meeting ends elsewhere: by the limit, which the socket may report,  *)
(* or in another tab.                                                      *)
EndsElsewhere(reported) ==
  /\ side = "recording" /\ meeting = "live"
  /\ meeting' = "over"
  /\ limitHit' = (limitHit \/ reported)
  /\ UNCHANGED <<side, consentGiven, attachedTake, storedTakes, roomCache, capture, saving, tallies,
                 trouble, planSide>>
ReadMeeting ==
  /\ Refreshed /\ <<seenMeeting, seenConsent, seenTake>> # <<meeting, consentGiven, attachedTake>>
  /\ UNCHANGED serverSide /\ Seen
  /\ UNCHANGED <<side, capture, saving, limitHit, tallies, trouble, planSide>>

(* The takes in this tab, and those of them nobody was told are saved.     *)
InHand == ({recording, pendingTake} \cup {handlers[h].take : h \in {g \in Handlers : Saving(g)}}) \ {0}
Unsaved == InHand \ saidSaved
ShouldWarnOnLeave == (seenMeeting = "live" /\ recording # 0) \/ pendingTake # 0
ForgetPage ==
  /\ micReady' = FALSE /\ tabReady' = FALSE /\ recording' = 0 /\ pendingTake' = 0
  /\ uploadedTake' = 0 /\ finalizing' = FALSE /\ uploading' = FALSE /\ limitHit' = FALSE
  /\ handlers' = [h \in Handlers |-> Resting] /\ picked' = NotPicked
ReloadRoom ==
  /\ Refreshed /\ trouble < MaxUploads
  /\ trouble' = trouble + 1
  /\ IF ShouldWarnOnLeave THEN leftTakes' = leftTakes \cup Unsaved /\ UNCHANGED lostTakes
                          ELSE lostTakes' = lostTakes \cup Unsaved /\ UNCHANGED leftTakes
  /\ ForgetPage /\ UNCHANGED serverSide /\ Seen
  /\ UNCHANGED <<side, takes, saidSaved, uploadsOf, excused, planSide>>
DeleteMeeting ==
  /\ "delete" \in RoomOffers /\ Refreshed
  /\ meeting' = "gone" /\ attachedTake' = 0 /\ storedTakes' = storedTakes \ {attachedTake}
  /\ ForgetPage /\ UNCHANGED consentGiven /\ Seen
  /\ UNCHANGED <<side, takes, tallies, trouble, planSide>>
-----------------------------------------------------------------------------
(* The plan, at one question. Q_STATUS_ORDER.                              *)
NextMark ==
  [pending |-> "asked", asked |-> "answered", answered |-> "skipped", skipped |-> "pending"]
QuestionOffers == IF seenMeeting \in {"draft", "live"} THEN {"cycle", "text", "remove"} ELSE {}
NoNews == [to |-> "none", version |-> 0]
CycleStatus ==
  /\ side = "plan" /\ marks < MaxMarks /\ "cycle" \in QuestionOffers
  /\ marks' = marks + 1
  /\ shownMark' = NextMark[shownMark] /\ markFetch' = FALSE
  /\ markJobs' = markJobs \cup {[id |-> marks, to |-> NextMark[shownMark], before |-> shownMark,
                                 version |-> 0]}
  /\ UNCHANGED <<side, serverSide, pageSide, mark, markNews, markMissed, agentMarks, markVersion,
                 toldVersion>>
ServeStatus(j) ==
  /\ j.version = 0
  /\ mark' = j.to /\ markVersion' = markVersion + 1
  /\ markJobs' = (markJobs \ {j}) \cup {[j EXCEPT !.version = markVersion + 1]}
  /\ UNCHANGED <<side, serverSide, pageSide, shownMark, markNews, markFetch, markMissed, marks,
                 agentMarks, toldVersion>>

(* The page hears of a version of the mark and shows it, also when it has  *)
(* heard of a newer one.                                                   *)
Hears(to, version) ==
  /\ shownMark' = to
  /\ markMissed' = IF version < toldVersion THEN markMissed \cup {"overtaken"} ELSE markMissed
  /\ toldVersion' = IF version < toldVersion THEN toldVersion ELSE version
(* The answer puts the meeting as it was then into the cache.              *)
StatusSaved(j) ==
  /\ j.version # 0
  /\ markJobs' = markJobs \ {j}
  /\ Hears(j.to, j.version)
  /\ UNCHANGED <<side, serverSide, pageSide, mark, markNews, markFetch, marks, agentMarks, markVersion>>
RereadsOnError == TRUE
StatusFails(j) ==
  /\ markJobs' = markJobs \ {j}
  /\ shownMark' = j.before
  /\ markFetch' = RereadsOnError
  /\ UNCHANGED <<side, serverSide, pageSide, mark, markNews, markMissed, marks, agentMarks, markVersion,
                 toldVersion>>
(* The agent marks it and sends questions.updated, which may be lost with  *)
(* the connection.                                                         *)
AgentMarks(to, delivered) ==
  /\ side = "plan" /\ agentMarks < MaxMarks /\ to # mark
  /\ mark' = to /\ agentMarks' = agentMarks + 1 /\ markVersion' = markVersion + 1
  /\ markNews' = (IF delivered THEN [to |-> to, version |-> markVersion + 1] ELSE markNews)
  /\ markMissed' = (IF delivered THEN markMissed ELSE markMissed \cup {"lost"})
  /\ UNCHANGED <<side, serverSide, pageSide, shownMark, markJobs, markFetch, marks, toldVersion>>
QuestionsUpdated ==
  /\ markNews # NoNews
  /\ markNews' = NoNews
  /\ Hears(markNews.to, markNews.version)
  /\ UNCHANGED <<side, serverSide, pageSide, mark, markJobs, markFetch, marks, agentMarks, markVersion>>
ReadPlan ==
  /\ markFetch
  /\ markFetch' = FALSE
  /\ shownMark' = mark /\ toldVersion' = markVersion /\ markMissed' = {}
  /\ UNCHANGED <<side, serverSide, pageSide, mark, markJobs, markNews, marks, agentMarks, markVersion>>
-----------------------------------------------------------------------------
RoomInit ==
  /\ side \in {"recording", "plan"}
  /\ meeting = "draft" /\ consentGiven = FALSE /\ attachedTake = 0 /\ storedTakes = {}
  /\ seenMeeting = "draft" /\ seenConsent = FALSE /\ seenTake = 0
  /\ playerUrl = 0 /\ urlAsked = 0 /\ urlAnswers = {} /\ micReady = FALSE /\ tabReady = FALSE
  /\ recording = 0 /\ takes = 0 /\ pendingTake = 0 /\ uploadedTake = 0
  /\ finalizing = FALSE /\ uploading = FALSE /\ limitHit = FALSE
  /\ handlers = [h \in Handlers |-> Resting] /\ picked = NotPicked
  /\ saidSaved = {} /\ lostTakes = {} /\ leftTakes = {} /\ trouble = 0
  /\ uploadsOf = [n \in 1..MaxTakes |-> 0] /\ excused = [n \in 1..MaxTakes |-> 0]
  /\ mark = "pending" /\ shownMark = "pending" /\ markJobs = {} /\ markNews = NoNews
  /\ markFetch = FALSE /\ markMissed = {} /\ marks = 0 /\ agentMarks = 0
  /\ markVersion = 0 /\ toldVersion = 0

RoomNext ==
  \/ \E v \in BOOLEAN : SaveConsent(v) \/ StartMeeting(v) \/ EndsElsewhere(v)
  \/ RequestMic \/ RequestTab \/ TabEnded \/ ResumeCapture
  \/ Finish \/ MaxDurationEffect
  \/ \E h \in Retries : RetryUpload(h)
  \/ \E h \in Handlers : UploadDone(h) \/ AttachDone(h) \/ EndDone(h)
  \/ \E h \in Handlers : SavingFails(h) \/ UploadUnanswered(h) \/ AttachUnanswered(h)
  \/ AttachFromDisk \/ DiskUploaded \/ DiskAttached
  \/ \E served \in BOOLEAN : FinishFails(served) \/ DiskFails(served)
  \/ \E f \in urlAnswers, works \in BOOLEAN : LinkArrives(f, works)
  \/ ReloadPlayer \/ ReadMeeting \/ ReloadRoom \/ DeleteMeeting
  \/ CycleStatus \/ QuestionsUpdated \/ ReadPlan
  \/ \E j \in markJobs : ServeStatus(j) \/ StatusSaved(j) \/ StatusFails(j)
  \/ \E to \in {"asked", "answered"}, d \in BOOLEAN : AgentMarks(to, d)
RoomSpec == RoomInit /\ [][RoomNext]_roomVars
-----------------------------------------------------------------------------
RoomTypeOK ==
  /\ {recording, pendingTake, uploadedTake} \subseteq 0..takes
  /\ attachedTake \in {0} \cup storedTakes \/ meeting = "gone"
  /\ recording # 0 => meeting # "draft"
  /\ \A h \in Handlers : handlers[h].step = "attach" => handlers[h].file \in storedTakes
  /\ picked.step = "attach" => picked.take \in storedTakes
  /\ {shownMark, mark} \subseteq DOMAIN NextMark /\ markMissed \subseteq {"lost", "overtaken"}

(* With a single capture nothing is lost however "finish", the limit and   *)
(* the repeated attempts meet and whatever of them fails: until the page   *)
(* is left, a file from the disk is attached in its place, or the meeting  *)
(* is deleted, the take is in this tab or was reported as saved and is in  *)
(* the store. It is stored twice only after an upload whose answer was     *)
(* lost, or an attempt repeated while another is under way.                *)
SoleTakeIsKept ==
  takes = 1 =>
    /\ uploadsOf[1] <= 1 + excused[1]
    /\ 1 \in InHand \cup saidSaved \cup lostTakes \cup leftTakes \/ meeting = "gone"
    /\ 1 \in saidSaved => 1 \in storedTakes \/ meeting = "gone"
(* The player never plays a recording that has been replaced.              *)
PlaysTheAttached == playerUrl \in {0, seenTake}
(* The badge of a question shows its status once nothing is under way,     *)
(* unless an event was lost or an older answer came after a newer one.     *)
QuietPlanIsTrue ==
  markJobs = {} /\ ~markFetch /\ markNews = NoNews /\ markMissed = {} => shownMark = mark
-----------------------------------------------------------------------------
(* What the code does not give; see the README.                            *)

(* "A second attempt must not send the same blob again: the first file     *)
(* would stay in the bucket as an orphan."                                 *)
StoredOnce == \A n \in 1..MaxTakes : uploadsOf[n] <= 1
(* What the page reports as saved is in the store.                         *)
SavedIsStored == meeting # "gone" => saidSaved \subseteq storedTakes
(* Nothing is lost without the question whether to leave.                  *)
LossIsWarned == lostTakes = {}
(* The badge shows the status once every event and answer has come.        *)
ToldMarkIsShown ==
  markJobs = {} /\ ~markFetch /\ markNews = NoNews /\ "lost" \notin markMissed => shownMark = mark
=============================================================================
