------------------------- MODULE ScreeningPipeline --------------------------
(***************************************************************************)
(* An AI screening from the draft to its report (screening/service.py,     *)
(* tasks.py): HTTP requests, the sweeper, and Celery tasks that recognise  *)
(* the recording and write the report, all on the rows of one session.     *)
(* Sessions share no row, so one session is enough.                        *)
(*                                                                         *)
(* Almost every operation reads the row of the session without a lock,     *)
(* decides, and commits later; the ORM writes only the columns it changed. *)
(* A request is therefore two steps: one that reads and puts the columns   *)
(* it is going to write into pending, and one that commits them whatever   *)
(* happened in between.  Only finish looks at the status again, under a    *)
(* row lock.                                                               *)
(*                                                                         *)
(* Celery acknowledges a task after it ran: a task may be interrupted      *)
(* anywhere, and is then delivered again, retried, or given up.            *)
(***************************************************************************)
EXTENDS Naturals

CONSTANTS
  Requests,  \* HTTP requests and sockets that can be in progress at a time
  Sweeper,   \* the periodic close_stale_sessions
  Jobs,      \* Celery tasks that can be in the queue or running at a time
  Texts,     \* results of the recognition of a recording
  Live       \* a phrase recognised while the meeting was on

ASSUME IdentityAssumption == Sweeper \notin Requests /\ Live \notin Texts

VARIABLES
  status, consent, ended, audio,  \* screening_sessions; ended and audio: ended_at, audio_file_id set
  age,         \* time since updated_at, in the thresholds of the code, see below
  transcript,  \* screening_segments, by origin
  report,      \* screening_reports: its model and the transcript it was made of
  notices,     \* "report ready" notifications sent to the recruiter
  pending,     \* what each request read and is about to commit
  job          \* the Celery tasks

session == <<status, consent, ended, audio, age>>
vars == <<session, transcript, report, notices, pending, job>>

Actors == Requests \cup {Sweeper}
Status == {"draft", "live", "processing", "done", "error"}
Finished == Status \ {"draft", "live"}

(* 0: just changed, 1: over _OFFLINE_RETRY_COOLDOWN, 2: over the           *)
(* processing timeout, 3: over three times that timeout.                   *)
Fresh == 0
Cooled == 1
Stuck == 2
Hopeless == 3
Ages == Fresh .. Hopeless

Operations == {"none", "consent", "withdraw", "start", "finish", "timeout", "poll", "attach",
               "retranscribe", "fail", "purge", "segment"}
Kinds == {"none", "analysis", "offline", "replace"}
(* set: the status to write, "keep" if that column is not changed.         *)
Write(op, set, kind) == [op |-> op, set |-> set, kind |-> kind]
Nothing == Write("none", "keep", "none")

Steps == {"none", "queued", "stt", "insert", "analyse", "close", "llm"}
(* wrote: new segments; had: rows the step found before it writes its own; *)
(* seen, saw: the status and the transcript it read.                       *)
Task(kind, step, wrote, had, seen, saw) ==
  [kind |-> kind, step |-> step, wrote |-> wrote, had |-> had, seen |-> seen, saw |-> saw]
Queued(kind) == Task(kind, "queued", FALSE, FALSE, "draft", {})
NoTask == Task("none", "none", FALSE, FALSE, "draft", {})

Models == {"fallback", "llm"}
Report(model, of) == [model |-> model, of |-> of]
NoReport == Report("none", {})

Init ==
  /\ status = "draft" /\ consent = FALSE /\ ended = FALSE /\ audio = FALSE /\ age = Fresh
  /\ transcript = {} /\ report = NoReport /\ notices = 0
  /\ pending = [a \in Actors |-> Nothing]
  /\ job = [j \in Jobs |-> NoTask]
-----------------------------------------------------------------------------
(* Requests: what they read.                                               *)

Reads(a, write) ==
  /\ pending[a] = Nothing
  /\ pending' = [pending EXCEPT ![a] = write]
  /\ UNCHANGED <<session, transcript, report, notices, job>>

(* update: consent may be given at any time, withdrawn only from a draft.  *)
GiveConsent(r) == ~consent /\ Reads(r, Write("consent", "keep", "none"))
WithdrawConsent(r) ==
  /\ consent
  /\ status = "draft"
  /\ Reads(r, Write("withdraw", "keep", "none"))

(* start; on a session that is live already it changes nothing.            *)
Start(r) ==
  /\ status = "draft"
  /\ consent
  /\ Reads(r, Write("start", "live", "none"))

(* _enqueue_post_meeting                                                   *)
PostMeeting == IF transcript = {} /\ audio THEN "offline" ELSE "analysis"

Finish(r) ==
  /\ status = "live"
  /\ Reads(r, Write("finish", "processing", PostMeeting))

(* finish_by_timeout, from the socket of the room or from the sweeper.     *)
FinishByTimeout(a) ==
  /\ status = "live"
  /\ Reads(a, Write("timeout", "processing", PostMeeting))

(* append_segment: the text is new and not a hallucination.                *)
AppendSegment(r) ==
  /\ status = "live"
  /\ Reads(r, Write("segment", "keep", "none"))

(* Fault: a draft with a recording is transcribed as well.                 *)
TranscribableAnyTime(force) ==
  /\ status # "live" /\ transcript = {}
  /\ force \/ report.model # "llm"
  /\ force \/ age >= Cooled \/ (status # "processing" /\ report = NoReport)

(* The conditions of maybe_start_offline_transcription after the recording *)
(* is known to exist.                                                      *)
Transcribable(force) ==
  /\ status \in Finished /\ transcript = {}
  /\ force \/ report.model # "llm"
  /\ force \/ age >= Cooled \/ (status # "processing" /\ report = NoReport)

Reprocessed == IF status = "processing" THEN "keep" ELSE "processing"

(* get: opening or polling the card may start the recognition.             *)
PollCard(r) ==
  /\ audio
  /\ Transcribable(FALSE)
  /\ Reads(r, Write("poll", Reprocessed, "offline"))

(* attach_audio with a new recording, or with the old one as the button    *)
(* "recognise the recording"; the latter changes nothing if there is       *)
(* nothing to recognise.                                                   *)
AttachAudio(r) ==
  IF Transcribable(TRUE)
  THEN Reads(r, Write("attach", Reprocessed, "offline"))
  ELSE Reads(r, Write("attach", "keep", "none"))

Retranscribe(r) ==
  /\ audio
  /\ status \in Finished
  /\ Reads(r, Write("retranscribe", Reprocessed, "replace"))

(* purge_expired_audio has deleted the object and forgets the recording;   *)
(* when it may is the matter of ScreeningAudio.                            *)
PurgeAudio(r) == audio /\ Reads(r, Write("purge", "keep", "none"))

(* _sweep_stuck_processing and _fail_stuck_processing.                     *)
FailStuckProcessing ==
  /\ status = "processing"
  /\ age = Hopeless
  /\ Reads(Sweeper, Write("fail", "error", "none"))
-----------------------------------------------------------------------------
(* Requests: what they commit.                                             *)

(* A task is put in the queue after the commit; it may be lost on the way  *)
(* when the process dies in between.  A finite Jobs loses it when full.    *)
Enqueue(kind) ==
  \/ UNCHANGED job
  \/ \E j \in Jobs : /\ kind # "none"
                     /\ job[j] = NoTask
                     /\ job' = [job EXCEPT ![j] = Queued(kind)]

Done(a) == pending' = [pending EXCEPT ![a] = Nothing]

(* Another request was faster: finish finds under the lock that the        *)
(* session is not live any more.                                           *)
FinishTooLate(a) ==
  /\ pending[a].op = "finish"
  /\ status # "live"
  /\ Done(a)
  /\ UNCHANGED <<session, transcript, report, notices, job>>

Commit(a) ==
  LET w == pending[a] IN
  /\ w.op \notin {"none", "segment"}
  /\ w.op = "finish" => status = "live"
  /\ status' = IF w.set = "keep" THEN status ELSE w.set
  /\ consent' = (w.op = "consent" \/ (consent /\ w.op # "withdraw"))
  /\ ended' = (ended \/ w.op \in {"finish", "timeout"})
  /\ audio' = (w.op = "attach" \/ (audio /\ w.op # "purge"))
  /\ age' = Fresh
  /\ Enqueue(w.kind)
  /\ Done(a)
  /\ UNCHANGED <<transcript, report, notices>>

(* The phrase takes the next free number, so it never collides for good.   *)
CommitSegment(a) ==
  /\ pending[a].op = "segment"
  /\ transcript' = transcript \cup {Live}
  /\ Done(a)
  /\ UNCHANGED <<session, report, notices, job>>

(* A request is cancelled or fails before its commit.                      *)
RequestFails(a) ==
  /\ pending[a] # Nothing
  /\ Done(a)
  /\ UNCHANGED <<session, transcript, report, notices, job>>

(* _requeue_stuck_analysis writes nothing to the session.  It remembers in *)
(* the memory of its process that it did so, which does not bind the next  *)
(* process.                                                                *)
RequeueStuckAnalysis ==
  /\ pending[Sweeper] = Nothing
  /\ status = "processing"
  /\ age = Stuck
  /\ Enqueue(PostMeeting)
  /\ UNCHANGED <<session, transcript, report, notices, pending>>

(* The later thresholds matter only while the session is processing.       *)
Tick ==
  /\ status \in Finished
  /\ age < IF status = "processing" THEN Hopeless ELSE Cooled
  /\ age' = age + 1
  /\ UNCHANGED <<status, consent, ended, audio, transcript, report, notices, pending, job>>
-----------------------------------------------------------------------------
(* Tasks: recognition of the recording, then the analysis.                 *)

At(j, step) == job[j].step = step
Becomes(j, task) == job' = [job EXCEPT ![j] = task]
Analyse(j, wrote) == Task(job[j].kind, "analyse", wrote, FALSE, "draft", {})

(* analyze_session starts with the analysis; run_offline_transcription     *)
(* looks whether there is something to recognise.                          *)
BeginTask(j) ==
  /\ At(j, "queued")
  /\ IF job[j].kind # "analysis" /\ audio /\ (job[j].kind = "replace" \/ transcript = {})
     THEN Becomes(j, Task(job[j].kind, "stt", FALSE, FALSE, "draft", {}))
     ELSE Becomes(j, Analyse(j, FALSE))
  /\ UNCHANGED <<session, transcript, report, notices, pending>>

(* Fault: a transcript that came meanwhile is replaced without a request.  *)
PrepareSegmentsAnyway(j) ==
  /\ At(j, "stt")
  /\ Becomes(j, Task(job[j].kind, "insert", FALSE, transcript # {}, "draft", {}))
  /\ UNCHANGED <<session, transcript, report, notices, pending>>

(* insert_offline_segments with the text at hand: only an empty transcript *)
(* is filled, unless the recruiter asked to replace it.                    *)
PrepareSegments(j) ==
  LET had == transcript # {} IN
  /\ At(j, "stt")
  /\ Becomes(j, IF had /\ job[j].kind # "replace"
                THEN Analyse(j, FALSE)
                ELSE Task(job[j].kind, "insert", FALSE, had, "draft", {}))
  /\ UNCHANGED <<session, transcript, report, notices, pending>>

(* Fault: without the unique (session_id, seq) both transcripts are kept.  *)
InsertedBeside(j, text) == IF job[j].had THEN {text} ELSE transcript \cup {text}

(* What deleting the old rows, if some were found, and inserting the new   *)
(* ones leaves.  The new rows are numbered from 1: if the table was found  *)
(* empty and is not, the unique (session_id, seq) undoes the insertion.    *)
Inserted(j, text) == IF job[j].had \/ transcript = {} THEN {text} ELSE transcript

InsertSegments(j) ==
  /\ At(j, "insert")
  /\ \E text \in Texts : transcript' = Inserted(j, text)
  /\ Becomes(j, Analyse(j, job[j].had \/ transcript = {}))
  /\ UNCHANGED <<session, report, notices, pending>>

(* S3, the recogniser or the database failed, or there is nothing in the   *)
(* recording: the analysis goes on with the transcript that is there.      *)
RecognitionFails(j) ==
  /\ At(j, "stt") \/ At(j, "insert")
  /\ Becomes(j, Analyse(j, FALSE))
  /\ UNCHANGED <<session, transcript, report, notices, pending>>

(* Fault: a task that wrote nothing takes the report for granted.          *)
AlreadyAnalysedBlindly(j) == ~job[j].wrote

(* run_post_analysis: the report exists and nothing new came.              *)
AlreadyAnalysed(j) == report # NoReport /\ ~job[j].wrote

(* run_post_analysis up to the call of the language model.                 *)
ReadForReport(j) ==
  /\ At(j, "analyse")
  /\ Becomes(j,
       CASE AlreadyAnalysed(j) /\ status # "done" ->
              Task(job[j].kind, "close", FALSE, FALSE, "draft", {})
         [] ~AlreadyAnalysed(j) /\ status \in Finished ->
              Task(job[j].kind, "llm", job[j].wrote, report # NoReport, status, transcript)
         [] OTHER -> NoTask)
  /\ UNCHANGED <<session, transcript, report, notices, pending>>

(* A duplicate task only finishes the session.                             *)
CloseWithReport(j) ==
  /\ At(j, "close")
  /\ status' = "done"
  /\ age' = Fresh
  /\ Becomes(j, NoTask)
  /\ UNCHANGED <<consent, ended, audio, transcript, report, notices, pending>>

(* _persist_report survives a parallel insertion of the report; the bell   *)
(* rings if this task found no report when it began.                       *)
PersistReport(j) ==
  LET unchanged == job[j].seen = "done" IN
  /\ At(j, "llm")
  /\ \E model \in Models : report' = Report(model, job[j].saw)
  /\ status' = IF unchanged THEN status ELSE "done"
  /\ age' = IF unchanged THEN age ELSE Fresh
  /\ notices' = IF job[j].had THEN notices ELSE notices + 1
  /\ Becomes(j, NoTask)
  /\ UNCHANGED <<consent, ended, audio, transcript, pending>>

(* An unexpected error of the model, or of writing the report.             *)
AnalysisFails(j) ==
  /\ At(j, "llm")
  /\ status' = "error"
  /\ age' = Fresh
  /\ Becomes(j, NoTask)
  /\ UNCHANGED <<consent, ended, audio, transcript, report, notices, pending>>

(* The worker dies or the database fails: the task is delivered again, or  *)
(* its retries are used up.                                                *)
Redeliver(j) ==
  /\ job[j] # NoTask /\ ~At(j, "queued")
  /\ Becomes(j, Queued(job[j].kind))
  /\ UNCHANGED <<session, transcript, report, notices, pending>>
GiveUp(j) ==
  /\ job[j] # NoTask
  /\ Becomes(j, NoTask)
  /\ UNCHANGED <<session, transcript, report, notices, pending>>
-----------------------------------------------------------------------------
Request(r) ==
  \/ GiveConsent(r) \/ WithdrawConsent(r) \/ Start(r) \/ Finish(r) \/ AppendSegment(r)
  \/ PollCard(r) \/ AttachAudio(r) \/ Retranscribe(r) \/ PurgeAudio(r)

Actor(a) ==
  \/ FinishByTimeout(a) \/ FinishTooLate(a) \/ Commit(a) \/ CommitSegment(a) \/ RequestFails(a)

Run(j) ==
  \/ BeginTask(j) \/ PrepareSegments(j) \/ InsertSegments(j) \/ RecognitionFails(j)
  \/ ReadForReport(j) \/ CloseWithReport(j) \/ PersistReport(j) \/ AnalysisFails(j)
  \/ Redeliver(j) \/ GiveUp(j)

Next ==
  \/ \E r \in Requests : Request(r)
  \/ \E a \in Actors : Actor(a)
  \/ FailStuckProcessing \/ RequeueStuckAnalysis \/ Tick
  \/ \E j \in Jobs : Run(j)

Spec == Init /\ [][Next]_vars

(* Time passes, the sweeper runs every minute, and its commits do not fail *)
(* every time.  Nothing is assumed of tasks, of the queue, or of people.   *)
Fairness ==
  /\ WF_vars(Tick)
  /\ WF_vars(FinishByTimeout(Sweeper))
  /\ WF_vars(FailStuckProcessing)
  /\ SF_vars(Commit(Sweeper))
-----------------------------------------------------------------------------
Typed ==
  /\ status \in Status /\ consent \in BOOLEAN /\ ended \in BOOLEAN /\ audio \in BOOLEAN
  /\ age \in Ages
  /\ transcript \subseteq Texts \cup {Live}
  /\ report \in {NoReport} \cup [model : Models, of : SUBSET (Texts \cup {Live})]
  /\ notices \in Nat
  /\ pending \in [Actors -> [op : Operations, set : Status \cup {"keep"}, kind : Kinds]]
  /\ job \in [Jobs -> [kind : Kinds, step : Steps, wrote : BOOLEAN, had : BOOLEAN, seen : Status,
                       saw : SUBSET (Texts \cup {Live})]]
(* A session that is processed, done or failed has had its meeting.        *)
TypeOK == Typed /\ (status \in Finished => ended)

(* "done" means that the report can be read, whichever of the parallel     *)
(* tasks, the sweeper and the requests wrote the status last.              *)
DoneHasReport == status = "done" => report # NoReport

(* A report is about a meeting that took place and was finished.           *)
ReportAfterMeeting == report # NoReport => ended

(* Two recognitions of the recording, in parallel or one delivered twice,  *)
(* never mix in the transcript.                                            *)
OneRecognition == \A s, t \in transcript \ {Live} : s = t

(* A transcript once there is never lost: a failed recognition leaves the  *)
(* old text.                                                               *)
TranscriptIsKept == [][transcript # {} => transcript' # {}]_vars

(* The words recognised during the meeting disappear only when somebody    *)
(* asked to recognise the recording again.                                 *)
LiveTextGoesOnRequest ==
  [][(Live \in transcript \ transcript') =>
       \E j \in Jobs : job[j].kind = "replace" /\ job'[j] # job[j]]_vars

(* A report is there when the card says so, and only after the meeting.    *)
ReportsAreDue == DoneHasReport /\ ReportAfterMeeting

(* No text is lost: not the transcript, nor the words of the meeting       *)
(* without a request.                                                      *)
TextIsKept == TranscriptIsKept /\ LiveTextGoesOnRequest

(* A meeting is left: at the latest the sweeper ends it.                   *)
LiveIsLeft == []<>(status # "live")

(* Once people leave the card alone it does not show "processing" for ever,*)
(* even if no task ever ends.  (While it is open its polls set updated_at, *)
(* and the sweeper counts anew.)                                           *)
LeftAloneIsResolved ==
  <>[](\A r \in Requests : pending[r] = Nothing)
    => []<>(status # "processing")

(* No session stays live or in processing for ever.                        *)
SessionsAreResolved == LiveIsLeft /\ LeftAloneIsResolved

(* A session goes live only with the consent of the candidate.             *)
StartedWithConsent == [][status = "draft" /\ status' = "live" => consent]_vars

(* The recruiter is notified of the first report only.                     *)
OneNotice == notices <= 1

(* When all tasks are over, a finished session whose transcript came from  *)
(* the recording has a report made of that transcript.                     *)
ReportIsOfTheText ==
  (\A j \in Jobs : job[j] = NoTask) /\ status = "done" /\ transcript \ {Live} # {}
    => report.of \ {Live} = transcript \ {Live}
=============================================================================
