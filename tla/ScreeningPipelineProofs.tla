---------------------- MODULE ScreeningPipelineProofs -----------------------
(***************************************************************************)
(* Theorems about ScreeningPipeline, for any number of requests, tasks and *)
(* recognised texts.                                                       *)
(***************************************************************************)
EXTENDS ScreeningPipeline, TLAPS

Writes == [op : Operations, set : Status \cup {"keep"}, kind : Kinds]
Tasks == [kind : Kinds, step : Steps, wrote : BOOLEAN, had : BOOLEAN, seen : Status,
          saw : SUBSET (Texts \cup {Live})]

(* No request decides that a session is done, and one that decides to      *)
(* process it, other than by finishing it, saw it finished.                *)
WriteSound(w) ==
  /\ w.set # "done"
  /\ w.op \notin {"finish", "timeout"} /\ (w.set \in Finished \/ w.kind # "none") => ended

(* A task runs only for a finished meeting; one that only closes the       *)
(* session saw its report; one that deletes a transcript was asked to.     *)
TaskSound(t) ==
  /\ t.step = "none" => t = NoTask
  /\ t.step # "none" => ended
  /\ t.step = "close" => report # NoReport
  /\ t.step = "insert" /\ t.had => t.kind = "replace"

FinishedEnded == status \in Finished => ended
WritesSound == \A a \in Actors : WriteSound(pending[a])
TasksSound == \A j \in Jobs : TaskSound(job[j])

(* The inductive invariant.                                                *)
IInv ==
  /\ Typed /\ DoneHasReport /\ ReportAfterMeeting /\ OneRecognition
  /\ FinishedEnded /\ WritesSound /\ TasksSound

(* An empty slot of the queue, and a request that does nothing.            *)
LEMMA NoTaskSound == NoTask \in Tasks /\ TaskSound(NoTask)
  BY DEF NoTask, Task, Tasks, TaskSound, Kinds, Steps, Status

(* Nothing to commit is a sound write.                                     *)
LEMMA NothingSound == Nothing \in Writes /\ WriteSound(Nothing)
  BY DEF Nothing, Write, Writes, WriteSound, Kinds, Operations, Finished, Status

(* A report that was written is not the absence of one.                    *)
LEMMA ReportExists ==
  ASSUME NEW model \in Models, NEW of
  PROVE  Report(model, of) # NoReport
  BY DEF Report, NoReport, Models

(* Once there is a report there is one, and once ended is ended.           *)
Grows == (ended => ended') /\ (report # NoReport => report' # NoReport)

(* Sound writes and tasks remain so while the session only grows.          *)
LEMMA SoundKept ==
  ASSUME Grows
  PROVE  /\ \A w : WriteSound(w) => WriteSound(w)'
         /\ \A t : TaskSound(t) => TaskSound(t)'
  BY DEF Grows, WriteSound, TaskSound

(* A step that puts a sound write into pending, and nothing else, keeps    *)
(* the invariant.                                                          *)
LEMMA ReadsKept ==
  ASSUME IInv, NEW a \in Actors, NEW w \in Writes, WriteSound(w), Reads(a, w)
  PROVE  IInv'
<1>1. pending' \in [Actors -> Writes]
  BY DEF IInv, Typed, Reads, Writes
<1>2. Typed'
  BY <1>1 DEF IInv, Typed, Reads, session, Writes
<1>3. ASSUME NEW b \in Actors PROVE WriteSound(pending[b])'
  <2>1. pending'[b] \in {w, pending[b]}
    BY DEF IInv, Typed, Reads
  <2>2. WriteSound(pending[b])
    BY DEF IInv, WritesSound
  <2> QED
    BY <2>1, <2>2 DEF WriteSound, Reads, session
<1>4. WritesSound'
  BY <1>3 DEF WritesSound
<1>5. TasksSound'
  BY DEF IInv, TasksSound, TaskSound, Reads, session
<1> QED
  BY <1>2, <1>4, <1>5 DEF IInv, DoneHasReport, ReportAfterMeeting, OneRecognition, FinishedEnded,
    Reads, session

(* A step that ends a request while the session and its tasks stay.        *)
LEMMA DoneKept ==
  ASSUME IInv, NEW a \in Actors, Done(a), Grows
  PROVE  pending' \in [Actors -> Writes] /\ WritesSound'
<1>1. pending' \in [Actors -> Writes]
  BY NothingSound DEF IInv, Typed, Done, Writes
<1>2. ASSUME NEW b \in Actors PROVE WriteSound(pending[b])'
  <2>1. pending'[b] \in {Nothing, pending[b]}
    BY DEF IInv, Typed, Done
  <2>2. WriteSound(pending[b]) /\ WriteSound(Nothing)
    BY NothingSound DEF IInv, WritesSound
  <2> QED
    BY <2>1, <2>2 DEF WriteSound, Grows
<1> QED
  BY <1>1, <1>2 DEF WritesSound

(* A step of a task that leaves it sound.                                  *)
LEMMA BecomesKept ==
  ASSUME IInv, NEW j \in Jobs, NEW t \in Tasks, TaskSound(t)', Becomes(j, t), Grows
  PROVE  job' \in [Jobs -> Tasks] /\ TasksSound'
<1>1. job' \in [Jobs -> Tasks]
  BY DEF IInv, Typed, Becomes, Tasks
<1>2. ASSUME NEW i \in Jobs PROVE TaskSound(job[i])'
  <2>1. job'[i] \in {t, job[i]}
    BY DEF IInv, Typed, Becomes
  <2>2. TaskSound(job[i])
    BY DEF IInv, TasksSound
  <2>3. CASE job'[i] = t
    BY <2>3 DEF TaskSound
  <2>4. CASE job'[i] = job[i]
    BY <2>2, <2>4 DEF TaskSound, Grows
  <2> QED
    BY <2>1, <2>3, <2>4
<1> QED
  BY <1>1, <1>2 DEF TasksSound

(* Putting a task in the queue, once the meeting is over.                  *)
LEMMA EnqueueKept ==
  ASSUME IInv, NEW kind \in Kinds, Enqueue(kind), kind # "none" => ended', Grows
  PROVE  job' \in [Jobs -> Tasks] /\ TasksSound'
<1>1. CASE UNCHANGED job
  BY <1>1 DEF IInv, Typed, Tasks, TasksSound, TaskSound, Grows
<1>2. CASE \E j \in Jobs : kind # "none" /\ job' = [job EXCEPT ![j] = Queued(kind)]
  <2>1. PICK j \in Jobs : kind # "none" /\ Becomes(j, Queued(kind))
    BY <1>2 DEF Becomes
  <2>2. Queued(kind) \in Tasks /\ Queued(kind).step = "queued"
    BY DEF Queued, Task, Tasks, Steps, Status
  <2>3. TaskSound(Queued(kind))'
    BY <2>1, <2>2 DEF TaskSound
  <2> QED
    BY <2>1, <2>2, <2>3, BecomesKept
<1> QED
  BY <1>1, <1>2 DEF Enqueue

(* The draft of a session satisfies the invariant.                         *)
LEMMA InitInv == Init => IInv
<1> SUFFICES ASSUME Init PROVE IInv
  OBVIOUS
<1>1. pending \in [Actors -> Writes] /\ job \in [Jobs -> Tasks]
  BY NothingSound, NoTaskSound DEF Init
<1>2. Typed
  <2>1. status \in Status /\ age \in Ages /\ notices \in Nat
    BY DEF Init, Status, Ages, Fresh, Hopeless
  <2>2. pending \in [Actors -> [op : Operations, set : Status \cup {"keep"}, kind : Kinds]]
    BY <1>1 DEF Writes
  <2>3. job \in [Jobs -> [kind : Kinds, step : Steps, wrote : BOOLEAN, had : BOOLEAN, seen : Status,
                          saw : SUBSET (Texts \cup {Live})]]
    BY <1>1 DEF Tasks
  <2> QED
    BY <2>1, <2>2, <2>3 DEF Init, Typed
<1>3. WritesSound /\ TasksSound
  BY NothingSound, NoTaskSound DEF Init, WritesSound, TasksSound
<1> QED
  BY <1>2, <1>3 DEF Init, IInv, DoneHasReport, ReportAfterMeeting, OneRecognition, FinishedEnded, Finished

(* The requests that read.                                                 *)
LEMMA RequestInv ==
  ASSUME IInv, NEW r \in Requests, Request(r)
  PROVE  IInv'
<1> DEFINE Kept(op, set, kind) == Write(op, set, kind) \in Writes /\ WriteSound(Write(op, set, kind))
<1>a. r \in Actors
  BY DEF Actors
<1>1. CASE GiveConsent(r)
  <2>1. Kept("consent", "keep", "none")
    BY DEF Write, Writes, WriteSound, Operations, Kinds, Finished, Status
  <2> QED
    BY <1>a, <1>1, <2>1, ReadsKept DEF GiveConsent
<1>2. CASE WithdrawConsent(r)
  <2>1. Kept("withdraw", "keep", "none")
    BY DEF Write, Writes, WriteSound, Operations, Kinds, Finished, Status
  <2> QED
    BY <1>a, <1>2, <2>1, ReadsKept DEF WithdrawConsent
<1>3. CASE Start(r)
  <2>1. Kept("start", "live", "none")
    BY DEF Write, Writes, WriteSound, Operations, Kinds, Finished, Status
  <2> QED
    BY <1>a, <1>3, <2>1, ReadsKept DEF Start
<1>4. CASE Finish(r)
  <2>1. PostMeeting \in Kinds
    BY DEF PostMeeting, Kinds
  <2>2. Kept("finish", "processing", PostMeeting)
    BY <2>1 DEF Write, Writes, WriteSound, Operations, Finished, Status
  <2> QED
    BY <1>a, <1>4, <2>2, ReadsKept DEF Finish
<1>5. CASE AppendSegment(r)
  <2>1. Kept("segment", "keep", "none")
    BY DEF Write, Writes, WriteSound, Operations, Kinds, Finished, Status
  <2> QED
    BY <1>a, <1>5, <2>1, ReadsKept DEF AppendSegment
<1>6. CASE PollCard(r)
  <2>1. ended
    BY <1>6 DEF PollCard, Transcribable, IInv, FinishedEnded
  <2>2. Kept("poll", Reprocessed, "offline")
    BY <2>1 DEF Reprocessed, Write, Writes, WriteSound, Operations, Kinds, Status
  <2> QED
    BY <1>a, <1>6, <2>2, ReadsKept DEF PollCard
<1>7. CASE AttachAudio(r) /\ Transcribable(TRUE)
  <2>1. ended
    BY <1>7 DEF Transcribable, IInv, FinishedEnded
  <2>2. Kept("attach", Reprocessed, "offline")
    BY <2>1 DEF Reprocessed, Write, Writes, WriteSound, Operations, Kinds, Status
  <2> QED
    BY <1>a, <1>7, <2>2, ReadsKept DEF AttachAudio
<1>8. CASE AttachAudio(r) /\ ~Transcribable(TRUE)
  <2>1. Kept("attach", "keep", "none")
    BY DEF Write, Writes, WriteSound, Operations, Kinds, Finished, Status
  <2> QED
    BY <1>a, <1>8, <2>1, ReadsKept DEF AttachAudio
<1>9. CASE Retranscribe(r)
  <2>1. ended
    BY <1>9 DEF Retranscribe, IInv, FinishedEnded
  <2>2. Kept("retranscribe", Reprocessed, "replace")
    BY <2>1 DEF Reprocessed, Write, Writes, WriteSound, Operations, Kinds, Status
  <2> QED
    BY <1>a, <1>9, <2>2, ReadsKept DEF Retranscribe
<1>10. CASE PurgeAudio(r)
  <2>1. Kept("purge", "keep", "none")
    BY DEF Write, Writes, WriteSound, Operations, Kinds, Finished, Status
  <2> QED
    BY <1>a, <1>10, <2>1, ReadsKept DEF PurgeAudio
<1> QED
  BY <1>1, <1>2, <1>3, <1>4, <1>5, <1>6, <1>7, <1>8, <1>9, <1>10 DEF Request

(* The sweeper gives up a session that stayed in processing.               *)
LEMMA FailInv ==
  ASSUME IInv, FailStuckProcessing
  PROVE  IInv'
<1>1. ended
  BY DEF FailStuckProcessing, IInv, FinishedEnded, Finished, Status
<1>2. Write("fail", "error", "none") \in Writes /\ WriteSound(Write("fail", "error", "none"))
  BY <1>1 DEF Write, Writes, WriteSound, Operations, Kinds, Status
<1>3. Sweeper \in Actors
  BY DEF Actors
<1> QED
  BY <1>2, <1>3, ReadsKept DEF FailStuckProcessing

(* The commit of what an actor decided: only finish and timeout end the    *)
(* meeting, everything else that needs an ended one saw it ended.          *)
LEMMA CommitInv ==
  ASSUME IInv, NEW a \in Actors, Commit(a)
  PROVE  IInv'
<1> DEFINE w == pending[a]
<1>1. w \in Writes /\ WriteSound(w)
  BY DEF IInv, Typed, Writes, WritesSound
<1>2. w.set \in Status \cup {"keep"} /\ w.kind \in Kinds
  BY <1>1 DEF Writes
<1>3. Grows
  BY DEF Commit, Grows
<1>4. status' \in Status /\ (status' \in Finished => ended') /\ (status' = "done" => status = "done")
  BY <1>1, <1>2 DEF Commit, WriteSound, IInv, Typed, FinishedEnded
<1>5. w.kind # "none" => ended'
  BY <1>1 DEF Commit, WriteSound
<1>6. job' \in [Jobs -> Tasks] /\ TasksSound'
  BY <1>2, <1>3, <1>5, EnqueueKept DEF Commit
<1>7. pending' \in [Actors -> Writes] /\ WritesSound'
  BY <1>3, DoneKept DEF Commit
<1>8. consent' \in BOOLEAN /\ ended' \in BOOLEAN /\ audio' \in BOOLEAN /\ age' \in Ages
  BY DEF Commit, IInv, Typed, Ages, Fresh, Hopeless
<1>9. Typed'
  BY <1>4, <1>6, <1>7, <1>8 DEF Commit, IInv, Typed, Writes, Tasks
<1> QED
  BY <1>3, <1>4, <1>6, <1>7, <1>9 DEF Commit, IInv, DoneHasReport, ReportAfterMeeting, OneRecognition,
    FinishedEnded, Grows

(* The other steps of an actor.                                            *)
LEMMA ActorInv ==
  ASSUME IInv, NEW a \in Actors, Actor(a)
  PROVE  IInv'
<1>1. CASE FinishByTimeout(a)
  <2>1. PostMeeting \in Kinds
    BY DEF PostMeeting, Kinds
  <2>2. /\ Write("timeout", "processing", PostMeeting) \in Writes
        /\ WriteSound(Write("timeout", "processing", PostMeeting))
    BY <2>1 DEF Write, Writes, WriteSound, Operations, Finished, Status
  <2> QED
    BY <1>1, <2>2, ReadsKept DEF FinishByTimeout
<1>2. CASE FinishTooLate(a) \/ RequestFails(a)
  <2>1. Done(a) /\ UNCHANGED <<session, transcript, report, notices, job>>
    BY <1>2 DEF FinishTooLate, RequestFails
  <2>2. Grows
    BY <2>1 DEF Grows, session
  <2>3. pending' \in [Actors -> Writes] /\ WritesSound'
    BY <2>1, <2>2, DoneKept
  <2>4. Typed'
    BY <2>1, <2>3 DEF IInv, Typed, session, Writes
  <2> QED
    BY <2>1, <2>3, <2>4 DEF IInv, DoneHasReport, ReportAfterMeeting, OneRecognition, FinishedEnded,
      TasksSound, TaskSound, session
<1>3. CASE Commit(a)
  BY <1>3, CommitInv
<1>4. CASE CommitSegment(a)
  <2>1. Grows
    BY <1>4 DEF Grows, CommitSegment, session
  <2>2. pending' \in [Actors -> Writes] /\ WritesSound'
    BY <1>4, <2>1, DoneKept DEF CommitSegment
  <2>3. Typed'
    BY <1>4, <2>2 DEF IInv, Typed, CommitSegment, session, Writes
  <2> QED
    BY <1>4, <2>2, <2>3 DEF CommitSegment, IInv, DoneHasReport, ReportAfterMeeting, OneRecognition,
      FinishedEnded, TasksSound, TaskSound, session
<1> QED
  BY <1>1, <1>2, <1>3, <1>4 DEF Actor

(* The steps of a task.                                                    *)
LEMMA RunInv ==
  ASSUME IInv, NEW j \in Jobs, Run(j)
  PROVE  IInv'
<1> DEFINE k == job[j].kind
<1>a. /\ job[j] \in Tasks /\ TaskSound(job[j])
      /\ k \in Kinds /\ job[j].wrote \in BOOLEAN /\ job[j].had \in BOOLEAN /\ job[j].seen \in Status
      /\ job[j].saw \in SUBSET (Texts \cup {Live})
  BY DEF IInv, Typed, Tasks, TasksSound
<1>b. Analyse(j, TRUE) \in Tasks /\ Analyse(j, FALSE) \in Tasks
  BY <1>a DEF Analyse, Task, Tasks, Steps, Status
<1>c. Analyse(j, TRUE).step = "analyse" /\ Analyse(j, FALSE).step = "analyse"
  BY DEF Analyse, Task
<1>d. job[j].step # "none" => ended
  BY <1>a DEF TaskSound
<1>e. ASSUME NEW t \in Tasks, TaskSound(t), Becomes(j, t),
             UNCHANGED <<session, transcript, report, notices, pending>>
      PROVE  IInv'
  <2>1. Grows
    BY <1>e DEF Grows, session
  <2>2. TaskSound(t)'
    BY <1>e DEF TaskSound, session
  <2>3. job' \in [Jobs -> Tasks] /\ TasksSound'
    BY <1>e, <2>1, <2>2, BecomesKept
  <2>4. Typed'
    BY <1>e, <2>3 DEF IInv, Typed, session, Tasks
  <2> QED
    BY <1>e, <2>3, <2>4 DEF IInv, DoneHasReport, ReportAfterMeeting, OneRecognition, FinishedEnded,
      WritesSound, WriteSound, session
<1>f. ended => TaskSound(Analyse(j, TRUE)) /\ TaskSound(Analyse(j, FALSE))
  BY <1>c DEF TaskSound
<1>1. CASE BeginTask(j)
  <2>1. ended
    BY <1>1, <1>d DEF BeginTask, At
  <2>2. Task(k, "stt", FALSE, FALSE, "draft", {}) \in Tasks
        /\ TaskSound(Task(k, "stt", FALSE, FALSE, "draft", {}))
    BY <2>1, <1>a DEF Task, Tasks, TaskSound, Steps, Status
  <2> QED
    BY <1>1, <1>b, <1>e, <1>f, <2>1, <2>2 DEF BeginTask
<1>2. CASE PrepareSegments(j)
  <2> DEFINE had == transcript # {}
             t == IF had /\ k # "replace" THEN Analyse(j, FALSE)
                  ELSE Task(k, "insert", FALSE, had, "draft", {})
  <2>1. ended
    BY <1>2, <1>d DEF PrepareSegments, At
  <2>2. CASE had /\ k # "replace"
    BY <1>2, <1>b, <1>e, <1>f, <2>1, <2>2 DEF PrepareSegments
  <2>3. CASE ~(had /\ k # "replace")
    <3>1. t \in Tasks /\ TaskSound(t)
      BY <1>a, <2>1, <2>3 DEF Task, Tasks, TaskSound, Steps, Status
    <3> QED
      BY <1>2, <1>e, <2>3, <3>1 DEF PrepareSegments
  <2> QED
    BY <2>2, <2>3
<1>3. CASE InsertSegments(j)
  <2>1. ended /\ Grows
    BY <1>3, <1>d DEF InsertSegments, At, Grows, session
  <2>2. PICK text \in Texts : transcript' = Inserted(j, text)
    BY <1>3 DEF InsertSegments
  <2>3. transcript' \subseteq Texts \cup {Live} /\ OneRecognition'
    BY <2>2 DEF Inserted, IInv, Typed, OneRecognition
  <2>4. PICK t \in Tasks : t.step = "analyse" /\ Becomes(j, t)
    BY <1>3, <1>b, <1>c DEF InsertSegments
  <2>5. TaskSound(t)'
    BY <1>3, <2>1, <2>4 DEF TaskSound, InsertSegments, session
  <2>6. job' \in [Jobs -> Tasks] /\ TasksSound'
    BY <2>1, <2>4, <2>5, BecomesKept
  <2>7. Typed'
    BY <1>3, <2>3, <2>6 DEF InsertSegments, IInv, Typed, session, Tasks
  <2> QED
    BY <1>3, <2>3, <2>6, <2>7 DEF InsertSegments, IInv, DoneHasReport, ReportAfterMeeting,
      FinishedEnded, WritesSound, WriteSound, session
<1>4. CASE RecognitionFails(j)
  BY <1>4, <1>b, <1>d, <1>e, <1>f DEF RecognitionFails, At
<1>5. CASE ReadForReport(j)
  <2>1. ended
    BY <1>5, <1>d DEF ReadForReport, At
  <2>2. CASE AlreadyAnalysed(j) /\ status # "done"
    <3> DEFINE t == Task(k, "close", FALSE, FALSE, "draft", {})
    <3>1. t \in Tasks /\ TaskSound(t)
      BY <1>a, <2>1, <2>2 DEF Task, Tasks, TaskSound, Steps, Status, AlreadyAnalysed
    <3>2. Becomes(j, t)
      BY <1>5, <2>2 DEF ReadForReport
    <3> QED
      BY <1>5, <1>e, <3>1, <3>2 DEF ReadForReport
  <2>3. CASE ~AlreadyAnalysed(j) /\ status \in Finished
    <3> DEFINE t == Task(k, "llm", job[j].wrote, report # NoReport, status, transcript)
    <3>1. t \in Tasks /\ TaskSound(t)
      BY <1>a, <2>1 DEF Task, Tasks, TaskSound, Steps, IInv, Typed
    <3>2. Becomes(j, t)
      BY <1>5, <2>3 DEF ReadForReport
    <3> QED
      BY <1>5, <1>e, <3>1, <3>2 DEF ReadForReport
  <2>4. CASE ~(AlreadyAnalysed(j) /\ status # "done") /\ ~(~AlreadyAnalysed(j) /\ status \in Finished)
    <3>1. Becomes(j, NoTask)
      BY <1>5, <2>4 DEF ReadForReport
    <3> QED
      BY <1>5, <1>e, <3>1, NoTaskSound DEF ReadForReport
  <2> QED
    BY <2>2, <2>3, <2>4
<1>6. CASE CloseWithReport(j) \/ PersistReport(j) \/ AnalysisFails(j)
  <2>1. /\ ended /\ UNCHANGED <<consent, ended, audio, transcript, pending>>
        /\ Becomes(j, NoTask)
    BY <1>6, <1>d DEF CloseWithReport, PersistReport, AnalysisFails, At
  <2>2. /\ report' \in {NoReport} \cup [model : Models, of : SUBSET (Texts \cup {Live})]
        /\ report # NoReport \/ PersistReport(j) => report' # NoReport
    <3>1. CASE PersistReport(j)
      <4>1. PICK model \in Models : report' = Report(model, job[j].saw)
        BY <3>1 DEF PersistReport
      <4>2. report' # NoReport
        BY <4>1, ReportExists
      <4>3. report' \in [model : Models, of : SUBSET (Texts \cup {Live})]
        BY <4>1, <1>a DEF Report
      <4> QED
        BY <4>2, <4>3
    <3>2. CASE CloseWithReport(j) \/ AnalysisFails(j)
      <4>1. ~PersistReport(j) \/ report' # NoReport
        BY <3>1, <1>6, <3>2, ReportExists DEF CloseWithReport, AnalysisFails, PersistReport
      <4> QED
        BY <3>2, <4>1 DEF CloseWithReport, AnalysisFails, IInv, Typed
    <3> QED
      BY <1>6, <3>1, <3>2
  <2>3. Grows
    BY <2>1, <2>2 DEF Grows
  <2>4. TaskSound(NoTask)'
    BY NoTaskSound, <2>1 DEF TaskSound, NoTask, Task
  <2>5. job' \in [Jobs -> Tasks] /\ TasksSound'
    BY <2>1, <2>3, <2>4, NoTaskSound, BecomesKept
  <2>6. status' \in Status /\ age' \in Ages /\ notices' \in Nat
    BY <1>6 DEF CloseWithReport, PersistReport, AnalysisFails, IInv, Typed, Status, Ages, Fresh, Hopeless
  <2>7. Typed'
    BY <2>1, <2>2, <2>5, <2>6 DEF IInv, Typed, Tasks
  <2>8. status' = "done" => report' # NoReport
    <3>1. CASE CloseWithReport(j)
      BY <3>1, <1>a DEF CloseWithReport, At, TaskSound
    <3>2. CASE PersistReport(j)
      BY <3>2, <2>2
    <3>3. CASE AnalysisFails(j)
      BY <3>3 DEF AnalysisFails
    <3> QED
      BY <1>6, <3>1, <3>2, <3>3
  <2> QED
    BY <2>1, <2>5, <2>7, <2>8 DEF IInv, DoneHasReport, ReportAfterMeeting, OneRecognition,
      FinishedEnded, WritesSound, WriteSound
<1>7. CASE Redeliver(j)
  <2>1. ended
    BY <1>7, <1>a DEF Redeliver, TaskSound
  <2>2. Queued(k) \in Tasks /\ TaskSound(Queued(k))
    BY <1>a, <2>1 DEF Queued, Task, Tasks, TaskSound, Steps, Status
  <2> QED
    BY <1>7, <1>e, <2>2 DEF Redeliver
<1>8. CASE GiveUp(j)
  BY <1>8, <1>e, NoTaskSound DEF GiveUp
<1> QED
  BY <1>1, <1>2, <1>3, <1>4, <1>5, <1>6, <1>7, <1>8 DEF Run

(* Every step keeps the invariant, those of the clock and of the sweeper   *)
(* that fills the queue included.                                          *)
LEMMA StepInv == IInv /\ [Next]_vars => IInv'
<1> SUFFICES ASSUME IInv, [Next]_vars PROVE IInv'
  OBVIOUS
<1>1. CASE \E r \in Requests : Request(r)
  BY <1>1, RequestInv
<1>2. CASE \E a \in Actors : Actor(a)
  BY <1>2, ActorInv
<1>3. CASE FailStuckProcessing
  BY <1>3, FailInv
<1>4. CASE RequeueStuckAnalysis
  <2>1. ended /\ Grows
    BY <1>4 DEF RequeueStuckAnalysis, IInv, FinishedEnded, Finished, Status, Grows, session
  <2>2. PostMeeting \in Kinds
    BY DEF PostMeeting, Kinds
  <2>3. job' \in [Jobs -> Tasks] /\ TasksSound'
    BY <1>4, <2>1, <2>2, EnqueueKept DEF RequeueStuckAnalysis, session
  <2>4. Typed'
    BY <1>4, <2>3 DEF RequeueStuckAnalysis, IInv, Typed, session, Tasks
  <2> QED
    BY <1>4, <2>3, <2>4 DEF RequeueStuckAnalysis, IInv, DoneHasReport, ReportAfterMeeting,
      OneRecognition, FinishedEnded, WritesSound, WriteSound, session
<1>5. CASE Tick
  <2>1. age' \in Ages
    BY <1>5 DEF Tick, IInv, Typed, Ages, Fresh, Cooled, Hopeless
  <2>2. Typed'
    BY <1>5, <2>1 DEF Tick, IInv, Typed
  <2> QED
    BY <1>5, <2>2 DEF Tick, IInv, DoneHasReport, ReportAfterMeeting, OneRecognition, FinishedEnded,
      WritesSound, WriteSound, TasksSound, TaskSound
<1>6. CASE \E j \in Jobs : Run(j)
  BY <1>6, RunInv
<1>7. CASE UNCHANGED vars
  BY <1>7 DEF vars, session, IInv, Typed, DoneHasReport, ReportAfterMeeting, OneRecognition,
    FinishedEnded, WritesSound, WriteSound, TasksSound, TaskSound
<1> QED
  BY <1>1, <1>2, <1>3, <1>4, <1>5, <1>6, <1>7 DEF Next

(* The invariant holds in every state.                                     *)
LEMMA Invariant == Spec => []IInv
  BY InitInv, StepInv, PTL DEF Spec

(* Every row and every request in progress has its type, and a session    *)
(* past its meeting has had one.                                           *)
THEOREM TypeCorrect == Spec => []TypeOK
<1>1. IInv => TypeOK
  BY DEF IInv, TypeOK, FinishedEnded
<1> QED
  BY <1>1, Invariant, PTL

(* A session that is done has its report, whatever tasks ran in parallel,  *)
(* were delivered twice or were given up.                                  *)
THEOREM ReportReady == Spec => []DoneHasReport
<1>1. IInv => DoneHasReport
  BY DEF IInv
<1> QED
  BY <1>1, Invariant, PTL

(* Only a finished meeting has a report.                                   *)
THEOREM ReportedAfterMeeting == Spec => []ReportAfterMeeting
<1>1. IInv => ReportAfterMeeting
  BY DEF IInv
<1> QED
  BY <1>1, Invariant, PTL

(* The transcript holds the words of at most one recognition of the        *)
(* recording.                                                              *)
THEOREM RecognisedOnce == Spec => []OneRecognition
<1>1. IInv => OneRecognition
  BY DEF IInv
<1> QED
  BY <1>1, Invariant, PTL

(* Which steps touch the transcript, and how.                              *)
LEMMA TranscriptSteps ==
  ASSUME Next
  PROVE  \/ transcript' = transcript
         \/ transcript' = transcript \cup {Live}
         \/ \E j \in Jobs : InsertSegments(j)
<1>1. CASE \E r \in Requests : Request(r)
  BY <1>1 DEF Request, GiveConsent, WithdrawConsent, Start, Finish, AppendSegment, PollCard,
    AttachAudio, Retranscribe, PurgeAudio, Reads
<1>2. CASE \E a \in Actors : Actor(a)
  BY <1>2 DEF Actor, FinishByTimeout, FinishTooLate, Commit, CommitSegment, RequestFails, Reads
<1>3. CASE FailStuckProcessing \/ RequeueStuckAnalysis \/ Tick
  BY <1>3 DEF FailStuckProcessing, RequeueStuckAnalysis, Tick, Reads
<1>4. CASE \E j \in Jobs : Run(j)
  BY <1>4 DEF Run, BeginTask, PrepareSegments, RecognitionFails, ReadForReport, CloseWithReport,
    PersistReport, AnalysisFails, Redeliver, GiveUp
<1> QED
  BY <1>1, <1>2, <1>3, <1>4 DEF Next

(* A transcript is never emptied again.                                    *)
THEOREM TranscriptKept == Spec => TranscriptIsKept
<1>1. [Next]_vars => [transcript # {} => transcript' # {}]_vars
  <2>1. CASE Next
    BY <2>1, TranscriptSteps DEF InsertSegments, Inserted
  <2> QED
    BY <2>1
<1> QED
  BY <1>1, PTL DEF Spec, TranscriptIsKept

(* Words of the meeting disappear only by a requested recognition.         *)
THEOREM LiveTextKept == Spec => LiveTextGoesOnRequest
<1> DEFINE Gone == (Live \in transcript \ transcript') =>
                     \E j \in Jobs : job[j].kind = "replace" /\ job'[j] # job[j]
<1>1. IInv /\ [Next]_vars => [Gone]_vars
  <2> SUFFICES ASSUME IInv, Next, Live \in transcript \ transcript'
               PROVE  \E j \in Jobs : job[j].kind = "replace" /\ job'[j] # job[j]
    OBVIOUS
  <2>1. PICK j \in Jobs : InsertSegments(j)
    BY TranscriptSteps
  <2>2. job[j].step = "insert" /\ job[j].had
    BY <2>1 DEF InsertSegments, At, Inserted, IInv, Typed
  <2>3. job[j].kind = "replace"
    BY <2>2 DEF IInv, TasksSound, TaskSound
  <2>4. job'[j].step = "analyse"
    BY <2>1 DEF InsertSegments, Becomes, Analyse, Task, IInv, Typed
  <2> QED
    BY <2>2, <2>3, <2>4
<1> QED
  BY <1>1, Invariant, PTL DEF Spec, LiveTextGoesOnRequest

(* Reports are there when they are due, and not before.                    *)
THEOREM ReportsAlwaysDue == Spec => []ReportsAreDue
BY ReportReady, ReportedAfterMeeting, PTL DEF ReportsAreDue

(* Neither the transcript nor the words of the meeting are lost.           *)
THEOREM TextAlwaysKept == Spec => TextIsKept
BY TranscriptKept, LiveTextKept DEF TextIsKept
=============================================================================
