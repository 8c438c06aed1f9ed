-------------------------- MODULE ScreeningAudio ----------------------------
(***************************************************************************)
(* The recordings of one AI screening between the bucket, the table files  *)
(* and the session (screening/service.py, files/service.py): uploaded by   *)
(* the browser, confirmed, attached, deleted by hand or with the session,  *)
(* and purged when the retention is over.                                  *)
(*                                                                         *)
(* A deletion is a call to S3 and then a transaction, so it is two steps   *)
(* with anything in between; the first may fail, and the process may die   *)
(* after it.                                                               *)
(***************************************************************************)
EXTENDS Naturals

CONSTANTS
  Files,     \* recordings, each with a key of its own in the bucket
  NoFile,    \* NULL in screening_sessions.audio_file_id
  Requests,  \* requests to delete a recording or the session, in progress
  Purger     \* the daily purge_expired_audio

ASSUME IdentityAssumption == NoFile \notin Files /\ Purger \notin Requests

VARIABLES
  object,    \* recordings in the bucket
  uploaded,  \* recordings that ever were there
  row,       \* the table files
  linked,    \* audio_file_id of the session
  alive,     \* the session exists
  old,       \* recordings whose row is older than the retention
  expired,   \* the end of the session is older than the retention
  confirm,   \* recordings whose confirmation has seen the session
  attach,    \* recordings whose attachment has seen row and session
  task       \* the deletions in progress

session == <<linked, alive, expired>>
requests == <<confirm, attach>>
vars == <<object, uploaded, row, session, old, requests, task>>

Tasks == Requests \cup {Purger}
Purposes == {"none", "file", "session", "purge", "orphan"}
(* gone: S3 has confirmed the deletion.                                    *)
Task(purpose, f, gone) == [purpose |-> purpose, file |-> f, gone |-> gone]
Idle == Task("none", NoFile, FALSE)

Init ==
  /\ object = {} /\ uploaded = {} /\ row = {} /\ old = {} /\ confirm = {} /\ attach = {}
  /\ linked = NoFile /\ alive = TRUE /\ expired = FALSE
  /\ task = [t \in Tasks |-> Idle]
-----------------------------------------------------------------------------
(* The browser puts the recording into the bucket, then confirms it.       *)
Upload(f) ==
  /\ alive
  /\ f \notin uploaded
  /\ object' = object \cup {f}
  /\ uploaded' = uploaded \cup {f}
  /\ UNCHANGED <<row, session, old, requests, task>>

BeginConfirm(f) ==
  /\ alive
  /\ f \in uploaded \ (row \cup confirm)
  /\ confirm' = confirm \cup {f}
  /\ UNCHANGED <<object, uploaded, row, session, old, attach, task>>
CommitConfirm(f) ==
  /\ f \in confirm
  /\ confirm' = confirm \ {f}
  /\ row' = row \cup {f}
  /\ UNCHANGED <<object, uploaded, session, old, attach, task>>

BeginAttach(f) ==
  /\ alive
  /\ f \in row \ attach
  /\ attach' = attach \cup {f}
  /\ UNCHANGED <<object, uploaded, row, session, old, confirm, task>>
(* The foreign key refuses a recording, and the ORM a session, that has    *)
(* gone meanwhile.                                                         *)
CommitAttach(f) ==
  /\ f \in attach
  /\ attach' = attach \ {f}
  /\ linked' = IF alive /\ f \in row THEN f ELSE linked
  /\ UNCHANGED <<object, uploaded, row, alive, expired, old, confirm, task>>

(* Fault: the foreign key without ON DELETE SET NULL.                      *)
LinkAnyway(f) == linked

(* ON DELETE SET NULL                                                      *)
LinkWithout(f) == IF linked = f THEN NoFile ELSE linked
-----------------------------------------------------------------------------
Begins(t, purpose, f) ==
  /\ task[t] = Idle
  /\ task' = [task EXCEPT ![t] = Task(purpose, f, FALSE)]
  /\ UNCHANGED <<object, uploaded, row, session, old, requests>>

(* files: delete_file, by the owner.                                       *)
BeginDeleteFile(t, f) == f \in row /\ Begins(t, "file", f)

(* screening: delete reads the session; without a recording it goes        *)
(* straight to deleting it.                                                *)
BeginDeleteSession(t) == alive /\ Begins(t, "session", linked)

(* The two phases of purge_expired_audio.                                  *)
BeginPurge ==
  /\ alive /\ expired /\ linked # NoFile
  /\ Begins(Purger, "purge", linked)

(* Fault: only the recordings of sessions that once expired are swept.     *)
OrphanIfExpired(f) == f \in row /\ f \in old /\ ~alive /\ expired

Orphan(f) == f \in row /\ f \in old /\ ~alive

BeginPurgeOrphan(f) == Orphan(f) /\ Begins(Purger, "orphan", f)

DeleteObject(t) ==
  /\ task[t].file # NoFile /\ ~task[t].gone
  /\ object' = object \ {task[t].file}
  /\ task' = [task EXCEPT ![t] = Task(task[t].purpose, task[t].file, TRUE)]
  /\ UNCHANGED <<uploaded, row, session, old, requests>>

(* Fault: the row is deleted first, whatever S3 will answer.               *)
MayDeleteRowFirst(t) == task[t].file # NoFile

MayDeleteRow(t) == task[t].file # NoFile /\ task[t].gone

(* The transaction after it.  The deletion of a session continues; the     *)
(* purge also writes NULL into the session it read, and fails as a whole   *)
(* if that is gone.                                                        *)
DeleteRow(t) ==
  LET f == task[t].file IN
  /\ MayDeleteRow(t)
  /\ task[t].purpose = "purge" => alive
  /\ row' = row \ {f}
  /\ linked' = IF task[t].purpose = "purge" THEN NoFile ELSE LinkWithout(f)
  /\ task' = [task EXCEPT ![t] =
                IF task[t].purpose = "session" THEN Task("session", NoFile, FALSE) ELSE Idle]
  /\ UNCHANGED <<object, uploaded, alive, expired, old, requests>>

(* S3 refuses: a session is deleted all the same, the others give up.      *)
ObjectStays(t) ==
  /\ task[t].file # NoFile /\ ~task[t].gone
  /\ task' = [task EXCEPT ![t] =
                IF task[t].purpose = "session" THEN Task("session", NoFile, FALSE) ELSE Idle]
  /\ UNCHANGED <<object, uploaded, row, session, old, requests>>

DeleteSession(t) ==
  /\ task[t] = Task("session", NoFile, FALSE)
  /\ alive' = FALSE
  /\ linked' = NoFile
  /\ task' = [task EXCEPT ![t] = Idle]
  /\ UNCHANGED <<object, uploaded, row, expired, old, requests>>

(* The process dies, or its transaction fails.                             *)
Crash(t) ==
  /\ task[t] # Idle
  /\ task' = [task EXCEPT ![t] = Idle]
  /\ UNCHANGED <<object, uploaded, row, session, old, requests>>

(* The retention passes; for the session from its end.                     *)
Expire(f) ==
  /\ f \in row \ old
  /\ old' = old \cup {f}
  /\ UNCHANGED <<object, uploaded, row, session, requests, task>>
ExpireSession ==
  /\ alive /\ ~expired
  /\ expired' = TRUE
  /\ UNCHANGED <<object, uploaded, row, linked, alive, old, requests, task>>
-----------------------------------------------------------------------------
Browser(f) ==
  \/ Upload(f) \/ BeginConfirm(f) \/ CommitConfirm(f) \/ BeginAttach(f) \/ CommitAttach(f)

Deletion(t) ==
  \/ DeleteObject(t) \/ DeleteRow(t) \/ ObjectStays(t) \/ DeleteSession(t) \/ Crash(t)

Next ==
  \/ \E f \in Files : Browser(f) \/ Expire(f) \/ BeginPurgeOrphan(f)
  \/ \E t \in Requests : BeginDeleteSession(t) \/ \E f \in Files : BeginDeleteFile(t, f)
  \/ \E t \in Tasks : Deletion(t)
  \/ BeginPurge \/ ExpireSession

Spec == Init /\ [][Next]_vars

(* Time passes, and the purge runs every day and ends: S3 and the database *)
(* refuse it now and then, not every time.                                 *)
Fairness ==
  /\ \A f \in Files : WF_vars(Expire(f)) /\ SF_vars(BeginPurgeOrphan(f))
  /\ WF_vars(ExpireSession) /\ SF_vars(BeginPurge)
  /\ SF_vars(DeleteObject(Purger)) /\ SF_vars(DeleteRow(Purger))
  /\ WF_vars(Crash(Purger))

FairSpec == Spec /\ Fairness
-----------------------------------------------------------------------------
TypeOK ==
  /\ object \subseteq uploaded /\ uploaded \subseteq Files
  /\ row \subseteq uploaded /\ old \subseteq uploaded
  /\ confirm \subseteq uploaded /\ attach \subseteq uploaded
  /\ linked \in row \cup {NoFile}
  /\ alive \in BOOLEAN /\ expired \in BOOLEAN
  /\ task \in [Tasks -> [purpose : Purposes, file : uploaded \cup {NoFile}, gone : BOOLEAN]]

(* The row is all that leads to the object: it goes only when the object   *)
(* has gone, in whatever order deletions by hand, of the session and by    *)
(* the purge overlap, fail and are repeated.                               *)
RowOutlivesObject == [][\A f \in row \ row' : f \notin object']_vars

(* The recordings of a deleted session go at last, although S3 was down    *)
(* when it was deleted.                                                    *)
DeletedSessionLeavesNoAudio ==
  \A f \in Files : (~alive /\ f \in row) ~> f \notin row \cup object

(* No recording outlives the retention of its session and its own.         *)
ExpiredIsPurged ==
  \A f \in Files : (expired /\ f \in row \cap old) ~> f \notin row \cap object
=============================================================================
