----------------------------- MODULE ChatComposer -----------------------------
(***************************************************************************)
(* The field in which a chat message is written (Composer.tsx): a text,    *)
(* and files that are uploaded one after another while the text is being   *)
(* written. One composer serves every dialog that is opened.               *)
(***************************************************************************)
EXTENDS Naturals, FiniteSets

CONSTANTS
  Slots,        \* ten attachments
  ChatFiles,    \* bound: files that are picked
  MaxDrafts     \* bound: messages written

ASSUME ComposerAssumption ==
  Slots \in Nat /\ MaxDrafts \in Nat \ {0} /\ IsFiniteSet(ChatFiles)

VARIABLES
  draft,        \* the message being written
  written,      \* its text is not empty
  uploads,      \* files waiting for their upload, or in it
  attachments,  \* attached
  chosenFor,    \* auxiliary: the draft a file was picked for (0: not yet)
  wentWith,     \* auxiliary: the draft a file was sent with (0: not yet)
  dropped,      \* auxiliary: files that failed or were removed
  posting       \* the post under way (postMessage.isPending)

composerVars == <<draft, written, uploads, attachments, chosenFor, wentWith, dropped, posting>>
-----------------------------------------------------------------------------
(* handleChange, pickMention.                                              *)
HandleChange(v) ==
  /\ written # v
  /\ written' = v
  /\ UNCHANGED <<draft, uploads, attachments, chosenFor, wentWith, dropped, posting>>

(* A picker, or files dropped on the field: as many as there are slots.    *)
FreeSlots == Slots - Cardinality(attachments) - Cardinality(uploads)
UploadFiles(files) ==
  /\ files # {} /\ \A f \in files : chosenFor[f] = 0
  /\ Cardinality(files) <= FreeSlots
  /\ uploads' = uploads \cup files
  /\ chosenFor' = [f \in ChatFiles |-> IF f \in files THEN draft ELSE chosenFor[f]]
  /\ UNCHANGED <<draft, written, attachments, wentWith, dropped, posting>>
Uploaded(f) ==
  /\ f \in uploads
  /\ uploads' = uploads \ {f} /\ attachments' = attachments \cup {f}
  /\ UNCHANGED <<draft, written, chosenFor, wentWith, dropped, posting>>
UploadFails(f) ==
  /\ f \in uploads
  /\ uploads' = uploads \ {f} /\ dropped' = dropped \cup {f}
  /\ UNCHANGED <<draft, written, attachments, chosenFor, wentWith, posting>>
RemoveAttachment(f) ==
  /\ f \in attachments
  /\ attachments' = attachments \ {f} /\ dropped' = dropped \cup {f}
  /\ UNCHANGED <<draft, written, uploads, chosenFor, wentWith, posting>>

(* Nothing is sent while a file is on its way. The field is cleared before *)
(* the server has answered, and stays so when it refuses.                  *)
\* Fault: a message may be sent before its files are uploaded.
MaySendEarly == (written \/ attachments # {}) /\ ~posting
MaySend == (written \/ attachments # {}) /\ ~posting /\ uploads = {}
SendMessage ==
  /\ MaySend /\ draft < MaxDrafts
  /\ wentWith' = [f \in ChatFiles |-> IF f \in attachments THEN draft ELSE wentWith[f]]
  /\ draft' = draft + 1 /\ written' = FALSE /\ attachments' = {} /\ posting' = TRUE
  /\ UNCHANGED <<uploads, chosenFor, dropped>>
PostEnds ==
  /\ posting
  /\ posting' = FALSE
  /\ UNCHANGED <<draft, written, uploads, attachments, chosenFor, wentWith, dropped>>
-----------------------------------------------------------------------------
ComposerInit ==
  /\ draft = 1 /\ written = FALSE /\ uploads = {} /\ attachments = {} /\ dropped = {} /\ posting = FALSE
  /\ chosenFor = [f \in ChatFiles |-> 0] /\ wentWith = [f \in ChatFiles |-> 0]
ComposerNext ==
  \/ \E v \in BOOLEAN : HandleChange(v)
  \/ \E files \in SUBSET ChatFiles : UploadFiles(files)
  \/ \E f \in ChatFiles : Uploaded(f) \/ UploadFails(f) \/ RemoveAttachment(f)
  \/ SendMessage \/ PostEnds
ComposerSpec == ComposerInit /\ [][ComposerNext]_composerVars
-----------------------------------------------------------------------------
ComposerTypeOK ==
  /\ draft \in 1..MaxDrafts /\ written \in BOOLEAN /\ posting \in BOOLEAN
  /\ uploads \cup attachments \cup dropped \subseteq ChatFiles
  /\ chosenFor \in [ChatFiles -> 0..MaxDrafts] /\ wentWith \in [ChatFiles -> 0..MaxDrafts]

(* A file goes with the message it was picked for, at most once, and is    *)
(* nowhere else; there are never more than the slots.                      *)
FilesGoWithTheirText ==
  /\ Cardinality(uploads) + Cardinality(attachments) <= Slots
  /\ \A f \in ChatFiles :
       IF wentWith[f] # 0 THEN wentWith[f] = chosenFor[f] /\ f \notin uploads \cup attachments
       ELSE chosenFor[f] # 0 => f \in dropped \/ (chosenFor[f] = draft /\ f \in uploads \cup attachments)
=============================================================================
