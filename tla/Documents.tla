----------------------------- MODULE Documents -----------------------------
(***************************************************************************)
(* The page of the knowledge base: the store of documents the browser      *)
(* keeps (shelf), the documents of the server (docs), the requests in      *)
(* flight between them, the files that wait to be sent, the background     *)
(* sync that sends them, and the editor of notes with its autosave.        *)
(*                                                                         *)
(* A document is a folder, a note (with a text) or a paper (with a file).  *)
(* Everything happens in one tab; the colleagues' documents are there but  *)
(* only their owner may change them.                                       *)
(***************************************************************************)
EXTENDS Naturals, FiniteSets

CONSTANTS Folders, Notes, Papers,   \* documents by kind: sets of model values
          Legacy,        \* the papers an old version of the page kept in the browser only
          Foreign,       \* the documents of colleagues, there from the start
          DocSections, RootFolder, NoDocument, AnyPlace,
          MaxDocOps      \* requests of the user in one behaviour

DocIds == Folders \cup Notes \cup Papers

DocRecord == [section : DocSections, parent : Folders \cup {RootFolder},
              words : BOOLEAN,      \* has a description
              text : BOOLEAN,       \* a note: has a text
              file : BOOLEAN,       \* a paper: a stored file is attached
              icon : BOOLEAN]       \* has an icon of the user's choice

ASSUME DocumentsAssumption ==
    /\ Legacy \subseteq Papers /\ Foreign \cap Legacy = {}
    /\ Folders \cap Notes = {} /\ Folders \cap Papers = {} /\ Notes \cap Papers = {}
    /\ RootFolder \notin Folders /\ DocSections # {} /\ AnyPlace \notin DocSections
    /\ NoDocument \notin DocRecord
    /\ MaxDocOps \in Nat

DocOps == {"form", "note", "delete", "move", "bulk delete", "bulk move", "duplicate",
           "emoji", "star"}

VARIABLES docs,       \* the documents of the server
          shelf,      \* the documents of the store
          pending,    \* documents of the store that have a file the server has not
          docJobs,    \* requests in flight
          starred,    \* the favourites of the user: on the server, in the store
          shelfLoad,  \* the first load: its phase, the list the server sent
          sync,       \* the background sync: its phase, the documents left
          legacy,     \* old papers still in the memory of the tab, not yet tried
          docUploads,    \* documents whose file is being sent
          place,      \* the section and the folder the page shows
          selected,   \* the ticked documents
          note,       \* the note in the editor, unsaved typing, the armed autosave
          born,       \* ids in use or used before
          docOps      \* requests of the user so far

documentsVars == <<docs, shelf, starred, pending, docJobs, shelfLoad, sync, legacy, docUploads,
                   place, selected, note, born, docOps>>

Filled(store) == {d \in DocIds : store[d] # NoDocument}

(* What the page lists: a section lists one folder of it, the section of  *)
(* everything lists every document.                                       *)
Listed == {d \in Filled(shelf) : \/ place.scope = AnyPlace
                                 \/ /\ shelf[d].section = place.scope
                                    /\ shelf[d].parent = place.folder}

(* What the two views and the bars of the page offer.                     *)
ItemMenu == {"star", "form", "duplicate", "move", "delete"}
ListRow == ItemMenu \cup {"tick", "open", "drag", "emoji"}
GridCard == ItemMenu \cup {"tick", "open", "drag"}
BulkBar == IF selected = {} THEN {} ELSE {"bulk move", "bulk delete"}
DocOffered(op) == op \in BulkBar \cup (IF place.view = "list" THEN ListRow ELSE GridCard)

Here == [section |-> IF place.scope = AnyPlace THEN CHOOSE s \in DocSections : TRUE
                     ELSE place.scope,
         parent |-> place.folder]

(***************************************************************************)
(* The server                                                              *)
(***************************************************************************)
(* The subtree under a document. Folders are few: two levels are all the  *)
(* instances have.                                                         *)
Subtree(store, d) ==
    LET below(S) == {x \in Filled(store) : store[x].parent \in S}
    IN  {d} \cup below({d}) \cup below(below({d}))

MayWrite(d) == docs[d] # NoDocument /\ d \notin Foreign

(* A folder may move under a folder of the section it goes to that is not *)
(* under itself.                                                           *)
ValidParent(d, section, parent) ==
    parent # RootFolder => /\ docs[parent] # NoDocument
                           /\ docs[parent].section = section
                           /\ parent \notin Subtree(docs, d)

Moved(store, d, to) == [store EXCEPT ![d].section = to.section, ![d].parent = to.parent]

Without(store, gone) == [x \in DocIds |-> IF x \in gone THEN NoDocument ELSE store[x]]

(* What update_document writes: the page sends a description and a text   *)
(* with every change, null when the caller has none; the text of a note   *)
(* only.                                                                   *)
Edited(store, d, patch) == [store EXCEPT ![d].words = patch.words,
                                         ![d].text = d \in Notes /\ patch.text]

DocAccepted(j) ==
    CASE j.op \in {"form", "note", "delete", "emoji"} -> \A d \in j.ids : MayWrite(d)
      [] j.op = "move" -> \A d \in j.ids : MayWrite(d) /\ ValidParent(d, j.to.section, j.to.parent)
      [] j.op \in {"duplicate", "star"} -> \A d \in j.ids : docs[d] # NoDocument
      [] OTHER -> TRUE

(* Bulk requests skip what they may not touch and answer with success.    *)
DocEffect(store, j) ==
    LET allowed == {d \in j.ids : MayWrite(d)}
        movable == {d \in allowed : ValidParent(d, j.to.section, j.to.parent)}
    IN  CASE j.op \in {"form", "note"} ->
               Edited(store, CHOOSE d \in j.ids : TRUE, j.patch)
          [] j.op \in {"delete", "bulk delete"} ->
               Without(store, UNION {Subtree(store, d) : d \in allowed})
          [] j.op \in {"move", "bulk move"} ->
               [d \in DocIds |-> IF d \in movable THEN Moved(store, d, j.to)[d] ELSE store[d]]
          [] j.op = "duplicate" ->
               [store EXCEPT ![j.copy] = store[CHOOSE d \in j.ids : TRUE]]
          [] j.op = "emoji" -> [store EXCEPT ![CHOOSE d \in j.ids : TRUE].icon = TRUE]
          [] j.op = "star" -> store

(* The favourites: an answer adds or takes away what the click read.      *)
Starred(set, j) == IF j.op # "star" THEN set
                   ELSE IF j.patch.on THEN set \cup j.ids ELSE set \ j.ids

(***************************************************************************)
(* The store                                                               *)
(***************************************************************************)
(* What the store does with an answer. Deleting takes the document and    *)
(* what lies directly in it; the bulk requests take every chosen one, the *)
(* skipped ones too; the other answers bring the record of the server.    *)
DocStored(j) ==
    LET d0 == CHOOSE d \in j.ids : TRUE
        shown == j.ids \cap Filled(shelf)
    IN  CASE j.op = "delete" ->
               Without(shelf, {d \in Filled(shelf) : d \in j.ids \/ shelf[d].parent \in j.ids})
          [] j.op = "bulk delete" -> Without(shelf, j.ids)
          [] j.op = "bulk move" ->
               [d \in DocIds |-> IF d \in shown THEN Moved(shelf, d, j.to)[d] ELSE shelf[d]]
          [] j.op = "duplicate" -> [shelf EXCEPT ![j.copy] = j.result]
          [] j.op \in {"emoji", "star"} -> shelf
          [] OTHER -> IF d0 \in shown THEN [shelf EXCEPT ![d0] = j.result] ELSE shelf

NoResult == [section |-> CHOOSE s \in DocSections : TRUE, parent |-> RootFolder,
             words |-> FALSE, text |-> FALSE, file |-> FALSE, icon |-> FALSE]

DocAsk(op, ids, to, patch, copy) ==
    /\ docOps < MaxDocOps
    /\ docOps' = docOps + 1
    /\ docJobs' = docJobs \cup {[op |-> op, ids |-> ids, to |-> to, patch |-> patch,
                                 copy |-> copy, state |-> "sent", result |-> NoResult]}

NoPatch == [words |-> FALSE, text |-> FALSE, on |-> FALSE]

ServeJob(j) ==
    /\ j.state = "sent"
    /\ IF DocAccepted(j)
       THEN LET after == DocEffect(docs, j)
                seen  == IF j.op = "duplicate" THEN j.copy ELSE CHOOSE d \in j.ids : TRUE
            IN  /\ docs' = after
                /\ starred' = [starred EXCEPT !.server = Starred(@, j) \cap Filled(after)]
                /\ docJobs' = (docJobs \ {j}) \cup
                     {[j EXCEPT !.state = "done",
                                !.result = IF after[seen] = NoDocument THEN NoResult ELSE after[seen]]}
       ELSE /\ docJobs' = (docJobs \ {j}) \cup {[j EXCEPT !.state = "failed"]}
            /\ UNCHANGED <<docs, starred>>
    /\ UNCHANGED <<shelf, pending, shelfLoad, sync, legacy, docUploads, place, selected, note,
                   docOps, born>>

(* The network may lose a request or its answer: the promise rejects, the *)
(* store is left as it was, and nobody asks again.                         *)
LoseJob(j) ==
    /\ j.state # "failed"
    /\ docJobs' = (docJobs \ {j}) \cup {[j EXCEPT !.state = "failed"]}
    /\ UNCHANGED <<docs, shelf, starred, pending, shelfLoad, sync, legacy, docUploads, place,
                   selected, note, docOps, born>>

(* The record a move brings has no file for a document whose file is not  *)
(* stored yet, and takes the place of the local one: the sync passes it by.*)
AnswerJob(j) ==
    /\ j.state # "sent"
    /\ docJobs' = docJobs \ {j}
    /\ shelf' = IF j.state = "done" THEN DocStored(j) ELSE shelf
    /\ starred' = [starred EXCEPT !.shelf =
                     (IF j.state = "done" THEN Starred(@, j) ELSE @) \cap Filled(shelf')]
    /\ pending' = (pending \cap Filled(shelf')) \
                    (IF j.state = "done" /\ j.op = "move" THEN j.ids ELSE {})
    /\ selected' = IF j.state = "done" /\ j.op \in {"bulk delete", "bulk move"} THEN {}
                   ELSE selected
    /\ UNCHANGED <<docs, shelfLoad, sync, legacy, docUploads, place, note, docOps, born>>

(***************************************************************************)
(* The first load, the sync                                                *)
(***************************************************************************)
AskLoad ==
    /\ shelfLoad.phase = "none"
    /\ shelfLoad' = [phase |-> "asked", seen |-> docs]
    /\ UNCHANGED <<docs, shelf, starred, pending, docJobs, sync, legacy, docUploads, place,
                   selected, note, docOps, born>>

ServeLoad ==
    /\ shelfLoad.phase = "asked"
    /\ shelfLoad' = [phase |-> "served", seen |-> docs]
    /\ UNCHANGED <<docs, shelf, starred, pending, docJobs, sync, legacy, docUploads, place,
                   selected, note, docOps, born>>

IdleSync == [phase |-> "idle", left |-> {}]

(* One sync at a time; the old papers first, once each.                    *)
StartedSync == IF sync.phase # "idle" THEN sync ELSE [phase |-> "legacy", left |-> legacy]

(* The list that arrives takes the place of the store, with what was put  *)
(* there meanwhile; the sync starts with it.                              *)
ArriveLoad ==
    /\ shelfLoad.phase = "served"
    /\ shelf' = shelfLoad.seen
    /\ pending' = {}
    /\ starred' = [starred EXCEPT !.shelf = starred.server \cap Filled(shelf')]
    /\ shelfLoad' = [phase |-> "loaded", seen |-> shelfLoad.seen]
    /\ sync' = StartedSync
    /\ UNCHANGED <<docs, docJobs, legacy, docUploads, place, selected, note, docOps, born>>

FailLoad ==
    /\ shelfLoad.phase \in {"asked", "served"}
    /\ shelfLoad' = [shelfLoad EXCEPT !.phase = "failed"]
    /\ UNCHANGED <<docs, shelf, starred, pending, docJobs, sync, legacy, docUploads, place,
                   selected, note, docOps, born>>

(* Create an old paper on the server, in the root of a section, and send  *)
(* its file. Whatever happens it is not tried again.                      *)
SyncLegacy(d, created, sent) ==
    /\ sync.phase = "legacy" /\ d \in sync.left
    /\ sent => created
    /\ sync' = [sync EXCEPT !.left = @ \ {d}]
    /\ legacy' = legacy \ {d}
    /\ LET item == [NoResult EXCEPT !.file = sent] IN
         /\ docs' = IF created THEN [docs EXCEPT ![d] = item] ELSE docs
         /\ shelf' = IF created THEN [shelf EXCEPT ![d] = item] ELSE shelf
    /\ pending' = IF created /\ ~sent THEN pending \cup {d} ELSE pending
    /\ UNCHANGED <<starred, docJobs, shelfLoad, docUploads, place, selected, note, docOps, born>>

SyncTurns ==
    /\ sync.phase = "legacy" /\ sync.left = {}
    /\ sync' = [phase |-> "pending", left |-> pending]
    /\ UNCHANGED <<docs, shelf, starred, pending, docJobs, shelfLoad, legacy, docUploads, place,
                   selected, note, docOps, born>>

(* A file reaches the server and is attached: the record of the document  *)
(* names it, then the store does. A document that is gone refuses it.     *)
Attached(d, ok) ==
    LET kept == ok /\ MayWrite(d) IN
    /\ docs' = IF kept THEN [docs EXCEPT ![d].file = TRUE] ELSE docs
    /\ shelf' = IF kept /\ shelf[d] # NoDocument THEN [shelf EXCEPT ![d].file = TRUE] ELSE shelf
    /\ pending' = IF kept THEN pending \ {d} ELSE pending

SyncPending(d, ok) ==
    /\ sync.phase = "pending" /\ d \in sync.left
    /\ sync' = [sync EXCEPT !.left = @ \ {d}]
    /\ Attached(d, ok)
    /\ UNCHANGED <<starred, docJobs, shelfLoad, legacy, docUploads, place, selected, note, docOps,
                   born>>

SyncEnds ==
    /\ sync.phase = "pending" /\ sync.left = {}
    /\ sync' = IdleSync
    /\ UNCHANGED <<docs, shelf, starred, pending, docJobs, shelfLoad, legacy, docUploads, place,
                   selected, note, docOps, born>>

(***************************************************************************)
(* The page                                                                *)
(***************************************************************************)
NoteClosed == [doc |-> NoDocument, open |-> FALSE, typed |-> FALSE]

Enter(scope, folder) ==
    /\ scope \in DocSections => folder = RootFolder \/ folder \in Listed
    /\ scope = AnyPlace => folder = RootFolder
    /\ place' = [place EXCEPT !.scope = scope, !.folder = folder]
    /\ place' # place
    /\ selected' = {}
    /\ UNCHANGED <<docs, shelf, starred, pending, docJobs, shelfLoad, sync, legacy, docUploads,
                   note, docOps, born>>

SwitchView ==
    /\ place' = [place EXCEPT !.view = IF @ = "list" THEN "grid" ELSE "list"]
    /\ UNCHANGED <<docs, shelf, starred, pending, docJobs, shelfLoad, sync, legacy, docUploads,
                   selected, note, docOps, born>>

Tick(d) ==
    /\ d \in Listed /\ DocOffered("tick")
    /\ selected' = IF d \in selected THEN selected \ {d} ELSE selected \cup {d}
    /\ UNCHANGED <<docs, shelf, starred, pending, docJobs, shelfLoad, sync, legacy, docUploads,
                   place, note, docOps, born>>

(* Leaving the page and coming back keeps the store and the requests; the *)
(* typing that no autosave has sent is gone, and the sync starts again.   *)
Revisit ==
    /\ note' = NoteClosed
    /\ place' = [place EXCEPT !.scope = AnyPlace, !.folder = RootFolder]
    /\ selected' = {}
    /\ <<note', place', selected'>> # <<note, place, selected>>
    /\ sync' = IF shelfLoad.phase = "loaded" THEN StartedSync ELSE sync
    /\ shelfLoad' = IF shelfLoad.phase = "failed" THEN [shelfLoad EXCEPT !.phase = "none"]
                    ELSE shelfLoad
    /\ UNCHANGED <<docs, shelf, starred, pending, docJobs, legacy, docUploads, docOps, born>>

Fresh(d) == d \notin born

(* Create a document: by the form, empty or from a template, or as a new  *)
(* note, which opens. A new document goes to the folder the page shows.   *)
Created(d) ==
    /\ Fresh(d) /\ docOps < MaxDocOps
    /\ ValidParent(d, Here.section, Here.parent)
    /\ LET item == [NoResult EXCEPT !.section = Here.section, !.parent = Here.parent] IN
         /\ docs' = [docs EXCEPT ![d] = item]
         /\ shelf' = [shelf EXCEPT ![d] = item]
    /\ docOps' = docOps + 1
    /\ born' = born \cup {d}

CreateDocument(d) ==
    /\ Created(d)
    /\ note' = IF d \in Notes THEN [doc |-> d, open |-> TRUE, typed |-> FALSE] ELSE note
    /\ UNCHANGED <<starred, pending, docJobs, shelfLoad, sync, legacy, docUploads, place, selected>>

(* A file that is chosen or dropped: its document first, with the file in *)
(* the memory of the tab, then the file.                                  *)
UploadDocument(d) ==
    /\ d \in Papers
    /\ Created(d)
    /\ pending' = pending \cup {d}
    /\ docUploads' = docUploads \cup {d}
    /\ UNCHANGED <<starred, docJobs, shelfLoad, sync, legacy, place, selected, note>>

(* Attach a file to an open document that has none that can be shown.     *)
AttachFile(d) ==
    /\ d \in Papers \cap Listed /\ ~shelf[d].file /\ docOps < MaxDocOps
    /\ docOps' = docOps + 1
    /\ docUploads' = docUploads \cup {d}
    /\ UNCHANGED <<docs, shelf, starred, pending, docJobs, shelfLoad, sync, legacy, place,
                   selected, note, born>>

UploadEnds(d, ok) ==
    /\ d \in docUploads
    /\ docUploads' = docUploads \ {d}
    /\ Attached(d, ok)
    /\ UNCHANGED <<starred, docJobs, shelfLoad, sync, legacy, place, selected, note, docOps, born>>

(* Rename through the form: it starts from the shown description; it has  *)
(* no text to send.                                                       *)
FormPatch(words) == [words |-> words, text |-> FALSE, on |-> FALSE]

EditByForm(d, words) ==
    /\ DocOffered("form")
    /\ d \in Listed
    /\ DocAsk("form", {d}, Here, FormPatch(words), NoDocument)
    /\ UNCHANGED <<docs, shelf, starred, pending, shelfLoad, sync, legacy, docUploads, place,
                   selected, note, born>>

Remove(d) ==
    /\ DocOffered("delete")
    /\ d \in Listed
    /\ DocAsk("delete", {d}, Here, NoPatch, NoDocument)
    /\ UNCHANGED <<docs, shelf, starred, pending, shelfLoad, sync, legacy, docUploads, place,
                   selected, note, born>>

(* Move by the dialog, or by dropping on a section or on a folder: of the *)
(* ticked documents when the dragged one is among them.                   *)
MoveTo(d, section, folder) ==
    /\ DocOffered("move")
    /\ d \in Listed /\ d # folder
    /\ folder # RootFolder => folder \in Filled(shelf) /\ shelf[folder].section = section
    /\ DocAsk("move", {d}, [section |-> section, parent |-> folder], NoPatch, NoDocument)
    /\ UNCHANGED <<docs, shelf, starred, pending, shelfLoad, sync, legacy, docUploads, place,
                   selected, note, born>>

Duplicate(d, copy) ==
    /\ DocOffered("duplicate")
    /\ d \in Listed /\ Fresh(copy)
    /\ {d, copy} \subseteq Folders \/ {d, copy} \subseteq Notes \/ {d, copy} \subseteq Papers
    /\ DocAsk("duplicate", {d}, Here, NoPatch, copy)
    /\ born' = born \cup {copy}
    /\ UNCHANGED <<docs, shelf, starred, pending, shelfLoad, sync, legacy, docUploads, place,
                   selected, note>>

BulkRequest(op, section) ==
    /\ DocOffered(op)
    /\ DocAsk(op, selected, [section |-> section, parent |-> RootFolder], NoPatch, NoDocument)
    /\ UNCHANGED <<docs, shelf, starred, pending, shelfLoad, sync, legacy, docUploads, place,
                   selected, note, born>>

(* The favourite reads the store when it is clicked and changes it with   *)
(* the answer; the icon changes at once and is not taken back.            *)
ToggleFavorite(d) ==
    /\ DocOffered("star")
    /\ d \in Listed
    /\ DocAsk("star", {d}, Here, [NoPatch EXCEPT !.on = d \notin starred.shelf], NoDocument)
    /\ UNCHANGED <<docs, shelf, starred, pending, shelfLoad, sync, legacy, docUploads, place,
                   selected, note, born>>

SetEmoji(d) ==
    /\ DocOffered("emoji")
    /\ d \in Listed
    /\ DocAsk("emoji", {d}, Here, NoPatch, NoDocument)
    /\ shelf' = [shelf EXCEPT ![d].icon = TRUE]
    /\ UNCHANGED <<docs, starred, pending, shelfLoad, sync, legacy, docUploads, place, selected,
                   note, born>>

(***************************************************************************)
(* The editor of notes                                                     *)
(***************************************************************************)
(* Opening takes the text of the store and forgets what was typed before, *)
(* with the autosave that was armed for it.                               *)
OpenNote(d) ==
    /\ DocOffered("open")
    /\ d \in Notes \cap Listed /\ ~note.open
    /\ note' = [doc |-> d, open |-> TRUE, typed |-> FALSE]
    /\ UNCHANGED <<docs, shelf, starred, pending, docJobs, shelfLoad, sync, legacy, docUploads,
                   place, selected, docOps, born>>

TypeNote ==
    /\ note.open /\ ~note.typed
    /\ note' = [note EXCEPT !.typed = TRUE]
    /\ UNCHANGED <<docs, shelf, starred, pending, docJobs, shelfLoad, sync, legacy, docUploads,
                   place, selected, docOps, born>>

(* Closing leaves the armed autosave to run: the effect that would send   *)
(* at once finds no document any more.                                    *)
CloseNote ==
    /\ note.open
    /\ note' = [note EXCEPT !.open = FALSE]
    /\ UNCHANGED <<docs, shelf, starred, pending, docJobs, shelfLoad, sync, legacy, docUploads,
                   place, selected, docOps, born>>

Autosave ==
    /\ note.typed
    /\ DocAsk("note", {note.doc}, Here, [words |-> FALSE, text |-> TRUE, on |-> FALSE], NoDocument)
    /\ note' = [note EXCEPT !.typed = FALSE]
    /\ UNCHANGED <<docs, shelf, starred, pending, shelfLoad, sync, legacy, docUploads, place,
                   selected, born>>

(***************************************************************************)
(* The specification                                                       *)
(***************************************************************************)
DocumentsInit ==
    /\ docs \in [DocIds -> {NoDocument, NoResult}]
    /\ \A d \in DocIds : (docs[d] # NoDocument) <=> (d \in Foreign \cup Folders)
    /\ shelf = [d \in DocIds |-> NoDocument]
    /\ pending = {} /\ docJobs = {} /\ docUploads = {} /\ selected = {} /\ docOps = 0
    /\ born = Foreign \cup Folders \cup Legacy
    /\ shelfLoad = [phase |-> "none", seen |-> docs]
    /\ sync = IdleSync /\ legacy = Legacy /\ note = NoteClosed
    /\ place = [scope |-> AnyPlace, folder |-> RootFolder, view |-> "list"]
    /\ starred = [server |-> {}, shelf |-> {}]

SyncGoesOn ==
    \/ SyncTurns \/ SyncEnds
    \/ \E d \in DocIds, created \in BOOLEAN, sent \in BOOLEAN :
         SyncLegacy(d, created, sent) \/ SyncPending(d, sent)
DocumentsBackground ==
    \/ AskLoad \/ ServeLoad \/ ArriveLoad \/ FailLoad \/ SyncGoesOn \/ Autosave
    \/ \E d \in DocIds, sent \in BOOLEAN : UploadEnds(d, sent)
    \/ \E j \in docJobs : ServeJob(j) \/ LoseJob(j) \/ AnswerJob(j)

DocumentsUser ==
    \/ Revisit \/ SwitchView \/ TypeNote \/ CloseNote
    \/ \E scope \in DocSections \cup {AnyPlace}, f \in Folders \cup {RootFolder} : Enter(scope, f)
    \/ \E d \in DocIds :
         \/ Tick(d) \/ CreateDocument(d) \/ UploadDocument(d) \/ AttachFile(d)
         \/ Remove(d) \/ OpenNote(d)
         \/ ToggleFavorite(d) \/ SetEmoji(d)
         \/ \E words \in BOOLEAN : EditByForm(d, words)
         \/ \E s \in DocSections, f \in Folders \cup {RootFolder} : MoveTo(d, s, f)
         \/ \E copy \in DocIds : Duplicate(d, copy)
    \/ \E op \in {"bulk delete", "bulk move"}, s \in DocSections : BulkRequest(op, s)

DocumentsNext == DocumentsBackground \/ DocumentsUser

DocumentsSpec == DocumentsInit /\ [][DocumentsNext]_documentsVars

(***************************************************************************)
(* Properties                                                              *)
(***************************************************************************)
(* Every document of the server and of the store is a record, and the     *)
(* waiting files belong to papers.                                        *)
DocumentsTypeOK ==
    /\ docs \in [DocIds -> DocRecord \cup {NoDocument}]
    /\ shelf \in [DocIds -> DocRecord \cup {NoDocument}]
    /\ pending \subseteq Papers /\ docUploads \subseteq Papers /\ legacy \subseteq Legacy
    /\ selected \subseteq DocIds /\ sync.left \subseteq Papers

(* A paper the page shows as stored is stored, unless it is gone: what    *)
(* the sync passes by for good is never a file that exists in this tab    *)
(* only.                                                                  *)
StoredIsStored ==
    \A d \in Papers : (shelf[d] # NoDocument /\ shelf[d].file) =>
                         (docs[d] = NoDocument \/ docs[d].file)

(* The sync ends: a file that cannot be sent does not leave it marked as  *)
(* running, which would keep every later one from starting.               *)
SyncRests == sync.phase = "idle"

(* A document lies in a folder of its own section: it is listed nowhere   *)
(* but in the section of everything otherwise.                            *)
ChildrenShareSection ==
    \A d \in Filled(docs) : docs[d].parent # RootFolder /\ docs[docs[d].parent] # NoDocument =>
                               docs[docs[d].parent].section = docs[d].section

(* Renaming a note leaves its text as it is: the form has a title, tags,  *)
(* an owner and a section.                                                *)
RenamedKeepsText ==
    [][\A j \in docJobs : (j.op = "form" /\ ServeJob(j)) =>
          \A d \in j.ids \cap Notes :
              docs'[d] # NoDocument => docs'[d].text = docs[d].text]_documentsVars

(* What is typed in a note leaves the editor by being sent.               *)
TypedIsSent == [][(note.typed /\ ~note'.typed) => Autosave]_documentsVars
============================================================================
