------------------------------- MODULE Comments -------------------------------
(***************************************************************************)
(* The comments under the cards: the query of a card's comments, the field *)
(* that adds one, the reply and edit fields of every comment, and the      *)
(* colleagues who write under the same cards.                              *)
(*                                                                         *)
(* The page keeps the fields when another card of the same kind takes its  *)
(* place and that card is already in the cache. A text is known by the     *)
(* card it was typed under; mentions and formatting are abstracted.        *)
(***************************************************************************)
EXTENDS Naturals, FiniteSets

CONSTANTS
  CommentCards,     \* cards of one kind, one of which is on screen
  CommentIds,
  NoComment,        \* a comment that does not exist yet, no parent
  GoneComment,      \* a comment that was deleted
  NoText,           \* an empty field
  ShutField,        \* a field that is not open
  NoThread,         \* nothing fetched, or being fetched
  ThreadAsking,     \* a fetch the server has not answered yet
  MaxTexts,         \* bound: texts typed
  MaxCommentOps,    \* bound: requests of this person
  MaxCommentOthers  \* bound: operations of colleagues

VARIABLES
  comments,        \* the comments in the database
  threads,         \* per card, the comments in the query cache
  threadStale,     \* cards whose comments were invalidated
  threadDoubt,     \* auxiliary: cards that may miss a change, and why, see Whys
  threadLate,      \* auxiliary: the same for the answer on its way to the page
  threadFetch,     \* the fetch of the card on screen
  cardOpen,        \* the card on screen
  fields,          \* what is in each field
  texts,           \* texts typed so far
  commentJobs,     \* requests under way
  commentOps       \* <<requests of this person, operations of colleagues>>

commentVars == <<comments, threads, threadStale, threadDoubt, threadLate, threadFetch, cardOpen,
                 fields, texts, commentJobs, commentOps>>

\* A text: the card it was typed under and its number; 0 stands for colleagues' texts.
Texts == CommentCards \X (0 .. MaxTexts)
CommentRecords == [card : CommentCards, parent : CommentIds \cup {NoComment},
                   mine : BOOLEAN, text : Texts]

ASSUME CommentsAssumption ==
  /\ {MaxTexts, MaxCommentOps, MaxCommentOthers} \subseteq Nat
  /\ NoComment \notin CommentIds /\ {NoComment, GoneComment} \cap CommentRecords = {}
  /\ NoComment # GoneComment

(***************************************************************************)
(* Why a list may miss a change, from the events that cause it: the page   *)
(* was not told of it (a colleague, a lost answer), or it was told while a *)
(* first load was under way whose answer the server had already read. The  *)
(* client restarts a fetch only for a list it has; the answer of the first *)
(* load then takes the mark of the change away.                            *)
(***************************************************************************)
Whys == {"untold", "first load"}

\* The server has read the answer of the fetch under way.
OnItsWay == threadFetch \notin {NoThread, ThreadAsking}

\* A change of card k that the answer on its way cannot show.
LateFor(k, why) == IF OnItsWay /\ k = cardOpen THEN threadLate \cup {why} ELSE threadLate

\* The field of the section, and a reply and an edit field per comment.
TextPlaces == {<<"add", NoComment>>} \cup ({"reply", "edit"} \X CommentIds)
AddField == <<"add", NoComment>>

\* A thread: the comments of a card, as a function of their identifiers.
Alive(s) == {c \in CommentIds : s[c] \notin {NoComment, GoneComment}}

ThreadOf(s, card) == [c \in CommentIds |->
                        IF c \in Alive(s) /\ s[c].card = card THEN s[c] ELSE NoComment]

OnScreen == threads[cardOpen]
Read(c) == OnScreen # NoThread /\ OnScreen[c] # NoComment

\* The comments the section draws: the roots, and the replies of a root.
Drawn(c) == Read(c) /\ OnScreen[c].parent \in {NoComment} \cup {d \in CommentIds : Read(d)}

CommentsInit ==
  /\ \E first \in CommentIds \cup {NoComment}, here \in CommentCards, own \in BOOLEAN :
       comments = [c \in CommentIds |-> IF c = first
                     THEN [card |-> here, parent |-> NoComment, mine |-> own, text |-> <<here, 0>>]
                     ELSE NoComment]
  /\ threads = [k \in CommentCards |-> NoThread]
  /\ threadStale = {} /\ threadDoubt = {} /\ threadLate = {}
  /\ threadFetch = ThreadAsking
  /\ cardOpen \in CommentCards
  /\ fields = [p \in TextPlaces |-> IF p = AddField THEN NoText ELSE ShutField]
  /\ texts = 0 /\ commentJobs = {} /\ commentOps = <<0, 0>>

-----------------------------------------------------------------------------
(***************************************************************************)
(* The query of the comments, and the way to another card.                 *)
(***************************************************************************)
ThreadServed ==
  /\ threadFetch = ThreadAsking
  /\ threadFetch' = ThreadOf(comments, cardOpen)
  /\ UNCHANGED <<comments, threads, threadStale, threadDoubt, threadLate, cardOpen, fields, texts,
                 commentJobs, commentOps>>

\* A comment that is gone takes its fields with it.
FieldsAfter(thread) ==
  [p \in TextPlaces |-> IF p # AddField /\ thread[p[2]] = NoComment THEN ShutField ELSE fields[p]]

ThreadArrives ==
  /\ threadFetch \notin {NoThread, ThreadAsking}
  /\ threads' = [threads EXCEPT ![cardOpen] = threadFetch]
  /\ fields' = FieldsAfter(threadFetch)
  /\ threadStale' = threadStale \ {cardOpen}
  /\ threadDoubt' = {d \in threadDoubt : d[1] # cardOpen} \cup ({cardOpen} \X threadLate)
  /\ threadFetch' = NoThread /\ threadLate' = {}
  /\ UNCHANGED <<comments, cardOpen, texts, commentJobs, commentOps>>

\* The reply and edit fields belong to the comments drawn; the add field stays
\* unless the page shows a placeholder in between. Bound: a card is left when its
\* fetch has ended.
GoToCard ==
  /\ threadFetch = NoThread
  /\ \E k \in CommentCards \ {cardOpen}, cached \in BOOLEAN :
       /\ cardOpen' = k
       /\ fields' = [p \in TextPlaces |-> IF p # AddField THEN ShutField
                                      ELSE IF cached THEN fields[p] ELSE NoText]
       /\ threadFetch' \in IF threads[k] = NoThread \/ k \in threadStale THEN {ThreadAsking}
                           ELSE {ThreadAsking, NoThread}
  /\ UNCHANGED <<comments, threads, threadStale, threadDoubt, threadLate, texts, commentJobs, commentOps>>

-----------------------------------------------------------------------------
(***************************************************************************)
(* The fields.                                                             *)
(***************************************************************************)
\* A field whose request is under way is disabled. The two uses of "create"
\* and the edit of a comment each wait for their own request.
CommentPending(p) == \E j \in commentJobs : j.place = p /\ j.on = cardOpen

OpenReply(c) ==
  /\ Drawn(c) /\ OnScreen[c].parent = NoComment /\ fields[<<"edit", c>>] = ShutField
  /\ fields' = [fields EXCEPT ![<<"reply", c>>] = IF @ = ShutField THEN NoText ELSE ShutField]
  /\ UNCHANGED <<comments, threads, threadStale, threadDoubt, threadLate, threadFetch, cardOpen, texts,
                 commentJobs, commentOps>>

OpenCommentEdit(c) ==
  /\ Drawn(c) /\ OnScreen[c].mine /\ fields[<<"edit", c>>] = ShutField
  /\ fields' = [fields EXCEPT ![<<"edit", c>>] = OnScreen[c].text]
  /\ UNCHANGED <<comments, threads, threadStale, threadDoubt, threadLate, threadFetch, cardOpen, texts,
                 commentJobs, commentOps>>

CancelField(p) ==
  /\ p # AddField /\ fields[p] # ShutField /\ ~CommentPending(p)
  /\ fields' = [fields EXCEPT ![p] = ShutField]
  /\ UNCHANGED <<comments, threads, threadStale, threadDoubt, threadLate, threadFetch, cardOpen, texts,
                 commentJobs, commentOps>>

TypeText(p) ==
  /\ fields[p] # ShutField /\ ~CommentPending(p)
  /\ texts < MaxTexts
  /\ texts' = texts + 1
  /\ fields' = [fields EXCEPT ![p] = <<cardOpen, texts + 1>>]
  /\ UNCHANGED <<comments, threads, threadStale, threadDoubt, threadLate, threadFetch, cardOpen,
                 commentJobs, commentOps>>

CommentAsk(p, kind, c, text) ==
  /\ commentOps[1] < MaxCommentOps
  /\ commentOps' = [commentOps EXCEPT ![1] = @ + 1]
  /\ commentJobs' = commentJobs \cup
       {[n |-> commentOps[1], place |-> p, kind |-> kind, comment |-> c, text |-> text,
         on |-> cardOpen]}

\* The field is emptied when its text is sent, not when the text is stored.
Emptied(p) == [fields EXCEPT ![p] = NoText]

SubmitText(p) ==
  /\ fields[p] \notin {ShutField, NoText} /\ ~CommentPending(p)
  /\ CommentAsk(p, IF p[1] = "edit" THEN "edit" ELSE "create", p[2], fields[p])
  /\ fields' = Emptied(p)
  /\ UNCHANGED <<comments, threads, threadStale, threadDoubt, threadLate, threadFetch, cardOpen, texts>>

DeleteComment(c) ==
  /\ Drawn(c) /\ OnScreen[c].mine /\ fields[<<"edit", c>>] = ShutField
  /\ \A j \in commentJobs : ~(j.kind = "delete" /\ j.comment = c)
  /\ CommentAsk(<<"edit", c>>, "delete", c, <<cardOpen, 0>>)
  /\ UNCHANGED <<comments, threads, threadStale, threadDoubt, threadLate, threadFetch, cardOpen, fields, texts>>

-----------------------------------------------------------------------------
(***************************************************************************)
(* The server: a reply needs its comment, under the same card; the replies *)
(* go with their comment; colleagues do as much.                           *)
(***************************************************************************)
FreeIds(s) == {c \in CommentIds : s[c] = NoComment}

WithComment(s, card, parent, own, text) ==
  LET c == CHOOSE x \in FreeIds(s) : TRUE
  IN [s EXCEPT ![c] = [card |-> card, parent |-> parent, mine |-> own, text |-> text]]

WithoutComment(s, c) ==
  [d \in CommentIds |-> IF d \in Alive(s) /\ c \in {d, s[d].parent} THEN GoneComment ELSE s[d]]

ParentServes(s, j) ==
  j.comment \in {NoComment} \cup {c \in Alive(s) : s[c].card = j.on}

CommentTaken(s, j) ==
  IF j.kind = "create" THEN FreeIds(s) # {} /\ ParentServes(s, j) ELSE j.comment \in Alive(s)

CommentEffect(s, j) ==
  CASE j.kind = "create" -> WithComment(s, j.on, j.comment, TRUE, j.text)
    [] j.kind = "edit"   -> [s EXCEPT ![j.comment].text = j.text]
    [] j.kind = "delete" -> WithoutComment(s, j.comment)

Fetched(k) == threads[k] # NoThread

\* Fault: a fetch under way is left to end (cancelRefetch: false).
AsksAgainUnlessAsking(j) == j.on = cardOpen /\ Fetched(cardOpen) /\ threadFetch = NoThread

\* A success fetches the list on screen anew, an older fetch of it is dropped; a
\* first load goes on.
AsksAgain(j) == j.on = cardOpen /\ Fetched(cardOpen)

\* A success makes the comments of its card stale, on screen or not.
StaleAfter(j) == threadStale \cup {j.on}

CommentStored(j) ==
  /\ CommentTaken(comments, j)
  /\ comments' = CommentEffect(comments, j)
  /\ threadStale' = StaleAfter(j)
  /\ threadFetch' = IF AsksAgain(j) THEN ThreadAsking ELSE threadFetch
  /\ threadLate' = IF ~Fetched(cardOpen) THEN LateFor(j.on, "first load")
                   ELSE IF j.on = cardOpen THEN {} ELSE threadLate
  /\ fields' = IF j.place # AddField /\ j.on = cardOpen /\ fields[j.place] # ShutField
               THEN [fields EXCEPT ![j.place] = ShutField] ELSE fields
  /\ UNCHANGED <<threads, threadDoubt>>

CommentLost(j) ==
  /\ CommentTaken(comments, j)
  /\ comments' = CommentEffect(comments, j)
  /\ threadDoubt' = threadDoubt \cup {<<j.on, "untold">>}
  /\ threadLate' = LateFor(j.on, "untold")
  /\ UNCHANGED <<threads, threadStale, threadFetch, fields>>

CommentRefused(j) ==
  /\ ~CommentTaken(comments, j)
  /\ UNCHANGED <<comments, threads, threadStale, threadDoubt, threadLate, threadFetch, fields>>

CommentAnswers ==
  \E j \in commentJobs :
    /\ CommentStored(j) \/ CommentLost(j) \/ CommentRefused(j)
    /\ commentJobs' = commentJobs \ {j}
    /\ UNCHANGED <<cardOpen, texts, commentOps>>

CommentOthers ==
  /\ commentOps[2] < MaxCommentOthers
  /\ commentOps' = [commentOps EXCEPT ![2] = @ + 1]
  /\ \E k \in CommentCards :
       /\ \/ FreeIds(comments) # {} /\ comments' = WithComment(comments, k, NoComment, FALSE, <<k, 0>>)
          \/ \E c \in Alive(comments) : /\ comments[c].card = k
                                        /\ comments' = WithoutComment(comments, c)
       /\ threadDoubt' = threadDoubt \cup {<<k, "untold">>}
       /\ threadLate' = LateFor(k, "untold")
  /\ UNCHANGED <<threads, threadStale, threadFetch, cardOpen, fields, texts, commentJobs>>

CommentsNext ==
  \/ ThreadServed \/ ThreadArrives \/ GoToCard
  \/ \E c \in CommentIds : OpenReply(c) \/ OpenCommentEdit(c) \/ DeleteComment(c)
  \/ \E p \in TextPlaces : CancelField(p) \/ TypeText(p) \/ SubmitText(p)
  \/ CommentAnswers \/ CommentOthers

CommentsSpec == CommentsInit /\ [][CommentsNext]_commentVars

-----------------------------------------------------------------------------
(* Types of the variables above.                                           *)
CommentsTypeOK ==
  /\ comments \in [CommentIds -> CommentRecords \cup {NoComment, GoneComment}]
  /\ threads \in [CommentCards -> [CommentIds -> CommentRecords \cup {NoComment}] \cup {NoThread}]
  /\ threadStale \subseteq CommentCards /\ threadDoubt \subseteq CommentCards \X Whys
  /\ threadLate \subseteq Whys /\ (OnItsWay \/ threadLate = {})
  /\ threadFetch \in [CommentIds -> CommentRecords \cup {NoComment}] \cup {NoThread, ThreadAsking}
  /\ cardOpen \in CommentCards
  /\ fields \in [TextPlaces -> Texts \cup {NoText, ShutField}]
  /\ texts \in 0 .. MaxTexts
  /\ commentJobs \subseteq [n : 0 .. MaxCommentOps, place : TextPlaces,
       kind : {"create", "edit", "delete"}, comment : CommentIds \cup {NoComment},
       text : Texts, on : CommentCards]
  /\ commentOps \in (0 .. MaxCommentOps) \X (0 .. MaxCommentOthers)

(***************************************************************************)
(* The comments of a card, once fetched and not stale, are those of the    *)
(* server, whichever of fetch, answer and change came first. Excepted are  *)
(* a change by a colleague, a change whose answer was lost, and a change   *)
(* of this page stored while a first load already read by the server was   *)
(* under way.                                                              *)
(***************************************************************************)
QuietCommentsAreTrue ==
  \A k \in CommentCards :
    (Fetched(k) /\ k \notin threadStale /\ threadDoubt \cap ({k} \X Whys) = {})
      => threads[k] = ThreadOf(comments, k)

(***************************************************************************)
(* A text that was typed once is stored as one comment, however often the  *)
(* button is pressed and whatever becomes of the answers.                  *)
(***************************************************************************)
TypedIsStoredOnce ==
  \A c, d \in Alive(comments) :
    (c # d /\ comments[c].text[2] > 0) => comments[c].text # comments[d].text

-----------------------------------------------------------------------------
(* What the code does not give; see the README.                            *)

(* The page shows what it stored itself, also when it stored it while a    *)
(* first load was under way.                                               *)
OwnCommentsAreShown ==
  \A k \in CommentCards :
    (Fetched(k) /\ k \notin threadStale /\ <<k, "untold">> \notin threadDoubt)
      => threads[k] = ThreadOf(comments, k)

(* A text is stored under the card it was typed under.                     *)
StoredWhereTyped ==
  \A c \in Alive(comments) : comments[c].text[1] = comments[c].card

(* A text leaves its field only with its request, and a request that       *)
(* failed leaves the text in a field.                                      *)
TypedIsKept ==
  [][\A j \in commentJobs \ commentJobs' :
       (j.kind # "delete" /\ comments' = comments)
         => \E p \in TextPlaces : fields'[p] = j.text]_commentVars
=============================================================================
