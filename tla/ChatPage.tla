------------------------------- MODULE ChatPage -------------------------------
(***************************************************************************)
(* The chat of one user (ChatPage.tsx): the list of the dialogs, the feed  *)
(* of the open one, the mark "read up to here", against the server of      *)
(* chat/service.py and the other members. A feed is the number of its      *)
(* messages and of the changes to them; an echo of the user's own deeds is *)
(* ignored, so every mutation has to say itself what it made stale.        *)
(***************************************************************************)
EXTENDS Naturals, FiniteSets

CONSTANTS
  Dialogs, Groups,
  NoDialog, NoFeed,
  Screens,         \* bound: <<desktop, archive shown>>, the pages looked at
  MaxDeeds,        \* bound: what the user does, and marks as read
  MaxPeerDeeds     \* bound: what the others do

ASSUME ChatAssumption ==
  /\ Groups \subseteq Dialogs /\ NoDialog \notin Dialogs /\ NoFeed \notin Nat \X Nat
  /\ Screens \subseteq BOOLEAN \X BOOLEAN /\ {MaxDeeds, MaxPeerDeeds} \subseteq Nat

VARIABLES
  dialog,          \* the dialogs in the database, as this user has them
  wide,            \* a desktop: the first dialog opens by itself
  archive,         \* the archived dialogs are listed too
  chatList,          \* the list in the query cache: a part of the dialogs
  listSent,        \* it is being fetched
  feed, feedSent, feedAnswer, feedStale,
  opened,          \* activeConversationId
  markSent,        \* lastReadSent
  deeds,           \* mutations under way
  done, peerDone,
  chatNews,            \* events on their way
  chatMissed           \* auxiliary: an answer was lost, or an event met a first load

listVars == <<chatList, listSent>>
feedVars == <<feed, feedSent, feedAnswer, feedStale>>
chatVars == <<dialog, wide, archive, listVars, feedVars, opened, markSent, deeds, done, peerDone, chatNews, chatMissed>>
-----------------------------------------------------------------------------
(* list_conversations: the archived ones are left out.                     *)
Listing ==
  [d \in {d \in Dialogs : dialog[d].in /\ (archive \/ ~dialog[d].hidden)} |->
     [read |-> dialog[d].read, muted |-> dialog[d].muted, hidden |-> dialog[d].hidden,
      card |-> dialog[d].card, posts |-> dialog[d].posts]]
FeedOf(d) == <<dialog[d].posts, dialog[d].touched>>

(* What the pages of the chat let the user do: the menu of a row, the      *)
(* members of a group (rename, add, remove), a message (edit, delete,      *)
(* react).                                                                 *)
ChatRowOffers(d) ==
  {"delete"} \cup (IF chatList[d].muted THEN {"unmute"} ELSE {"mute"})
             \cup (IF chatList[d].hidden THEN {"unarchive"} ELSE {"archive"})
MembersOffers(d) ==
  IF d \notin Groups THEN {}
  ELSE {"leave"} \cup (IF dialog[d].made THEN {"manage"} ELSE {})
MessageOffers(d) ==
  IF feed[d] = NoFeed \/ feed[d][1] = 0 THEN {} ELSE {"touch"}
ThreadOffers(d) == IF "touch" \in MessageOffers(d) THEN {"reply"} ELSE {}
Offered(d) ==
  (IF d \in DOMAIN chatList THEN ChatRowOffers(d) ELSE {})
  \cup (IF d = opened /\ d \in DOMAIN chatList
        THEN {"post"} \cup MembersOffers(d) \cup MessageOffers(d) \cup ThreadOffers(d) ELSE {})
(* A new direct dialog, or a new group.                                    *)
NewDialogOffers == {d \in Dialogs : dialog[d].card = 0}

(* What each of the hooks makes stale when it is answered.                 *)
PostMakesStale(kind) == IF kind = "reply" THEN {"feed"} ELSE {"feed", "list"}
TouchMakesStale == {"feed"}
SettingMakesStale == {"list"}
MakesStale(kind) ==
  CASE kind \in {"post", "reply"} -> PostMakesStale(kind)
    [] kind = "touch" -> TouchMakesStale
    [] OTHER -> SettingMakesStale

(* invalidateQueries: a fetch under way is begun again, but not the first  *)
(* one of a feed, and one of a feed that is not open is left alone.        *)
InvalidateList == listSent' = TRUE
Restarts(d) == d = opened' /\ (feed[d] # NoFeed \/ feedSent[d] = "none")
InvalidateFeed(d) ==
  /\ feedStale' = feedStale \cup (IF feed[d] # NoFeed THEN {d} ELSE {})
  /\ feedSent' = [feedSent EXCEPT ![d] = IF Restarts(d) THEN "sent" ELSE @]
  /\ feedAnswer' = [feedAnswer EXCEPT ![d] = IF Restarts(d) THEN NoFeed ELSE @]
  /\ chatMissed' = (chatMissed \/ (feedSent[d] = "read" /\ ~Restarts(d)))
  /\ UNCHANGED feed
ChatInvalidate(d, what) ==
  /\ IF "list" \in what THEN InvalidateList /\ UNCHANGED chatList ELSE UNCHANGED listVars
  /\ IF "feed" \in what THEN InvalidateFeed(d) ELSE UNCHANGED <<feedVars, chatMissed>>

(* Fault: the dialog stays open.                                            *)
ClosesNever(d, list) == {d}
(* The effect of the page: an open dialog that is not listed is replaced   *)
(* by the first one, or closed.                                            *)
ClosesTo(d, list) ==
  IF d \in DOMAIN list THEN {d}
  ELSE IF wide /\ DOMAIN list # {} THEN DOMAIN list ELSE {NoDialog}
MountFeed ==
  IF opened' = opened \/ opened' = NoDialog THEN UNCHANGED feedVars
  ELSE /\ feedSent' = [feedSent EXCEPT ![opened'] =
              IF @ = "none" /\ (feed[opened'] = NoFeed \/ opened' \in feedStale) THEN "sent" ELSE @]
       /\ UNCHANGED <<feed, feedAnswer, feedStale>>
-----------------------------------------------------------------------------
(* The list and the feeds are fetched. Whatever makes the list stale        *)
(* begins its fetch again, so its reading and its arrival are one step.    *)
DialogsArrive ==
  /\ listSent
  /\ chatList' = Listing /\ listSent' = FALSE
  /\ opened' \in ClosesTo(opened, Listing)
  /\ MountFeed
  /\ UNCHANGED <<dialog, wide, archive, markSent, deeds, done, peerDone, chatNews, chatMissed>>
(* Whoever is not a member is refused; what was shown stays.               *)
ReadFeed(d) ==
  /\ feedSent[d] = "sent"
  /\ IF dialog[d].in
     THEN feedSent' = [feedSent EXCEPT ![d] = "read"] /\ feedAnswer' = [feedAnswer EXCEPT ![d] = FeedOf(d)]
     ELSE feedSent' = [feedSent EXCEPT ![d] = "none"] /\ UNCHANGED feedAnswer
  /\ UNCHANGED <<dialog, wide, archive, listVars, feed, feedStale, opened, markSent, deeds, done,
                 peerDone,
                 chatNews, chatMissed>>
FeedArrives(d) ==
  /\ feedSent[d] = "read"
  /\ feed' = [feed EXCEPT ![d] = feedAnswer[d]] /\ feedSent' = [feedSent EXCEPT ![d] = "none"]
  /\ feedAnswer' = [feedAnswer EXCEPT ![d] = NoFeed] /\ feedStale' = feedStale \ {d}
  /\ UNCHANGED <<dialog, wide, archive, listVars, opened, markSent, deeds, done, peerDone,
                 chatNews, chatMissed>>

OpenDialog(d) ==
  /\ d \in DOMAIN chatList \ {opened}
  /\ opened' = d /\ MountFeed
  /\ UNCHANGED <<dialog, wide, archive, listVars, markSent, deeds, done, peerDone, chatNews,
                 chatMissed>>
(* A message that was found opens its dialog, if that is listed.           *)
PickHit(d) ==
  /\ dialog[d].in /\ d # opened
  /\ opened' \in ClosesTo(d, chatList) /\ MountFeed
  /\ UNCHANGED <<dialog, wide, archive, listVars, markSent, deeds, done, peerDone, chatNews,
                 chatMissed>>
BackToList ==
  /\ ~wide /\ opened # NoDialog
  /\ opened' = NoDialog
  /\ UNCHANGED <<dialog, wide, archive, listVars, feedVars, markSent, deeds, done, peerDone,
                 chatNews, chatMissed>>
-----------------------------------------------------------------------------
(* The read mark: 400 ms after the feed shows another last message; whether *)
(* it was at its bottom then is left open.                                 *)
Last == IF opened = NoDialog \/ feed[opened] = NoFeed THEN 0 ELSE feed[opened][1]
Unmarked == opened \in DOMAIN chatList /\ chatList[opened].read # Last /\ markSent # <<opened, Last>>
Deed(kind, d, upTo) == [kind |-> kind, dialog |-> d, upTo |-> upTo, state |-> "sent", id |-> done]
MarkTimerFires ==
  /\ done < MaxDeeds /\ Last > 0 /\ Unmarked
  /\ markSent' = <<opened, Last>> /\ done' = done + 1
  /\ deeds' = deeds \cup {Deed("mark", opened, Last)}
  /\ UNCHANGED <<dialog, wide, archive, listVars, feedVars, opened, peerDone, chatNews, chatMissed>>

Act(kind, d) ==
  /\ done < MaxDeeds
  /\ IF kind = "create" THEN d \in NewDialogOffers ELSE kind \in Offered(d)
  /\ kind \in {"post", "reply"} => ~\E j \in deeds : j.kind \in {"post", "reply"}
  /\ done' = done + 1 /\ deeds' = deeds \cup {Deed(kind, d, 0)}
  /\ UNCHANGED <<dialog, wide, archive, listVars, feedVars, opened, markSent, peerDone, chatNews,
                 chatMissed>>
-----------------------------------------------------------------------------
(* The server. Archives and mutes are the user's own; a message takes the  *)
(* dialog out of every archive and is read by its author.                  *)
Accepts(kind, d) ==
  IF kind = "create" THEN TRUE
  ELSE dialog[d].in /\ (kind = "manage" => dialog[d].own)
                    /\ (kind = "delete" /\ d \in Groups => dialog[d].own)
(* mark_read never goes back.                                              *)
MarkRead(r, upTo) == IF upTo <= r.read THEN r ELSE [r EXCEPT !.read = upTo]
ChatEffect(kind, upTo, r) ==
  CASE kind = "post" -> [r EXCEPT !.posts = @ + 1, !.read = r.posts + 1, !.hidden = FALSE]
    [] kind = "reply" -> [r EXCEPT !.touched = @ + 1, !.read = r.posts, !.hidden = FALSE]
    [] kind = "touch" -> [r EXCEPT !.touched = @ + 1]
    [] kind = "mark" -> MarkRead(r, upTo)
    [] kind \in {"mute", "unmute"} -> [r EXCEPT !.muted = (kind = "mute")]
    [] kind \in {"archive", "unarchive"} -> [r EXCEPT !.hidden = (kind = "archive")]
    [] kind = "manage" -> [r EXCEPT !.card = @ + 1]
    [] kind = "create" -> IF r.in THEN r ELSE [r EXCEPT !.in = TRUE, !.made = TRUE, !.own = TRUE, !.card = 1]
    [] OTHER -> [r EXCEPT !.in = FALSE]
ServeDeed(j) ==
  /\ j.state = "sent"
  /\ IF Accepts(j.kind, j.dialog)
     THEN /\ dialog' = [dialog EXCEPT ![j.dialog] = ChatEffect(j.kind, j.upTo, @)]
          /\ deeds' = (deeds \ {j}) \cup {[j EXCEPT !.state = "served",
                         !.upTo = IF j.kind \in {"post", "reply"} THEN dialog'[j.dialog].posts ELSE @]}
     ELSE UNCHANGED dialog /\ deeds' = (deeds \ {j}) \cup {[j EXCEPT !.state = "refused"]}
  /\ UNCHANGED <<wide, archive, listVars, feedVars, opened, markSent, done, peerDone, chatNews,
                 chatMissed>>

(* The answer: the dialog that was left or deleted is closed, a new one is *)
(* opened - and replaced at once while the list does not have it yet; a    *)
(* message of one's own is marked read on top.                             *)
AfterDeed(j) ==
  CASE j.kind = "leave" -> ClosesTo(NoDialog, chatList)
    [] j.kind = "delete" /\ j.dialog = opened -> ClosesTo(NoDialog, chatList)
    [] j.kind = "create" -> ClosesTo(j.dialog, chatList)
    [] OTHER -> {opened}
DeedDone(j) ==
  /\ j.state = "served"
  /\ deeds' = (deeds \ {j}) \cup (IF j.kind \in {"post", "reply"}
                               THEN {[j EXCEPT !.kind = "mark", !.state = "sent"]} ELSE {})
  /\ opened' \in AfterDeed(j)
  /\ IF opened' = opened
     THEN ChatInvalidate(j.dialog, MakesStale(j.kind))
     ELSE InvalidateList /\ UNCHANGED chatList /\ MountFeed /\ UNCHANGED chatMissed
  /\ UNCHANGED <<dialog, wide, archive, markSent, done, peerDone, chatNews>>
(* A refusal, or an answer that is lost on the way: nothing is refetched.  *)
DeedFails(j) ==
  /\ j.state = "refused" \/ (j.state = "served" /\ j.kind # "mark")
  /\ deeds' = deeds \ {j}
  /\ chatMissed' = (chatMissed \/ j.state = "served")
  /\ UNCHANGED <<dialog, wide, archive, listVars, feedVars, opened, markSent, done, peerDone,
                 chatNews>>
-----------------------------------------------------------------------------
(* The others. Whom the owner leaves the group to becomes its owner.       *)
PeerEffect(kind, r) ==
  CASE kind = "message_created" -> [r EXCEPT !.posts = @ + 1, !.hidden = FALSE]
    [] kind = "message_updated" -> [r EXCEPT !.touched = @ + 1]
    [] kind = "renamed" -> [r EXCEPT !.card = @ + 1]
    [] kind = "owner_left" -> [r EXCEPT !.own = TRUE, !.card = @ + 1]
    [] kind = "member_added" -> [r EXCEPT !.in = TRUE, !.own = FALSE, !.card = @ + 1]
    [] OTHER -> [r EXCEPT !.in = FALSE]
PeerCan(kind, d) ==
  CASE kind \in {"renamed", "owner_left", "member_removed"} -> d \in Groups /\ dialog[d].in /\ ~dialog[d].own
    [] kind = "member_added" -> d \in Groups /\ dialog[d].card > 0 /\ ~dialog[d].in
    [] kind = "deleted" -> dialog[d].in /\ (d \in Groups => ~dialog[d].own)
    [] kind = "message_updated" -> dialog[d].in /\ dialog[d].posts > 0
    [] OTHER -> dialog[d].in
PeerKinds == {"message_created", "message_updated", "renamed", "owner_left", "member_added", "member_removed", "deleted"}
PeerActs(kind, d) ==
  /\ peerDone < MaxPeerDeeds /\ PeerCan(kind, d)
  /\ peerDone' = peerDone + 1
  /\ dialog' = [dialog EXCEPT ![d] = PeerEffect(kind, @)]
  /\ chatNews' = chatNews \cup {[kind |-> kind, dialog |-> d]}
  /\ UNCHANGED <<wide, archive, listVars, feedVars, opened, markSent, deeds, done, chatMissed>>

(* useChatRealtime: the list always, the feed for what changes it, and the *)
(* view of a dialog one was removed from is closed.                        *)
EventMakesStale(kind) ==
  {"list"} \cup (IF kind \in {"message_created", "message_updated"} THEN {"feed"} ELSE {})
EventCloses(kind) == kind \in {"member_removed", "deleted"}
Event(n) ==
  /\ n \in chatNews /\ chatNews' = chatNews \ {n}
  /\ IF EventCloses(n.kind) /\ n.dialog = opened
     THEN /\ opened' \in ClosesTo(NoDialog, chatList)
          /\ InvalidateList /\ UNCHANGED chatList /\ MountFeed /\ UNCHANGED chatMissed
     ELSE /\ UNCHANGED opened
          /\ ChatInvalidate(n.dialog, EventMakesStale(n.kind))
  /\ UNCHANGED <<dialog, wide, archive, markSent, deeds, done, peerDone>>
-----------------------------------------------------------------------------
NoOne == [in |-> FALSE, made |-> FALSE, own |-> FALSE, posts |-> 0, touched |-> 0, read |-> 0,
          muted |-> FALSE, hidden |-> FALSE, card |-> 0]
ExistingDialogs(mine) == [NoOne EXCEPT !.in = TRUE, !.made = mine, !.own = mine, !.posts = 1, !.card = 1]
ChatInit ==
  /\ wide \in BOOLEAN /\ archive \in BOOLEAN /\ <<wide, archive>> \in Screens
  /\ \E old \in SUBSET Dialogs, mine \in BOOLEAN :
       /\ Groups \subseteq old
       /\ dialog = [d \in Dialogs |-> IF d \in old THEN ExistingDialogs(mine) ELSE NoOne]
  /\ chatList = Listing /\ listSent = FALSE
  /\ feed = [d \in Dialogs |-> NoFeed] /\ feedSent = [d \in Dialogs |-> "none"]
  /\ feedAnswer = feed /\ feedStale = {}
  /\ opened = NoDialog /\ markSent = <<NoDialog, 0>>
  /\ deeds = {} /\ done = 0 /\ peerDone = 0 /\ chatNews = {} /\ chatMissed = FALSE

OwnKinds == {"post", "reply", "touch", "mute", "unmute", "archive", "unarchive", "manage",
             "leave", "delete", "create"}
ChatNext ==
  \/ DialogsArrive \/ MarkTimerFires \/ BackToList
  \/ \E d \in Dialogs : ReadFeed(d) \/ FeedArrives(d) \/ OpenDialog(d) \/ PickHit(d)
  \/ \E d \in Dialogs, k \in OwnKinds : Act(k, d)
  \/ \E d \in Dialogs, k \in PeerKinds : PeerActs(k, d)
  \/ \E j \in deeds : ServeDeed(j) \/ DeedDone(j) \/ DeedFails(j)
  \/ \E n \in chatNews : Event(n)
ChatSpec == ChatInit /\ [][ChatNext]_chatVars
-----------------------------------------------------------------------------
ChatTypeOK ==
  /\ opened \in Dialogs \cup {NoDialog}
  /\ opened # NoDialog => opened \in DOMAIN chatList
  /\ DOMAIN chatList \subseteq Dialogs /\ feedStale \subseteq {d \in Dialogs : feed[d] # NoFeed}
  /\ \A d \in Dialogs : dialog[d].read <= dialog[d].posts

(* When nothing is under way, list and open feed are what the server has,  *)
(* although the page ignores the echo of what the user does (unless an     *)
(* answer was lost or an event met a feed on its first load; a feed that   *)
(* was refused stays as it is).                                            *)
QuietChatIsTrue ==
  ~listSent /\ deeds = {} /\ chatNews = {} /\ ~chatMissed =>
    /\ chatList = Listing
    /\ opened # NoDialog /\ feedSent[opened] = "none" /\ opened \notin feedStale =>
         feed[opened] \in {NoFeed, FeedOf(opened)}

(* Marks of two tabs, or two that overtake one another, never make a       *)
(* message unread again.                                                   *)
ReadNeverGoesBack == [][\A d \in Dialogs : dialog'[d].read >= dialog[d].read]_chatVars

(* The view of a dialog the user is no longer a member of closes: none     *)
(* stays open.                                                             *)
NoLostDialogIsOpen == opened = NoDialog \/ dialog[opened].in \/ chatMissed

(* The members sheet: "the owner may rename, add and remove".              *)
OwnerIsOffered ==
  \A d \in Groups : opened = d /\ dialog[d].own => "manage" \in MembersOffers(d)
=============================================================================
