----------------------------- MODULE HrProtocol -----------------------------
(***************************************************************************)
(* The protocol of events of the e-documents (hr_edo/evidence.py): rows    *)
(* chained by hashes, appended by the transactions of all operations and   *)
(* verified in batches, with the locks those transactions take around it.  *)
(* A transaction is the sequence of what it locks and records; what it     *)
(* decides is the subject of HrEnrolment and HrSigning. Ids come from a    *)
(* sequence, so a rollback leaves a gap.                                   *)
(***************************************************************************)
EXTENDS Naturals, Sequences, FiniteSets

CONSTANTS
  Txs, NoTx,    \* database transactions at a time
  Papers,       \* rows of hr_documents of one employee
  Batch,        \* rows that verify_chain reads at a time
  MaxTxs,       \* bound: transactions begun
  MaxTampers    \* bound: changes of the table behind the trigger

ASSUME ProtocolAssumption ==
  NoTx \notin Txs /\ Batch \in Nat \ {0} /\ {MaxTxs, MaxTampers} \subseteq Nat

VARIABLES
  log,        \* committed rows of hr_doc_events
  own,        \* rows a transaction inserted and has not committed
  nextId,     \* the sequence of their ids
  prevRead,   \* the hash record_event has read
  chainLock,  \* pg_advisory_xact_lock
  program,    \* what a transaction still has to lock and to record
  running,    \* transactions under way
  rowLock,    \* FOR UPDATE
  shares,     \* FOR KEY SHARE, taken by foreign keys
  checker,    \* verify_chain
  tampers,    \* auxiliary
  edited,     \* auxiliary: a row does not fit its hash, or those after it
  begun

chainVars == <<log, own, nextId, prevRead, chainLock>>
lockVars == <<program, running, rowLock, shares>>
auditVars == <<checker, tampers, edited>>
protocolVars == <<chainVars, lockVars, auditVars, begun>>
-----------------------------------------------------------------------------
Card == "card"
Code == "code"
Rows == {Card, Code} \cup Papers

Lock(r) == <<"lock", r>>
Share(r) == <<"share", r>>
Record(p) == <<"event", p>>
LockAll(s) == [i \in DOMAIN s |-> Lock(s[i])]
RecordAll(s) == [i \in DOMAIN s |-> Record(s[i])]

(* The operations by what they lock and record, in the order of the code.  *)
(* A code refers to the card and its event to no document: it stands here  *)
(* as one of a document that is locked already, which locks nothing more.  *)
RegisterConsent(p) == <<Lock(Card), Lock(p), Record(p)>>
CancelDocument(p) == <<Lock(p), Record(p), Lock(Card)>>
MarkViewed(p) == <<Lock(p), Record(p)>>
Download(p) == <<Record(p)>>
RequestSignChallenge(s) == LockAll(s) \o <<Lock(Code), Share(Card), Record(s[1])>>
ConfirmAndSign(s) == <<Lock(Card), Lock(Code)>> \o LockAll(s) \o RecordAll(s)

(* A batch of documents is locked as the caller lists it.                  *)
Listings == {<<p>> : p \in Papers} \cup {s \in Papers \X Papers : s[1] # s[2]}
Programs ==
  UNION {{RegisterConsent(p), CancelDocument(p), MarkViewed(p), Download(p)} : p \in Papers}
  \cup UNION {{RequestSignChallenge(s), ConfirmAndSign(s)} : s \in Listings}

(* compute_hash: a hash stands for one content after one predecessor, and  *)
(* GENESIS_HASH for none.                                                  *)
Genesis == <<"genesis">>
EventHash(prev, body) == <<prev, body>>
Event(id, body, prev, hash) == [id |-> id, body |-> body, prev |-> prev, hash |-> hash]
Forged == 0
Unread == <<"unread">>
-----------------------------------------------------------------------------
Begin(t) ==
  /\ t \notin running /\ begun < MaxTxs
  /\ running' = running \cup {t} /\ begun' = begun + 1
  /\ \E p \in Programs : program' = [program EXCEPT ![t] = p]
  /\ UNCHANGED <<chainVars, rowLock, shares, auditVars>>

Due(t, kind) == t \in running /\ program[t] # <<>> /\ Head(program[t])[1] = kind
DueRow(t) == Head(program[t])[2]
Advance(t) == program' = [program EXCEPT ![t] = Tail(@)]

LockRow(t) ==
  LET r == DueRow(t) IN
  /\ Due(t, "lock") /\ rowLock[r] \in {NoTx, t} /\ shares[r] \subseteq {t}
  /\ rowLock' = [rowLock EXCEPT ![r] = t] /\ Advance(t)
  /\ UNCHANGED <<chainVars, running, shares, auditVars, begun>>
(* A new row that refers to another, such as a code to its card.           *)
ShareRow(t) ==
  LET r == DueRow(t) IN
  /\ Due(t, "share") /\ rowLock[r] \in {NoTx, t}
  /\ shares' = [shares EXCEPT ![r] = @ \cup {t}] /\ Advance(t)
  /\ UNCHANGED <<chainVars, running, rowLock, auditVars, begun>>

(* record_event: the lock of the chain, the hash of the last row that the  *)
(* transaction sees, the new row, which refers to document and card.       *)
TakeChainLock(t) ==
  /\ Due(t, "event") /\ chainLock = NoTx
  /\ chainLock' = t
  /\ UNCHANGED <<log, own, nextId, prevRead, lockVars, auditVars, begun>>

(* Fault: the hash is read before the lock is there.                       *)
MayReadPrevEarly(t) == Due(t, "event") /\ prevRead[t] = Unread
MayReadPrev(t) == Due(t, "event") /\ prevRead[t] = Unread /\ chainLock = t
Visible(t) == log \cup own[t]
ReadPrev(t) ==
  /\ MayReadPrev(t)
  /\ \/ Visible(t) = {} /\ prevRead' = [prevRead EXCEPT ![t] = Genesis]
     \/ \E last \in Visible(t) :
          /\ \A r \in Visible(t) : r.id <= last.id
          /\ prevRead' = [prevRead EXCEPT ![t] = last.hash]
  /\ UNCHANGED <<log, own, nextId, chainLock, lockVars, auditVars, begun>>
References(t) == {Card, DueRow(t)}
InsertEvent(t) ==
  /\ Due(t, "event") /\ chainLock = t /\ prevRead[t] # Unread
  /\ \A r \in References(t) : rowLock[r] \in {NoTx, t}
  /\ own' = [own EXCEPT ![t] = @ \cup
               {Event(nextId, nextId, prevRead[t], EventHash(prevRead[t], nextId))}]
  /\ nextId' = nextId + 1
  /\ prevRead' = [prevRead EXCEPT ![t] = Unread]
  /\ shares' = [r \in Rows |-> IF r \in References(t) THEN shares[r] \cup {t} ELSE shares[r]]
  /\ Advance(t)
  /\ UNCHANGED <<log, chainLock, running, rowLock, auditVars, begun>>

(* Fault: a lock of the session instead of the transaction.                *)
ChainLockKept(t) == chainLock
ChainLockWithout(t) == IF chainLock = t THEN NoTx ELSE chainLock
Ends(t) ==
  /\ t \in running
  /\ running' = running \ {t}
  /\ program' = [program EXCEPT ![t] = <<>>]
  /\ own' = [own EXCEPT ![t] = {}] /\ prevRead' = [prevRead EXCEPT ![t] = Unread]
  /\ chainLock' = ChainLockWithout(t)
  /\ rowLock' = [r \in Rows |-> IF rowLock[r] = t THEN NoTx ELSE rowLock[r]]
  /\ shares' = [r \in Rows |-> shares[r] \ {t}]
  /\ UNCHANGED <<nextId, auditVars, begun>>
Commit(t) == Ends(t) /\ program[t] = <<>> /\ log' = log \cup own[t]
(* An error, a timeout, the end of the process.                            *)
Rollback(t) == Ends(t) /\ UNCHANGED log

(* Postgres looks for a cycle of waits and aborts the one that found it.   *)
WaitsFor(t, u) ==
  /\ t # u
  /\ \/ Due(t, "lock") /\ (rowLock[DueRow(t)] = u \/ u \in shares[DueRow(t)])
     \/ Due(t, "share") /\ rowLock[DueRow(t)] = u
     \/ Due(t, "event") /\ chainLock # t /\ chainLock = u
     \/ Due(t, "event") /\ prevRead[t] # Unread /\ \E r \in References(t) : rowLock[r] = u
Cycle(S) == \A t \in S : (\E u \in S : WaitsFor(t, u)) /\ (\E u \in S : WaitsFor(u, t))
DeadlockDetected(t) == (\E S \in SUBSET running : t \in S /\ Cycle(S)) /\ Rollback(t)

GoesOn(t) ==
  \/ LockRow(t) \/ ShareRow(t) \/ TakeChainLock(t) \/ ReadPrev(t) \/ InsertEvent(t) \/ Commit(t)
-----------------------------------------------------------------------------
(* verify_chain: batches by id, each a statement of its own.               *)
StartCheck ==
  /\ checker.state # "reading"
  /\ checker' = [state |-> "reading", last |-> 0, prev |-> Genesis, edited |-> edited]
  /\ UNCHANGED <<chainVars, lockVars, tampers, edited, begun>>

(* Fault: the next batch begins with the row that was checked last.        *)
AfterLastAgain == {r \in log : r.id >= checker.last}
AfterLast == {r \in log : r.id > checker.last}
NextBatch == {r \in AfterLast : Cardinality({q \in AfterLast : q.id <= r.id}) <= Batch}
IsHashBefore(h, r, S) ==
  IF \A q \in S : q.id >= r.id THEN h = checker.prev
  ELSE \E p \in S : p.id < r.id /\ h = p.hash /\ \A q \in S : q.id < r.id => q.id <= p.id
Checks(r, S) == IsHashBefore(r.prev, r, S) /\ r.hash = EventHash(r.prev, r.body)
VerifyBatch ==
  /\ checker.state = "reading"
  /\ \/ NextBatch = {} /\ checker' = [checker EXCEPT !.state = "ok"]
     \/ \E r \in NextBatch : ~Checks(r, NextBatch) /\ checker' = [checker EXCEPT !.state = "broken"]
     \/ /\ \A r \in NextBatch : Checks(r, NextBatch)
        /\ \E last \in NextBatch :
             /\ \A r \in NextBatch : r.id <= last.id
             /\ checker' = [checker EXCEPT !.last = last.id, !.prev = last.hash]
  /\ UNCHANGED <<chainVars, lockVars, tampers, edited, begun>>

(* Somebody passes the trigger hr_doc_events_immutable: a row is changed,  *)
(* with a hash that fits or without, or removed. It shows in the row or in *)
(* those after it.                                                         *)
HasSuccessor(r) == \E q \in log : q.id > r.id
Forge(r) ==
  /\ tampers < MaxTampers /\ tampers' = tampers + 1
  /\ \E hash \in {r.hash, EventHash(r.prev, Forged)} :
       /\ log' = (log \ {r}) \cup {[r EXCEPT !.body = Forged, !.hash = hash]}
       /\ edited' = (edited \/ hash = r.hash \/ HasSuccessor(r))
  /\ UNCHANGED <<own, nextId, prevRead, chainLock, lockVars, checker, begun>>
Remove(r) ==
  /\ tampers < MaxTampers /\ tampers' = tampers + 1
  /\ log' = log \ {r} /\ edited' = (edited \/ HasSuccessor(r))
  /\ UNCHANGED <<own, nextId, prevRead, chainLock, lockVars, checker, begun>>
-----------------------------------------------------------------------------
ProtocolInit ==
  /\ log = {} /\ own = [t \in Txs |-> {}] /\ nextId = 1
  /\ prevRead = [t \in Txs |-> Unread] /\ chainLock = NoTx
  /\ program = [t \in Txs |-> <<>>] /\ running = {}
  /\ rowLock = [r \in Rows |-> NoTx] /\ shares = [r \in Rows |-> {}]
  /\ checker = [state |-> "idle", last |-> 0, prev |-> Genesis, edited |-> FALSE]
  /\ tampers = 0 /\ edited = FALSE /\ begun = 0

ProtocolNext ==
  \/ \E t \in Txs : Begin(t) \/ GoesOn(t) \/ Rollback(t) \/ DeadlockDetected(t)
  \/ StartCheck \/ VerifyBatch
  \/ \E r \in log : Forge(r) \/ Remove(r)

ProtocolSpec == ProtocolInit /\ [][ProtocolNext]_protocolVars
-----------------------------------------------------------------------------
Keepers == Txs \cup {NoTx}
ProtocolTypeOK ==
  /\ running \subseteq Txs /\ nextId \in Nat /\ chainLock \in Keepers
  /\ rowLock \in [Rows -> Keepers] /\ shares \in [Rows -> SUBSET running]
  /\ \A r \in log : r.id < nextId
  /\ \A t \in Txs : own[t] # {} \/ prevRead[t] # Unread => chainLock = t

(* The committed rows in the order of their ids: each names the hash of    *)
(* the one before.                                                         *)
Follows(r, S) ==
  IF \A q \in S : q.id >= r.id THEN r.prev = Genesis
  ELSE \E p \in S : p.id < r.id /\ r.prev = p.hash /\ \A q \in S : q.id < r.id => q.id <= p.id

(* The chain never forks: not by transactions that overlap, are rolled     *)
(* back or record several events (record_event under its lock).            *)
ChainHolds == tampers = 0 => \A r \in log : Follows(r, log)

(* Rows stay, and new ones come after them.                                *)
GrowsAtItsEnd ==
  tampers' = 0 => log \subseteq log' /\ \A r \in log' \ log, q \in log : r.id > q.id

(* What was committed is never followed by something older, which a        *)
(* verification under way would miss.                                      *)
LogOnlyGrows == [][GrowsAtItsEnd]_protocolVars

(* verify_chain beside running transactions raises no alarm about a chain  *)
(* that nobody touched.                                                    *)
NoFalseAlarm == checker.state = "broken" => tampers > 0

(* Nor is it silent about one edit that shows in the rows.                 *)
VerdictIsRight == NoFalseAlarm /\ (checker.state = "ok" /\ tampers <= 1 => ~checker.edited)

(* The protocol only grows at its end, and its verification, which reads   *)
(* it in batches beside the transactions, neither raises a false alarm nor *)
(* overlooks an edit that it could see.                                    *)
LogStands == [][GrowsAtItsEnd /\ VerdictIsRight']_protocolVars

(* Transactions lock rows in different orders and the chain in between;    *)
(* each ends all the same.                                                 *)
TransactionsEnd == \A t \in Txs : []<>(t \notin running)

(* No two operations wait for each other.                                  *)
NobodyWaitsInACycle == \A S \in SUBSET running \ {{}} : ~Cycle(S)
(* The header of evidence.py: the removal of any record is found.          *)
EveryRemovalIsFound == checker.state = "ok" /\ tampers > 0 => FALSE
=============================================================================
