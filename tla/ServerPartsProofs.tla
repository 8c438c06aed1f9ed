-------------------------- MODULE ServerPartsProofs --------------------------
(***************************************************************************)
(* Proofs about three parts of the server for every value of their         *)
(* constants: the protocol of events of HR documents, the recordings of a  *)
(* screening and the bridges its connections leave to each other.  The     *)
(* parts share no state and no lemma.                                      *)
(***************************************************************************)
EXTENDS HrProtocol, ScreeningAudio, ScreeningBridge, FiniteSetTheorems, TLAPS

Chained(S) == \A r \in S : Follows(r, S)
IsLast(p, S) == p \in S /\ \A r \in S : r.id <= p.id
Ids(S) == \A r \in S : r.id \in Nat /\ r.id < nextId

Functions == own = [t \in Txs |-> own[t]] /\ prevRead = [t \in Txs |-> prevRead[t]]
Counted == nextId \in Nat /\ tampers \in Nat /\ Ids(log) /\ \A t \in Txs : Ids(own[t])
(* Who has inserted or read anything holds the lock of the chain.          *)
Locked == \A t \in Txs : own[t] # {} \/ prevRead[t] # Unread => chainLock = t
OwnIsNewer == \A t \in Txs : \A r \in own[t], q \in log : q.id < r.id
(* The chain holds for what is committed and for what each one sees.       *)
AllChained == Chained(log) /\ \A t \in Txs : Chained(Visible(t))
(* What was read is the hash of the last row, for as long as it is kept.   *)
ReadIsLast ==
  \A t \in Txs : prevRead[t] # Unread =>
    \/ Visible(t) = {} /\ prevRead[t] = Genesis
    \/ \E p \in Visible(t) : IsLast(p, Visible(t)) /\ prevRead[t] = p.hash

LockTypes ==
  /\ running \subseteq Txs /\ chainLock \in Keepers
  /\ rowLock \in [Rows -> Keepers] /\ shares \in [Rows -> SUBSET running]

ChainInv == Functions /\ Counted /\ Locked /\ OwnIsNewer /\ (tampers = 0 => AllChained /\ ReadIsLast)
-----------------------------------------------------------------------------
(* A new row at the end that names the hash of the last one keeps the      *)
(* chain.                                                                  *)
LEMMA Appended ==
  ASSUME NEW S, NEW n, n.id \in Nat, Chained(S), \A r \in S : r.id \in Nat /\ r.id < n.id,
         \/ S = {} /\ n.prev = Genesis
         \/ \E p \in S : IsLast(p, S) /\ n.prev = p.hash
  PROVE  Chained(S \cup {n})
<1> SUFFICES ASSUME NEW r \in S \cup {n} PROVE Follows(r, S \cup {n})
  BY DEF Chained
<1>1. CASE r \in S
  <2>1. Follows(r, S) /\ r.id \in Nat /\ r.id < n.id
    BY <1>1 DEF Chained
  <2>2. (\A q \in S \cup {n} : q.id >= r.id) <=> (\A q \in S : q.id >= r.id)
    BY <2>1
  <2>3. CASE \A q \in S : q.id >= r.id
    BY <2>1, <2>2, <2>3 DEF Follows
  <2>4. CASE ~\A q \in S : q.id >= r.id
    <3>1. PICK p \in S : p.id < r.id /\ r.prev = p.hash /\ \A q \in S : q.id < r.id => q.id <= p.id
      BY <2>1, <2>4 DEF Follows
    <3>2. \A q \in S \cup {n} : q.id < r.id => q.id <= p.id
      BY <2>1, <3>1
    <3> QED
      BY <2>2, <2>4, <3>1, <3>2 DEF Follows
  <2> QED
    BY <2>3, <2>4
<1>2. CASE r = n /\ S = {}
  BY <1>2 DEF Follows
<1>3. CASE r = n /\ S # {}
  <2>1. PICK p \in S : IsLast(p, S) /\ n.prev = p.hash
    BY <1>3
  <2>2. p.id < n.id /\ \A q \in S \cup {n} : q.id < n.id => q.id <= p.id
    BY <2>1 DEF IsLast
  <2>3. ~\A q \in S \cup {n} : q.id >= n.id
    BY <2>2
  <2> QED
    BY <1>3, <2>1, <2>2, <2>3 DEF Follows
<1> QED
  BY <1>1, <1>2, <1>3
-----------------------------------------------------------------------------
LEMMA ChainInitInv == ProtocolInit => ChainInv
BY DEF ProtocolInit, ChainInv, Functions, Counted, Ids, Locked, OwnIsNewer, AllChained, Chained, Visible,
       ReadIsLast

(* Steps that touch neither rows nor what was read.                        *)
LEMMA ChainStutterInv ==
  ASSUME ChainInv, UNCHANGED <<log, own, nextId, prevRead, tampers>>,
         chainLock' = chainLock \/ chainLock = NoTx, NoTx \notin Txs
  PROVE  ChainInv'
BY DEF ChainInv, Functions, Counted, Ids, Locked, OwnIsNewer, AllChained, Chained, Follows, Visible,
       ReadIsLast, IsLast

LEMMA ReadPrevInv == ASSUME ChainInv, NEW t \in Txs, ReadPrev(t) PROVE ChainInv'
<1>1. UNCHANGED <<log, own, nextId, chainLock, tampers>> /\ chainLock = t
  BY DEF ReadPrev, MayReadPrev, auditVars
<1>2. prevRead' = [prevRead EXCEPT ![t] = prevRead'[t]]
  BY DEF ReadPrev, ChainInv, Functions
<1>3. \A u \in Txs : Visible(u)' = Visible(u)
  BY <1>1 DEF Visible
<1>4. \/ Visible(t) = {} /\ prevRead'[t] = Genesis
      \/ \E p \in Visible(t) : IsLast(p, Visible(t)) /\ prevRead'[t] = p.hash
  BY DEF ReadPrev, IsLast, ChainInv, Functions
<1>5. Functions'
  BY <1>1, <1>2 DEF ChainInv, Functions
<1>6. Counted' /\ OwnIsNewer' /\ (tampers' = 0 => AllChained')
  BY <1>1, <1>3 DEF ChainInv, Counted, Ids, OwnIsNewer, AllChained, Chained, Follows
<1>7. Locked'
  BY <1>1, <1>2 DEF ChainInv, Functions, Locked
<1>8. tampers' = 0 => ReadIsLast'
  BY <1>1, <1>2, <1>3, <1>4 DEF ChainInv, Functions, ReadIsLast, IsLast
<1> QED
  BY <1>5, <1>6, <1>7, <1>8 DEF ChainInv

LEMMA InsertEventInv == ASSUME ChainInv, NEW t \in Txs, InsertEvent(t) PROVE ChainInv'
<1> DEFINE n == Event(nextId, nextId, prevRead[t], EventHash(prevRead[t], nextId))
<1>1. /\ chainLock = t /\ prevRead[t] # Unread
      /\ UNCHANGED <<log, chainLock, tampers>> /\ nextId' = nextId + 1
  BY DEF InsertEvent, auditVars
<1>2. own' = [own EXCEPT ![t] = own[t] \cup {n}] /\ prevRead' = [prevRead EXCEPT ![t] = Unread]
  BY DEF InsertEvent
<1>3. n.id = nextId /\ n.prev = prevRead[t] /\ nextId \in Nat
  BY DEF Event, ChainInv, Counted
<1>4. Functions'
  BY <1>2 DEF ChainInv, Functions
<1>5. own'[t] = own[t] \cup {n} /\ prevRead'[t] = Unread
      /\ \A u \in Txs \ {t} : own'[u] = own[u] /\ prevRead'[u] = prevRead[u]
  BY <1>2 DEF ChainInv, Functions
<1>6. \A u \in Txs \ {t} : own[u] = {} /\ prevRead[u] = Unread
  BY <1>1 DEF ChainInv, Locked
<1>7. Visible(t)' = Visible(t) \cup {n} /\ \A u \in Txs \ {t} : Visible(u)' = log
  BY <1>1, <1>5, <1>6 DEF Visible
<1>8. Counted'
  BY <1>1, <1>3, <1>5, <1>6 DEF ChainInv, Counted, Ids
<1>9. Locked'
  BY <1>1, <1>5, <1>6 DEF ChainInv, Locked
<1>10. OwnIsNewer'
  BY <1>1, <1>3, <1>5, <1>6 DEF ChainInv, Counted, Ids, OwnIsNewer
<1>11. ASSUME tampers' = 0 PROVE AllChained' /\ ReadIsLast'
  <2>1. AllChained /\ ReadIsLast
    BY <1>1, <1>11 DEF ChainInv
  <2>2. \A r \in Visible(t) : r.id \in Nat /\ r.id < n.id
    BY <1>3 DEF ChainInv, Counted, Ids, Visible
  <2>3. \/ Visible(t) = {} /\ n.prev = Genesis
        \/ \E p \in Visible(t) : IsLast(p, Visible(t)) /\ n.prev = p.hash
    BY <1>1, <1>3, <2>1 DEF ReadIsLast
  <2>4. Chained(Visible(t) \cup {n})
    <3> HIDE DEF n
    <3>1. n.id \in Nat /\ Chained(Visible(t))
      BY <1>3, <2>1 DEF AllChained
    <3> QED
      BY <2>2, <2>3, <3>1, Appended
  <2>5. AllChained'
    <3>1. Chained(log)
      BY <2>1 DEF AllChained
    <3>2. \A u \in Txs : Visible(u)' = IF u = t THEN Visible(t) \cup {n} ELSE log
      BY <1>7
    <3>3. Chained(log)' /\ \A u \in Txs : Chained(Visible(u))' 
      BY <1>1, <2>4, <3>1, <3>2 DEF Chained, Follows
    <3> QED
      BY <3>3 DEF AllChained
  <2>6. ReadIsLast'
    BY <1>5, <1>6 DEF ReadIsLast
  <2> QED
    BY <2>5, <2>6
<1> QED
  BY <1>4, <1>8, <1>9, <1>10, <1>11 DEF ChainInv

(* A transaction ends: its rows become the last of the log, or nobody      *)
(* ever sees them.                                                         *)
LEMMA EndsInv ==
  ASSUME ChainInv, NoTx \notin Txs, NEW t \in Txs, Ends(t), log' \in {log, log \cup own[t]}
  PROVE  ChainInv'
<1>1. UNCHANGED <<nextId, tampers>> /\ chainLock' = IF chainLock = t THEN NoTx ELSE chainLock
  BY DEF Ends, ChainLockWithout, auditVars
<1>2. own' = [own EXCEPT ![t] = {}] /\ prevRead' = [prevRead EXCEPT ![t] = Unread]
  BY DEF Ends
<1>3. Functions'
  BY <1>2 DEF ChainInv, Functions
<1>4. own'[t] = {} /\ prevRead'[t] = Unread
      /\ \A u \in Txs \ {t} : own'[u] = own[u] /\ prevRead'[u] = prevRead[u]
  BY <1>2 DEF ChainInv, Functions
<1>5. Counted'
  BY <1>1, <1>4 DEF ChainInv, Counted, Ids
<1>6. Locked'
  BY <1>1, <1>4 DEF ChainInv, Locked
<1>7. CASE log' = log
  <2>1. \A u \in Txs : Visible(u)' = IF u = t THEN log ELSE Visible(u)
    BY <1>4, <1>7 DEF Visible
  <2>2. OwnIsNewer'
    BY <1>4, <1>7 DEF ChainInv, OwnIsNewer
  <2>3. tampers' = 0 => AllChained'
    BY <1>1, <1>7, <2>1 DEF ChainInv, AllChained, Chained, Follows
  <2>4. tampers' = 0 => ReadIsLast'
    BY <1>1, <1>4, <2>1 DEF ChainInv, ReadIsLast, IsLast
  <2> QED
    BY <1>3, <1>5, <1>6, <2>2, <2>3, <2>4 DEF ChainInv
<1>8. CASE log' # log
  <2>1. log' = Visible(t) /\ own[t] # {}
    BY <1>8 DEF Visible
  <2>2. \A u \in Txs \ {t} : own[u] = {} /\ prevRead[u] = Unread
    BY <2>1 DEF ChainInv, Locked
  <2>3. \A u \in Txs : own'[u] = {} /\ prevRead'[u] = Unread
    BY <1>4, <2>2
  <2>4. \A u \in Txs : Visible(u)' = Visible(t)
    BY <2>1, <2>3 DEF Visible
  <2>5. OwnIsNewer' /\ ReadIsLast'
    BY <2>3 DEF OwnIsNewer, ReadIsLast
  <2>6. tampers' = 0 => AllChained'
    BY <1>1, <2>1, <2>4 DEF ChainInv, AllChained, Chained, Follows
  <2> QED
    BY <1>3, <1>5, <1>6, <2>5, <2>6 DEF ChainInv
<1> QED
  BY <1>7, <1>8

(* Behind the trigger ids stay, or go.                                     *)
LEMMA TamperInv == ASSUME ChainInv, NEW r \in log, Forge(r) \/ Remove(r) PROVE ChainInv'
<1>1. UNCHANGED <<own, nextId, prevRead, chainLock>> /\ tampers' = tampers + 1
  BY DEF Forge, Remove
<1>2. \A q \in log' : \E p \in log : q.id = p.id
  <2>1. CASE Remove(r)
    BY <2>1 DEF Remove
  <2>2. CASE Forge(r)
    <3>1. PICK hash : log' = (log \ {r}) \cup {[r EXCEPT !.body = Forged, !.hash = hash]}
      BY <2>2 DEF Forge
    <3>2. [r EXCEPT !.body = Forged, !.hash = hash].id = r.id
      OBVIOUS
    <3> QED
      BY <3>1, <3>2
  <2> QED
    BY <2>1, <2>2
<1>3. Functions' /\ Counted' /\ Locked' /\ OwnIsNewer'
  BY <1>1, <1>2 DEF ChainInv, Functions, Counted, Ids, Locked, OwnIsNewer
<1>4. tampers' # 0
  BY <1>1 DEF ChainInv, Counted
<1> QED
  BY <1>3, <1>4 DEF ChainInv

LEMMA ChainStepInv == ChainInv /\ [ProtocolNext]_protocolVars => ChainInv'
<1> SUFFICES ASSUME ChainInv, [ProtocolNext]_protocolVars PROVE ChainInv'
  OBVIOUS
<1> USE ProtocolAssumption
<1>1. CASE \/ UNCHANGED protocolVars \/ StartCheck \/ VerifyBatch
           \/ \E t \in Txs : Begin(t) \/ LockRow(t) \/ ShareRow(t) \/ TakeChainLock(t)
  <2>1. UNCHANGED <<log, own, nextId, prevRead, tampers>> /\ (chainLock' = chainLock \/ chainLock = NoTx)
    BY <1>1 DEF StartCheck, VerifyBatch, Begin, LockRow, ShareRow, TakeChainLock, protocolVars,
                chainVars, auditVars
  <2> QED
    BY <2>1, ChainStutterInv
<1>2. CASE \E t \in Txs : ReadPrev(t)
  BY <1>2, ReadPrevInv
<1>3. CASE \E t \in Txs : InsertEvent(t)
  BY <1>3, InsertEventInv
<1>4. CASE \E t \in Txs : Commit(t) \/ Rollback(t) \/ DeadlockDetected(t)
  <2>1. PICK t \in Txs : Ends(t) /\ log' \in {log, log \cup own[t]}
    BY <1>4 DEF Commit, Rollback, DeadlockDetected
  <2> QED
    BY <2>1, EndsInv
<1>5. CASE \E r \in log : Forge(r) \/ Remove(r)
  BY <1>5, TamperInv
<1> QED
  BY <1>1, <1>2, <1>3, <1>4, <1>5 DEF ProtocolNext, GoesOn

LEMMA AlwaysChainInv == ProtocolSpec => []ChainInv
  BY ChainInitInv, ChainStepInv, PTL DEF ProtocolSpec
-----------------------------------------------------------------------------
LEMMA TypeStep ==
  ASSUME LockTypes, [ProtocolNext]_protocolVars
  PROVE  LockTypes'
<1>1. CASE \/ UNCHANGED protocolVars \/ StartCheck \/ VerifyBatch \/ \E r \in log : Forge(r) \/ Remove(r)
           \/ \E t \in Txs : ReadPrev(t)
  <2>1. UNCHANGED <<running, chainLock, rowLock, shares>>
    BY <1>1 DEF StartCheck, VerifyBatch, Forge, Remove, ReadPrev, protocolVars, chainVars, lockVars
  <2> QED
    BY <2>1 DEF LockTypes
<1>2. CASE \E t \in Txs : Begin(t) \/ TakeChainLock(t)
  BY <1>2 DEF Begin, TakeChainLock, LockTypes, chainVars, lockVars, Keepers
<1>3. CASE \E t \in Txs : LockRow(t)
  BY <1>3 DEF LockRow, LockTypes, chainVars, Keepers
<1>4. CASE \E t \in Txs : ShareRow(t)
  <2>1. PICK t \in Txs : ShareRow(t)
    BY <1>4
  <2>2. UNCHANGED <<running, chainLock, rowLock>> /\ t \in running
    BY <2>1 DEF ShareRow, Due, chainVars
  <2>3. PICK r : shares' = [shares EXCEPT ![r] = @ \cup {t}]
    BY <2>1 DEF ShareRow
  <2> QED
    BY <2>2, <2>3 DEF LockTypes
<1>5. CASE \E t \in Txs : InsertEvent(t)
  BY <1>5 DEF InsertEvent, Due, LockTypes
<1>6. CASE \E t \in Txs : Commit(t) \/ Rollback(t) \/ DeadlockDetected(t)
  <2>1. PICK t \in Txs : Ends(t)
    BY <1>6 DEF Commit, Rollback, DeadlockDetected
  <2> QED
    BY <2>1 DEF Ends, ChainLockWithout, LockTypes, Keepers
<1> QED
  BY <1>1, <1>2, <1>3, <1>4, <1>5, <1>6 DEF ProtocolNext, GoesOn

(* Locks are held by transactions that run, and by the one that reads or   *)
(* extends the chain.                                                      *)
THEOREM ProtocolTyped == ProtocolSpec => []ProtocolTypeOK
<1>1. ProtocolInit => LockTypes
  BY DEF ProtocolInit, LockTypes, Keepers
<1>2. LockTypes /\ [ProtocolNext]_protocolVars => LockTypes'
  BY TypeStep
<1>3. ChainInv /\ LockTypes => ProtocolTypeOK
  BY DEF ChainInv, Counted, Ids, Locked, LockTypes, ProtocolTypeOK
<1> QED
  BY <1>1, <1>2, <1>3, AlwaysChainInv, PTL DEF ProtocolSpec

(* The chain never forks, for any transactions that overlap, record        *)
(* several events and are rolled back.                                     *)
THEOREM ChainAlwaysHolds == ProtocolSpec => []ChainHolds
<1>1. ChainInv => ChainHolds
  BY DEF ChainInv, AllChained, Chained, ChainHolds
<1> QED
  BY <1>1, AlwaysChainInv, PTL

(* What is committed comes after all that was committed before.            *)
THEOREM LogAlwaysGrows == ProtocolSpec => LogOnlyGrows
<1>1. ASSUME ChainInv, [ProtocolNext]_protocolVars, tampers' = 0
      PROVE  log \subseteq log' /\ \A r \in log' \ log, q \in log : r.id > q.id
  <2>1. CASE log' = log
    BY <2>1
  <2>2. CASE \E t \in Txs : log' = log \cup own[t]
    BY <2>2, <1>1 DEF ChainInv, Counted, Ids, OwnIsNewer
  <2>3. CASE \E r \in log : Forge(r) \/ Remove(r)
    BY <2>3, <1>1 DEF Forge, Remove, ChainInv, Counted
  <2> QED
    BY <1>1, <2>1, <2>2, <2>3
       DEF ProtocolNext, GoesOn, StartCheck, VerifyBatch, Begin, LockRow, ShareRow, TakeChainLock,
           ReadPrev, InsertEvent, Commit, Rollback, DeadlockDetected, protocolVars, chainVars
<1>2. ChainInv /\ [ProtocolNext]_protocolVars => [GrowsAtItsEnd]_protocolVars
  BY <1>1 DEF GrowsAtItsEnd
<1> QED
  BY <1>2, AlwaysChainInv, PTL DEF ProtocolSpec, LogOnlyGrows
-----------------------------------------------------------------------------
(* Every row carries its hash, there are finitely many, and no two have    *)
(* the same id.                                                            *)
Hashed(S) == \A r \in S : r.id > 0 /\ r.hash = EventHash(r.prev, r.body)
Distinct(S) == \A r, q \in S : r.id = q.id => r = q
RowsAreSound ==
  \A t \in Txs : IsFiniteSet(Visible(t)) /\ Hashed(Visible(t)) /\ Distinct(Visible(t))
LogIsSound == IsFiniteSet(log) /\ Hashed(log) /\ Distinct(log)
(* A verification stands at a row that is in the log, or at the start.     *)
CheckerStands ==
  \/ checker.last = 0 /\ checker.prev = Genesis
  \/ \E p \in log : checker.last = p.id /\ checker.prev = p.hash
NotBroken == checker.state # "broken" /\ (checker.state = "reading" => CheckerStands)

CheckerShape ==
  checker = [state |-> checker.state, last |-> checker.last, prev |-> checker.prev, edited |-> checker.edited]

CheckInv == CheckerShape /\ nextId > 0 /\ (tampers = 0 => RowsAreSound /\ LogIsSound /\ NotBroken)

(* A batch has every row between its first and its last.                   *)
LEMMA BatchIsClosed ==
  ASSUME IsFiniteSet(log), \A r \in log : r.id \in Nat,
         NEW r \in NextBatch, NEW p \in AfterLast, p.id < r.id
  PROVE  p \in NextBatch
<1> DEFINE UpTo(x) == {q \in AfterLast : q.id <= x.id}
<1>1. AfterLast \subseteq log /\ r \in AfterLast
  BY DEF AfterLast, NextBatch
<1>2. UpTo(p) \subseteq UpTo(r)
  BY <1>1
<1>3. IsFiniteSet(UpTo(r))
  BY <1>1, FS_Subset
<1>4. Cardinality(UpTo(p)) <= Cardinality(UpTo(r)) /\ Cardinality(UpTo(r)) \in Nat
      /\ Cardinality(UpTo(p)) \in Nat
  BY <1>2, <1>3, FS_Subset, FS_CardinalityType
<1>5. Cardinality(UpTo(r)) <= Batch
  BY DEF NextBatch
<1>6. Cardinality(UpTo(p)) <= Batch
  BY <1>4, <1>5, ProtocolAssumption
<1> QED
  BY <1>6 DEF NextBatch

(* In a chain that holds no row of the next batch fails the check.         *)
LEMMA BatchPasses ==
  ASSUME ChainInv, CheckInv, tampers = 0, checker.state = "reading", NEW r \in NextBatch
  PROVE  Checks(r, NextBatch)
<1>1. /\ LogIsSound /\ CheckerStands /\ Chained(log)
      /\ \A q \in log : q.id \in Nat
  BY DEF ChainInv, Counted, Ids, AllChained, CheckInv, NotBroken
<1>2. NextBatch \subseteq AfterLast /\ AfterLast \subseteq log /\ \A q \in AfterLast : q.id > checker.last
  BY DEF NextBatch, AfterLast
<1>3. Follows(r, log) /\ r.hash = EventHash(r.prev, r.body)
  BY <1>1, <1>2 DEF Chained, LogIsSound, Hashed
<1>4. checker.last \in Nat
  BY <1>1 DEF CheckerStands
<1>5. CASE \A q \in NextBatch : q.id >= r.id
  <2>1. \A q \in log : q.id < r.id => q.id <= checker.last
    <3> SUFFICES ASSUME NEW q \in log, q.id < r.id, ~(q.id <= checker.last) PROVE FALSE
      OBVIOUS
    <3>1. q \in AfterLast
      BY <1>1, <1>4 DEF AfterLast
    <3>2. q \in NextBatch
      BY <1>1, <3>1, BatchIsClosed DEF LogIsSound
    <3> QED
      BY <1>1, <1>2, <1>5, <3>2
  <2>2. CASE checker.last = 0 /\ checker.prev = Genesis
    <3>1. \A q \in log : q.id >= r.id
      BY <1>1, <1>2, <2>1, <2>2 DEF LogIsSound, Hashed
    <3>2. r.prev = checker.prev
      BY <1>3, <2>2, <3>1 DEF Follows
    <3> QED
      BY <1>3, <1>5, <3>2 DEF Checks, IsHashBefore
  <2>3. CASE \E p \in log : checker.last = p.id /\ checker.prev = p.hash
    <3>1. PICK p \in log : checker.last = p.id /\ checker.prev = p.hash
      BY <2>3
    <3>2. p.id < r.id
      BY <1>2, <3>1
    <3>3. PICK q \in log : q.id < r.id /\ r.prev = q.hash /\ \A x \in log : x.id < r.id => x.id <= q.id
      BY <1>1, <1>2, <1>3, <3>2 DEF Follows
    <3>4. q.id = p.id
      BY <1>1, <2>1, <3>1, <3>2, <3>3
    <3>5. q = p
      BY <1>1, <3>4 DEF LogIsSound, Distinct
    <3> QED
      BY <1>3, <1>5, <3>1, <3>3, <3>5 DEF Checks, IsHashBefore
  <2> QED
    BY <1>1, <2>2, <2>3 DEF CheckerStands
<1>6. CASE ~\A q \in NextBatch : q.id >= r.id
  <2>1. PICK b \in NextBatch : b.id < r.id
    BY <1>1, <1>2, <1>6
  <2>2. PICK q \in log : q.id < r.id /\ r.prev = q.hash /\ \A x \in log : x.id < r.id => x.id <= q.id
    BY <1>1, <1>2, <1>3, <2>1 DEF Follows
  <2>3. b.id <= q.id /\ b.id > checker.last
    BY <1>2, <2>1, <2>2
  <2>4. q \in AfterLast
    BY <1>1, <1>2, <1>4, <2>3 DEF AfterLast
  <2>5. q \in NextBatch
    BY <1>1, <2>2, <2>4, BatchIsClosed DEF LogIsSound
  <2> QED
    BY <1>2, <1>3, <1>6, <2>2, <2>5 DEF Checks, IsHashBefore
<1> QED
  BY <1>5, <1>6

LEMMA CheckStep == ChainInv /\ ChainInv' /\ CheckInv /\ [ProtocolNext]_protocolVars => CheckInv'
<1> SUFFICES ASSUME ChainInv, ChainInv', CheckInv, [ProtocolNext]_protocolVars PROVE CheckInv'
  OBVIOUS
<1> USE ProtocolAssumption
<1>1. CASE \/ UNCHANGED protocolVars
           \/ \E t \in Txs : Begin(t) \/ LockRow(t) \/ ShareRow(t) \/ TakeChainLock(t) \/ ReadPrev(t)
  <2>1. UNCHANGED <<log, own, nextId, tampers, checker>>
    BY <1>1 DEF Begin, LockRow, ShareRow, TakeChainLock, ReadPrev, protocolVars, chainVars, auditVars
  <2> QED
    BY <2>1 DEF CheckInv, CheckerShape, RowsAreSound, LogIsSound, NotBroken, CheckerStands,
                Visible, Hashed, Distinct
<1>2. CASE StartCheck
  <2>1. UNCHANGED <<log, own, nextId, tampers>> /\ checker'.state = "reading"
        /\ checker'.last = 0 /\ checker'.prev = Genesis /\ CheckerShape'
    BY <1>2 DEF StartCheck, chainVars, CheckerShape
  <2> QED
    BY <2>1 DEF CheckInv, CheckerShape, RowsAreSound, LogIsSound, NotBroken, CheckerStands,
                Visible, Hashed, Distinct
<1>3. CASE VerifyBatch
  <2>1. UNCHANGED <<log, own, nextId, tampers>> /\ checker.state = "reading"
    BY <1>3 DEF VerifyBatch, chainVars
  <2>2. CheckerShape'
    BY <1>3 DEF VerifyBatch, CheckInv, CheckerShape
  <2>3. ASSUME tampers = 0 PROVE NotBroken'
    <3>1. \A r \in NextBatch : Checks(r, NextBatch)
      BY <2>1, <2>3, BatchPasses
    <3>2. CASE checker' = [checker EXCEPT !.state = "ok"]
      BY <3>2 DEF NotBroken
    <3>3. CASE \E last \in NextBatch : checker' = [checker EXCEPT !.last = last.id, !.prev = last.hash]
      <4>1. PICK last \in NextBatch : checker' = [checker EXCEPT !.last = last.id, !.prev = last.hash]
        BY <3>3
      <4>2. checker'.state = checker.state /\ checker'.last = last.id /\ checker'.prev = last.hash
        BY <4>1 DEF CheckInv, CheckerShape
      <4>3. last \in log'
        BY <2>1 DEF NextBatch, AfterLast
      <4> QED
        BY <2>1, <4>2, <4>3 DEF NotBroken, CheckerStands
    <3> QED
      BY <1>3, <3>1, <3>2, <3>3 DEF VerifyBatch
  <2> QED
    BY <2>1, <2>2, <2>3 DEF CheckInv, RowsAreSound, LogIsSound, Visible, Hashed, Distinct
<1>4. ASSUME NEW t \in Txs, InsertEvent(t) PROVE CheckInv'
  <2> DEFINE n == Event(nextId, nextId, prevRead[t], EventHash(prevRead[t], nextId))
  <2>1. UNCHANGED <<log, tampers, checker>> /\ nextId' = nextId + 1
        /\ own' = [own EXCEPT ![t] = own[t] \cup {n}]
    BY <1>4 DEF InsertEvent, auditVars
  <2>2. n.id = nextId /\ n.hash = EventHash(n.prev, n.body) /\ nextId \in Nat /\ nextId > 0
    BY DEF Event, ChainInv, Counted, CheckInv
  <2>3. Visible(t)' = Visible(t) \cup {n} /\ \A u \in Txs \ {t} : Visible(u)' = Visible(u)
    BY <2>1 DEF Visible, ChainInv, Functions
  <2>4. \A r \in Visible(t) : r.id \in Nat /\ r.id < n.id
    BY <2>2 DEF ChainInv, Counted, Ids, Visible
  <2>5. ASSUME tampers' = 0 PROVE RowsAreSound' /\ LogIsSound' /\ NotBroken'
    <3>1. RowsAreSound /\ LogIsSound /\ NotBroken
      BY <2>1, <2>5 DEF CheckInv
    <3>2. LogIsSound' /\ NotBroken'
      BY <2>1, <3>1 DEF LogIsSound, NotBroken, CheckerStands, Hashed, Distinct
    <3>3. IsFiniteSet(Visible(t)') /\ Hashed(Visible(t)') /\ Distinct(Visible(t)')
      <4>1. IsFiniteSet(Visible(t)) /\ Hashed(Visible(t)) /\ Distinct(Visible(t))
        BY <3>1 DEF RowsAreSound
      <4>2. IsFiniteSet(Visible(t)')
        BY <2>3, <4>1, FS_AddElement
      <4>3. Hashed(Visible(t)') /\ Distinct(Visible(t)')
        <5> HIDE DEF n
        <5> QED
          BY <2>2, <2>3, <2>4, <4>1 DEF Hashed, Distinct
      <4> QED
        BY <4>2, <4>3
    <3>4. RowsAreSound'
      BY <2>3, <3>1, <3>3 DEF RowsAreSound, Hashed, Distinct
    <3> QED
      BY <3>2, <3>4
  <2> QED
    BY <2>1, <2>2, <2>5 DEF CheckInv, CheckerShape
<1>5. CASE \E t \in Txs : Commit(t) \/ Rollback(t) \/ DeadlockDetected(t)
  <2>1. PICK t \in Txs : Ends(t) /\ log' \in {log, log \cup own[t]}
    BY <1>5 DEF Commit, Rollback, DeadlockDetected
  <2>2. UNCHANGED <<nextId, tampers, checker>> /\ own' = [own EXCEPT ![t] = {}] /\ log \subseteq log'
    BY <2>1 DEF Ends, auditVars
  <2>3. own'[t] = {} /\ \A u \in Txs \ {t} : own'[u] = own[u]
    BY <2>2 DEF ChainInv, Functions
  <2>4. log' = log \/ (log' = Visible(t) /\ \A u \in Txs : own'[u] = {})
    BY <2>1, <2>3 DEF Visible, ChainInv, Locked
  <2>5. \A u \in Txs : Visible(u)' \in {log, Visible(u), Visible(t)}
    BY <2>3, <2>4 DEF Visible
  <2>6. ASSUME tampers' = 0 PROVE RowsAreSound' /\ LogIsSound' /\ NotBroken'
    <3>1. RowsAreSound /\ LogIsSound /\ NotBroken
      BY <2>2, <2>6 DEF CheckInv
    <3>2. RowsAreSound'
      BY <2>5, <3>1 DEF RowsAreSound, LogIsSound, Hashed, Distinct
    <3>3. LogIsSound'
      BY <2>4, <3>1 DEF RowsAreSound, LogIsSound, Hashed, Distinct
    <3>4. NotBroken'
      BY <2>2, <3>1 DEF NotBroken, CheckerStands
    <3> QED
      BY <3>2, <3>3, <3>4
  <2> QED
    BY <2>2, <2>6 DEF CheckInv, CheckerShape
<1>6. CASE \E r \in log : Forge(r) \/ Remove(r)
  <2>1. tampers' = tampers + 1 /\ UNCHANGED <<nextId, checker>>
    BY <1>6 DEF Forge, Remove
  <2> QED
    BY <2>1 DEF CheckInv, CheckerShape, ChainInv, Counted
<1> QED
  BY <1>1, <1>2, <1>3, <1>4, <1>5, <1>6 DEF ProtocolNext, GoesOn

LEMMA CheckAlways == ProtocolSpec => []CheckInv
<1>1. ASSUME ProtocolInit PROVE CheckInv
  <2>1. log = {} /\ \A t \in Txs : Visible(t) = {}
    BY <1>1 DEF ProtocolInit, Visible
  <2>2. nextId > 0 /\ checker.state = "idle" /\ CheckerShape
    BY <1>1 DEF ProtocolInit, CheckerShape
  <2> QED
    BY <2>1, <2>2, FS_EmptySet DEF CheckInv, RowsAreSound, LogIsSound, NotBroken, Hashed, Distinct
<1> QED
  BY <1>1, CheckStep, AlwaysChainInv, PTL DEF ProtocolSpec

(* A verification that runs beside any transactions never calls a chain    *)
(* broken that nobody touched behind the trigger.                          *)
THEOREM NeverAFalseAlarm == ProtocolSpec => []NoFalseAlarm
<1>1. ChainInv /\ CheckInv => NoFalseAlarm
  BY DEF ChainInv, Counted, CheckInv, NotBroken, NoFalseAlarm
<1> QED
  BY <1>1, CheckAlways, AlwaysChainInv, PTL
-----------------------------------------------------------------------------
(* One edit. Ids tell rows apart, also those that were edited, and in a    *)
(* log that nobody touched the content of a row is its own (BodiesFit).    *)
IdsDiffer(S) == IsFiniteSet(S) /\ Distinct(S) /\ \A r \in S : r.id \in Nat /\ r.id > 0
RowsDiffer == IdsDiffer(log) /\ \A t \in Txs : IdsDiffer(Visible(t))
AsInserted(r) == r = Event(r.id, r.id, r.prev, r.hash)
BodiesFit == (\A r \in log : AsInserted(r)) /\ \A t \in Txs : \A r \in own[t] : AsInserted(r)

(* A row that shows the edit: it does not fit its hash, or does not follow *)
(* the row before it.                                                      *)
Damaged(d, S) == d.hash # EventHash(d.prev, d.body) \/ ~Follows(d, S)
EditShows == edited => \E d \in log : Damaged(d, log)

(* A verification that began after the edit has the row still before it.   *)
EditIsAhead ==
  checker.edited =>
    /\ checker.state # "ok"
    /\ checker.state = "reading" =>
         /\ CheckerStands
         /\ \E d \in log : Damaged(d, log) /\ d.id > checker.last

EditInv ==
  /\ RowsDiffer /\ (tampers = 0 => BodiesFit)
  /\ edited \/ checker.edited => tampers > 0
  /\ tampers <= 1 => EditShows /\ EditIsAhead

LEMMA PairsDiffer ==
  ASSUME NEW a, NEW b, NEW c, NEW d
  PROVE  /\ EventHash(a, b) = EventHash(c, d) => a = c /\ b = d
         /\ EventHash(a, b) # Genesis
<1>1. <<a, b>>[1] = a /\ <<a, b>>[2] = b /\ <<c, d>>[1] = c /\ <<c, d>>[2] = d
  OBVIOUS
<1>2. Len(<<a, b>>) = 2 /\ Len(<<"genesis">>) = 1
  OBVIOUS
<1> QED
  BY <1>1, <1>2 DEF EventHash, Genesis

LEMMA LeastId ==
  ASSUME NEW A \in SUBSET Nat, A # {}
  PROVE  \E n \in A : \A m \in A : n <= m
<1>1. IsWellFoundedOn(OpToRel(<, Nat), Nat)
  BY NatLessThanWellFounded
<1>2. PICK n \in A : \A m \in A : <<m, n>> \notin OpToRel(<, Nat)
  BY <1>1, WFMin
<1>3. \A m \in A : ~(m < n)
  BY <1>2 DEF OpToRel
<1> QED
  BY <1>3

(* The rows that come later do not hide a damage.                          *)
LEMMA DamageStays ==
  ASSUME NEW S, NEW T, S \subseteq T, \A r \in T : r.id \in Nat,
         \A n \in T \ S, r \in S : r.id < n.id,
         NEW d \in S, Damaged(d, S)
  PROVE  Damaged(d, T)
<1> SUFFICES ASSUME Follows(d, T) PROVE Follows(d, S)
  BY DEF Damaged
<1>1. CASE \A q \in T : q.id >= d.id
  BY <1>1 DEF Follows
<1>2. CASE ~\A q \in T : q.id >= d.id
  <2>1. PICK p \in T : p.id < d.id /\ d.prev = p.hash /\ \A q \in T : q.id < d.id => q.id <= p.id
    BY <1>2 DEF Follows
  <2>2. p \in S
    BY <2>1
  <2>3. ~\A q \in S : q.id >= d.id
    BY <2>1, <2>2
  <2> QED
    BY <2>1, <2>2, <2>3 DEF Follows
<1> QED
  BY <1>1, <1>2

(* The row after another, in a chain that holds.                           *)
LEMMA NextRow ==
  ASSUME IdsDiffer(log), Chained(log), NEW r \in log, HasSuccessor(r)
  PROVE  \E q \in log : q.id > r.id /\ q.prev = r.hash /\ \A x \in log : x.id < q.id => x.id <= r.id
<1> DEFINE A == {x.id : x \in {y \in log : y.id > r.id}}
<1>1. A \in SUBSET Nat /\ A # {}
  BY DEF IdsDiffer, HasSuccessor
<1>2. PICK n \in A : \A m \in A : n <= m
  BY <1>1, LeastId
<1>3. PICK q \in log : q.id > r.id /\ q.id = n
  BY <1>2
<1>4. \A x \in log : x.id > r.id => q.id <= x.id
  BY <1>2, <1>3
<1>5. \A x \in log : x.id < q.id => x.id <= r.id
  BY <1>3, <1>4 DEF IdsDiffer
<1>6. Follows(q, log)
  BY DEF Chained
<1>7. PICK p \in log : p.id < q.id /\ q.prev = p.hash /\ \A x \in log : x.id < q.id => x.id <= p.id
  BY <1>3, <1>6 DEF Follows, IdsDiffer
<1>8. p.id = r.id
  BY <1>3, <1>5, <1>7 DEF IdsDiffer
<1>9. p = r
  BY <1>8 DEF IdsDiffer, Distinct
<1> QED
  BY <1>3, <1>5, <1>7, <1>9

(* The first edit that counts as one leaves a damaged row.                 *)
LEMMA RemovalShows ==
  ASSUME IdsDiffer(log), Chained(log), Hashed(log), \A x \in log : x.body = x.id,
         NEW r \in log, HasSuccessor(r)
  PROVE  \E d \in log \ {r} : Damaged(d, log \ {r})
<1>1. PICK q \in log : q.id > r.id /\ q.prev = r.hash /\ \A x \in log : x.id < q.id => x.id <= r.id
  BY NextRow
<1>2. q \in log \ {r} /\ r.hash = EventHash(r.prev, r.id) /\ r.id \in Nat
  BY <1>1 DEF IdsDiffer, Hashed
<1>3. ASSUME Follows(q, log \ {r}) PROVE FALSE
  <2>1. CASE q.prev = Genesis
    BY <1>1, <1>2, <2>1, PairsDiffer
  <2>2. CASE \E p \in log \ {r} : q.prev = p.hash
    <3>1. PICK p \in log \ {r} : q.prev = p.hash
      BY <2>2
    <3>2. p.hash = EventHash(p.prev, p.id)
      BY <3>1 DEF Hashed
    <3>3. p.id = r.id
      BY <1>1, <1>2, <3>1, <3>2, PairsDiffer
    <3> QED
      BY <3>1, <3>3 DEF IdsDiffer, Distinct
  <2> QED
    BY <1>3, <2>1, <2>2 DEF Follows
<1> QED
  BY <1>2, <1>3 DEF Damaged

LEMMA ForgeryShows ==
  ASSUME IdsDiffer(log), Chained(log), Hashed(log), \A x \in log : x.body = x.id,
         NEW r \in log, NEW hash \in {r.hash, EventHash(r.prev, Forged)},
         NEW f, f.id = r.id, f.prev = r.prev, f.body = Forged, f.hash = hash,
         hash = r.hash \/ HasSuccessor(r)
  PROVE  \E d \in (log \ {r}) \cup {f} : Damaged(d, (log \ {r}) \cup {f})
<1> DEFINE S == (log \ {r}) \cup {f}
<1>1. r.hash = EventHash(r.prev, r.id) /\ r.id \in Nat /\ r.id > 0
  BY DEF IdsDiffer, Hashed
<1>2. r.hash # EventHash(r.prev, Forged)
  BY <1>1, PairsDiffer DEF Forged
<1>3. CASE hash = r.hash
  <2>1. f.hash # EventHash(f.prev, f.body)
    BY <1>2, <1>3
  <2> QED
    BY <2>1 DEF Damaged
<1>4. CASE hash # r.hash
  <2>1. PICK q \in log : q.id > r.id /\ q.prev = r.hash /\ \A x \in log : x.id < q.id => x.id <= r.id
    BY <1>4, NextRow
  <2>2. q \in S /\ f \in S /\ f.id < q.id
    BY <1>1, <2>1 DEF IdsDiffer
  <2>3. ASSUME Follows(q, S) PROVE FALSE
    <3>1. PICK p \in S : p.id < q.id /\ q.prev = p.hash /\ \A x \in S : x.id < q.id => x.id <= p.id
      BY <1>1, <2>1, <2>2, <2>3 DEF Follows, IdsDiffer
    <3>2. p.id >= r.id
      BY <2>2, <3>1
    <3>3. CASE p = f
      BY <1>4, <2>1, <3>1, <3>3
    <3>4. CASE p \in log \ {r}
      <4>1. p.id = r.id
        BY <1>1, <2>1, <3>1, <3>2, <3>4 DEF IdsDiffer
      <4> QED
        BY <3>4, <4>1 DEF IdsDiffer, Distinct
    <3> QED
      BY <3>1, <3>3, <3>4
  <2> HIDE DEF S
  <2>4. \E d \in S : Damaged(d, S)
    BY <2>2, <2>3 DEF Damaged
  <2> QED
    BY <2>4 DEF S
<1> QED
  BY <1>3, <1>4

(* A damaged row fails the check of the batch it is in.                    *)
LEMMA DamageFails ==
  ASSUME IdsDiffer(log), CheckerStands, NEW d \in NextBatch, Damaged(d, log)
  PROVE  ~Checks(d, NextBatch)
<1> SUFFICES ASSUME Checks(d, NextBatch) PROVE FALSE
  OBVIOUS
<1>1. IsFiniteSet(log) /\ \A q \in log : q.id \in Nat /\ q.id > 0
  BY DEF IdsDiffer
<1>2. NextBatch \subseteq AfterLast /\ AfterLast \subseteq log /\ \A q \in AfterLast : q.id > checker.last
  BY DEF NextBatch, AfterLast
<1>3. checker.last \in Nat
  BY <1>1 DEF CheckerStands
<1>4. IsHashBefore(d.prev, d, NextBatch) /\ ~Follows(d, log)
  BY DEF Checks, Damaged
<1>5. \A q \in log : q.id < d.id /\ q.id > checker.last => q \in NextBatch
  <2> TAKE q \in log
  <2> HAVE q.id < d.id /\ q.id > checker.last
  <2>1. q \in AfterLast
    BY DEF AfterLast
  <2> QED
    BY <1>1, <2>1, BatchIsClosed
<1>6. CASE \A q \in NextBatch : q.id >= d.id
  <2>1. d.prev = checker.prev
    BY <1>4, <1>6 DEF IsHashBefore
  <2>2. \A q \in log : q.id < d.id => q.id <= checker.last
    BY <1>1, <1>2, <1>3, <1>5, <1>6
  <2>3. CASE checker.last = 0 /\ checker.prev = Genesis
    <3>1. \A q \in log : q.id >= d.id
      BY <1>1, <1>2, <2>2, <2>3
    <3> QED
      BY <1>4, <2>1, <2>3, <3>1 DEF Follows
  <2>4. CASE \E p \in log : checker.last = p.id /\ checker.prev = p.hash
    <3>1. PICK p \in log : checker.last = p.id /\ checker.prev = p.hash
      BY <2>4
    <3>2. p.id < d.id
      BY <1>2, <3>1
    <3>3. ~\A q \in log : q.id >= d.id
      BY <1>1, <1>2, <3>2
    <3> QED
      BY <1>4, <2>1, <2>2, <3>1, <3>2, <3>3 DEF Follows
  <2> QED
    BY <2>3, <2>4 DEF CheckerStands
<1>7. CASE ~\A q \in NextBatch : q.id >= d.id
  <2>1. PICK p \in NextBatch : p.id < d.id /\ d.prev = p.hash /\ \A q \in NextBatch : q.id < d.id => q.id <= p.id
    BY <1>4, <1>7 DEF IsHashBefore
  <2>2. p \in log /\ p.id > checker.last
    BY <1>2, <2>1
  <2>3. \A q \in log : q.id < d.id => q.id <= p.id
    BY <1>1, <1>3, <1>5, <2>1, <2>2
  <2>4. ~\A q \in log : q.id >= d.id
    BY <1>1, <1>2, <2>1, <2>2
  <2> QED
    BY <1>4, <2>1, <2>2, <2>3, <2>4 DEF Follows
<1> QED
  BY <1>6, <1>7

(* There is a next batch as long as a row is left.                         *)
LEMMA BatchIsThere ==
  ASSUME IdsDiffer(log), NEW d \in AfterLast
  PROVE  NextBatch # {}
<1> DEFINE A == {x.id : x \in AfterLast}
<1>1. AfterLast \subseteq log /\ A \in SUBSET Nat /\ A # {}
  BY DEF IdsDiffer, AfterLast
<1>2. PICK n \in A : \A m \in A : n <= m
  BY <1>1, LeastId
<1>3. PICK r \in AfterLast : r.id = n
  BY <1>2
<1>4. \A q \in AfterLast : r.id <= q.id /\ q.id \in Nat
  BY <1>1, <1>2, <1>3
<1>5. {q \in AfterLast : q.id <= r.id} = {r}
  BY <1>1, <1>3, <1>4 DEF IdsDiffer, Distinct
<1>6. Cardinality({q \in AfterLast : q.id <= r.id}) <= Batch
  BY <1>5, FS_Singleton, ProtocolAssumption
<1> QED
  BY <1>3, <1>6 DEF NextBatch

(* A batch that passes leaves the damage ahead.                            *)
LEMMA DamageIsAhead ==
  ASSUME IdsDiffer(log), CheckerStands, NEW d \in log, Damaged(d, log), d.id > checker.last,
         NEW last \in NextBatch, \A r \in NextBatch : r.id <= last.id /\ Checks(r, NextBatch)
  PROVE  d.id > last.id
<1> SUFFICES ASSUME ~(d.id > last.id) PROVE FALSE
  OBVIOUS
<1>1. IsFiniteSet(log) /\ \A q \in log : q.id \in Nat
  BY DEF IdsDiffer
<1>2. last \in log /\ d \in AfterLast
  BY DEF NextBatch, AfterLast
<1>3. CASE d.id = last.id
  <2>1. d = last
    BY <1>2, <1>3 DEF IdsDiffer, Distinct
  <2> QED
    BY <2>1, DamageFails
<1>4. CASE d.id < last.id
  BY <1>1, <1>2, <1>4, BatchIsClosed, DamageFails
<1> QED
  BY <1>1, <1>2, <1>3, <1>4

LEMMA BodiesAreIds ==
  ASSUME BodiesFit
  PROVE  \A x \in log : x.body = x.id
BY DEF BodiesFit, AsInserted, Event

LEMMA EditStep ==
  ASSUME ChainInv, ChainInv', CheckInv, EditInv, [ProtocolNext]_protocolVars
  PROVE  EditInv'
<1> USE ProtocolAssumption
<1>0. /\ RowsDiffer /\ tampers \in Nat /\ nextId \in Nat /\ nextId > 0
      /\ edited \/ checker.edited => tampers > 0
  BY DEF EditInv, ChainInv, Counted, CheckInv
<1>1. CASE \/ UNCHANGED protocolVars
           \/ \E t \in Txs : Begin(t) \/ LockRow(t) \/ ShareRow(t) \/ TakeChainLock(t) \/ ReadPrev(t)
  <2>1. UNCHANGED <<log, own, tampers, checker, edited>>
    BY <1>1 DEF Begin, LockRow, ShareRow, TakeChainLock, ReadPrev, protocolVars, chainVars, auditVars
  <2> QED
    BY <2>1 DEF EditInv, RowsDiffer, BodiesFit, EditShows, EditIsAhead, CheckerStands, Visible
<1>2. CASE StartCheck
  <2>1. UNCHANGED <<log, own, tampers, edited>> /\ checker'.state = "reading" /\ checker'.edited = edited
        /\ checker'.last = 0 /\ checker'.prev = Genesis
    BY <1>2 DEF StartCheck, chainVars
  <2>2. RowsDiffer' /\ (tampers' = 0 => BodiesFit') /\ (tampers' <= 1 => EditShows')
    BY <2>1 DEF EditInv, RowsDiffer, BodiesFit, EditShows, Visible
  <2>3. tampers' <= 1 => EditIsAhead'
    BY <2>1 DEF EditInv, EditShows, EditIsAhead, CheckerStands, RowsDiffer, IdsDiffer
  <2> QED
    BY <1>0, <2>1, <2>2, <2>3 DEF EditInv
<1>3. CASE VerifyBatch
  <2>1. UNCHANGED <<log, own, tampers, edited>> /\ checker.state = "reading"
    BY <1>3 DEF VerifyBatch, chainVars
  <2>2. RowsDiffer' /\ (tampers' = 0 => BodiesFit') /\ (tampers' <= 1 => EditShows')
    BY <2>1 DEF EditInv, RowsDiffer, BodiesFit, EditShows, Visible
  <2>3. checker'.edited = checker.edited
    BY <1>3 DEF VerifyBatch, CheckInv, CheckerShape
  <2>4. ASSUME tampers <= 1, checker.edited PROVE EditIsAhead'
    <3>1. CheckerStands /\ \E d \in log : Damaged(d, log) /\ d.id > checker.last
      BY <2>1, <2>4 DEF EditInv, EditIsAhead
    <3>2. PICK d \in log : Damaged(d, log) /\ d.id > checker.last
      BY <3>1
    <3>3. IdsDiffer(log) /\ NextBatch # {}
      BY <1>0, <3>2, BatchIsThere DEF RowsDiffer, AfterLast
    <3>4. CASE checker' = [checker EXCEPT !.state = "broken"]
      BY <3>4 DEF EditIsAhead, CheckInv, CheckerShape
    <3>5. CASE /\ \A r \in NextBatch : Checks(r, NextBatch)
               /\ \E last \in NextBatch :
                    /\ \A r \in NextBatch : r.id <= last.id
                    /\ checker' = [checker EXCEPT !.last = last.id, !.prev = last.hash]
      <4>1. PICK last \in NextBatch :
                    /\ \A r \in NextBatch : r.id <= last.id
                    /\ checker' = [checker EXCEPT !.last = last.id, !.prev = last.hash]
        BY <3>5
      <4>2. checker'.state = "reading" /\ checker'.last = last.id /\ checker'.prev = last.hash
        BY <2>1, <4>1 DEF CheckInv, CheckerShape
      <4>3. d.id > last.id /\ last \in log
        BY <3>1, <3>2, <3>3, <3>5, <4>1, DamageIsAhead DEF NextBatch, AfterLast
      <4> QED
        BY <2>1, <3>2, <4>2, <4>3 DEF EditIsAhead, CheckerStands
    <3> QED
      BY <1>3, <3>3, <3>4, <3>5 DEF VerifyBatch
  <2>5. tampers' <= 1 => EditIsAhead'
    BY <2>1, <2>3, <2>4 DEF EditIsAhead
  <2> QED
    BY <1>0, <2>1, <2>2, <2>3, <2>5 DEF EditInv
<1>4. ASSUME NEW t \in Txs, InsertEvent(t) PROVE EditInv'
  <2> DEFINE n == Event(nextId, nextId, prevRead[t], EventHash(prevRead[t], nextId))
  <2>1. UNCHANGED <<log, tampers, checker, edited>> /\ own' = [own EXCEPT ![t] = own[t] \cup {n}]
    BY <1>4 DEF InsertEvent, auditVars
  <2>2. n.id = nextId /\ AsInserted(n)
    BY DEF Event, AsInserted
  <2>3. Visible(t)' = Visible(t) \cup {n} /\ \A u \in Txs \ {t} : Visible(u)' = Visible(u)
    BY <2>1 DEF Visible, ChainInv, Functions
  <2>4. \A r \in Visible(t) : r.id \in Nat /\ r.id < n.id
    BY <2>2 DEF ChainInv, Counted, Ids, Visible
  <2> HIDE DEF n
  <2>5. IdsDiffer(Visible(t)')
    <3>1. IdsDiffer(Visible(t))
      BY <1>0 DEF RowsDiffer
    <3>2. IsFiniteSet(Visible(t)')
      BY <2>3, <3>1, FS_AddElement DEF IdsDiffer
    <3> QED
      BY <1>0, <2>2, <2>3, <2>4, <3>1, <3>2 DEF IdsDiffer, Distinct
  <2>6. RowsDiffer'
    BY <1>0, <2>1, <2>3, <2>5 DEF RowsDiffer
  <2>7. tampers' = 0 => BodiesFit'
    BY <2>1, <2>2 DEF EditInv, BodiesFit, ChainInv, Functions
  <2>8. tampers' <= 1 => EditShows' /\ EditIsAhead'
    BY <2>1 DEF EditInv, EditShows, EditIsAhead, CheckerStands
  <2> QED
    BY <1>0, <2>1, <2>6, <2>7, <2>8 DEF EditInv
<1>5. CASE \E t \in Txs : Commit(t) \/ Rollback(t) \/ DeadlockDetected(t)
  <2>1. PICK t \in Txs : Ends(t) /\ log' \in {log, log \cup own[t]}
    BY <1>5 DEF Commit, Rollback, DeadlockDetected
  <2>2. UNCHANGED <<tampers, checker, edited>> /\ own' = [own EXCEPT ![t] = {}] /\ log \subseteq log'
    BY <2>1 DEF Ends, auditVars
  <2>3. own'[t] = {} /\ \A u \in Txs \ {t} : own'[u] = own[u]
    BY <2>2 DEF ChainInv, Functions
  <2>4. log' = log \/ (log' = Visible(t) /\ \A u \in Txs : own'[u] = {})
    BY <2>1, <2>3 DEF Visible, ChainInv, Locked
  <2>5. \A u \in Txs : Visible(u)' \in {log, Visible(u), Visible(t)}
    BY <2>3, <2>4 DEF Visible
  <2>6. RowsDiffer'
    BY <1>0, <2>4, <2>5 DEF RowsDiffer
  <2>7. tampers' = 0 => BodiesFit'
    BY <2>1, <2>2, <2>3 DEF EditInv, BodiesFit
  <2>8. \A r \in log' : r.id \in Nat
    BY <2>6 DEF RowsDiffer, IdsDiffer
  <2>9. \A n \in log' \ log, r \in log : r.id < n.id
    BY <2>1 DEF ChainInv, OwnIsNewer
  <2>10. \A d \in log : Damaged(d, log) => Damaged(d, log')
    BY <2>2, <2>8, <2>9, DamageStays
  <2>11. tampers' <= 1 => EditShows' /\ EditIsAhead'
    BY <2>2, <2>10 DEF EditInv, EditShows, EditIsAhead, CheckerStands
  <2> QED
    BY <1>0, <2>2, <2>6, <2>7, <2>11 DEF EditInv
<1>6. ASSUME NEW r \in log, Remove(r) PROVE EditInv'
  <2>1. /\ tampers' = tampers + 1 /\ UNCHANGED <<own, checker>>
        /\ log' = log \ {r} /\ edited' = (edited \/ HasSuccessor(r))
    BY <1>6 DEF Remove
  <2>2. IdsDiffer(log') /\ \A t \in Txs : Visible(t)' \subseteq Visible(t)
    BY <1>0, <2>1, FS_Subset DEF RowsDiffer, IdsDiffer, Distinct, Visible
  <2>3. RowsDiffer'
    BY <1>0, <2>2, FS_Subset DEF RowsDiffer, IdsDiffer, Distinct
  <2>4. ASSUME tampers' <= 1, edited' PROVE EditShows'
    <3>0. tampers = 0
      BY <1>0, <2>1, <2>4
    <3>1. HasSuccessor(r)
      <4>1. ~edited
        BY <1>0, <3>0
      <4> QED
        BY <2>1, <2>4, <4>1, Zenon
    <3>2. IdsDiffer(log) /\ Chained(log) /\ Hashed(log) /\ \A x \in log : x.body = x.id
      BY <1>0, <3>0, BodiesAreIds DEF EditInv, RowsDiffer, ChainInv, AllChained, CheckInv, LogIsSound
    <3> QED
      BY <2>1, <3>1, <3>2, RemovalShows DEF EditShows
  <2>5. tampers' <= 1 => EditIsAhead'
    BY <1>0, <2>1 DEF EditIsAhead
  <2>6. tampers' <= 1 => EditShows'
    BY <2>4 DEF EditShows
  <2> QED
    BY <1>0, <2>1, <2>3, <2>5, <2>6 DEF EditInv
<1>7. ASSUME NEW r \in log, Forge(r) PROVE EditInv'
  <2>1. PICK hash \in {r.hash, EventHash(r.prev, Forged)} :
          /\ log' = (log \ {r}) \cup {[r EXCEPT !.body = Forged, !.hash = hash]}
          /\ edited' = (edited \/ hash = r.hash \/ HasSuccessor(r))
    BY <1>7 DEF Forge
  <2>2. tampers' = tampers + 1 /\ UNCHANGED <<own, checker>>
    BY <1>7 DEF Forge
  <2> DEFINE f == [r EXCEPT !.body = Forged, !.hash = hash]
  <2>3. f.id = r.id
    OBVIOUS
  <2>4. ASSUME tampers' <= 1, edited' PROVE EditShows'
    <3>0. tampers = 0
      BY <1>0, <2>2, <2>4
    <3>1. hash = r.hash \/ HasSuccessor(r)
      <4>1. ~edited
        BY <1>0, <3>0
      <4> QED
        BY <2>1, <2>4, <4>1, Zenon
    <3>2. IdsDiffer(log) /\ Chained(log) /\ Hashed(log) /\ \A x \in log : x.body = x.id
      BY <1>0, <3>0, BodiesAreIds DEF EditInv, RowsDiffer, ChainInv, AllChained, CheckInv, LogIsSound
    <3>3. f.prev = r.prev /\ f.body = Forged /\ f.hash = hash
      BY <3>0 DEF EditInv, BodiesFit, AsInserted, Event
    <3> HIDE DEF f
    <3> QED
      BY <2>1, <2>3, <3>1, <3>2, <3>3, ForgeryShows DEF EditShows, f
  <2> HIDE DEF f
  <2>5. log' = (log \ {r}) \cup {f}
    BY <2>1 DEF f
  <2>6. IdsDiffer(log')
    <3>1. IsFiniteSet(log')
      BY <1>0, <2>5, FS_RemoveElement, FS_AddElement DEF RowsDiffer, IdsDiffer
    <3> QED
      BY <1>0, <2>3, <2>5, <3>1 DEF RowsDiffer, IdsDiffer, Distinct
  <2>7. ASSUME NEW t \in Txs PROVE IdsDiffer(Visible(t)')
    <3>1. Visible(t)' = log' \cup own[t] /\ own[t] \subseteq Visible(t) /\ IdsDiffer(Visible(t))
      BY <1>0, <2>2 DEF Visible, RowsDiffer
    <3>2. IsFiniteSet(own[t]) /\ \A q \in own[t], x \in log : x.id < q.id
      BY <3>1, FS_Subset DEF IdsDiffer, ChainInv, OwnIsNewer
    <3>3. \A q \in own[t], x \in log' : x.id < q.id
      BY <2>3, <2>5, <3>2
    <3>4. IsFiniteSet(Visible(t)')
      BY <2>6, <3>1, <3>2, FS_Union DEF IdsDiffer
    <3> QED
      BY <2>6, <3>1, <3>3, <3>4 DEF IdsDiffer, Distinct
  <2>8. tampers' <= 1 => EditIsAhead'
    BY <1>0, <2>2 DEF EditIsAhead
  <2>9. tampers' <= 1 => EditShows'
    BY <2>4 DEF EditShows
  <2> QED
    BY <1>0, <2>2, <2>6, <2>7, <2>8, <2>9 DEF EditInv, RowsDiffer
<1> QED
  BY <1>1, <1>2, <1>3, <1>4, <1>5, <1>6, <1>7 DEF ProtocolNext, GoesOn

(* For any transactions, documents and size of the batches: the log only   *)
(* grows at its end, and verify_chain, started at any time beside them,    *)
(* neither calls a log broken that nobody touched nor passes one in which  *)
(* one row was changed or removed before it began.                         *)
THEOREM LogAlwaysStands == ProtocolSpec => LogStands
<1>1. ASSUME ProtocolInit PROVE EditInv
  <2>1. log = {} /\ \A t \in Txs : own[t] = {} /\ Visible(t) = {}
    BY <1>1 DEF ProtocolInit, Visible
  <2>2. edited = FALSE /\ checker.edited = FALSE
    BY <1>1 DEF ProtocolInit
  <2>3. RowsDiffer /\ BodiesFit
    BY <2>1, FS_EmptySet DEF RowsDiffer, BodiesFit, IdsDiffer, Distinct
  <2> QED
    BY <2>2, <2>3, Zenon DEF EditInv, EditShows, EditIsAhead
<1>2. ChainInv /\ ChainInv' /\ CheckInv /\ EditInv /\ [ProtocolNext]_protocolVars => EditInv'
  BY EditStep
<1>3. ChainInv /\ CheckInv /\ EditInv => VerdictIsRight
  BY DEF ChainInv, Counted, CheckInv, NotBroken, NoFalseAlarm, EditInv, EditIsAhead, VerdictIsRight
<1>4. [GrowsAtItsEnd]_protocolVars /\ VerdictIsRight' => [GrowsAtItsEnd /\ VerdictIsRight']_protocolVars
  OBVIOUS
<1> QED
  BY <1>1, <1>2, <1>3, <1>4, LogAlwaysGrows, CheckAlways, AlwaysChainInv, PTL
     DEF ProtocolSpec, LogOnlyGrows, LogStands
-----------------------------------------------------------------------------
(* A deletion that S3 has confirmed is still true when its transaction     *)
(* starts: a recording is put into the bucket once, under its own key.     *)
GoneIsGone == \A t \in Tasks : task[t].gone => task[t].file \notin object

AudioInv == TypeOK /\ GoneIsGone

(* Nothing is uploaded and nothing is going on at first.                   *)
LEMMA AudioInitInv == Init => AudioInv
<1> SUFFICES ASSUME Init PROVE AudioInv
  OBVIOUS
<1> USE DEF Init, Idle, Task, Purposes
<1>1. task \in [Tasks -> [purpose : Purposes, file : uploaded \cup {NoFile}, gone : BOOLEAN]]
  OBVIOUS
<1>2. TypeOK
  BY <1>1 DEF TypeOK
<1>3. GoneIsGone
  BY DEF GoneIsGone
<1>4. QED
  BY <1>2, <1>3 DEF AudioInv

(* Every step of every handler keeps the invariant.                        *)
LEMMA AudioStepInv == AudioInv /\ [Next]_vars => AudioInv'
<1> SUFFICES ASSUME AudioInv, [Next]_vars PROVE AudioInv'
  OBVIOUS
<1> USE IdentityAssumption DEF AudioInv, TypeOK, GoneIsGone, session, requests
<1>1. ASSUME NEW f \in Files, Browser(f) PROVE AudioInv'
  <2>1. CASE Upload(f)
    BY <2>1 DEF Upload
  <2>2. CASE BeginConfirm(f)
    BY <2>2 DEF BeginConfirm
  <2>3. CASE CommitConfirm(f)
    BY <2>3 DEF CommitConfirm
  <2>4. CASE BeginAttach(f)
    BY <2>4 DEF BeginAttach
  <2>5. CASE CommitAttach(f)
    BY <2>5 DEF CommitAttach
  <2>6. QED
    BY <1>1, <2>1, <2>2, <2>3, <2>4, <2>5 DEF Browser
<1>2. ASSUME NEW f \in Files, Expire(f) PROVE AudioInv'
  BY <1>2 DEF Expire
<1>3. ASSUME ExpireSession PROVE AudioInv'
  BY <1>3 DEF ExpireSession
<1>4. ASSUME NEW t \in Tasks, NEW p \in Purposes, NEW f \in uploaded \cup {NoFile}, Begins(t, p, f)
      PROVE AudioInv'
  BY <1>4 DEF Begins, Task
<1>5. ASSUME NEW t \in Tasks, Deletion(t) PROVE AudioInv'
  <2> USE DEF Task, Idle, Purposes
  <2>1. CASE DeleteObject(t)
    BY <2>1 DEF DeleteObject
  <2>2. CASE DeleteRow(t)
    BY <2>2 DEF DeleteRow, MayDeleteRow, LinkWithout
  <2>3. CASE ObjectStays(t)
    BY <2>3 DEF ObjectStays
  <2>4. CASE DeleteSession(t)
    BY <2>4 DEF DeleteSession
  <2>5. CASE Crash(t)
    BY <2>5 DEF Crash
  <2>6. QED
    BY <1>5, <2>1, <2>2, <2>3, <2>4, <2>5 DEF Deletion
<1>6. CASE UNCHANGED vars
  BY <1>6 DEF vars
<1>7. QED
  BY <1>1, <1>2, <1>3, <1>4, <1>5, <1>6
     DEF Next, BeginDeleteFile, BeginDeleteSession, BeginPurge, BeginPurgeOrphan, Orphan, Tasks,
         Purposes

(* The invariant holds in every state.                                     *)
LEMMA AlwaysAudioInv == Spec => []AudioInv
BY AudioInitInv, AudioStepInv, PTL DEF Spec

(* TypeOK: in particular the session never points to a missing row.        *)
THEOREM AudioTypeCorrect == Spec => []TypeOK
<1>1. AudioInv => TypeOK
  BY DEF AudioInv
<1>2. QED
  BY <1>1, AlwaysAudioInv, PTL

(* Only a deletion confirmed by S3 removes a row.                          *)
LEMMA RowStep ==
  AudioInv /\ [Next]_vars => [\A f \in row \ row' : f \notin object']_vars
<1> SUFFICES ASSUME AudioInv, Next, NEW f \in row \ row' PROVE f \notin object'
  BY DEF vars, session, requests
<1>1. PICK t \in Tasks : DeleteRow(t)
  BY DEF Next, Browser, Upload, BeginConfirm, CommitConfirm, BeginAttach, CommitAttach, Expire,
         ExpireSession, BeginDeleteFile, BeginDeleteSession, BeginPurge, BeginPurgeOrphan, Begins,
         Deletion, DeleteObject, ObjectStays, DeleteSession, Crash
<1>2. task[t].gone /\ task[t].file = f
  BY <1>1 DEF DeleteRow, MayDeleteRow
<1>3. QED
  BY <1>1, <1>2 DEF DeleteRow, AudioInv, GoneIsGone

(* RowOutlivesObject: a row goes only after the object it leads to,        *)
(* however deletions overlap, fail and are repeated.                       *)
THEOREM RowKept == Spec => RowOutlivesObject
BY AlwaysAudioInv, RowStep, AudioStepInv, PTL DEF Spec, RowOutlivesObject
-----------------------------------------------------------------------------
(* ScreeningBridge                                                         *)
StepsAreKnown == step = [c \in Conns |-> step[c]]
BridgeTypes ==
  /\ holds \in [Conns -> Bridges \cup {NoBridge}] /\ hearer \in [Bridges -> Conns \cup {NoConn}]
  /\ parkedAt \in Bridges \cup {NoBridge}
  /\ stt \in [Bridges -> {"new", "up", "lost", "closed"}]
(* Who waits for a bridge has none.                                        *)
FreeHoldNone ==
  \A c \in Conns : holds[c] # NoBridge => step[c] \in {"serving", "left", "releasing"}

BridgeInv == BridgeTypes /\ FreeHoldNone /\ BridgesAreKept /\ StepsAreKnown

LEMMA NumbersAside == NoBridge \notin Bridges /\ NoConn \notin Conns
BY BridgeAssumption DEF NoBridge, NoConn, Bridges, Conns

LEMMA BridgeInitInv == BridgeInit => BridgeInv
BY NumbersAside DEF BridgeInit, BridgeInv, BridgeTypes, FreeHoldNone, StepsAreKnown, BridgesAreKept

(* A new bridge for who has none or a dead one.                            *)
LEMMA NewBridgeInv ==
  ASSUME BridgeInv, NEW c \in Conns, NEW b \in Bridges, NewBridge(c, b), 
         StepsAreKnown', step'[c] = "serving", 
         \A d \in Conns \ {c} : step'[d] = step[d]
  PROVE  BridgeInv'
<1>1. /\ stt' = [x \in Bridges |-> IF x = b THEN "up" ELSE IF x = holds[c] THEN "closed" ELSE stt[x]]
      /\ hearer' = [hearer EXCEPT ![b] = c] /\ holds' = [holds EXCEPT ![c] = b]
      /\ UNCHANGED <<parkedAt, timers>> /\ stt[b] = "new"
  BY DEF NewBridge
<1>2. \A d \in Conns : holds[d] # b
  BY NumbersAside DEF BridgeInv, BridgesAreKept, NewBridge
<1>3. parkedAt # b
  BY NumbersAside DEF BridgeInv, BridgesAreKept, NewBridge
<1>4. BridgeTypes'
  BY <1>1 DEF BridgeInv, BridgeTypes
<1>6. FreeHoldNone'
  BY <1>1 DEF BridgeInv, BridgeTypes, FreeHoldNone
<1>7. BridgesAreKept'
  BY <1>1, <1>2, <1>3 DEF BridgeInv, BridgeTypes, BridgesAreKept
<1> QED
  BY <1>4, <1>6, <1>7 DEF BridgeInv

LEMMA TakeLingeringInv == ASSUME BridgeInv, NEW c \in Conns, TakeLingering(c) PROVE BridgeInv'
<1>1. holds[c] = NoBridge
  BY DEF TakeLingering, At, BridgeInv, FreeHoldNone
<1>2. CASE parkedAt = NoBridge
  BY <1>2, <1>1 DEF TakeLingering, bridgeVars, Goes, At, BridgeInv, BridgeTypes, FreeHoldNone, StepsAreKnown,
                    BridgesAreKept
<1>3. CASE parkedAt # NoBridge /\ parkedAt \in Connected
  <2>1. /\ parkedAt' = NoBridge /\ timers' = {} /\ step' = [step EXCEPT ![c] = "serving"]
        /\ holds' = [holds EXCEPT ![c] = parkedAt] /\ hearer' = [hearer EXCEPT ![parkedAt] = c]
        /\ UNCHANGED stt /\ parkedAt \in Bridges
    BY <1>3 DEF TakeLingering, Goes, TimersWithout, BridgeInv, BridgesAreKept, BridgeTypes
  <2>2. BridgeTypes' /\ FreeHoldNone' /\ StepsAreKnown'
    BY <2>1, <1>3 DEF BridgeInv, BridgeTypes, FreeHoldNone, StepsAreKnown
  <2>3. BridgesAreKept'
    BY <2>1, <1>3, NumbersAside DEF BridgeInv, BridgeTypes, BridgesAreKept
  <2> QED
    BY <2>2, <2>3 DEF BridgeInv
<1>4. CASE parkedAt # NoBridge /\ parkedAt \notin Connected
  <2>1. /\ parkedAt' = NoBridge /\ timers' = {} /\ step' = [step EXCEPT ![c] = "connecting"]
        /\ stt' = [stt EXCEPT ![parkedAt] = "closed"] /\ UNCHANGED <<holds, hearer>>
    BY <1>4 DEF TakeLingering, Goes, TimersWithout, BridgeInv, BridgesAreKept, BridgeTypes
  <2>2. BridgeTypes' /\ FreeHoldNone' /\ StepsAreKnown'
    BY <2>1, <1>1, <1>4 DEF BridgeInv, BridgeTypes, FreeHoldNone, StepsAreKnown
  <2>3. BridgesAreKept'
    BY <2>1, <1>4 DEF BridgeInv, BridgeTypes, BridgesAreKept
  <2> QED
    BY <2>2, <2>3 DEF BridgeInv
<1> QED
  BY <1>2, <1>3, <1>4

(* The bridge is parked, over one that is parked already, or closed.       *)
LEMMA ReleaseInv == ASSUME BridgeInv, NEW c \in Conns, Release(c) PROVE BridgeInv'
<1> DEFINE b == holds[c]
<1>1. /\ step' = [step EXCEPT ![c] = "gone"] /\ holds' = [holds EXCEPT ![c] = NoBridge] /\ UNCHANGED hearer
      /\ (b \in Connected /\ Park(b)) \/ Drop(b)
  BY DEF Release, Goes
<1>2. \A d \in Conns \ {c} : holds[d] = holds[c] => holds[d] = NoBridge
  BY DEF BridgeInv, BridgesAreKept
<1>3. CASE Drop(b)
  BY <1>1, <1>2, <1>3, NumbersAside DEF Drop, BridgeInv, BridgeTypes, FreeHoldNone, StepsAreKnown, BridgesAreKept
<1>4. CASE b \in Connected /\ Park(b)
  <2>1. /\ parkedAt' = b /\ b \in Bridges /\ stt[b] = "up" /\ b # NoBridge
        /\ stt' = [x \in Bridges |-> IF x \in {parkedAt} \ {b, NoBridge} THEN "closed" ELSE stt[x]]
    BY <1>4, NumbersAside DEF Park, StaleFor, Connected
  <2>2. timers' = {b}
    BY <1>4, <2>1 DEF Park, StaleFor, BridgeInv, BridgesAreKept
  <2>3. BridgeTypes' /\ FreeHoldNone' /\ StepsAreKnown'
    BY <1>1, <2>1 DEF BridgeInv, BridgeTypes, FreeHoldNone, StepsAreKnown
  <2>4. BridgesAreKept'
    BY <1>1, <1>2, <2>1, <2>2 DEF BridgeInv, BridgeTypes, BridgesAreKept
  <2> QED
    BY <2>3, <2>4 DEF BridgeInv
<1> QED
  BY <1>1, <1>3, <1>4

LEMMA StopMessageInv == ASSUME BridgeInv, NEW c \in Conns, StopMessage(c) PROVE BridgeInv'
<1>1. /\ step' = [step EXCEPT ![c] = "left"] /\ holds' = [holds EXCEPT ![c] = NoBridge]
      /\ UNCHANGED <<parkedAt, timers, hearer>>
      /\ stt' = [x \in Bridges |-> IF x = holds[c] THEN "closed" ELSE stt[x]]
  BY DEF StopMessage, Goes
<1> QED
  BY <1>1, NumbersAside DEF BridgeInv, BridgeTypes, FreeHoldNone, StepsAreKnown, BridgesAreKept

LEMMA LingerInv == ASSUME BridgeInv, NEW b \in Bridges, Linger(b) PROVE BridgeInv'
<1>1. b = parkedAt
  BY DEF Linger, BridgeInv, BridgesAreKept
<1>2. /\ parkedAt' = NoBridge /\ timers' = {} /\ stt' = [stt EXCEPT ![b] = "closed"]
      /\ UNCHANGED <<step, holds, hearer>>
  BY <1>1 DEF Linger, BridgeInv, BridgesAreKept
<1> QED
  BY <1>1, <1>2 DEF BridgeInv, BridgeTypes, FreeHoldNone, StepsAreKnown, BridgesAreKept

(* StepsAreKnown of the coroutine that leave every bridge alone.                   *)
LEMMA MovesOnInv ==
  ASSUME BridgeInv, NEW c \in Conns, NEW s, Goes(c, s), UNCHANGED bridgeVars,
         holds[c] # NoBridge => s \in {"serving", "left", "releasing"}
  PROVE  BridgeInv'
BY DEF Goes, bridgeVars, BridgeInv, BridgeTypes, FreeHoldNone, StepsAreKnown, BridgesAreKept

LEMMA BridgeStepInv == BridgeInv /\ [BridgeNext]_handoverVars => BridgeInv'
<1> SUFFICES ASSUME BridgeInv, [BridgeNext]_handoverVars PROVE BridgeInv'
  OBVIOUS
<1>1. CASE UNCHANGED <<step, bridgeVars>>
  BY <1>1 DEF bridgeVars, BridgeInv, BridgeTypes, FreeHoldNone, StepsAreKnown, BridgesAreKept
<1>2. ASSUME NEW c \in Conns, Displace(c) \/ Register(c) \/ SendHello(c) \/ HelloFails(c)
      PROVE  BridgeInv'
  <2>1. holds[c] = NoBridge /\ UNCHANGED bridgeVars
    BY <1>2 DEF Displace, Register, SendHello, HelloFails, At, BridgeInv, FreeHoldNone
  <2>2. \E s : Goes(c, s)
    BY <1>2 DEF Displace, Register, SendHello, HelloFails
  <2> QED
    BY <2>1, <2>2, MovesOnInv
<1>3. ASSUME NEW c \in Conns, Disconnect(c) \/ TimeOut(c) \/ Unregister(c)
      PROVE  BridgeInv'
  <2>1. UNCHANGED bridgeVars /\ (Goes(c, "left") \/ Goes(c, "releasing"))
    BY <1>3 DEF Disconnect, TimeOut, Unregister
  <2> QED
    BY <2>1, MovesOnInv
<1>4. ASSUME NEW c \in Conns, Connect(c) PROVE BridgeInv'
  <2>1. step' = [step EXCEPT ![c] = "serving"]
    BY <1>4 DEF Connect, Goes
  <2>2. StepsAreKnown' /\ step'[c] = "serving" /\ \A d \in Conns \ {c} : step'[d] = step[d]
    BY <2>1 DEF BridgeInv, StepsAreKnown
  <2>3. CASE UNCHANGED bridgeVars
    BY <1>4, <2>3, MovesOnInv DEF Connect
  <2>4. CASE \E b \in Bridges : NewBridge(c, b)
    BY <2>2, <2>4, NewBridgeInv
  <2> QED
    BY <1>4, <2>3, <2>4 DEF Connect
<1>5. ASSUME NEW c \in Conns, Supervise(c) PROVE BridgeInv'
  <2>1. step' = step /\ step[c] = "serving" /\ \E b \in Bridges : NewBridge(c, b)
    BY <1>5 DEF Supervise, At
  <2> QED
    BY <2>1, NewBridgeInv DEF BridgeInv, StepsAreKnown
<1>6. ASSUME NEW b \in Bridges, SttLost(b) PROVE BridgeInv'
  BY <1>6 DEF SttLost, BridgeInv, BridgeTypes, FreeHoldNone, StepsAreKnown, BridgesAreKept
<1>7. CASE MeetingOver
  BY <1>1, <1>7 DEF MeetingOver
<1> QED
  BY <1>1, <1>2, <1>3, <1>4, <1>5, <1>6, <1>7, TakeLingeringInv, ReleaseInv, StopMessageInv, LingerInv
     DEF BridgeNext, Proceeds, handoverVars

(* For any number of connections and bridges: a bridge is held by one, or  *)
(* parked with its own timer.                                              *)
THEOREM BridgesAlwaysKept == BridgeSpec => []BridgesAreKept
<1>1. BridgeInv => BridgesAreKept
  BY DEF BridgeInv
<1> QED
  BY <1>1, BridgeInitInv, BridgeStepInv, PTL DEF BridgeSpec

(* Where a coroutine waits, and which connection is registered.            *)
Placed == step \in [Conns -> Waits] /\ active \in Conns \cup {NoConn}

LEMMA PlacedStep == Placed /\ [BridgeNext]_handoverVars => Placed'
<1> SUFFICES ASSUME Placed, [BridgeNext]_handoverVars PROVE Placed'
  OBVIOUS
<1> USE DEF Placed, Waits, Goes, placeVars
<1>1. CASE UNCHANGED <<step, active>>
  BY <1>1
<1>2. ASSUME NEW c \in Conns, Displace(c) \/ Register(c) \/ SendHello(c) \/ HelloFails(c) PROVE Placed'
  BY <1>2 DEF Displace, Register, SendHello, HelloFails
<1>3. ASSUME NEW c \in Conns, TakeLingering(c) \/ Connect(c) \/ Supervise(c) PROVE Placed'
  BY <1>3 DEF TakeLingering, Connect, Supervise
<1>4. ASSUME NEW c \in Conns, Disconnect(c) \/ StopMessage(c) \/ TimeOut(c) PROVE Placed'
  BY <1>4 DEF Disconnect, StopMessage, TimeOut
<1>5. ASSUME NEW c \in Conns, Unregister(c) \/ Release(c) PROVE Placed'
  BY <1>5 DEF Unregister, Release
<1> QED
  BY <1>1, <1>2, <1>3, <1>4, <1>5 DEF BridgeNext, Proceeds, SttLost, Linger, MeetingOver, handoverVars

(* The places of connections and bridges keep their types.                 *)
THEOREM BridgesTyped == BridgeSpec => []BridgeTypeOK
<1>1. BridgeInit => Placed
  BY DEF BridgeInit, Placed, Waits
<1>2. BridgeInv /\ Placed => BridgeTypeOK
  BY DEF BridgeInv, BridgeTypes, Placed, BridgeTypeOK
<1> QED
  BY <1>1, <1>2, PlacedStep, BridgeInitInv, BridgeStepInv, PTL DEF BridgeSpec
=============================================================================
