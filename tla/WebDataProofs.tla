---------------------------- MODULE WebDataProofs ----------------------------
(***************************************************************************)
(* Proofs about the pages on which records are shown and changed, for      *)
(* every value of the constants: the form of a record, the boards' drag    *)
(* and drop, the page of a record, the calendar, the comments and the      *)
(* notifications, and the composition MCWebData model-checks.              *)
(***************************************************************************)
EXTENDS MCWebData, FiniteSetTheorems, SequenceTheorems, TLAPS

(* Every non-empty set of numbers has a least one: the induction used here *)
(* is the search of a least counterexample.                                *)
LEMMA LeastNat ==
  ASSUME NEW A \in SUBSET Nat, A # {}
  PROVE  \E n \in A : \A m \in A : n <= m
<1>1. IsWellFoundedOn(OpToRel(<, Nat), Nat)
  BY NatLessThanWellFounded
<1>2. PICK n \in A : \A m \in A : <<m, n>> \notin OpToRel(<, Nat)
  BY <1>1, WFMin
<1>3. \A m \in A : ~(m < n)
  BY <1>2 DEF OpToRel
<1>4. QED
  BY <1>3
-----------------------------------------------------------------------------
(* The form of a record.                                                   *)
Deals == {"outstaff", "agency"}
Filled == Values \cup {Blank, Incomplete}
SentForms == [state : {"sent", "saved"}, payload : Values \cup {Blank, Absent}, deal : Deals,
              form : Filled, base : Filled \cup {Nothing}, touched : BOOLEAN]

RecordTyped ==
  /\ entity \in Entities /\ field \in Fields[entity]
  /\ saved \in Values \cup {Blank, Nothing} /\ deal \in Deals
  /\ seen \in [value : Values \cup {Blank, Nothing}, deal : Deals]
  /\ form \in Filled \cup {Nothing} /\ formDeal \in Deals
  /\ base \in Filled \cup {Nothing} /\ touched \in BOOLEAN
  /\ importing \in BOOLEAN
  /\ importing => form # Nothing
  /\ sent # Nothing => sent \in SentForms

(* What the deal of a record does not have is empty.                       *)
SavedFits == saved # Nothing => ByDeal(saved, deal) = saved
SeenFits == seen.value # Nothing => ByDeal(seen.value, seen.deal) = seen.value

(* A form nobody has typed in shows what it was opened with, and its deal  *)
(* has that.                                                               *)
FormFits == form # Nothing /\ ~touched => form = base /\ ByDeal(form, formDeal) = form

(* The payload is what the form held, and leaves out only what is empty.   *)
SentFits ==
  sent # Nothing =>
    /\ sent.payload = Absent => field \in Omitted /\ sent.form = Blank
    /\ sent.payload # Absent => sent.payload = ByDeal(sent.form, sent.deal)
    /\ ~sent.touched => sent.form = sent.base /\ ByDeal(sent.form, sent.deal) = sent.form

RecordInv == RecordTyped /\ SavedFits /\ SeenFits /\ FormFits /\ SentFits

LEMMA ByDealFilled ==
  ASSUME NEW v, NEW kind PROVE ByDeal(v, kind) \in {v, Blank}
BY DEF ByDeal

(* What a handler leaves out does not depend on the deal.                  *)
LEMMA OmittedFits ==
  ASSUME NEW v, NEW kind, field \in Omitted PROVE ByDeal(v, kind) = v
BY DEF ByDeal, Omitted, CandidatePayload, VacancyPayload, ContactPayload

LEMMA ByDealTwice ==
  ASSUME NEW v, NEW kind PROVE ByDeal(ByDeal(v, kind), kind) = ByDeal(v, kind)
BY DEF ByDeal

LEMMA DefaultFits ==
  ASSUME entity \in Entities, field \in Fields[entity]
  PROVE  /\ Default \in Filled
         /\ ByDeal(Default, "outstaff") = Default
<1>1. Default \in Filled
  BY RecordAssumption DEF Default, Filled
<1>2. CASE entity = "vacancy" /\ field = "salaryMax"
  <2>1. Default = Blank
    BY <1>2 DEF Default, VacancyDefaults
  <2>2. QED
    BY <2>1, <1>1 DEF ByDeal
<1>3. CASE ~(entity = "vacancy" /\ field = "salaryMax")
  <2>1. entity # "vacancy" \/ <<field, "outstaff">> \notin {<<"rateClient", "agency">>, <<"salaryMax", "outstaff">>}
    BY <1>3
  <2>2. QED
    BY <2>1, <1>1 DEF ByDeal
<1>4. QED
  BY <1>1, <1>2, <1>3

LEMMA RecordStarts == ASSUME RecordInit PROVE RecordInv
<1>1. RecordTyped
  BY RecordAssumption DEF RecordInit, RecordTyped, Filled, Deals
<1>2. QED
  BY <1>1 DEF RecordInit, RecordInv, SavedFits, SeenFits, FormFits, SentFits

LEMMA RecordSteps == ASSUME RecordInv, [RecordNext]_recordVars PROVE RecordInv'
<1> USE DEF RecordInv
<1>0. CASE UNCHANGED recordVars
  BY <1>0 DEF recordVars, record, sheet, RecordTyped, SavedFits, SeenFits, FormFits, SentFits,
     ByDeal, Omitted
<1>1. CASE OpenEdit
  <2>1. RecordTyped'
    BY <1>1 DEF OpenEdit, Open, ToFormValues, RecordTyped, Filled, record
  <2>2. FormFits'
    BY <1>1 DEF OpenEdit, Open, ToFormValues, SeenFits, FormFits, ByDeal
  <2>3. QED
    BY <1>1, <2>1, <2>2 DEF OpenEdit, Open, record, SavedFits, SeenFits, SentFits, ByDeal, Omitted
<1>2. CASE OpenCreate
  <2>1. RecordTyped'
    BY <1>2, DefaultFits DEF OpenCreate, Open, RecordTyped, Deals, record
  <2>2. FormFits'
    <3>1. form' = Default /\ formDeal' = "outstaff" /\ base' = Default
      BY <1>2 DEF OpenCreate, Open
    <3>2. ByDeal(Default, "outstaff") = Default
      BY DefaultFits DEF RecordTyped
    <3>3. UNCHANGED <<entity, field>>
      BY <1>2 DEF OpenCreate, Open
    <3> HIDE DEF Default
    <3>4. QED
      BY <3>1, <3>2, <3>3 DEF FormFits, ByDeal
  <2>3. QED
    BY <1>2, <2>1, <2>2 DEF OpenCreate, Open, record, SavedFits, SeenFits, SentFits, ByDeal, Omitted
<1>3. CASE CloseSheet
  BY <1>3 DEF CloseSheet, record, RecordTyped, SavedFits, SeenFits, FormFits, SentFits, ByDeal, Omitted
<1>4. ASSUME NEW v \in Filled, Type(v) PROVE RecordInv'
  <2>1. RecordTyped'
    BY <1>4, RecordAssumption DEF Type, record, RecordTyped, Filled
  <2>2. QED
    BY <1>4, <2>1 DEF Type, record, SavedFits, SeenFits, FormFits, SentFits, ByDeal, Omitted
<1>5. CASE SwitchDeal
  <2>1. RecordTyped'
    BY <1>5 DEF SwitchDeal, record, RecordTyped, Deals
  <2>2. QED
    BY <1>5, <2>1 DEF SwitchDeal, record, SavedFits, SeenFits, FormFits, SentFits, ByDeal, Omitted
<1>6. CASE AutoRecruiter
  <2>1. RecordTyped'
    BY <1>6, RecordAssumption DEF AutoRecruiter, record, RecordTyped, Filled
  <2>2. QED
    BY <1>6, <2>1 DEF AutoRecruiter, record, SavedFits, SeenFits, FormFits, SentFits, ByDeal, Omitted
<1>7. ASSUME NEW v \in Values, AutoManager(v) PROVE RecordInv'
  <2>1. RecordTyped'
    BY <1>7, RecordAssumption DEF AutoManager, record, RecordTyped, Filled
  <2>2. QED
    BY <1>7, <2>1 DEF AutoManager, record, SavedFits, SeenFits, FormFits, SentFits, ByDeal, Omitted
<1>8. CASE StartImport
  BY <1>8 DEF StartImport, record, sheet, RecordTyped, SavedFits, SeenFits, FormFits, SentFits, ByDeal, Omitted
<1>9. ASSUME NEW v \in Filled, Recognised(v) PROVE RecordInv'
  <2>0. form' \in {form, v} /\ form # Nothing
    BY <1>9 DEF Recognised, Merge, RecordTyped
  <2>1. RecordTyped'
    BY <1>9, <2>0, RecordAssumption DEF Recognised, record, RecordTyped, Filled
  <2>2. FormFits'
    BY <1>9 DEF Recognised, FormFits, RecordTyped, ByDeal
  <2>3. QED
    BY <1>9, <2>1, <2>2 DEF Recognised, record, SavedFits, SeenFits, SentFits, ByDeal, Omitted
<1>10. CASE Submit
  <2>1. form \in Values \cup {Blank}
    BY <1>10 DEF Submit, Complete, RecordTyped, Filled
  <2>2. Payload \in Values \cup {Blank, Absent}
    BY <2>1 DEF Payload, ByDeal
  <2>3. sent' \in SentForms
    <3> HIDE DEF Payload
    <3>1. QED
      BY <1>10, <2>1, <2>2 DEF Submit, SentForms, Filled, RecordTyped
  <2>4. RecordTyped'
    BY <1>10, <2>3 DEF Submit, record, sheet, RecordTyped
  <2>5. SentFits'
    <3>1. UNCHANGED <<entity, field>>
      BY <1>10 DEF Submit
    <3>2. Payload = Absent => field \in Omitted /\ form = Blank
      BY <2>1, RecordAssumption DEF Payload, ByDeal
    <3>3. Payload # Absent => Payload = ByDeal(form, formDeal)
      BY DEF Payload
    <3>4. ~touched => form = base /\ ByDeal(form, formDeal) = form
      BY <1>10 DEF Submit, FormFits
    <3>5. Omitted' = Omitted
      BY <3>1 DEF Omitted
    <3>6. ByDeal(sent.form, sent.deal)' = ByDeal(form, formDeal)
      BY <1>10, <3>1 DEF Submit, ByDeal
    <3>7. /\ sent'.payload = Payload /\ sent'.form = form
          /\ sent'.base = base /\ sent'.touched = touched
      BY <1>10 DEF Submit
    <3> HIDE DEF Payload, Omitted
    <3>8. QED
      BY <3>1, <3>2, <3>3, <3>4, <3>5, <3>6, <3>7 DEF SentFits
  <2>6. QED
    BY <1>10, <2>4, <2>5 DEF Submit, record, sheet, SavedFits, SeenFits, FormFits, ByDeal
<1>11. CASE ServerSaves
  <2>1. /\ sent \in SentForms /\ sent # Nothing
        /\ sent' = [sent EXCEPT !.state = "saved"]
        /\ UNCHANGED <<entity, field, seen, sheet, importing>>
        /\ saved' = Stored(sent.payload) /\ deal' = sent.deal
    BY <1>11 DEF ServerSaves, RecordTyped
  <2>2. sent' \in SentForms
    BY <2>1 DEF SentForms
  <2>3. saved' \in Values \cup {Blank, Nothing}
    BY <2>1 DEF Stored, SentForms, RecordTyped
  <2>4. RecordTyped'
    BY <2>1, <2>2, <2>3 DEF RecordTyped, SentForms, sheet
  <2>5. SavedFits'
    <3>1. CASE sent.payload # Absent
      <4>1. saved' = ByDeal(sent.form, sent.deal)
        BY <2>1, <3>1 DEF Stored, SentFits
      <4>2. ByDeal(saved', deal') = saved'
        BY <4>1, <2>1, ByDealTwice
      <4>3. QED
        BY <4>2, <2>1 DEF SavedFits, ByDeal
    <3>2. CASE sent.payload = Absent
      <4>1. field \in Omitted
        BY <3>2, <2>1 DEF SentFits
      <4>2. ByDeal(saved', deal') = saved'
        BY <4>1, OmittedFits
      <4>3. QED
        BY <4>2, <2>1 DEF SavedFits, ByDeal
    <3>3. QED
      BY <3>1, <3>2
  <2>6. SentFits'
    BY <2>1 DEF SentFits, SentForms, Omitted, ByDeal
  <2>7. QED
    BY <2>1, <2>4, <2>5, <2>6 DEF SeenFits, FormFits, ByDeal, sheet
<1>12. CASE Saved
  <2>1. RecordTyped'
    BY <1>12 DEF Saved, record, RecordTyped
  <2>2. QED
    BY <1>12, <2>1 DEF Saved, record, SavedFits, SeenFits, FormFits, SentFits, ByDeal
<1>13. CASE NotSaved
  <2>1. RecordTyped'
    BY <1>13 DEF NotSaved, record, sheet, RecordTyped
  <2>2. QED
    BY <1>13, <2>1 DEF NotSaved, record, sheet, SavedFits, SeenFits, FormFits, SentFits, ByDeal
<1>14. ASSUME NEW v \in Values \cup {Blank}, OthersSave(v) PROVE RecordInv'
  <2>1. RecordTyped'
    BY <1>14 DEF OthersSave, sheet, RecordTyped
  <2>2. QED
    BY <1>14, <2>1 DEF OthersSave, sheet, SavedFits, SeenFits, FormFits, SentFits, ByDeal, Omitted
<1>15. CASE RefetchRecord
  <2>1. RecordTyped'
    BY <1>15 DEF RefetchRecord, record, sheet, RecordTyped
  <2>2. QED
    BY <1>15, <2>1 DEF RefetchRecord, record, sheet, SavedFits, SeenFits, FormFits, SentFits, ByDeal, Omitted
<1>16. QED
  BY <1>0, <1>1, <1>2, <1>3, <1>4, <1>5, <1>6, <1>7, <1>8, <1>9, <1>10, <1>11, <1>12, <1>13,
     <1>14, <1>15 DEF RecordNext, Filled

LEMMA RecordTypes == ASSUME RecordInv PROVE RecordTypeOK
BY DEF RecordInv, RecordTyped, RecordTypeOK, Filled, Deals, SentForms

(* The steps of UntouchedSurvives and ImportKeepsTyped.                    *)
LEMMA UntouchedKept ==
  ASSUME RecordInv, [RecordNext]_recordVars,
         sent # Nothing, sent' # Nothing, sent.state = "sent", sent'.state = "saved",
         ~sent.touched, saved = sent.base
  PROVE  saved' = saved
<1>1. sent' # sent
  OBVIOUS
<1>2. ServerSaves
  BY <1>1 DEF RecordNext, recordVars, OpenEdit, OpenCreate, Open, CloseSheet, Type, SwitchDeal,
     AutoRecruiter, AutoManager, StartImport, Recognised, Submit, Saved, NotSaved, OthersSave,
     RefetchRecord
<1>3. saved' = Stored(sent.payload)
  BY <1>2 DEF ServerSaves
<1>4. /\ sent.form = sent.base /\ ByDeal(sent.form, sent.deal) = sent.form
      /\ sent.payload = Absent => sent.form = Blank
      /\ sent.payload # Absent => sent.payload = ByDeal(sent.form, sent.deal)
  BY DEF RecordInv, SentFits
<1>5. QED
  BY <1>3, <1>4 DEF Stored

LEMMA TypedKept ==
  ASSUME RecordInv, [RecordNext]_recordVars,
         importing, ~importing', entity = "candidate", form \notin {Blank, Nothing},
         form' # Nothing
  PROVE  form' = form
<1>1. \E v \in Values \cup {Blank, Incomplete} : Recognised(v)
  BY DEF RecordNext, recordVars, OpenEdit, OpenCreate, Open, CloseSheet, Type, SwitchDeal,
     AutoRecruiter, AutoManager, StartImport, Submit, ServerSaves, Saved, NotSaved, OthersSave,
     RefetchRecord
<1>2. QED
  BY <1>1 DEF Recognised, Merge
-----------------------------------------------------------------------------
(* The drag and drop of the boards: what a drop gives is a board again, with*)
(* the card where it was dropped and every other card in its order.        *)
(* The orders of a column of a full board tell its cards apart, and its    *)
(* items are its cards by their orders.                                    *)
LayoutTyped(l) == l \in [BoardCards -> [column : BoardColumns, order : Nat]]

LEMMA ColumnsAreFinite ==
  ASSUME NEW l, NEW col
  PROVE  /\ IsFiniteSet(InColumn(l, col)) /\ Cardinality(InColumn(l, col)) \in Nat
         /\ Cardinality(InColumn(l, col)) <= Cardinality(BoardCards)
         /\ Cardinality(BoardCards) \in Nat
<1>1. InColumn(l, col) \in SUBSET BoardCards
  BY DEF InColumn
<1>2. QED
  BY <1>1, FS_Subset, FS_CardinalityType, DragAssumption

LEMMA OrdersDiffer ==
  ASSUME NEW l \in BoardStates, NEW col \in BoardColumns,
         NEW a \in InColumn(l, col), NEW b \in InColumn(l, col), l[a].order = l[b].order
  PROVE  a = b
<1> DEFINE S == InColumn(l, col)
           n == Cardinality(S)
           T == 0 .. (n - 1)
           f == [c \in S |-> l[c].order]
<1>1. IsFiniteSet(S) /\ n \in Nat
  BY ColumnsAreFinite
<1>2. {l[c].order : c \in S} = T
  BY DEF BoardStates, Compact
<1>3. f \in Surjection(S, T)
  BY <1>2 DEF Surjection
<1>4. Cardinality(T) = n
  BY <1>1, FS_Interval
<1>5. f \in Injection(S, T)
  BY <1>1, <1>3, <1>4, FS_Surjection
<1>6. QED
  BY <1>5 DEF Injection, IsInjective

LEMMA OrderFound ==
  ASSUME NEW l \in BoardStates, NEW col \in BoardColumns,
         NEW i \in 0 .. (Cardinality(InColumn(l, col)) - 1)
  PROVE  \E c \in InColumn(l, col) : l[c].order = i
BY DEF BoardStates, Compact

LEMMA OrderBound ==
  ASSUME NEW l \in BoardStates, NEW col \in BoardColumns, NEW c \in InColumn(l, col)
  PROVE  l[c].order \in 0 .. (Cardinality(InColumn(l, col)) - 1)
BY DEF BoardStates, Compact

LEMMA LayoutsAreTyped ==
  ASSUME NEW l \in BoardStates
  PROVE  LayoutTyped(l)
BY DEF BoardStates, LayoutTyped

LEMMA ColumnInOrder ==
  ASSUME NEW l \in BoardStates, NEW col \in BoardColumns
  PROVE  LET s == ColumnItems(l, col)
             n == Cardinality(InColumn(l, col))
         IN  /\ n \in Nat /\ s \in [1 .. n -> InColumn(l, col)]
             /\ \A i \in 1 .. n : l[s[i]].order = i - 1
             /\ \A c \in InColumn(l, col) : l[c].order + 1 \in 1 .. n /\ s[l[c].order + 1] = c
<1> DEFINE S == InColumn(l, col)
           n == Cardinality(S)
           D == 1 .. n
           p == [i \in D |-> CHOOSE c \in S : l[c].order = i - 1]
           Sorts(s) == \A i, j \in DOMAIN s : i < j => Above(l, s[i], s[j])
           q == ColumnItems(l, col)
<1>1. n \in Nat /\ IsFiniteSet(S)
  BY ColumnsAreFinite
<1>2. \A i \in D : p[i] \in S /\ l[p[i]].order = i - 1
  <2>1. ASSUME NEW i \in D PROVE \E c \in S : l[c].order = i - 1
    BY OrderFound, <1>1
  <2>2. QED
    BY <2>1
<1>3. p \in [D -> S]
  BY <1>2
<1>4. \A c \in S : l[c].order \in 0 .. (n - 1)
  BY OrderBound
<1>5. \A a, b \in S : l[a].order = l[b].order => a = b
  BY OrdersDiffer
<1>6. \A c \in S : l[c].order + 1 \in D /\ p[l[c].order + 1] = c
  <2> TAKE c \in S
  <2> HIDE DEF p, S
  <2>1. l[c].order + 1 \in D
    BY <1>1, <1>4
  <2>2. p[l[c].order + 1] \in S /\ l[p[l[c].order + 1]].order = l[c].order
    BY <2>1, <1>2, <1>4
  <2>3. QED
    BY <2>1, <2>2, <1>5
<1>7. p \in SetToSeqs(S)
  <2> HIDE DEF p, S
  <2>1. \A i, j \in D : i # j => p[i] # p[j]
    BY <1>1, <1>2
  <2>2. QED
    BY <2>1, <1>3 DEF SetToSeqs
<1>8. Sorts(p)
  BY <1>1, <1>2, <1>3 DEF Above
<1>9. q \in SetToSeqs(S) /\ Sorts(q)
  BY <1>7, <1>8 DEF ColumnItems
<1>10. q \in [D -> S] /\ \A i, j \in D : i # j => q[i] # q[j]
  BY <1>9 DEF SetToSeqs
<1>11. \A c \in S : \E i \in D : q[i] = c
  <2>1. q \in Injection(D, S)
    BY <1>10 DEF Injection, IsInjective
  <2>2. Cardinality(D) = Cardinality(S)
    BY <1>1, FS_Interval
  <2>3. q \in Surjection(D, S)
    BY <2>1, <2>2, <1>1, FS_Injection
  <2>4. QED
    BY <2>3 DEF Surjection
<1>12. \A i, j \in D : i < j => l[q[i]].order < l[q[j]].order
  <2> HIDE DEF S, p
  <2>1. \A i, j \in D : i < j => Above(l, q[i], q[j])
    BY <1>9, <1>10
  <2>2. \A i, j \in D : i < j => l[q[i]].order # l[q[j]].order
    BY <1>10, <1>5, <1>1
  <2>3. QED
    BY <2>1, <2>2 DEF Above
<1> HIDE DEF p, q, S
<1>13. \A i \in D : q[i] = p[i]
  <2> DEFINE W == {i \in D : q[i] # p[i]}
  <2> SUFFICES ASSUME W # {} PROVE FALSE
    OBVIOUS
  <2>1. W \in SUBSET Nat
    BY <1>1
  <2>2. PICK i \in W : \A m \in W : i <= m
    BY <2>1, LeastNat
  <2>3. \A m \in D : m < i => q[m] = p[m]
    BY <2>2, <1>1
  <2>4. p[i] \in S /\ q[i] \in S
    BY <1>3, <1>10
  <2>5. PICK j \in D : q[j] = p[i]
    BY <2>4, <1>11
  <2>6. ~(j < i) /\ j # i
    <3>1. ASSUME j < i PROVE FALSE
      <4>1. p[j] = p[i]
        BY <3>1, <2>3, <2>5
      <4>2. QED
        BY <4>1, <3>1, <1>2, <1>1
    <3>2. QED
      BY <3>1, <2>5, <2>2
  <2>7. l[q[i]].order < i - 1
    BY <2>5, <2>6, <1>12, <1>2, <1>1
  <2> DEFINE k == l[q[i]].order + 1
  <2>8. k \in D /\ p[k] = q[i]
    BY <2>4, <1>6
  <2>9. k < i
    BY <2>7, <2>4, <1>4, <1>1
  <2>10. q[k] = q[i]
    BY <2>8, <2>9, <2>3
  <2>11. QED
    BY <2>8, <2>9, <2>10, <1>10, <1>1
<1>14. QED
  BY <1>1, <1>2, <1>6, <1>10, <1>13 DEF q, S
-----------------------------------------------------------------------------
(* Sequences as functions: one element out, one element in.                *)
LEMMA FunctionIsSeq ==
  ASSUME NEW S, NEW n \in Nat, NEW s \in [1 .. n -> S]
  PROVE  s \in Seq(S) /\ Len(s) = n
BY IsASeq

TakesOut(s, n, S, i, r) ==
  /\ r \in [1 .. (n - 1) -> S]
  /\ \A j \in 1 .. (n - 1) : r[j] = IF j < i THEN s[j] ELSE s[j + 1]

LEMMA TakenOut ==
  ASSUME NEW S, NEW n \in Nat, NEW s \in [1 .. n -> S], NEW i \in 1 .. n
  PROVE  TakesOut(s, n, S, i, RemoveAt(s, i))
<1>1. s \in Seq(S) /\ Len(s) = n
  BY FunctionIsSeq
<1>2. RemoveAt(s, i) \in Seq(S) /\ Len(RemoveAt(s, i)) = n - 1
  BY <1>1 DEF RemoveAt
<1> DEFINE a == SubSeq(s, 1, i - 1)
           b == SubSeq(s, i + 1, n)
<1>3. a \in Seq(S) /\ Len(a) = i - 1 /\ \A j \in 1 .. (i - 1) : a[j] = s[j]
  BY <1>1, SubSeqProperties
<1>4. b \in Seq(S) /\ Len(b) = n - i /\ \A j \in 1 .. (n - i) : b[j] = s[j + i]
  BY <1>1, SubSeqProperties
<1>5. RemoveAt(s, i) = a \o b
  BY <1>1 DEF RemoveAt
<1> HIDE DEF a, b
<1>6. \A j \in 1 .. (n - 1) : (a \o b)[j] = IF j <= i - 1 THEN a[j] ELSE b[j - (i - 1)]
  BY <1>3, <1>4, ConcatProperties
<1>7. \A j \in 1 .. (n - 1) : (a \o b)[j] = IF j < i THEN s[j] ELSE s[j + 1]
  <2> TAKE j \in 1 .. (n - 1)
  <2>1. CASE j < i
    BY <2>1, <1>6, <1>3
  <2>2. CASE ~(j < i)
    <3>1. j - (i - 1) \in 1 .. (n - i) /\ j - (i - 1) + i = j + 1
      BY <2>2
    <3>2. ~(j <= i - 1)
      BY <2>2
    <3>2a. (a \o b)[j] = b[j - (i - 1)]
      BY <3>2, <1>6
    <3>3. QED
      BY <3>1, <3>2a, <2>2, <1>4
  <2>3. QED
    BY <2>1, <2>2
<1>8. RemoveAt(s, i) \in [1 .. (n - 1) -> S]
  BY <1>2, LenProperties
<1>9. QED
  BY <1>5, <1>7, <1>8 DEF TakesOut

PutsIn(s, n, S, i, e, t) ==
  /\ t \in [1 .. (n + 1) -> S]
  /\ \A j \in 1 .. (n + 1) : t[j] = IF j < i THEN s[j] ELSE IF j = i THEN e ELSE s[j - 1]

LEMMA PutIn ==
  ASSUME NEW S, NEW n \in Nat, NEW s \in [1 .. n -> S], NEW i \in 1 .. (n + 1), NEW e \in S
  PROVE  PutsIn(s, n, S, i, e, InsertAt(s, i, e))
<1>1. s \in Seq(S) /\ Len(s) = n
  BY FunctionIsSeq
<1>2. InsertAt(s, i, e) \in Seq(S) /\ Len(InsertAt(s, i, e)) = n + 1
  BY <1>1 DEF InsertAt
<1> DEFINE a == SubSeq(s, 1, i - 1)
           b == SubSeq(s, i, n)
           d == a \o <<e>>
<1>3. a \in Seq(S) /\ Len(a) = i - 1 /\ \A j \in 1 .. (i - 1) : a[j] = s[j]
  BY <1>1, SubSeqProperties
<1>4. b \in Seq(S) /\ Len(b) = n - i + 1 /\ \A j \in 1 .. (n - i + 1) : b[j] = s[j + i - 1]
  BY <1>1, SubSeqProperties
<1>5. InsertAt(s, i, e) = d \o b
  BY <1>1 DEF InsertAt
<1>6. d \in Seq(S) /\ Len(d) = i /\ d[i] = e /\ \A j \in 1 .. (i - 1) : d[j] = s[j]
  <2> HIDE DEF a, b
  <2>1. QED
    BY <1>3
<1> HIDE DEF a, b, d
<1>7. \A j \in 1 .. (n + 1) : (d \o b)[j] = IF j <= i THEN d[j] ELSE b[j - i]
  BY <1>6, <1>4, ConcatProperties
<1>8. \A j \in 1 .. (n + 1) : (d \o b)[j] = IF j < i THEN s[j] ELSE IF j = i THEN e ELSE s[j - 1]
  <2> TAKE j \in 1 .. (n + 1)
  <2>1. CASE j <= i
    BY <2>1, <1>7, <1>6
  <2>2. CASE ~(j <= i)
    <3>1. j - i \in 1 .. (n - i + 1) /\ j - i + i - 1 = j - 1
      BY <2>2
    <3>2. (d \o b)[j] = b[j - i]
      BY <2>2, <1>7
    <3>3. b[j - i] = s[j - 1]
      BY <3>1, <1>4
    <3>4. QED
      BY <3>2, <3>3, <2>2
  <2>3. QED
    BY <2>1, <2>2
<1>9. InsertAt(s, i, e) \in [1 .. (n + 1) -> S]
  BY <1>2, LenProperties
<1>10. QED
  BY <1>5, <1>8, <1>9 DEF PutsIn

(* The place of a card in a list that holds it once.                       *)
LEMMA PlaceIs ==
  ASSUME NEW s, NEW i \in DOMAIN s, \A j \in DOMAIN s : s[j] = s[i] => j = i
  PROVE  Position(s, s[i]) = i
BY DEF Position

LEMMA PlaceInColumn ==
  ASSUME NEW l \in BoardStates, NEW col \in BoardColumns, NEW c \in InColumn(l, col)
  PROVE  /\ Position(ColumnItems(l, col), c) = l[c].order + 1
         /\ Len(ColumnItems(l, col)) = Cardinality(InColumn(l, col))
<1> DEFINE s == ColumnItems(l, col)
           n == Cardinality(InColumn(l, col))
           i == l[c].order + 1
<1>1. /\ n \in Nat /\ s \in [1 .. n -> InColumn(l, col)]
      /\ \A j \in 1 .. n : l[s[j]].order = j - 1
      /\ i \in 1 .. n /\ s[i] = c
  BY ColumnInOrder
<1> HIDE DEF s
<1>2. \A j \in DOMAIN s : s[j] = s[i] => j = i
  BY <1>1
<1>3. Position(s, s[i]) = i
  BY <1>1, <1>2, PlaceIs
<1>4. QED
  BY <1>1, <1>3, FunctionIsSeq DEF s
-----------------------------------------------------------------------------
(* What a drop does to the orders, card by card.                           *)
Shrunk(i, o) == IF i < o THEN i ELSE i - 1
Grown(i, w) == IF i < w THEN i ELSE i + 1

MovedWithin(l, moved, w) ==
  [c \in BoardCards |->
     IF l[c].column # l[moved].column THEN l[c]
     ELSE PlaceCard(l[moved].column, IF c = moved THEN w ELSE Grown(Shrunk(l[c].order, l[moved].order), w))]

MovedAcross(l, moved, to, k) ==
  [c \in BoardCards |->
     IF c = moved THEN PlaceCard(to, k)
     ELSE IF l[c].column = to THEN PlaceCard(to, Grown(l[c].order, k))
     ELSE IF l[c].column = l[moved].column THEN PlaceCard(l[moved].column, Shrunk(l[c].order, l[moved].order))
     ELSE l[c]]

(* s lists the cards of T, each at the place at says.                      *)
Lists(s, n, T, at) ==
  /\ s \in [1 .. n -> T]
  /\ \A c \in T : at[c] + 1 \in 1 .. n /\ at[c] \in Nat /\ s[at[c] + 1] = c
  /\ \A i \in 1 .. n : at[s[i]] = i - 1

LEMMA NumberedIs ==
  ASSUME NEW l, NEW col, NEW n \in Nat, NEW T \in SUBSET BoardCards, NEW s, NEW at,
         Lists(s, n, T, at)
  PROVE  Numbered(l, s, col) =
           [c \in BoardCards |-> IF c \in T THEN PlaceCard(col, at[c]) ELSE l[c]]
<1> USE DEF Lists
<1>1. DOMAIN s = 1 .. n
  OBVIOUS
<1>2. Range(s) = T
  BY <1>1 DEF Range
<1>3. ASSUME NEW c \in T PROVE Position(s, c) - 1 = at[c]
  <2> DEFINE i == at[c] + 1
  <2>1. i \in DOMAIN s /\ s[i] = c
    BY <1>1
  <2>2. \A j \in DOMAIN s : s[j] = s[i] => j = i
    <3> TAKE j \in DOMAIN s
    <3> HAVE s[j] = s[i]
    <3>1. at[s[j]] = j - 1 /\ s[j] = c
      BY <2>1, <1>1
    <3>2. QED
      BY <3>1, <1>1
  <2>3. Position(s, s[i]) = i
    <3> HIDE DEF i
    <3>1. QED
      BY <2>1, <2>2, PlaceIs
  <2>4. QED
    BY <2>1, <2>3
<1>4. QED
  BY <1>2, <1>3 DEF Numbered

LEMMA MovesWithin ==
  ASSUME NEW l \in BoardStates, NEW moved \in BoardCards,
         NEW w \in 0 .. (Cardinality(InColumn(l, l[moved].column)) - 1)
  PROVE  LET col == l[moved].column
         IN  Numbered(l, ArrayMove(ColumnItems(l, col), l[moved].order, w), col) = MovedWithin(l, moved, w)
<1> DEFINE col == l[moved].column
           S == InColumn(l, col)
           n == Cardinality(S)
           s == ColumnItems(l, col)
           o == l[moved].order
           r == RemoveAt(s, o + 1)
           t == InsertAt(r, w + 1, moved)
           at == [c \in S |-> IF c = moved THEN w ELSE Grown(Shrunk(l[c].order, o), w)]
<1>0. l \in [BoardCards -> [column : BoardColumns, order : Nat]]
  BY LayoutsAreTyped DEF LayoutTyped
<1>1. col \in BoardColumns /\ moved \in S /\ o \in Nat
  BY <1>0 DEF InColumn
<1>2. /\ n \in Nat /\ s \in [1 .. n -> S]
      /\ \A i \in 1 .. n : l[s[i]].order = i - 1
      /\ \A c \in S : l[c].order + 1 \in 1 .. n /\ s[l[c].order + 1] = c
  BY <1>1, ColumnInOrder
<1>3. \A c \in S : l[c].order \in Nat /\ c \in BoardCards
  BY <1>0 DEF InColumn
<1>4. o + 1 \in 1 .. n /\ s[o + 1] = moved /\ w \in 0 .. (n - 1)
  BY <1>1, <1>2
<1>5. ArrayMove(s, o, w) = t
  BY <1>4 DEF ArrayMove
<1>9. MovedWithin(l, moved, w) = [c \in BoardCards |-> IF c \in S THEN PlaceCard(col, at[c]) ELSE l[c]]
  BY <1>1 DEF MovedWithin, InColumn
<1>10. S \in SUBSET BoardCards
  BY DEF InColumn
<1> HIDE DEF s, S, n, o, col, at
<1>6. /\ r \in [1 .. (n - 1) -> S]
      /\ \A j \in 1 .. (n - 1) : r[j] = IF j < o + 1 THEN s[j] ELSE s[j + 1]
  <2>1. TakesOut(s, n, S, o + 1, r)
    BY <1>2, <1>4, TakenOut DEF r
  <2>2. QED
    BY <2>1 DEF TakesOut
<1> HIDE DEF r
<1>7. /\ t \in [1 .. n -> S]
      /\ \A j \in 1 .. n : t[j] = IF j < w + 1 THEN r[j] ELSE IF j = w + 1 THEN moved ELSE r[j - 1]
  <2>1. n - 1 \in Nat /\ w + 1 \in 1 .. ((n - 1) + 1) /\ (n - 1) + 1 = n
    BY <1>2, <1>4
  <2>2. QED
    <3>1. n - 1 \in Nat /\ r \in [1 .. (n - 1) -> S] /\ moved \in S
      BY <1>1, <1>6, <2>1
    <3>2. PutsIn(r, n - 1, S, w + 1, moved, t)
      BY <3>1, <2>1, PutIn DEF t
    <3>3. QED
      BY <3>2, <2>1 DEF PutsIn
<1> HIDE DEF t
<1>8. \A c \in S : at[c] + 1 \in 1 .. n /\ at[c] \in Nat /\ t[at[c] + 1] = c
  <2> TAKE c \in S
  <2>1. CASE c = moved
    BY <2>1, <1>1, <1>2, <1>4, <1>7 DEF at
  <2>2. CASE c # moved
    <3> DEFINE i == l[c].order
    <3>1. i \in Nat /\ i + 1 \in 1 .. n /\ s[i + 1] = c /\ i # o
      BY <1>2, <1>3, <1>4, <2>2
    <3> HIDE DEF i
    <3>2. at[c] = Grown(Shrunk(i, o), w)
      BY <2>2 DEF at, i
    <3>3. CASE i < o
      <4>1. r[i + 1] = c /\ i + 1 \in 1 .. (n - 1)
        BY <3>1, <3>3, <1>1, <1>2, <1>4, <1>6
      <4>2. QED
        BY <4>1, <3>1, <3>2, <3>3, <1>2, <1>4, <1>7 DEF Grown, Shrunk
    <3>4. CASE ~(i < o)
      <4>1. i \in 1 .. (n - 1) /\ ~(i < o + 1) /\ r[i] = c
        BY <3>1, <3>4, <1>1, <1>2, <1>4, <1>6
      <4>2. QED
        BY <4>1, <3>1, <3>2, <3>4, <1>2, <1>4, <1>7 DEF Grown, Shrunk
    <3>5. QED
      BY <3>3, <3>4
  <2>3. QED
    BY <2>1, <2>2
<1>11. \A i \in 1 .. n : at[t[i]] = i - 1
  <2> TAKE i \in 1 .. n
  <2>1. CASE i = w + 1
    BY <2>1, <1>1, <1>4, <1>7 DEF at
  <2>2. CASE i # w + 1
    <3> DEFINE j == IF i < w + 1 THEN i ELSE i - 1
    <3>1. j \in 1 .. (n - 1) /\ t[i] = r[j]
      BY <2>2, <1>2, <1>4, <1>7
    <3> DEFINE m == IF j < o + 1 THEN j ELSE j + 1
    <3>2. m \in 1 .. n /\ r[j] = s[m] /\ m # o + 1
      <4> HIDE DEF j
      <4>1. QED
        BY <3>1, <1>1, <1>2, <1>4, <1>6
    <3>3. t[i] = s[m] /\ t[i] \in S /\ l[t[i]].order = m - 1
      BY <3>1, <3>2, <1>2
    <3>4. t[i] # moved
      BY <3>2, <3>3, <1>1, <1>2, <1>4 DEF o
    <3>5. at[t[i]] = Grown(Shrunk(m - 1, o), w)
      BY <3>3, <3>4 DEF at
    <3>6. QED
      BY <3>1, <3>2, <3>5, <1>1, <1>2, <1>4, <2>2 DEF Grown, Shrunk
  <2>3. QED
    BY <2>1, <2>2
<1>12. Numbered(l, t, col) = [c \in BoardCards |-> IF c \in S THEN PlaceCard(col, at[c]) ELSE l[c]]
  <2>1. Lists(t, n, S, at)
    BY <1>7, <1>8, <1>11 DEF Lists
  <2>2. n \in Nat /\ S \in SUBSET BoardCards
    BY <1>2, <1>3
  <2> HIDE DEF n, S, t, at, col
  <2>3. QED
    BY <2>1, <2>2, NumberedIs
<1>13. QED
  BY <1>5, <1>9, <1>12 DEF s, o, col

LEMMA MovesAcross ==
  ASSUME NEW l \in BoardStates, NEW moved \in BoardCards, NEW to \in BoardColumns,
         to # l[moved].column, NEW k \in 0 .. Cardinality(InColumn(l, to))
  PROVE  LET from == l[moved].column
             left == Numbered(l, RemoveAt(ColumnItems(l, from), l[moved].order + 1), from)
         IN  Numbered(left, InsertAt(ColumnItems(l, to), k + 1, moved), to) = MovedAcross(l, moved, to, k)
<1> DEFINE from == l[moved].column
           o == l[moved].order
           S == InColumn(l, from)
           S1 == S \ {moved}
           n == Cardinality(S)
           s == ColumnItems(l, from)
           r == RemoveAt(s, o + 1)
           D == InColumn(l, to)
           D1 == D \cup {moved}
           m == Cardinality(D)
           d == ColumnItems(l, to)
           t == InsertAt(d, k + 1, moved)
           atR == [c \in S1 |-> Shrunk(l[c].order, o)]
           atT == [c \in D1 |-> IF c = moved THEN k ELSE Grown(l[c].order, k)]
           left == Numbered(l, r, from)
<1>0. l \in [BoardCards -> [column : BoardColumns, order : Nat]]
  BY LayoutsAreTyped DEF LayoutTyped
<1>1. from \in BoardColumns /\ moved \in S /\ o \in Nat /\ moved \notin D
  BY <1>0 DEF InColumn
<1>2. /\ n \in Nat /\ s \in [1 .. n -> S]
      /\ \A i \in 1 .. n : l[s[i]].order = i - 1
      /\ \A c \in S : l[c].order + 1 \in 1 .. n /\ s[l[c].order + 1] = c
  BY <1>1, ColumnInOrder
<1>3. /\ m \in Nat /\ d \in [1 .. m -> D]
      /\ \A i \in 1 .. m : l[d[i]].order = i - 1
      /\ \A c \in D : l[c].order + 1 \in 1 .. m /\ d[l[c].order + 1] = c
  BY ColumnInOrder
<1>4. \A c \in S \cup D : l[c].order \in Nat /\ c \in BoardCards
  BY <1>0 DEF InColumn
<1>5. o + 1 \in 1 .. n /\ s[o + 1] = moved /\ k \in 0 .. m
  BY <1>1, <1>2
<1>6. S1 \in SUBSET BoardCards /\ D1 \in SUBSET BoardCards
  BY DEF InColumn
<1>7. MovedAcross(l, moved, to, k)
        = [c \in BoardCards |-> IF c \in D1 THEN PlaceCard(to, atT[c])
                               ELSE IF c \in S1 THEN PlaceCard(from, atR[c]) ELSE l[c]]
  BY <1>1 DEF MovedAcross, InColumn
<1>8. TakesOut(s, n, S, o + 1, r)
  <2> HIDE DEF s, S, n, o
  <2>1. QED
    BY <1>2, <1>5, TakenOut DEF r
<1>9. PutsIn(d, m, D1, k + 1, moved, t)
  <2> HIDE DEF d, D, m
  <2>1. k + 1 \in 1 .. (m + 1) /\ moved \in D1 /\ d \in [1 .. m -> D1]
    BY <1>3, <1>5
  <2> HIDE DEF D1
  <2>2. QED
    BY <1>3, <2>1, PutIn DEF t
<1> HIDE DEF s, S, n, o, d, D, m, r, t, atR, atT, from
<1>10. Lists(r, n - 1, S1, atR)
  <2> USE <1>8 DEF TakesOut
  <2>1. ASSUME NEW j \in 1 .. (n - 1)
        PROVE  r[j] \in S1 /\ atR[r[j]] = j - 1
    <3> DEFINE i == IF j < o + 1 THEN j ELSE j + 1
    <3>1. i \in 1 .. n /\ i # o + 1 /\ r[j] = s[i]
      BY <1>1, <1>2
    <3> HIDE DEF i
    <3>2. r[j] \in S /\ l[r[j]].order = i - 1
      BY <3>1, <1>2
    <3>3. r[j] # moved
      BY <3>1, <3>2, <1>1 DEF o
    <3>4. atR[r[j]] = Shrunk(i - 1, o)
      BY <3>2, <3>3 DEF atR
    <3>5. QED
      BY <3>1, <3>2, <3>3, <3>4, <1>1, <1>2 DEF i, Shrunk
  <2>2. r \in [1 .. (n - 1) -> S1]
    BY <2>1
  <2>3. ASSUME NEW c \in S1
        PROVE  atR[c] + 1 \in 1 .. (n - 1) /\ atR[c] \in Nat /\ r[atR[c] + 1] = c
    <3> DEFINE i == l[c].order
    <3>1. i \in Nat /\ i + 1 \in 1 .. n /\ s[i + 1] = c /\ i # o
      BY <1>2, <1>4, <1>5
    <3>2. atR[c] = Shrunk(i, o)
      BY DEF atR
    <3> HIDE DEF i
    <3>3. QED
      BY <3>1, <3>2, <1>1, <1>2, <1>5 DEF Shrunk
  <2>4. QED
    BY <2>1, <2>2, <2>3 DEF Lists
<1>11. Lists(t, m + 1, D1, atT)
  <2> USE <1>9 DEF PutsIn
  <2>1. ASSUME NEW j \in 1 .. (m + 1)
        PROVE  atT[t[j]] = j - 1
    <3>1. CASE j = k + 1
      BY <3>1, <1>3, <1>5 DEF atT
    <3>2. CASE j # k + 1
      <4> DEFINE i == IF j < k + 1 THEN j ELSE j - 1
      <4>1. i \in 1 .. m /\ t[j] = d[i]
        BY <3>2, <1>3, <1>5
      <4> HIDE DEF i
      <4>2. t[j] \in D /\ l[t[j]].order = i - 1
        BY <4>1, <1>3
      <4>3. atT[t[j]] = Grown(i - 1, k)
        BY <4>2, <1>1 DEF atT
      <4>4. QED
        BY <3>2, <4>1, <4>3, <1>3, <1>5 DEF i, Grown
    <3>3. QED
      BY <3>1, <3>2
  <2>2. ASSUME NEW c \in D1
        PROVE  atT[c] + 1 \in 1 .. (m + 1) /\ atT[c] \in Nat /\ t[atT[c] + 1] = c
    <3>1. CASE c = moved
      BY <3>1, <1>3, <1>5 DEF atT
    <3>2. CASE c # moved
      <4> DEFINE i == l[c].order
      <4>1. c \in D /\ i \in Nat /\ i + 1 \in 1 .. m /\ d[i + 1] = c
        BY <3>2, <1>3, <1>4
      <4>2. atT[c] = Grown(i, k)
        BY <3>2 DEF atT
      <4> HIDE DEF i
      <4>3. QED
        BY <4>1, <4>2, <1>3, <1>5 DEF Grown
    <3>3. QED
      BY <3>1, <3>2
  <2>3. QED
    BY <2>1, <2>2 DEF Lists
<1>12. left = [c \in BoardCards |-> IF c \in S1 THEN PlaceCard(from, atR[c]) ELSE l[c]]
  <2> HIDE DEF S1
  <2>1. n - 1 \in Nat
    BY <1>2, <1>5
  <2>2. QED
    BY <1>6, <1>10, <2>1, NumberedIs
<1> HIDE DEF left
<1>13. Numbered(left, t, to) = [c \in BoardCards |-> IF c \in D1 THEN PlaceCard(to, atT[c]) ELSE left[c]]
  <2> HIDE DEF D1
  <2>1. m + 1 \in Nat
    BY <1>3
  <2>2. QED
    BY <1>6, <1>11, <2>1, NumberedIs
<1>14. Numbered(left, t, to) = MovedAcross(l, moved, to, k)
  BY <1>7, <1>12, <1>13
<1>15. QED
  BY <1>14 DEF left, r, s, t, d, o, from
-----------------------------------------------------------------------------
(* A drop leaves a full board full.                                        *)
FullColumn(l, col, n) ==
  /\ \A c \in InColumn(l, col) : l[c].order \in 0 .. (n - 1)
  /\ \A i \in 0 .. (n - 1) : \E c \in InColumn(l, col) : l[c].order = i

LEMMA FullBoards ==
  ASSUME NEW l, LayoutTyped(l),
         \A col \in BoardColumns : FullColumn(l, col, Cardinality(InColumn(l, col)))
  PROVE  l \in BoardStates
<1>1. ASSUME NEW col \in BoardColumns
      PROVE  {l[c].order : c \in InColumn(l, col)} = 0 .. (Cardinality(InColumn(l, col)) - 1)
  BY DEF FullColumn
<1>2. Compact(l)
  BY <1>1 DEF Compact
<1>3. ASSUME NEW c \in BoardCards
      PROVE  l[c].order \in 0 .. (Cardinality(BoardCards) - 1)
  <2> DEFINE n == Cardinality(InColumn(l, l[c].column))
  <2>1. l[c].column \in BoardColumns /\ c \in InColumn(l, l[c].column)
    BY DEF LayoutTyped, InColumn
  <2>2. l[c].order \in 0 .. (n - 1)
    BY <2>1 DEF FullColumn
  <2>3. n \in Nat /\ n <= Cardinality(BoardCards) /\ Cardinality(BoardCards) \in Nat
    BY ColumnsAreFinite
  <2> HIDE DEF n
  <2>4. QED
    BY <2>2, <2>3
<1>4. QED
  BY <1>2, <1>3 DEF BoardStates, LayoutTyped

LEMMA BoardsAreFull ==
  ASSUME NEW l \in BoardStates, NEW col \in BoardColumns
  PROVE  FullColumn(l, col, Cardinality(InColumn(l, col)))
BY OrderBound, OrderFound DEF FullColumn

LEMMA PlaceCardIs ==
  ASSUME NEW q, NEW i
  PROVE  /\ PlaceCard(q, i).column = q /\ PlaceCard(q, i).order = i
         /\ q \in BoardColumns /\ i \in Nat => PlaceCard(q, i) \in [column : BoardColumns, order : Nat]
BY DEF PlaceCard

LEMMA WithinIsBoard ==
  ASSUME NEW l \in BoardStates, NEW moved \in BoardCards,
         NEW w \in 0 .. (Cardinality(InColumn(l, l[moved].column)) - 1)
  PROVE  MovedWithin(l, moved, w) \in BoardStates
<1> DEFINE r == MovedWithin(l, moved, w)
           col == l[moved].column
           o == l[moved].order
           S == InColumn(l, col)
           n == Cardinality(S)
<1>0. l \in [BoardCards -> [column : BoardColumns, order : Nat]]
  BY LayoutsAreTyped DEF LayoutTyped
<1>1. col \in BoardColumns /\ moved \in S /\ o \in Nat /\ w \in Nat
  BY <1>0 DEF InColumn
<1>2. \A q \in BoardColumns : InColumn(r, q) = InColumn(l, q)
  BY <1>0, <1>1 DEF InColumn, MovedWithin, PlaceCard
<1>3. n \in Nat /\ o \in 0 .. (n - 1) /\ w \in 0 .. (n - 1)
  BY <1>1, OrderBound, ColumnsAreFinite
<1>4. FullColumn(l, col, n)
  BY <1>1, BoardsAreFull
<1>5. \A c \in S \ {moved} : l[c].order # o
  BY <1>1, OrdersDiffer
<1>6. /\ \A c \in BoardCards : l[c].column # col => r[c] = l[c]
      /\ r[moved] = PlaceCard(col, w)
      /\ \A c \in S \ {moved} : r[c] = PlaceCard(col, Grown(Shrunk(l[c].order, o), w))
  BY <1>1 DEF MovedWithin, InColumn
<1>7. S \subseteq BoardCards /\ \A c \in S : l[c].order \in 0 .. (n - 1)
  BY <1>4 DEF InColumn, FullColumn
<1> HIDE DEF r, S, n, o, col
<1>8. ASSUME NEW c \in S PROVE r[c].column = col /\ r[c].order \in 0 .. (n - 1)
  <2>1. CASE c = moved
    BY <2>1, <1>3, <1>6 DEF PlaceCard
  <2>2. CASE c # moved
    <3>1. r[c].column = col /\ r[c].order = Grown(Shrunk(l[c].order, o), w)
      BY <2>2, <1>6, PlaceCardIs
    <3>2. l[c].order # o /\ l[c].order \in 0 .. (n - 1)
      BY <2>2, <1>5, <1>7
    <3>3. QED
      BY <3>1, <3>2, <1>3 DEF Grown, Shrunk
  <2>3. QED
    BY <2>1, <2>2
<1>9. ASSUME NEW i \in 0 .. (n - 1) PROVE \E c \in S : r[c].order = i
  <2>1. CASE i = w
    BY <2>1, <1>1, <1>6 DEF PlaceCard
  <2>2. CASE i # w
    <3> DEFINE p == IF i < w THEN i ELSE i - 1
               j == IF p < o THEN p ELSE p + 1
    <3>1. p \in 0 .. (n - 2) /\ j \in 0 .. (n - 1) /\ j # o
      BY <1>3, <2>2
    <3>2. PICK c \in S : l[c].order = j
      BY <1>4, <3>1 DEF FullColumn, S
    <3>3. c # moved
      BY <3>1, <3>2 DEF o
    <3>3a. r[c].order = Grown(Shrunk(j, o), w)
      BY <3>2, <3>3, <1>6, PlaceCardIs
    <3>4. Grown(Shrunk(j, o), w) = i
      BY <3>1, <1>3, <2>2 DEF Grown, Shrunk
    <3>5. QED
      BY <3>2, <3>3a, <3>4
  <2>3. QED
    BY <2>1, <2>2
<1>10. LayoutTyped(r)
  <2>1. r = [c \in BoardCards |-> r[c]]
    BY DEF MovedWithin, r
  <2>2. ASSUME NEW c \in BoardCards PROVE r[c] \in [column : BoardColumns, order : Nat]
    <3>1. CASE l[c].column # col
      BY <3>1, <1>0, <1>6
    <3>2. CASE l[c].column = col
      <4>1. c \in S
        BY <3>2 DEF InColumn, S
      <4>2. r[c].order \in Nat
        BY <4>1, <1>8
      <4>3. PICK i : r[c] = PlaceCard(col, i)
        BY <4>1, <1>6
      <4>4. i = r[c].order
        BY <4>3 DEF PlaceCard
      <4>5. QED
        BY <4>2, <4>3, <4>4, <1>1 DEF PlaceCard
    <3>3. QED
      BY <3>1, <3>2
  <2>3. QED
    BY <2>1, <2>2 DEF LayoutTyped
<1>11. ASSUME NEW q \in BoardColumns PROVE FullColumn(r, q, Cardinality(InColumn(r, q)))
  <2>1. CASE q = col
    BY <2>1, <1>1, <1>2, <1>8, <1>9 DEF FullColumn, S, n
  <2>2. CASE q # col
    <3>1. \A c \in InColumn(l, q) : r[c] = l[c]
      BY <2>2, <1>6 DEF InColumn
    <3>2. FullColumn(l, q, Cardinality(InColumn(l, q)))
      BY BoardsAreFull
    <3>3. QED
      BY <3>1, <3>2, <1>2 DEF FullColumn
  <2>3. QED
    BY <2>1, <2>2
<1>12. QED
  BY <1>10, <1>11, FullBoards DEF r

LEMMA AcrossIsBoard ==
  ASSUME NEW l \in BoardStates, NEW moved \in BoardCards, NEW to \in BoardColumns,
         to # l[moved].column, NEW k \in 0 .. Cardinality(InColumn(l, to))
  PROVE  MovedAcross(l, moved, to, k) \in BoardStates
<1> DEFINE r == MovedAcross(l, moved, to, k)
           from == l[moved].column
           o == l[moved].order
           S == InColumn(l, from)
           D == InColumn(l, to)
           n == Cardinality(S)
           m == Cardinality(D)
<1>0. l \in [BoardCards -> [column : BoardColumns, order : Nat]]
  BY LayoutsAreTyped DEF LayoutTyped
<1>1. from \in BoardColumns /\ moved \in S /\ o \in Nat /\ moved \notin D
  BY <1>0 DEF InColumn
<1>2. /\ InColumn(r, to) = D \cup {moved}
      /\ InColumn(r, from) = S \ {moved}
      /\ \A q \in BoardColumns \ {from, to} : InColumn(r, q) = InColumn(l, q)
  BY <1>0, <1>1 DEF InColumn, MovedAcross, PlaceCard
<1>3. n \in Nat /\ o \in 0 .. (n - 1) /\ m \in Nat /\ k \in 0 .. m
  BY <1>1, OrderBound, ColumnsAreFinite
<1>4. Cardinality(InColumn(r, to)) = m + 1 /\ Cardinality(InColumn(r, from)) = n - 1
  <2>1. IsFiniteSet(D) /\ IsFiniteSet(S)
    BY ColumnsAreFinite
  <2> HIDE DEF D, S
  <2>2. Cardinality(D \cup {moved}) = Cardinality(D) + 1
    BY <2>1, <1>1, FS_AddElement
  <2>3. Cardinality(S \ {moved}) = Cardinality(S) - 1
    BY <2>1, <1>1, FS_RemoveElement
  <2>4. QED
    BY <2>2, <2>3, <1>2
<1>5. FullColumn(l, from, n) /\ FullColumn(l, to, m)
  BY <1>1, BoardsAreFull
<1>6. \A c \in S \ {moved} : l[c].order # o
  BY <1>1, OrdersDiffer
<1>7. /\ \A c \in BoardCards : l[c].column \notin {from, to} => r[c] = l[c]
      /\ r[moved] = PlaceCard(to, k)
      /\ \A c \in S \ {moved} : r[c] = PlaceCard(from, Shrunk(l[c].order, o))
      /\ \A c \in D : r[c] = PlaceCard(to, Grown(l[c].order, k))
  BY <1>1 DEF MovedAcross, InColumn
<1>8. /\ S \subseteq BoardCards /\ \A c \in S : l[c].order \in 0 .. (n - 1)
      /\ D \subseteq BoardCards /\ \A c \in D : l[c].order \in 0 .. (m - 1)
  BY <1>5 DEF InColumn, FullColumn
<1> HIDE DEF r, S, D, n, m, o, from
<1>9. LayoutTyped(r)
  <2>1. r = [c \in BoardCards |-> r[c]]
    BY DEF MovedAcross, r
  <2>2. ASSUME NEW c \in BoardCards PROVE r[c] \in [column : BoardColumns, order : Nat]
    <3>1. CASE l[c].column \notin {from, to}
      BY <3>1, <1>0, <1>7
    <3>2. CASE c = moved
      BY <3>2, <1>3, <1>7 DEF PlaceCard
    <3>3. CASE c # moved /\ l[c].column = from
      <4>1. c \in S \ {moved}
        BY <3>3 DEF InColumn, S
      <4>2. Shrunk(l[c].order, o) \in Nat
        BY <4>1, <1>3, <1>6, <1>8 DEF Shrunk
      <4>3. QED
        BY <4>1, <4>2, <1>1, <1>7, PlaceCardIs
    <3>4. CASE l[c].column = to
      <4>1. c \in D
        BY <3>4 DEF InColumn, D
      <4>2. Grown(l[c].order, k) \in Nat
        BY <4>1, <1>3, <1>8 DEF Grown
      <4>3. QED
        BY <4>1, <4>2, <1>7, PlaceCardIs
    <3>5. QED
      BY <3>1, <3>2, <3>3, <3>4
  <2>3. QED
    BY <2>1, <2>2 DEF LayoutTyped
<1>10. FullColumn(r, to, m + 1)
  <2>1. ASSUME NEW c \in D \cup {moved} PROVE r[c].order \in 0 .. m
    <3>1. CASE c = moved
      BY <3>1, <1>3, <1>7 DEF PlaceCard
    <3>2. CASE c \in D
      <4>1. r[c].order = Grown(l[c].order, k) /\ l[c].order \in 0 .. (m - 1)
        BY <3>2, <1>7, <1>8, PlaceCardIs
      <4>2. QED
        BY <4>1, <1>3 DEF Grown
    <3>3. QED
      BY <3>1, <3>2
  <2>2. ASSUME NEW i \in 0 .. m PROVE \E c \in D \cup {moved} : r[c].order = i
    <3>1. CASE i = k
      BY <3>1, <1>7 DEF PlaceCard
    <3>2. CASE i # k
      <4> DEFINE j == IF i < k THEN i ELSE i - 1
      <4>1. j \in 0 .. (m - 1) /\ Grown(j, k) = i
        BY <3>2, <1>3 DEF Grown
      <4>2. PICK c \in D : l[c].order = j
        BY <4>1, <1>5 DEF FullColumn, D
      <4>3. r[c].order = Grown(j, k)
        BY <4>2, <1>7, PlaceCardIs
      <4>4. QED
        BY <4>1, <4>2, <4>3
    <3>3. QED
      BY <3>1, <3>2
  <2>3. (m + 1) - 1 = m
    BY <1>3
  <2>4. QED
    BY <2>1, <2>2, <2>3, <1>2 DEF FullColumn
<1>11. FullColumn(r, from, n - 1)
  <2>1. ASSUME NEW c \in S \ {moved} PROVE r[c].order \in 0 .. (n - 2)
    <3>1. r[c].order = Shrunk(l[c].order, o) /\ l[c].order \in 0 .. (n - 1) /\ l[c].order # o
      BY <1>6, <1>7, <1>8, PlaceCardIs
    <3>2. QED
      BY <3>1, <1>3 DEF Shrunk
  <2>2. ASSUME NEW i \in 0 .. (n - 2) PROVE \E c \in S \ {moved} : r[c].order = i
    <3> DEFINE j == IF i < o THEN i ELSE i + 1
    <3>1. j \in 0 .. (n - 1) /\ j # o /\ Shrunk(j, o) = i
      BY <1>3 DEF Shrunk
    <3>2. PICK c \in S : l[c].order = j
      BY <3>1, <1>5 DEF FullColumn, S
    <3>3. c # moved
      BY <3>1, <3>2 DEF o
    <3>4. r[c].order = Shrunk(j, o)
      BY <3>2, <3>3, <1>7, PlaceCardIs
    <3>5. QED
      BY <3>1, <3>2, <3>3, <3>4
  <2>3. (n - 1) - 1 = n - 2
    BY <1>3
  <2>4. QED
    BY <2>1, <2>2, <2>3, <1>2 DEF FullColumn
<1>12. ASSUME NEW q \in BoardColumns PROVE FullColumn(r, q, Cardinality(InColumn(r, q)))
  <2>1. CASE q \in {from, to}
    BY <2>1, <1>4, <1>10, <1>11
  <2>2. CASE q \notin {from, to}
    <3>1. \A c \in InColumn(l, q) : r[c] = l[c]
      BY <2>2, <1>7 DEF InColumn
    <3>2. FullColumn(l, q, Cardinality(InColumn(l, q)))
      BY BoardsAreFull
    <3>3. QED
      BY <2>2, <3>1, <3>2, <1>2 DEF FullColumn
  <2>3. QED
    BY <2>1, <2>2
<1>13. QED
  BY <1>9, <1>12, FullBoards DEF r
-----------------------------------------------------------------------------
(* What computeKanbanReorder gives.                                        *)
LEMMA PutBack ==
  ASSUME NEW l \in BoardStates, NEW moved \in BoardCards
  PROVE  MovedWithin(l, moved, l[moved].order) = l
<1> DEFINE col == l[moved].column
           o == l[moved].order
           r == MovedWithin(l, moved, o)
<1>1. l \in [BoardCards -> [column : BoardColumns, order : Nat]]
  BY LayoutsAreTyped DEF LayoutTyped
<1>2. \A c \in BoardCards : l[c] = PlaceCard(l[c].column, l[c].order)
  BY <1>1 DEF PlaceCard
<1>3. ASSUME NEW c \in BoardCards, c # moved, l[c].column = col
      PROVE  Grown(Shrunk(l[c].order, o), o) = l[c].order
  <2>1. c \in InColumn(l, col) /\ moved \in InColumn(l, col) /\ col \in BoardColumns
    BY <1>1, <1>3 DEF InColumn
  <2>2. l[c].order # o
    BY <2>1, <1>3, OrdersDiffer
  <2>3. l[c].order \in Nat /\ o \in Nat
    BY <1>1
  <2>4. QED
    BY <2>2, <2>3 DEF Grown, Shrunk
<1>4. ASSUME NEW c \in BoardCards PROVE r[c] = l[c]
  <2>1. CASE l[c].column # col
    BY <2>1 DEF MovedWithin
  <2>2. CASE c = moved
    BY <2>2, <1>2 DEF MovedWithin
  <2>3. CASE c # moved /\ l[c].column = col
    <3>1. r[c] = PlaceCard(col, Grown(Shrunk(l[c].order, o), o))
      BY <2>3 DEF MovedWithin
    <3>2. QED
      BY <3>1, <2>3, <1>2, <1>3
  <2>4. QED
    BY <2>1, <2>2, <2>3
<1>5. r = [c \in BoardCards |-> r[c]]
  BY DEF MovedWithin
<1> HIDE DEF r
<1>6. QED
  BY <1>1, <1>4, <1>5 DEF r

(* A drop within the column, and one into another.                         *)
DropsWithin(l, moved, over, half, r) ==
  LET n == Cardinality(InColumn(l, l[moved].column))
  IN  \E w \in 0 .. (n - 1) :
        /\ r = MovedWithin(l, moved, w)
        /\ over \in BoardCards => w = SameColumnIndex(l[moved].order, l[over].order, half, n)
DropsAcross(l, moved, over, half, r) ==
  LET to == ResolveColumn(l, over)
  IN  \E k \in 0 .. Cardinality(InColumn(l, to)) :
        /\ r = MovedAcross(l, moved, to, k)
        /\ over \in BoardCards => k = l[over].order + half

LEMMA ReorderIs ==
  ASSUME NEW l \in BoardStates, NEW moved \in BoardCards, NEW over \in Targets \ {moved},
         NEW half \in Halves
  PROVE  LET r == ComputeReorder(l, moved, over, half)
         IN  IF ResolveColumn(l, over) = l[moved].column THEN DropsWithin(l, moved, over, half, r)
             ELSE DropsAcross(l, moved, over, half, r)
<1> DEFINE col == l[moved].column
           o == l[moved].order
           to == ResolveColumn(l, over)
           n == Cardinality(InColumn(l, col))
           m == Cardinality(InColumn(l, to))
           r == ComputeReorder(l, moved, over, half)
<1>1. l \in [BoardCards -> [column : BoardColumns, order : Nat]]
  BY LayoutsAreTyped DEF LayoutTyped
<1>2. col \in BoardColumns /\ moved \in InColumn(l, col) /\ to \in BoardColumns
  BY <1>1 DEF InColumn, ResolveColumn, Targets
<1>3. over \in BoardCards => over \notin BoardColumns /\ over \in InColumn(l, to)
  BY <1>1, DragAssumption DEF InColumn, ResolveColumn
<1>4. over \notin BoardColumns => over \in BoardCards
  BY DEF Targets
<1>5. n \in Nat /\ m \in Nat /\ half \in {0, 1}
  BY ColumnsAreFinite DEF Halves
<1>6. /\ Position(ColumnItems(l, col), moved) = o + 1
      /\ Len(ColumnItems(l, col)) = n
      /\ o \in 0 .. (n - 1)
  BY <1>2, PlaceInColumn, OrderBound
<1>7. over \in BoardCards =>
        /\ Position(ColumnItems(l, to), over) = l[over].order + 1
        /\ l[over].order \in 0 .. (m - 1)
  BY <1>2, <1>3, PlaceInColumn, OrderBound
<1>8. Len(ColumnItems(l, to)) = m
  <2>1. ColumnItems(l, to) \in [1 .. m -> InColumn(l, to)]
    BY <1>2, ColumnInOrder
  <2>2. QED
    BY <2>1, <1>5, FunctionIsSeq
<1>9. CASE to = col
  <2> DEFINE w == IF over \in BoardColumns THEN n - 1 ELSE SameColumnIndex(o, l[over].order, half, n)
  <2>1. w \in 0 .. (n - 1)
    <3>1. CASE over \in BoardColumns
      BY <3>1, <1>5, <1>6
    <3>2. CASE over \notin BoardColumns
      <4>1. l[over].order \in 0 .. (n - 1)
        BY <3>2, <1>4, <1>7, <1>9
      <4>2. SameColumnIndex(o, l[over].order, half, n) \in 0 .. (n - 1)
        <5> HIDE DEF o, n
        <5>1. QED
          BY <4>1, <1>5, <1>6 DEF SameColumnIndex, ClampIndex
      <4>3. QED
        BY <4>2, <3>2
    <3>3. QED
      BY <3>1, <3>2
  <2>2. r = MoveWithin(l, moved, over, half)
    BY <1>9 DEF ComputeReorder
  <2>3. MoveWithin(l, moved, over, half)
          = IF o = w THEN l ELSE Numbered(l, ArrayMove(ColumnItems(l, col), o, w), col)
    <3>1. Position(ColumnItems(l, col), moved) - 1 = o
      BY <1>6
    <3>2. over \notin BoardColumns => Position(ColumnItems(l, col), over) - 1 = l[over].order
      BY <1>4, <1>7, <1>9
    <3>3. QED
      BY <3>1, <3>2, <1>6 DEF MoveWithin
  <2>4. Numbered(l, ArrayMove(ColumnItems(l, col), o, w), col) = MovedWithin(l, moved, w)
    <3> HIDE DEF w
    <3>1. QED
      BY <2>1, MovesWithin
  <2>5. l = MovedWithin(l, moved, o)
    BY PutBack
  <2>6. r = MovedWithin(l, moved, w)
    <3> HIDE DEF r, w, col
    <3>1. QED
      BY <2>2, <2>3, <2>4, <2>5
  <2>7. over \in BoardCards => w = SameColumnIndex(o, l[over].order, half, n)
    BY <1>3
  <2> HIDE DEF r, w
  <2>8. DropsWithin(l, moved, over, half, r)
    BY <2>1, <2>6, <2>7 DEF DropsWithin
  <2>9. QED
    BY <2>8, <1>9 DEF r
<1>10. CASE to # col
  <2> DEFINE k == IF over \in BoardColumns THEN m
                  ELSE ClampIndex(l[over].order + half, 0, m)
  <2>1. k \in 0 .. m /\ (over \in BoardCards => k = l[over].order + half)
    <3>1. CASE over \in BoardColumns
      BY <3>1, <1>3, <1>5
    <3>2. CASE over \notin BoardColumns
      <4>1. l[over].order \in 0 .. (m - 1)
        BY <3>2, <1>4, <1>7
      <4>2. ClampIndex(l[over].order + half, 0, m) = l[over].order + half
        <5> HIDE DEF m
        <5>1. QED
          BY <4>1, <1>5 DEF ClampIndex
      <4>3. QED
        BY <4>1, <4>2, <3>2, <1>5
    <3>3. QED
      BY <3>1, <3>2
  <2>2. r = MoveAcross(l, moved, over, half)
    BY <1>10 DEF ComputeReorder
  <2>3. MoveAcross(l, moved, over, half)
          = Numbered(Numbered(l, RemoveAt(ColumnItems(l, col), o + 1), col),
                     InsertAt(ColumnItems(l, to), k + 1, moved), to)
    <3>1. over \notin BoardColumns => Position(ColumnItems(l, to), over) - 1 = l[over].order
      BY <1>4, <1>7
    <3>2. QED
      BY <3>1, <1>6, <1>8 DEF MoveAcross
  <2>4. r = MovedAcross(l, moved, to, k)
    <3> HIDE DEF k, to
    <3>1. QED
      BY <2>1, <2>2, <2>3, <1>2, <1>10, MovesAcross
  <2> HIDE DEF r, k
  <2>5. DropsAcross(l, moved, over, half, r)
    BY <2>1, <2>4 DEF DropsAcross
  <2>6. QED
    BY <2>5, <1>10 DEF r
<1>11. QED
  BY <1>9, <1>10

LEMMA ReorderIsBoard ==
  ASSUME NEW l \in BoardStates, NEW moved \in BoardCards, NEW over \in Targets \ {moved},
         NEW half \in Halves
  PROVE  ComputeReorder(l, moved, over, half) \in BoardStates
<1> DEFINE r == ComputeReorder(l, moved, over, half)
<1>1. CASE ResolveColumn(l, over) = l[moved].column
  <2>1. DropsWithin(l, moved, over, half, r)
    BY <1>1, ReorderIs
  <2>2. PICK w \in 0 .. (Cardinality(InColumn(l, l[moved].column)) - 1) : r = MovedWithin(l, moved, w)
    BY <2>1 DEF DropsWithin
  <2>3. QED
    BY <2>2, WithinIsBoard
<1>2. CASE ResolveColumn(l, over) # l[moved].column
  <2> DEFINE to == ResolveColumn(l, over)
  <2>1. DropsAcross(l, moved, over, half, r)
    BY <1>2, ReorderIs
  <2>2. PICK k \in 0 .. Cardinality(InColumn(l, to)) : r = MovedAcross(l, moved, to, k)
    BY <2>1 DEF DropsAcross
  <2>3. to \in BoardColumns
    BY LayoutsAreTyped DEF LayoutTyped, ResolveColumn, Targets
  <2>4. QED
    BY <2>2, <2>3, <1>2, AcrossIsBoard
<1>3. QED
  BY <1>1, <1>2
-----------------------------------------------------------------------------

(* The other cards keep their columns and their order.                     *)
Orderly(l, r, moved) ==
  \A c, d \in BoardCards \ {moved} :
    /\ r[c].column = l[c].column
    /\ l[c].column = l[d].column /\ Above(l, c, d) => Above(r, c, d)

LEMMA AboveIsLess ==
  ASSUME NEW l \in BoardStates, NEW c \in BoardCards, NEW d \in BoardCards,
         l[c].column = l[d].column, Above(l, c, d)
  PROVE  l[c].order < l[d].order
<1>1. l \in [BoardCards -> [column : BoardColumns, order : Nat]]
  BY LayoutsAreTyped DEF LayoutTyped
<1>2. l[c].order = l[d].order => c = d
  BY <1>1, OrdersDiffer DEF InColumn
<1>3. c \in Nat /\ l[c].order \in Nat /\ l[d].order \in Nat
  BY <1>1, DragAssumption
<1>4. QED
  BY <1>2, <1>3 DEF Above

LEMMA ReorderIsOrderly ==
  ASSUME NEW l \in BoardStates, NEW moved \in BoardCards, NEW over \in Targets \ {moved},
         NEW half \in Halves
  PROVE  Orderly(l, ComputeReorder(l, moved, over, half), moved)
<1> DEFINE r == ComputeReorder(l, moved, over, half)
           col == l[moved].column
           o == l[moved].order
           to == ResolveColumn(l, over)
<1>1. l \in [BoardCards -> [column : BoardColumns, order : Nat]]
  BY LayoutsAreTyped DEF LayoutTyped
<1>2. \A c \in BoardCards \ {moved} : l[c].column = col => l[c].order # o
  <2>1. col \in BoardColumns /\ moved \in InColumn(l, col)
    BY <1>1 DEF InColumn
  <2>2. QED
    BY <2>1, OrdersDiffer DEF InColumn
<1>3. \A c \in BoardCards : l[c].order \in Nat
  BY <1>1
<1>5. CASE to = col
  <2>1. DropsWithin(l, moved, over, half, r)
    BY <1>5, ReorderIs
  <2>2. PICK w \in 0 .. (Cardinality(InColumn(l, col)) - 1) : r = MovedWithin(l, moved, w)
    BY <2>1 DEF DropsWithin
  <2>3. w \in Nat /\ o \in Nat
    BY <1>1, <2>2, ColumnsAreFinite
  <2> HIDE DEF r
  <2>4. ASSUME NEW c \in BoardCards \ {moved} PROVE r[c].column = l[c].column
    BY <2>2, PlaceCardIs DEF MovedWithin
  <2>5. ASSUME NEW c \in BoardCards \ {moved}, NEW d \in BoardCards \ {moved},
               l[c].column = l[d].column, Above(l, c, d)
        PROVE  Above(r, c, d)
    <3>1. l[c].order < l[d].order
      BY <2>5, AboveIsLess
    <3>2. CASE l[c].column = col
      <4> DEFINE g(i) == Grown(Shrunk(i, o), w)
      <4>1. r[c].order = g(l[c].order) /\ r[d].order = g(l[d].order)
        BY ZenonT(60), <2>2, <2>5, <3>2, PlaceCardIs DEF MovedWithin
      <4>2. l[c].order \in Nat \ {o} /\ l[d].order \in Nat \ {o}
        BY <1>2, <1>3, <2>5, <3>2
      <4>3. g(l[c].order) < g(l[d].order)
        <5> HIDE DEF o
        <5>1. QED
          BY <4>2, <3>1, <2>3 DEF Grown, Shrunk
      <4> HIDE DEF g
      <4>4. QED
        BY <4>1, <4>3 DEF Above
    <3>3. CASE l[c].column # col
      <4>1. r[c] = l[c] /\ r[d] = l[d]
        BY <2>2, <2>5, <3>3 DEF MovedWithin
      <4>2. QED
        BY <4>1, <2>5 DEF Above
    <3>4. QED
      BY <3>2, <3>3
  <2>6. QED
    BY <2>4, <2>5 DEF Orderly, r
<1>6. CASE to # col
  <2>1. DropsAcross(l, moved, over, half, r)
    BY <1>6, ReorderIs
  <2>2. PICK k \in 0 .. Cardinality(InColumn(l, to)) : r = MovedAcross(l, moved, to, k)
    BY <2>1 DEF DropsAcross
  <2>3. k \in Nat /\ o \in Nat
    BY <1>1, <2>2, ColumnsAreFinite
  <2> HIDE DEF r
  <2>4. ASSUME NEW c \in BoardCards \ {moved} PROVE r[c].column = l[c].column
    BY <2>2, PlaceCardIs DEF MovedAcross
  <2>5. ASSUME NEW c \in BoardCards \ {moved}, NEW d \in BoardCards \ {moved},
               l[c].column = l[d].column, Above(l, c, d)
        PROVE  Above(r, c, d)
    <3>1. l[c].order < l[d].order
      BY <2>5, AboveIsLess
    <3>2. CASE l[c].column = to
      <4>1. r[c].order = Grown(l[c].order, k) /\ r[d].order = Grown(l[d].order, k)
        BY ZenonT(60), <2>2, <2>5, <3>2, PlaceCardIs DEF MovedAcross
      <4>2. Grown(l[c].order, k) < Grown(l[d].order, k)
        BY <1>3, <3>1, <2>3 DEF Grown
      <4>3. QED
        BY <4>1, <4>2 DEF Above
    <3>3. CASE l[c].column = col
      <4>1. r[c].order = Shrunk(l[c].order, o) /\ r[d].order = Shrunk(l[d].order, o)
        BY ZenonT(60), <2>2, <2>5, <3>3, <1>6, PlaceCardIs DEF MovedAcross
      <4>2. l[c].order \in Nat \ {o} /\ l[d].order \in Nat \ {o}
        BY <1>2, <1>3, <2>5, <3>3
      <4>3. Shrunk(l[c].order, o) < Shrunk(l[d].order, o)
        <5> HIDE DEF o
        <5>1. QED
          BY <4>2, <3>1, <2>3 DEF Shrunk
      <4>4. QED
        BY <4>1, <4>3 DEF Above
    <3>4. CASE l[c].column \notin {to, col}
      <4>1. r[c] = l[c] /\ r[d] = l[d]
        BY <2>2, <2>5, <3>4 DEF MovedAcross
      <4>2. QED
        BY <4>1, <2>5 DEF Above
    <3>5. QED
      BY <3>2, <3>3, <3>4
  <2>6. QED
    BY <2>4, <2>5 DEF Orderly, r
<1>7. QED
  BY <1>5, <1>6

(* The card lands beside the one that is under the pointer.                *)
LEMMA LandsBeside ==
  ASSUME NEW l \in BoardStates, NEW moved \in BoardCards, NEW over \in BoardCards \ {moved},
         NEW half \in Halves, ~BelowTheLast(l, moved, over, half)
  PROVE  LET column == ColumnItems(ComputeReorder(l, moved, over, half), l[over].column) IN
           /\ moved \in Range(column)
           /\ Position(column, moved) + (1 - half) = Position(column, over) + half
<1> DEFINE r == ComputeReorder(l, moved, over, half)
           col == l[over].column
           o == l[moved].order
           v == l[over].order
           s == ColumnItems(r, col)
           n == Cardinality(InColumn(l, col))
<1>1. l \in [BoardCards -> [column : BoardColumns, order : Nat]]
  BY LayoutsAreTyped DEF LayoutTyped
<1>2. ResolveColumn(l, over) = col /\ over \in Targets \ {moved} /\ col \in BoardColumns
  BY <1>1, DragAssumption DEF ResolveColumn, Targets
<1>3. over \in InColumn(l, col) /\ v \in 0 .. (n - 1) /\ n \in Nat /\ half \in {0, 1}
  BY <1>2, OrderBound, ColumnsAreFinite DEF InColumn, Halves
<1>4. r \in BoardStates
  BY <1>2, ReorderIsBoard
<1>5. /\ r[moved].column = col /\ r[over].column = col
      /\ r[moved].order + (1 - half) = r[over].order + half
  <2>1. CASE l[moved].column = col
    <3>1. DropsWithin(l, moved, over, half, r)
      BY <1>2, <2>1, ReorderIs
    <3>2. r = MovedWithin(l, moved, SameColumnIndex(o, v, half, n))
      BY <3>1, <2>1 DEF DropsWithin
    <3> DEFINE w == SameColumnIndex(o, v, half, n)
    <3>3. moved \in InColumn(l, col) /\ o # v /\ o \in 0 .. (n - 1)
      BY <1>2, <1>3, <2>1, OrdersDiffer, OrderBound DEF InColumn
    <3>4. half = 1 => v < n - 1
      <4> SUFFICES ASSUME half = 1 PROVE v < n - 1
        OBVIOUS
      <4>1. PICK c \in InColumn(l, col) : Above(l, over, c)
        BY <2>1 DEF BelowTheLast
      <4>2. c \in BoardCards /\ l[c].column = col /\ l[c].order \in 0 .. (n - 1)
        BY <1>2, <4>1, OrderBound DEF InColumn
      <4>3. v < l[c].order
        BY <4>1, <4>2, AboveIsLess
      <4>4. QED
        BY <4>2, <4>3, <1>3
    <3> HIDE DEF r
    <3>5. /\ r[moved].column = col /\ r[over].column = col
          /\ r[moved].order = w /\ r[over].order = Grown(Shrunk(v, o), w)
      <4> HIDE DEF w
      <4>1. r = MovedWithin(l, moved, w)
        BY <3>2 DEF w
      <4>2. QED
        BY <4>1, <2>1, PlaceCardIs DEF MovedWithin
    <3>6. w + (1 - half) = Grown(Shrunk(v, o), w) + half
      <4> HIDE DEF o, v, n
      <4>1. QED
        BY <1>3, <3>3, <3>4 DEF SameColumnIndex, ClampIndex, Grown, Shrunk
    <3> HIDE DEF w
    <3>7. QED
      BY <3>5, <3>6
  <2>2. CASE l[moved].column # col
    <3>1. DropsAcross(l, moved, over, half, r)
      BY <1>2, <2>2, ReorderIs
    <3>2. r = MovedAcross(l, moved, col, v + half)
      BY <3>1, <1>2 DEF DropsAcross
    <3> HIDE DEF r
    <3> DEFINE k == v + half
    <3>3. /\ r[moved].column = col /\ r[over].column = col
          /\ r[moved].order = k /\ r[over].order = Grown(v, k)
      <4> HIDE DEF k
      <4>1. r = MovedAcross(l, moved, col, k)
        BY <3>2 DEF k
      <4>2. QED
        BY <4>1, <2>2, PlaceCardIs DEF MovedAcross
    <3>4. k + (1 - half) = Grown(v, k) + half
      <4> HIDE DEF v, n
      <4>1. QED
        BY <1>3 DEF Grown
    <3> HIDE DEF k
    <3>5. QED
      BY <3>3, <3>4
  <2>3. QED
    BY <2>1, <2>2
<1> HIDE DEF r
<1>6. moved \in InColumn(r, col) /\ over \in InColumn(r, col)
  BY <1>5 DEF InColumn
<1>7. Position(s, moved) = r[moved].order + 1 /\ Position(s, over) = r[over].order + 1
  BY <1>2, <1>4, <1>6, PlaceInColumn
<1>8. moved \in Range(s)
  <2> DEFINE N == Cardinality(InColumn(r, col))
             i == r[moved].order + 1
  <2>1. s \in [1 .. N -> InColumn(r, col)] /\ i \in 1 .. N /\ s[i] = moved
    BY <1>2, <1>4, <1>6, ColumnInOrder
  <2> HIDE DEF s, i, N
  <2>2. i \in DOMAIN s
    BY <2>1
  <2>3. QED
    BY <2>1, <2>2 DEF Range
<1>9. r[moved].order \in Nat /\ r[over].order \in Nat
  BY <1>4, LayoutsAreTyped DEF LayoutTyped
<1>10. QED
  <2> HIDE DEF s, col
  <2>1. Position(s, moved) + (1 - half) = Position(s, over) + half
    BY <1>3, <1>5, <1>7, <1>9
  <2>2. QED
    BY <2>1, <1>8 DEF s, col, r
-----------------------------------------------------------------------------
(* The inductive invariant of the boards: a preview is a full board, and   *)
(* what the drop under way makes of the items, until they change.          *)
DragTyped ==
  /\ items \in BoardStates
  /\ activeId \in BoardCards \cup {NoBoardCard}
  /\ lastOver \in (Targets \cup {NoBoardCard}) \X Halves
  /\ refetched \in BOOLEAN /\ drops \in 0 .. MaxDrops /\ refetches \in 0 .. MaxRefetches
  /\ activeId # NoBoardCard => drops < MaxDrops

PreviewIsADrop ==
  preview # NoBoardCard =>
    /\ activeId # NoBoardCard /\ preview \in BoardStates
    /\ ~refetched => Orderly(items, preview, activeId)

DragInv == DragTyped /\ PreviewIsADrop

LEMMA FirstBoardIsFull ==
  [c \in BoardCards |-> PlaceCard(CHOOSE col \in BoardColumns : TRUE, Cardinality({d \in BoardCards : d < c}))]
     \in BoardStates
<1> DEFINE first == CHOOSE col \in BoardColumns : TRUE
           Below(c) == {d \in BoardCards : d < c}
           f == [c \in BoardCards |-> Cardinality(Below(c))]
           N == Cardinality(BoardCards)
           l == [c \in BoardCards |-> PlaceCard(first, f[c])]
<1>1. IsFiniteSet(BoardCards) /\ N \in Nat /\ BoardCards \subseteq Nat
  BY DragAssumption, FS_CardinalityType
<1>2. first \in BoardColumns
  BY DragAssumption
<1>3. ASSUME NEW c \in BoardCards
      PROVE  IsFiniteSet(Below(c)) /\ f[c] \in 0 .. (N - 1)
  <2>1. Below(c) \in SUBSET BoardCards /\ c \notin Below(c)
    BY <1>1
  <2>2. IsFiniteSet(Below(c)) /\ Cardinality(Below(c)) \in Nat
    BY <1>1, <2>1, FS_Subset, FS_CardinalityType
  <2>3. Cardinality(Below(c)) <= N /\ Cardinality(Below(c)) # N
    BY <1>1, <2>1, FS_Subset
  <2> HIDE DEF Below, N
  <2>4. QED
    BY <1>1, <2>2, <2>3
<1>4. ASSUME NEW c \in BoardCards, NEW d \in BoardCards, c < d
      PROVE  f[c] # f[d]
  <2>0. c \in Nat /\ d \in Nat /\ \A x \in BoardCards : x \in Nat /\ (x < c => x < d)
    BY <1>1, <1>4
  <2>1. Below(c) \in SUBSET Below(d) /\ c \in Below(d) /\ c \notin Below(c)
    <3>1. \A x \in Below(c) : x \in Below(d)
      BY <2>0, Zenon DEF Below
    <3>2. c \in Below(d)
      BY <1>4, Zenon DEF Below
    <3>3. c \notin Below(c)
      <4>1. ~(c < c)
        BY <2>0
      <4>2. QED
        BY <4>1, Zenon DEF Below
    <3>4. QED
      BY <3>1, <3>2, <3>3, Zenon
  <2>2. IsFiniteSet(Below(d))
    BY <1>3
  <2>3. Cardinality(Below(c)) # Cardinality(Below(d))
    BY <2>1, <2>2, FS_Subset
  <2>4. QED
    BY <2>3
<1>5. f \in Injection(BoardCards, 0 .. (N - 1))
  <2>1. f \in [BoardCards -> 0 .. (N - 1)]
    BY <1>3
  <2> HIDE DEF f
  <2>2. \A a, b \in BoardCards : f[a] = f[b] => a = b
    BY <1>1, <1>4
  <2>3. QED
    BY <2>1, <2>2 DEF Injection, IsInjective
<1>6. f \in Surjection(BoardCards, 0 .. (N - 1))
  <2>1. IsFiniteSet(0 .. (N - 1)) /\ Cardinality(0 .. (N - 1)) = N
    <3> HIDE DEF N
    <3>1. 0 \in Int /\ N - 1 \in Int
      BY <1>1
    <3>2. /\ IsFiniteSet(0 .. (N - 1))
          /\ Cardinality(0 .. (N - 1)) = IF 0 > N - 1 THEN 0 ELSE (N - 1) - 0 + 1
      BY <3>1, FS_Interval, Zenon
    <3>3. QED
      BY <1>1, <3>2
  <2>2. QED
    BY <1>1, <1>5, <2>1, FS_Injection
<1> HIDE DEF f, first
<1>7. f \in [BoardCards -> 0 .. (N - 1)] /\ \A i \in 0 .. (N - 1) : \E c \in BoardCards : f[c] = i
  BY <1>6 DEF Surjection
<1>8. LayoutTyped(l)
  BY <1>1, <1>2, <1>7 DEF LayoutTyped, PlaceCard
<1>9. \A c \in BoardCards : l[c].column = first /\ l[c].order = f[c]
  BY PlaceCardIs
<1>10. InColumn(l, first) = BoardCards /\ \A q \in BoardColumns \ {first} : InColumn(l, q) = {}
  BY <1>9 DEF InColumn
<1> HIDE DEF l
<1>11. ASSUME NEW q \in BoardColumns PROVE FullColumn(l, q, Cardinality(InColumn(l, q)))
  <2>1. CASE q = first
    BY <2>1, <1>7, <1>9, <1>10 DEF FullColumn
  <2>2. CASE q # first
    <3>1. InColumn(l, q) = {} /\ Cardinality(InColumn(l, q)) = 0
      BY <2>2, <1>10, FS_EmptySet
    <3>2. QED
      BY <3>1 DEF FullColumn
  <2>3. QED
    BY <2>1, <2>2
<1>12. l \in BoardStates
  BY <1>8, <1>11, FullBoards
<1>13. \A c \in BoardCards : f[c] = Cardinality({d \in BoardCards : d < c})
  BY DEF f
<1>14. l = [c \in BoardCards |-> PlaceCard(first, Cardinality({d \in BoardCards : d < c}))]
  BY <1>13, Zenon DEF l
<1>15. QED
  BY <1>12, <1>14, Zenon DEF first

LEMMA DragStarts == ASSUME DragInit PROVE DragInv
<1>1. items \in BoardStates
  BY FirstBoardIsFull DEF DragInit
<1>2. MaxDrops \in Nat /\ MaxRefetches \in Nat
  BY DragAssumption
<1>3. lastOver \in (Targets \cup {NoBoardCard}) \X Halves
  BY DEF DragInit, NoOver, Halves
<1>4. /\ activeId \in BoardCards \cup {NoBoardCard} /\ activeId = NoBoardCard /\ refetched \in BOOLEAN
      /\ drops \in 0 .. MaxDrops /\ refetches \in 0 .. MaxRefetches
  <2>1. activeId = NoBoardCard /\ refetched = FALSE /\ drops = 0 /\ refetches = 0
    BY Zenon DEF DragInit
  <2>2. refetched \in BOOLEAN
    BY <2>1, Zenon
  <2>3. drops \in 0 .. MaxDrops /\ refetches \in 0 .. MaxRefetches
    BY <2>1, <1>2
  <2>4. QED
    BY <2>1, <2>2, <2>3
<1>5. QED
  BY <1>1, <1>3, <1>4 DEF DragInit, DragInv, DragTyped, PreviewIsADrop

LEMMA DroppedIsNew ==
  ASSUME NEW l \in BoardStates, NEW new \in BoardStates
  PROVE  DropApplied(l, Updates(l, new)) = new
<1> DEFINE u == Updates(l, new)
<1>0. \A c \in BoardCards : new[c] # l[c] => <<c, new[c]>> \in u
  BY DEF Updates
<1>1. \A c \in BoardCards : (\E x \in u : x[1] = c) <=> new[c] # l[c]
  <2> TAKE c \in BoardCards
  <2>1. ASSUME new[c] # l[c] PROVE \E x \in u : x[1] = c
    <3>1. <<c, new[c]>> \in u /\ <<c, new[c]>>[1] = c
      BY <1>0, <2>1
    <3> HIDE DEF u
    <3>2. QED
      BY <3>1
  <2>2. ASSUME NEW x \in u, x[1] = c PROVE new[c] # l[c]
    BY <2>2 DEF Updates
  <2>3. QED
    BY <2>1, <2>2
<1>2. \A c \in BoardCards : new[c] # l[c] => (CHOOSE x \in u : x[1] = c)[2] = new[c]
  <2> TAKE c \in BoardCards
  <2> HAVE new[c] # l[c]
  <2>1. \E x \in u : x[1] = c
    BY <1>1
  <2>2. \A x \in u : x[1] = c => x[2] = new[c]
    BY DEF Updates
  <2> HIDE DEF u
  <2>3. QED
    BY <2>1, <2>2
<1> HIDE DEF u
<1>3. DropApplied(l, u) = [c \in BoardCards |-> new[c]]
  BY <1>1, <1>2 DEF DropApplied
<1>4. new = [c \in BoardCards |-> new[c]]
  BY DEF BoardStates
<1>5. QED
  BY <1>3, <1>4 DEF u

(* What a drop makes of the items.                                         *)
LEMMA DropIsADrop ==
  ASSUME DragInv, activeId # NoBoardCard, NEW over \in Under, NEW half \in Halves
  PROVE  /\ DropOf(over, half) \in BoardStates
         /\ ~refetched => Orderly(items, DropOf(over, half), activeId)
<1> USE DEF DragInv
<1>1. activeId \in BoardCards /\ items \in BoardStates
  BY DEF DragTyped
<1>2. CASE preview # NoBoardCard
  BY <1>2 DEF DropOf, PreviewIsADrop
<1>3. CASE preview = NoBoardCard /\ over \in {NoBoardCard, activeId}
  BY <1>1, <1>3 DEF DropOf, Orderly
<1>4. CASE preview = NoBoardCard /\ over \notin {NoBoardCard, activeId}
  <2>1. lastOver[1] \in Targets \cup {NoBoardCard}
    BY DEF DragTyped
  <2>2. items \in [BoardCards -> [column : BoardColumns, order : Nat]]
    BY <1>1, LayoutsAreTyped DEF LayoutTyped
  <2>3. over \in Targets
    BY <1>4, <2>1, <2>2 DEF Under, Targets
  <2>4. DropTarget(over) \in Targets \ {activeId}
    BY <1>4, <2>1, <2>3 DEF DropTarget
  <2>5. DropOf(over, half) = ComputeReorder(items, activeId, DropTarget(over), half)
    BY <1>4 DEF DropOf
  <2> HIDE DEF DragInv
  <2>6. QED
    BY <1>1, <2>4, <2>5, ReorderIsBoard, ReorderIsOrderly
<1>5. QED
  BY <1>2, <1>3, <1>4

LEMMA DragSteps == ASSUME DragInv, [DragNext]_dragVars PROVE DragInv'
<1> USE DEF DragInv
<1>1. CASE UNCHANGED dragVars
  BY <1>1 DEF dragVars, drag, DragTyped, PreviewIsADrop
<1>2. ASSUME NEW c \in BoardCards, HandleStart(c) PROVE DragInv'
  <2>1. DragTyped'
    BY <1>2 DEF HandleStart, DragTyped, NoOver, Halves
  <2>2. QED
    BY <1>2, <2>1 DEF HandleStart, PreviewIsADrop
<1>3. ASSUME NEW over \in Targets, NEW half \in Halves, HandleOver(over, half) PROVE DragInv'
  <2>1. DragTyped'
    BY <1>3 DEF HandleOver, DragTyped
  <2>2. PreviewIsADrop'
    <3> SUFFICES ASSUME preview' # NoBoardCard PROVE preview' \in BoardStates /\ Orderly(items, preview', activeId)
      BY <1>3 DEF HandleOver, PreviewIsADrop
    <3>1. preview' = Preview(items, activeId, over, half) /\ preview' # items
      BY <1>3 DEF HandleOver
    <3>2. activeId # over /\ preview' = ComputeReorder(items, activeId, over, half)
      BY <3>1 DEF Preview
    <3>3. activeId \in BoardCards /\ items \in BoardStates /\ over \in Targets \ {activeId}
      BY <1>3, <3>2 DEF HandleOver, DragTyped
    <3>4. QED
      BY <3>2, <3>3, ReorderIsBoard, ReorderIsOrderly
  <2>3. QED
    BY <2>1, <2>2
<1>4. ASSUME NEW over \in Under, NEW half \in Halves, HandleEnd(over, half) PROVE DragInv'
  <2>1. DropOf(over, half) \in BoardStates /\ items \in BoardStates
    BY <1>4, DropIsADrop DEF HandleEnd, DragTyped
  <2>2. items' \in BoardStates
    BY <1>4, <2>1, DroppedIsNew DEF HandleEnd
  <2>3. drops' \in 0 .. MaxDrops
    BY <1>4, DragAssumption DEF HandleEnd, DragTyped
  <2>4. DragTyped'
    BY <1>4, <2>2, <2>3 DEF HandleEnd, Ended, DragTyped, NoOver, Halves
  <2>5. QED
    BY <1>4, <2>4 DEF HandleEnd, Ended, PreviewIsADrop
<1>5. CASE HandleCancel
  <2>1. DragTyped'
    BY <1>5 DEF HandleCancel, Ended, DragTyped, NoOver, Halves
  <2>2. QED
    BY <1>5, <2>1 DEF HandleCancel, Ended, PreviewIsADrop
<1>6. CASE ItemsChange
  <2>1. PICK c \in BoardCards : \E over \in Targets \ {c} : items' = ComputeReorder(items, c, over, 0)
    BY <1>6 DEF ItemsChange
  <2>2. PICK over \in Targets \ {c} : items' = ComputeReorder(items, c, over, 0)
    BY <2>1
  <2>3. items' \in BoardStates
    BY <2>2, ReorderIsBoard DEF DragTyped, Halves
  <2>4. refetches' \in 0 .. MaxRefetches
    BY <1>6, DragAssumption DEF ItemsChange, DragTyped
  <2>5. DragTyped'
    BY <1>6, <2>3, <2>4 DEF ItemsChange, DragTyped
  <2>6. QED
    BY <1>6, <2>5 DEF ItemsChange, PreviewIsADrop
<1>7. QED
  BY <1>1, <1>2, <1>3, <1>4, <1>5, <1>6 DEF DragNext

LEMMA DragTypes == ASSUME DragInv PROVE DragTypeOK
BY DEF DragInv, DragTyped, PreviewIsADrop, DragTypeOK

LEMMA CardsLand == ASSUME DragInv PROVE LandsUnderThePointer
<1>1. items \in BoardStates
  BY DEF DragInv, DragTyped
<1>2. QED
  BY <1>1, LandsBeside DEF LandsUnderThePointer, Lands

(* The step of OthersKeepTheirOrder.                                       *)
LEMMA OrderKept ==
  ASSUME DragInv, [DragNext]_dragVars, drops' = drops + 1, ~refetched
  PROVE  Orderly(items, items', activeId)
<1>1. drops' # drops
  BY DragAssumption DEF DragInv, DragTyped
<1>2. PICK over \in Under : \E half \in Halves : HandleEnd(over, half)
  BY <1>1 DEF DragNext, dragVars, HandleStart, HandleOver, HandleCancel, ItemsChange
<1>3. PICK half \in Halves : HandleEnd(over, half)
  BY <1>2
<1>4. DropOf(over, half) \in BoardStates /\ Orderly(items, DropOf(over, half), activeId)
  BY <1>3, DropIsADrop DEF HandleEnd
<1>5. items' = DropOf(over, half)
  BY <1>3, <1>4, DroppedIsNew DEF HandleEnd, DragInv, DragTyped
<1>6. QED
  BY <1>4, <1>5
-----------------------------------------------------------------------------
(* The page of a record and the queries it invalidates.                    *)
CardOps == {"archive", "restore", "delete", "copy", "copy team", "status", "join", "attach",
            "detach", "convert"}
CardSteps == CardOps \cup {"client", "contact", "link"}
CardArgs == {"todo", "won", "none"} \cup Partners \cup SUBSET {"me", "other"}

ArgFits(op, arg) ==
  /\ op = "status" => arg \in {"todo", "won"}
  /\ op = "join" => arg \subseteq {"me", "other"}
  /\ op \in {"attach", "detach"} => arg \in Partners

CardRequests ==
  [op : CardOps, step : CardSteps, arg : CardArgs, before : CardRecords,
   state : {"sent", "done", "refused"}, answer : CardRecords \cup {NoCard}]

JobFits(j) ==
  /\ j \in CardRequests /\ j.step \in StepsOf(j.op) /\ ArgFits(j.op, j.arg)
  /\ j.before.life # "gone"
  /\ j.state = "done" => j.answer \in CardRecords /\ (j.op # "delete" => j.answer.life # "gone")

AskedFits == asked = <<>> \/ (asked[1] \in CardOps /\ asked[2] \in CardArgs /\ ArgFits(asked[1], asked[2]))

CardTyped ==
  /\ CardTypeOK /\ cardPage \in DOMAIN Offers
  /\ \A j \in jobs : JobFits(j)
  /\ AskedFits /\ undo \in Partners \cup {NoCard}
  /\ {unsure, cardNews} \subseteq BOOLEAN

(* Why the record may differ from its copy: something is still to come.    *)
MoreToCome(j) == j.op = "status" \/ j.state = "done" \/ j.step # j.op
CopyIsTrueOrWaits ==
  cardCache # NoCard /\ card.life # "gone" /\ cardPage \notin {"client", "contact"} =>
    \/ cardNews \/ unsure
    \/ \E j \in jobs : MoreToCome(j)
    \/ cardFetch \in {Asking, card}
    \/ cardFetch = NoFetch /\ cardCache = card

CardInv == CardTyped /\ CopyIsTrueOrWaits
-----------------------------------------------------------------------------
LEMMA PagesAre ==
  /\ DOMAIN Offers = {"candidate", "vacancy", "lead", "tender", "client", "contact", "task"}
  /\ \A p \in DOMAIN Offers : Mutations[p] \subseteq CardOps /\ Features[p] \subseteq CardOps
<1>1. DOMAIN Offers = {"candidate", "vacancy", "lead", "tender", "client", "contact", "task"}
  BY DEF Offers
<1>2. \A p \in {"candidate", "vacancy", "lead", "tender", "client", "contact", "task"} : Mutations[p] \subseteq CardOps
  <2>1. Mutations.candidate \subseteq CardOps
    BY DEF Mutations, CardOps, CandidateMutations
  <2>2. Mutations.vacancy \subseteq CardOps
    BY DEF Mutations, CardOps, VacancyMutations
  <2>3. Mutations.lead \subseteq CardOps
    BY DEF Mutations, CardOps, LeadMutations
  <2>4. Mutations.tender \subseteq CardOps
    BY DEF Mutations, CardOps, TenderMutations
  <2>5. Mutations.client \subseteq CardOps
    BY DEF Mutations, CardOps, ClientMutations
  <2>6. Mutations.contact \subseteq CardOps
    BY DEF Mutations, CardOps, ContactMutations
  <2>7. Mutations.task \subseteq CardOps
    BY DEF Mutations, CardOps, TaskMutations
  <2> QED
    BY <2>1, <2>2, <2>3, <2>4, <2>5, <2>6, <2>7
<1>3. \A p \in {"candidate", "vacancy", "lead", "tender", "client", "contact", "task"} : Features[p] \subseteq CardOps
  <2>1. Features.candidate \subseteq CardOps
    BY DEF Features, CardOps
  <2>2. Features.vacancy \subseteq CardOps
    BY DEF Features, CardOps
  <2>3. Features.lead \subseteq CardOps
    BY DEF Features, CardOps
  <2>4. Features.tender \subseteq CardOps
    BY DEF Features, CardOps
  <2>5. Features.client \subseteq CardOps
    BY DEF Features, CardOps
  <2>6. Features.contact \subseteq CardOps
    BY DEF Features, CardOps
  <2>7. Features.task \subseteq CardOps
    BY DEF Features, CardOps
  <2> QED
    BY <2>1, <2>2, <2>3, <2>4, <2>5, <2>6, <2>7
<1> QED
  BY <1>1, <1>2, <1>3

LEMMA EffectTyped ==
  ASSUME NEW c \in CardRecords, c.life # "gone", NEW op \in CardOps, NEW step \in StepsOf(op),
         NEW arg, ArgFits(op, arg)
  PROVE  /\ CardEffect(step, arg, c) \in CardRecords
         /\ op # "delete" => CardEffect(step, arg, c).life # "gone"
<1> USE DEF CardRecords
<1>1. (step = "status" => op = "status") /\ (step = "join" => op = "join") /\ (step = "delete" => op = "delete")
      /\ (step \in {"attach", "detach"} => op = step)
  BY DEF StepsOf
<1>2. CASE step \in {"archive", "restore", "delete"}
  BY <1>1, <1>2 DEF CardEffect
<1>3. CASE step = "status"
  BY <1>1, <1>3 DEF CardEffect, ArgFits
<1>4. CASE step = "join"
  BY <1>1, <1>4 DEF CardEffect, ArgFits
<1>5. CASE step = "attach"
  BY <1>1, <1>5 DEF CardEffect, ArgFits
<1>6. CASE step = "detach"
  BY <1>1, <1>6 DEF CardEffect, ArgFits
<1>7. CASE step = "client"
  BY <1>1, <1>7 DEF CardEffect
<1>8. CASE step = "link"
  BY <1>1, <1>8 DEF CardEffect
<1>9. CASE step \notin {"archive", "restore", "delete", "status", "join", "attach", "detach", "client", "link"}
  BY <1>1, <1>9 DEF CardEffect
<1> QED
  BY <1>2, <1>3, <1>4, <1>5, <1>6, <1>7, <1>8, <1>9

(* Where the rights the page goes by and those the server asks for differ. *)
LEMMA OffersAreGuarded ==
  ASSUME NEW p \in DOMAIN Offers, p # "tender", NEW op \in {o[1] : o \in Offers[p]}, op # "convert"
  PROVE  \A e : e[1] = op => (e \in Offers[p] <=> e \in Guards[p])
<1>1. p \in {"candidate", "vacancy", "lead", "client", "contact", "task"}
  BY PagesAre
<1>2. CASE p = "candidate"
  BY <1>2 DEF Offers, Guards, CandidateOffers, CandidateHeader, CandidateMenu, CandidateBanner,
     CandidateVacancies, CandidateScreenings, CandidateGuards, MatchGuards
<1>3. CASE p = "vacancy"
  BY <1>3 DEF Offers, Guards, VacancyOffers, VacancyHeader, VacancyStatus, JoinedRecruiters,
     VacancyCandidates, VacancyGuards, MatchGuards
<1>4. CASE p = "lead"
  BY <1>4 DEF Offers, Guards, LeadOffers, LeadHeader, LeadGuards, ConvertGuards
<1>5. CASE p = "client"
  BY <1>5 DEF Offers, Guards, ClientOffers, ClientHeader, ClientSections, ClientGuards
<1>6. CASE p = "contact"
  BY <1>6 DEF Offers, Guards, ContactOffers, ContactGuards
<1>7. CASE p = "task"
  BY <1>7 DEF Offers, Guards, TaskOffers, TaskHeader, TaskGuards
<1> QED
  BY <1>1, <1>2, <1>3, <1>4, <1>5, <1>6, <1>7

(* A conversion takes three requests, each with a right of its own.        *)
LEMMA ConversionIsServed ==
  ASSUME cardPage = "lead", known = granted, cardCache # NoCard, cardCache = card, card.life # "gone",
         "client:edit" \in granted, ~card.linked
  PROVE  Agree("convert")
<1>1. StepsOf("convert") = {"client", "contact", "link"}
  BY DEF StepsOf
<1>2. Offers[cardPage] = LeadOffers /\ Guards[cardPage] = LeadGuards \cup ConvertGuards
  BY DEF Offers, Guards
<1> DEFINE rights == granted \cup RoleRights(cardRole)
<1>a. /\ <<"convert", "lead:access">> \in LeadOffers /\ <<"convert", "client:create">> \in LeadOffers
      /\ \A e \in LeadOffers : e[1] = "convert" => e[2] \in {"lead:access", "client:create"}
  BY DEF LeadOffers, LeadHeader
<1>b. \A e \in LeadGuards \cup ConvertGuards :
        /\ e[1] = "client" => e[2] = "client:create"
        /\ e[1] = "link" => e[2] = "lead:access"
  BY DEF LeadGuards, ConvertGuards
<1>c. <<"client", "client:create">> \in ConvertGuards /\ <<"link", "lead:access">> \in LeadGuards
  BY DEF LeadGuards, ConvertGuards
<1>d. /\ Can(LeadOffers, "convert", granted) <=> "lead:access" \in rights /\ "client:create" \in rights
      /\ Can(LeadGuards \cup ConvertGuards, "client", granted) <=> "client:create" \in rights
      /\ Can(LeadGuards \cup ConvertGuards, "link", granted) <=> "lead:access" \in rights
  BY <1>a, <1>b, <1>c DEF Can
<1>e. "convert" \in {o[1] : o \in LeadOffers}
  BY <1>a
<1> HIDE DEF rights
<1>3. CardOffered("convert") <=> "lead:access" \in rights /\ "client:create" \in rights
  BY <1>2, <1>d, <1>e DEF CardOffered, Possible
<1>4. CardServed("client", card) <=> "client:create" \in rights
  BY <1>2, <1>d DEF CardServed, Possible
<1>5. CardServed("contact", card)
  BY <1>2 DEF CardServed, Can, Possible, LeadGuards, ConvertGuards
<1>6. CardServed("link", card) <=> "lead:access" \in rights
  BY <1>2, <1>d DEF CardServed, Possible
<1> QED
  BY <1>1, <1>3, <1>4, <1>5, <1>6 DEF Agree

(* Whoever has the rights the server asks of a tender is offered all.      *)
LEMMA TenderIsServed ==
  ASSUME cardPage = "tender", cardCache # NoCard, cardCache = card, card.life # "gone",
         NEW op \in {o[1] : o \in Offers[cardPage]}, Can(TenderGuards, op, granted)
  PROVE  Agree(op)
<1>1. Offers[cardPage] = TenderOffers /\ Guards[cardPage] = TenderGuards
  BY DEF Offers, Guards
<1>2. op \in {"edit", "copy", "delete", "status"}
  BY <1>1 DEF TenderOffers
<1>3. StepsOf(op) = {op}
  BY <1>2 DEF StepsOf
<1>4. "anyone" \in RoleRights(cardRole)
  BY DEF RoleRights, RoleTags
<1>5. Can(Offers[cardPage], op, known)
  BY <1>1, <1>4 DEF Can, TenderOffers
<1>6. CardOffered(op) <=> CardServed(op, card)
  BY <1>1, <1>5, Zenon DEF CardOffered, CardServed
<1> QED
  BY <1>3, <1>6 DEF Agree

LEMMA OnlyLeadsConvert ==
  ASSUME NEW p \in DOMAIN Offers, "convert" \in {o[1] : o \in Offers[p]}
  PROVE  p = "lead"
<1>1. p \in {"candidate", "vacancy", "lead", "tender", "client", "contact", "task"}
  BY PagesAre
<1> SUFFICES ASSUME NEW o \in Offers[p], o[1] = "convert" PROVE p = "lead"
  OBVIOUS
<1>a. \A w, x, y : \A e \in {<<"edit", w>>, <<"delete", x>>, <<"copy", y>>} : e[1] # "convert"
  OBVIOUS
<1>b. \A w, x, y, z : w # "convert" => \A e \in {<<w, x>>, <<w, y>>, <<"status", z>>} : e[1] # "convert"
  OBVIOUS
<1>2. p # "candidate"
  BY DEF Offers, CandidateOffers, CandidateHeader, CandidateMenu, CandidateBanner,
     CandidateVacancies, CandidateScreenings
<1>3. p # "vacancy"
  <2>1. \A e \in VacancyCandidates : e[1] # "convert"
    BY DEF VacancyCandidates
  <2>2. \A e \in VacancyHeader : e[1] # "convert"
    <3>1. "copy team" # "convert"
      BY Zenon
    <3> QED
      BY <1>a, <1>b, <3>1, Zenon DEF VacancyHeader
  <2>3. \A e \in VacancyStatus \cup JoinedRecruiters : e[1] # "convert"
    BY DEF VacancyStatus, JoinedRecruiters
  <2> QED
    BY <2>1, <2>2, <2>3 DEF Offers, VacancyOffers
<1>4. p # "tender"
  BY DEF Offers, TenderOffers
<1>5. p # "client"
  BY DEF Offers, ClientOffers, ClientHeader, ClientSections
<1>6. p # "contact"
  BY DEF Offers, ContactOffers
<1>7. p # "task"
  <2>1. \A e \in TaskHeader : e[1] # "convert"
    BY <1>a, Zenon DEF TaskHeader
  <2>2. \A z : \A e \in {<<"status", z>>} : e[1] # "convert"
    OBVIOUS
  <2>3. \A e \in TaskOffers : e[1] # "convert"
    BY <2>1, <2>2, Zenon DEF TaskOffers
  <2> QED
    BY <2>3 DEF Offers
<1> QED
  BY <1>1, <1>2, <1>3, <1>4, <1>5, <1>6, <1>7

LEMMA OffersAreServed == CardTyped => OfferedIsServed
<1> SUFFICES ASSUME CardTyped, known = granted, cardCache # NoCard, cardCache = card,
                    NEW op \in {o[1] : o \in Offers[cardPage]}, ~OfferedOtherwise(op)
             PROVE  Agree(op)
  BY DEF OfferedIsServed
<1>1. card.life # "gone"
  BY DEF CardTyped, CardTypeOK
<1>2. CASE op = "convert"
  <2>1. cardPage = "lead"
    BY <1>2, OnlyLeadsConvert DEF CardTyped
  <2> QED
    BY <1>1, <1>2, <2>1, ConversionIsServed DEF OfferedOtherwise
<1>3. CASE cardPage = "tender"
  BY <1>1, <1>3, TenderIsServed DEF OfferedOtherwise
<1>4. CASE op # "convert" /\ cardPage # "tender"
  <2>1. StepsOf(op) = {op}
    BY <1>4 DEF StepsOf
  <2>2. \A e : e[1] = op => (e \in Offers[cardPage] <=> e \in Guards[cardPage])
    BY <1>4, OffersAreGuarded DEF CardTyped
  <2>3. Can(Offers[cardPage], op, known) <=> Can(Guards[cardPage], op, granted)
    BY <2>2 DEF Can
  <2>4. ~(cardPage = "candidate" /\ op = "copy" /\ card.contacts)
    BY DEF OfferedOtherwise
  <2>5. CardOffered(op) <=> CardServed(op, card)
    BY <1>1, <2>3, <2>4, Zenon DEF CardOffered, CardServed
  <2> QED
    BY <2>1, <2>5 DEF Agree
<1> QED
  BY <1>2, <1>3, <1>4

LEMMA CardStarts == CardInit => CardInv
<1> SUFFICES ASSUME CardInit PROVE CardInv
  OBVIOUS
<1>1. card \in CardRecords /\ card.life = "active"
  BY DEF CardInit, CardRecords
<1>2. /\ cardCache = card /\ cardFetch = NoFetch /\ asked = <<>> /\ jobs = {} /\ undo = NoCard
      /\ unsure = FALSE /\ cardNews = FALSE /\ cardPage \in DOMAIN Offers
  BY DEF CardInit
<1>3. CardTypeOK
  BY <1>1, <1>2, CardAssumption DEF CardTypeOK
<1> QED
  BY <1>1, <1>2, <1>3 DEF CardInv, CardTyped, AskedFits, CopyIsTrueOrWaits

(* A mutation that is started.                                             *)
LEMMA StartTyped ==
  ASSUME CardTyped, NEW op \in CardOps, NEW arg \in CardArgs, ArgFits(op, arg), cardCache # NoCard,
         CardStart(op, arg)
  PROVE  /\ \A j \in jobs' : JobFits(j)
         /\ \A j, k \in jobs' : j.op = k.op => j = k
         /\ cardCache' \in CardRecords /\ cardCache'.life # "gone" /\ cardCache' # NoCard
         /\ cardFetch' \in CardRecords \cup {NoFetch, Asking}
         /\ jobs \subseteq jobs'
         /\ IF op = "status" THEN \E j \in jobs' : MoreToCome(j)
            ELSE cardCache' = cardCache /\ cardFetch' = cardFetch
<1> DEFINE st == CHOOSE s \in StepsOf(op) : s \in {op, "client"}
           new == [op |-> op, step |-> st, arg |-> arg, before |-> cardCache, state |-> "sent", answer |-> NoCard]
<1>1. st \in StepsOf(op) /\ st \in CardSteps
  BY DEF StepsOf, CardSteps, CardOps
<1>2. cardCache \in CardRecords /\ cardCache.life # "gone" /\ cardFetch \in CardRecords \cup {NoFetch, Asking}
  BY DEF CardTyped, CardTypeOK
<1>3. jobs' = jobs \cup {new} /\ ~\E j \in jobs : j.op = op
  BY DEF CardStart
<1> HIDE DEF st
<1>4. JobFits(new) /\ new.op = op
  BY <1>1, <1>2 DEF JobFits, CardRequests
<1> HIDE DEF new
<1>5. \A j, k \in jobs : j.op = k.op => j = k
  BY DEF CardTyped, CardTypeOK
<1>6. CASE op = "status"
  <2>1. cardCache' = [cardCache EXCEPT !.status = arg] /\ cardFetch' = NoFetch
    BY <1>6 DEF CardStart
  <2>2. cardCache' \in CardRecords /\ cardCache'.life # "gone"
    BY <1>2, <1>6, <2>1 DEF CardRecords, ArgFits
  <2>3. cardCache' # NoCard
    BY <2>2, CardAssumption
  <2> QED
    BY <1>3, <1>4, <1>5, <1>6, <2>1, <2>2, <2>3 DEF CardTyped, MoreToCome
<1>7. CASE op # "status"
  <2>1. cardCache' = cardCache /\ cardFetch' = cardFetch
    BY <1>7 DEF CardStart
  <2> QED
    BY <1>2, <1>3, <1>4, <1>5, <1>7, <2>1 DEF CardTyped
<1> QED
  BY <1>6, <1>7

LEMMA ArgsTyped ==
  ASSUME CardTyped, NEW op \in CardOps, cardCache # NoCard, NEW arg \in Args(op)
  PROVE  arg \in CardArgs /\ ArgFits(op, arg)
<1>1. cardCache \in CardRecords
  BY DEF CardTyped, CardTypeOK
<1>2. cardCache.team \subseteq {"me", "other"} /\ cardCache.partners \subseteq Partners
  BY <1>1 DEF CardRecords
<1> QED
  BY <1>2 DEF Args, CardArgs, ArgFits, CardOps

LEMMA CardTypedSteps == CardTyped /\ [CardNext]_cardVars => CardTyped'
<1> SUFFICES ASSUME CardTyped, [CardNext]_cardVars PROVE CardTyped'
  OBVIOUS
<1>0. /\ card \in CardRecords /\ cardCache \in CardRecords \cup {NoCard}
      /\ cardFetch \in CardRecords \cup {NoFetch, Asking}
      /\ cardCache # NoCard => cardCache.life # "gone"
      /\ cardCache = NoCard => cardFetch = NoFetch
      /\ \A j, k \in jobs : j.op = k.op => j = k
      /\ \A j \in jobs : JobFits(j)
      /\ undo \in Partners \cup {NoCard} /\ unsure \in BOOLEAN /\ cardNews \in BOOLEAN
      /\ cardPage \in DOMAIN Offers /\ AskedFits
  BY DEF CardTyped, CardTypeOK
<1>h. ASSUME card' \in CardRecords, cardCache' \in CardRecords \cup {NoCard},
             cardFetch' \in CardRecords \cup {NoFetch, Asking},
             cardCache' # NoCard => cardCache'.life # "gone",
             cardCache' = NoCard => cardFetch' = NoFetch,
             \A j, k \in jobs' : j.op = k.op => j = k,
             \A j \in jobs' : JobFits(j),
             undo' \in Partners \cup {NoCard}, unsure' \in BOOLEAN, cardNews' \in BOOLEAN,
             cardPage' \in DOMAIN Offers, AskedFits'
      PROVE  CardTyped'
  BY <1>h DEF CardTyped, CardTypeOK
<1>a. asked' \in {asked, <<>>} => AskedFits'
  BY <1>0 DEF AskedFits
<1>o. Mutations[cardPage] \subseteq CardOps /\ Features[cardPage] \subseteq CardOps
  BY <1>0, PagesAre
<1>1. ASSUME NEW op \in Mutations[cardPage], NEW arg \in Args(op), Click(op, arg) PROVE CardTyped'
  <2>1. cardCache # NoCard /\ op \in CardOps
    BY <1>1, <1>o DEF Click, CardOffered
  <2>2. arg \in CardArgs /\ ArgFits(op, arg)
    BY <2>1, ArgsTyped
  <2>3. UNCHANGED <<cardUser, known, card, undo, unsure, cardNews, cardOthers>>
    BY <1>1 DEF Click
  <2>4. CASE asked' = <<op, arg>> /\ UNCHANGED <<cardCache, cardFetch, jobs, clicks>>
    <3>1. AskedFits'
      BY <2>1, <2>2, <2>4 DEF AskedFits
    <3> QED
      BY <1>0, <1>h, <2>3, <2>4, <3>1 DEF cardUser
  <2>5. CASE CardStart(op, arg) /\ asked' = asked
    <3>1. /\ \A j \in jobs' : JobFits(j)
          /\ \A j, k \in jobs' : j.op = k.op => j = k
          /\ cardCache' \in CardRecords /\ cardCache'.life # "gone" /\ cardCache' # NoCard
          /\ cardFetch' \in CardRecords \cup {NoFetch, Asking}
      BY <2>1, <2>2, <2>5, StartTyped
    <3> QED
      BY <1>0, <1>a, <1>h, <2>3, <2>5, <3>1 DEF cardUser
  <2> QED
    BY <1>1, <2>4, <2>5 DEF Click
<1>2. CASE ConfirmCard
  <2>1. cardCache # NoCard /\ asked # <<>> /\ CardStart(asked[1], asked[2]) /\ asked' \in {asked, <<>>}
        /\ UNCHANGED <<cardUser, known, card, undo, unsure, cardNews, cardOthers>>
    BY <1>2 DEF ConfirmCard
  <2>2. asked[1] \in CardOps /\ asked[2] \in CardArgs /\ ArgFits(asked[1], asked[2])
    BY <1>0, <2>1 DEF AskedFits
  <2>3. /\ \A j \in jobs' : JobFits(j)
        /\ \A j, k \in jobs' : j.op = k.op => j = k
        /\ cardCache' \in CardRecords /\ cardCache'.life # "gone" /\ cardCache' # NoCard
        /\ cardFetch' \in CardRecords \cup {NoFetch, Asking}
    BY <2>1, <2>2, StartTyped
  <2> QED
    BY <1>0, <1>a, <1>h, <2>1, <2>3 DEF cardUser
<1>3. CASE Cancel
  BY <1>0, <1>a, <1>h, <1>3 DEF Cancel, cardUser
<1>4. CASE Undo
  <2>1. cardCache # NoCard /\ undo # NoCard /\ CardStart("attach", undo) /\ undo' = NoCard
        /\ UNCHANGED <<cardUser, known, card, asked, unsure, cardNews, cardOthers>>
    BY <1>4 DEF Undo
  <2>2. undo \in CardArgs /\ ArgFits("attach", undo) /\ "attach" \in CardOps
    BY <1>0, <2>1 DEF CardArgs, ArgFits, CardOps
  <2>3. /\ \A j \in jobs' : JobFits(j)
        /\ \A j, k \in jobs' : j.op = k.op => j = k
        /\ cardCache' \in CardRecords /\ cardCache'.life # "gone" /\ cardCache' # NoCard
        /\ cardFetch' \in CardRecords \cup {NoFetch, Asking}
    BY <2>1, <2>2, StartTyped
  <2> QED
    BY <1>0, <1>a, <1>h, <2>1, <2>3 DEF cardUser
<1>5. ASSUME NEW j \in jobs, ServeCardJob(j) PROVE CardTyped'
  <2>0. UNCHANGED <<cardUser, known, cardCache, cardFetch, asked, undo, unsure, cardNews, clicks, cardOthers>>
    BY <1>5 DEF ServeCardJob
  <2>1. JobFits(j) /\ j \in CardRequests
    BY <1>0 DEF JobFits
  <2>2. CASE CardServed(j.step, card)
    <3> DEFINE after == CardEffect(j.step, j.arg, card)
               k == [j EXCEPT !.state = "done", !.answer = after]
    <3>1. after \in CardRecords /\ (j.op # "delete" => after.life # "gone")
      BY <1>0, <2>1, <2>2, EffectTyped DEF JobFits, CardServed, CardRequests
    <3>2. card' = after /\ jobs' = (jobs \ {j}) \cup {k}
      BY <1>5, <2>2 DEF ServeCardJob
    <3> HIDE DEF after
    <3>3. JobFits(k) /\ k.op = j.op
      BY <2>1, <3>1 DEF JobFits, CardRequests
    <3> HIDE DEF k
    <3> QED
      BY <1>0, <1>a, <1>h, <2>0, <3>1, <3>2, <3>3 DEF cardUser
  <2>3. CASE ~CardServed(j.step, card)
    <3> DEFINE k == [j EXCEPT !.state = "refused"]
    <3>1. card' = card /\ jobs' = (jobs \ {j}) \cup {k}
      BY <1>5, <2>3 DEF ServeCardJob
    <3>2. JobFits(k) /\ k.op = j.op
      BY <2>1 DEF JobFits, CardRequests
    <3> HIDE DEF k
    <3> QED
      BY <1>0, <1>a, <1>h, <2>0, <3>1, <3>2 DEF cardUser
  <2> QED
    BY <2>2, <2>3
<1>6. ASSUME NEW j \in jobs, NextStep(j) PROVE CardTyped'
  <2>0. UNCHANGED <<cardUser, known, card, cardCache, cardFetch, asked, undo, unsure, cardNews, clicks, cardOthers>>
    BY <1>6 DEF NextStep
  <2>1. JobFits(j) /\ j \in CardRequests /\ j.step \in {"client", "contact"}
    BY <1>0, <1>6 DEF JobFits, NextStep
  <2>2. j.op = "convert"
    BY <2>1 DEF JobFits, StepsOf, CardRequests, CardOps
  <2> DEFINE st == IF j.step = "client" /\ card.contacts THEN "contact" ELSE "link"
             k == [j EXCEPT !.state = "sent", !.step = st]
  <2>3. jobs' = (jobs \ {j}) \cup {k}
    BY <1>6 DEF NextStep
  <2>4. st \in {"contact", "link"}
    OBVIOUS
  <2> HIDE DEF st
  <2>5. JobFits(k) /\ k.op = j.op
    BY <2>1, <2>2, <2>4 DEF JobFits, CardRequests, StepsOf, CardSteps, ArgFits
  <2> HIDE DEF k
  <2> QED
    BY <1>0, <1>a, <1>h, <2>0, <2>3, <2>5 DEF cardUser
<1>7. ASSUME NEW j \in jobs, CardSucceeds(j) PROVE CardTyped'
  <2>0. /\ UNCHANGED <<cardUser, known, card, unsure, cardNews, clicks, cardOthers>>
        /\ jobs' = jobs \ {j} /\ asked' \in {asked, <<>>} /\ j.state = "done"
        /\ undo' = IF j.op = "detach" THEN j.arg ELSE undo
    BY <1>7 DEF CardSucceeds
  <2>1. JobFits(j)
    BY <1>0
  <2>2. undo' \in Partners \cup {NoCard}
    BY <1>0, <2>0, <2>1 DEF JobFits, ArgFits
  <2>3. \/ cardCache' = NoCard /\ cardFetch' = NoFetch
        \/ cardCache = NoCard /\ cardCache' = cardCache /\ cardFetch' = cardFetch
        \/ /\ cardCache # NoCard /\ j.op \notin {"delete", "copy", "copy team"}
           /\ cardCache' \in {cardCache, j.answer} /\ cardFetch' = Asking
    BY <1>7 DEF CardSucceeds
  <2>4. j.op # "delete" => j.answer \in CardRecords /\ j.answer.life # "gone"
    BY <2>0, <2>1 DEF JobFits
  <2>5. /\ cardCache' \in CardRecords \cup {NoCard} /\ cardFetch' \in CardRecords \cup {NoFetch, Asking}
        /\ cardCache' # NoCard => cardCache'.life # "gone"
        /\ cardCache' = NoCard => cardFetch' = NoFetch
    BY <1>0, <2>3, <2>4, CardAssumption
  <2> QED
    BY <1>0, <1>a, <1>h, <2>0, <2>2, <2>5 DEF cardUser
<1>8. ASSUME NEW j \in jobs, CardFails(j) PROVE CardTyped'
  <2>0. /\ UNCHANGED <<cardUser, known, card, asked, undo, cardNews, clicks, cardOthers>>
        /\ jobs' = jobs \ {j}
    BY <1>8 DEF CardFails
  <2>1. j.before \in CardRecords /\ j.before.life # "gone" /\ j.before # NoCard
    BY <1>0, CardAssumption DEF JobFits, CardRequests
  <2>2. /\ unsure' \in BOOLEAN
        /\ \/ cardCache # NoCard /\ cardCache' = j.before /\ cardFetch' = Asking
           \/ cardCache' = cardCache /\ cardFetch' = cardFetch
    BY <1>0, <1>8 DEF CardFails
  <2>3. /\ cardCache' \in CardRecords \cup {NoCard} /\ cardFetch' \in CardRecords \cup {NoFetch, Asking}
        /\ cardCache' # NoCard => cardCache'.life # "gone"
        /\ cardCache' = NoCard => cardFetch' = NoFetch
    BY <1>0, <2>1, <2>2
  <2> QED
    BY <1>0, <1>a, <1>h, <2>0, <2>2, <2>3 DEF cardUser
<1>9. CASE ReadCard
  BY <1>0, <1>a, <1>h, <1>9, CardAssumption DEF ReadCard, cardUser
<1>10. CASE CardArrives
  <2>1. cardFetch \in CardRecords
    BY <1>0, <1>10 DEF CardArrives
  <2>2. /\ cardCache' \in CardRecords \cup {NoCard} /\ cardFetch' = NoFetch
        /\ cardCache' # NoCard => cardCache'.life # "gone"
    BY <1>0, <1>10, <2>1 DEF CardArrives
  <2> QED
    BY <1>0, <1>a, <1>h, <1>10, <2>2 DEF CardArrives, cardUser
<1>11. CASE EventComes
  BY <1>0, <1>a, <1>h, <1>11 DEF EventComes, cardUser
<1>12. CASE PollMatrix
  BY <1>0, <1>a, <1>h, <1>12 DEF PollMatrix, cardUser
<1>13. ASSUME NEW op \in Features[cardPage], NEW arg \in ForeignArgs(op), ForeignChange(CardEffect(op, arg, card))
       PROVE  CardTyped'
  <2>1. ArgFits(op, arg)
    BY <1>0 DEF ForeignArgs, ArgFits, CardRecords
  <2>2. op \in CardOps /\ op # "convert"
    BY <1>0, <1>o, PagesAre DEF Features
  <2>3. op \in StepsOf(op)
    BY <2>2 DEF StepsOf
  <2>4. CardEffect(op, arg, card) \in CardRecords
    BY <1>0, <1>13, <2>1, <2>2, <2>3, EffectTyped DEF ForeignChange
  <2> QED
    BY <1>0, <1>a, <1>h, <1>13, <2>4 DEF ForeignChange, cardUser
<1>14. CASE UNCHANGED cardVars
  BY <1>0, <1>a, <1>h, <1>14 DEF cardVars, cardUser
<1> QED
  BY <1>1, <1>2, <1>3, <1>4, <1>5, <1>6, <1>7, <1>8, <1>9, <1>10, <1>11, <1>12, <1>13, <1>14 DEF CardNext

LEMMA CopySteps == CardInv /\ [CardNext]_cardVars => CopyIsTrueOrWaits'
<1> SUFFICES ASSUME CardInv, [CardNext]_cardVars,
                    cardCache' # NoCard, card'.life # "gone", cardPage' \notin {"client", "contact"},
                    ~cardNews', ~unsure', \A j \in jobs' : ~MoreToCome(j), cardFetch' \notin {Asking, card'}
             PROVE  cardFetch' = NoFetch /\ cardCache' = card'
  BY DEF CopyIsTrueOrWaits
<1>0. /\ card \in CardRecords /\ cardFetch \in CardRecords \cup {NoFetch, Asking}
      /\ \A j \in jobs : JobFits(j)
      /\ cardPage \in DOMAIN Offers /\ AskedFits /\ undo \in Partners \cup {NoCard}
  BY DEF CardInv, CardTyped, CardTypeOK
<1>q. ASSUME cardCache # NoCard, card.life # "gone", cardPage' = cardPage, ~cardNews, ~unsure,
             \A j \in jobs : ~MoreToCome(j), cardFetch \notin {Asking, card}
      PROVE  cardFetch = NoFetch /\ cardCache = card
  BY <1>q DEF CardInv, CopyIsTrueOrWaits
<1>o. Mutations[cardPage] \subseteq CardOps
  BY <1>0, PagesAre
<1>s. ASSUME NEW op \in CardOps, NEW arg \in CardArgs, ArgFits(op, arg), cardCache # NoCard, CardStart(op, arg),
             UNCHANGED <<cardUser, card, unsure, cardNews>>
      PROVE  cardFetch' = NoFetch /\ cardCache' = card'
  <2>1. /\ jobs \subseteq jobs'
        /\ IF op = "status" THEN \E j \in jobs' : MoreToCome(j)
           ELSE cardCache' = cardCache /\ cardFetch' = cardFetch
    BY <1>s, StartTyped DEF CardInv
  <2>2. cardCache' = cardCache /\ cardFetch' = cardFetch /\ \A j \in jobs : ~MoreToCome(j)
    BY <2>1
  <2> QED
    BY <1>q, <1>s, <2>2 DEF cardUser
<1>1. ASSUME NEW op \in Mutations[cardPage], NEW arg \in Args(op), Click(op, arg)
      PROVE  cardFetch' = NoFetch /\ cardCache' = card'
  <2>1. cardCache # NoCard /\ op \in CardOps /\ UNCHANGED <<cardUser, card, unsure, cardNews>>
    BY <1>1, <1>o DEF Click, CardOffered
  <2>2. arg \in CardArgs /\ ArgFits(op, arg)
    BY <2>1, ArgsTyped DEF CardInv
  <2>3. CASE UNCHANGED <<cardCache, cardFetch, jobs, clicks>>
    BY <1>q, <2>1, <2>3 DEF cardUser
  <2>4. CASE CardStart(op, arg)
    BY <1>s, <2>1, <2>2, <2>4
  <2> QED
    BY <1>1, <2>3, <2>4 DEF Click
<1>2. CASE ConfirmCard
  <2>1. cardCache # NoCard /\ asked # <<>> /\ CardStart(asked[1], asked[2])
        /\ UNCHANGED <<cardUser, card, unsure, cardNews>>
    BY <1>2 DEF ConfirmCard
  <2>2. asked[1] \in CardOps /\ asked[2] \in CardArgs /\ ArgFits(asked[1], asked[2])
    BY <1>0, <2>1 DEF AskedFits
  <2> QED
    BY <1>s, <2>1, <2>2
<1>3. CASE Cancel
  BY <1>q, <1>3 DEF Cancel, cardUser
<1>4. CASE Undo
  <2>1. cardCache # NoCard /\ undo # NoCard /\ CardStart("attach", undo)
        /\ UNCHANGED <<cardUser, card, unsure, cardNews>>
    BY <1>4 DEF Undo
  <2>2. undo \in CardArgs /\ ArgFits("attach", undo) /\ "attach" \in CardOps
    BY <1>0, <2>1 DEF CardArgs, ArgFits, CardOps
  <2> QED
    BY <1>s, <2>1, <2>2
<1>5. ASSUME NEW j \in jobs, ServeCardJob(j) PROVE cardFetch' = NoFetch /\ cardCache' = card'
  <2>0. UNCHANGED <<cardUser, cardCache, cardFetch, unsure, cardNews>> /\ j \in CardRequests /\ j.state = "sent"
    BY <1>0, <1>5 DEF ServeCardJob, JobFits
  <2>1. ~CardServed(j.step, card)
    <3> SUFFICES ASSUME CardServed(j.step, card) PROVE FALSE
      OBVIOUS
    <3> DEFINE after == CardEffect(j.step, j.arg, card)
               k == [j EXCEPT !.state = "done", !.answer = after]
    <3>1. k \in jobs'
      BY <1>5 DEF ServeCardJob
    <3> HIDE DEF after
    <3>2. k.state = "done"
      BY <2>0 DEF CardRequests
    <3> QED
      BY <3>1, <3>2 DEF MoreToCome
  <2> DEFINE k == [j EXCEPT !.state = "refused"]
  <2>2. card' = card /\ jobs' = (jobs \ {j}) \cup {k}
    BY <1>5, <2>1 DEF ServeCardJob
  <2>3. k.op = j.op /\ k.step = j.step
    BY <2>0 DEF CardRequests
  <2> HIDE DEF k
  <2>4. \A i \in jobs : ~MoreToCome(i)
    BY <2>0, <2>2, <2>3 DEF MoreToCome
  <2> QED
    BY <1>q, <2>0, <2>2, <2>4 DEF cardUser
<1>6. ASSUME NEW j \in jobs, NextStep(j) PROVE cardFetch' = NoFetch /\ cardCache' = card'
  <2>1. JobFits(j) /\ j \in CardRequests /\ j.step \in {"client", "contact"}
    BY <1>0, <1>6 DEF JobFits, NextStep
  <2>2. j.op = "convert"
    BY <2>1 DEF JobFits, StepsOf, CardRequests, CardOps
  <2> DEFINE st == IF j.step = "client" /\ card.contacts THEN "contact" ELSE "link"
             k == [j EXCEPT !.state = "sent", !.step = st]
  <2>3. k \in jobs'
    BY <1>6 DEF NextStep
  <2>4. st \in {"contact", "link"}
    OBVIOUS
  <2> HIDE DEF st
  <2>5. k.step = st /\ k.op = "convert"
    BY <2>1, <2>2 DEF CardRequests
  <2> QED
    BY <2>3, <2>4, <2>5 DEF MoreToCome
<1>7. ASSUME NEW j \in jobs, CardSucceeds(j) PROVE cardFetch' = NoFetch /\ cardCache' = card'
  <2>1. \/ cardCache' = NoCard
        \/ cardCache = NoCard /\ cardCache' = cardCache
        \/ cardFetch' = Asking
    BY <1>7 DEF CardSucceeds
  <2> QED
    BY <2>1
<1>8. ASSUME NEW j \in jobs, CardFails(j) PROVE cardFetch' = NoFetch /\ cardCache' = card'
  <2>0. UNCHANGED <<cardUser, card, cardNews>> /\ jobs' = jobs \ {j}
    BY <1>8 DEF CardFails
  <2>1. CASE j.op = "status" /\ cardCache # NoCard
    BY <1>8, <2>1 DEF CardFails
  <2>2. CASE ~(j.op = "status" /\ cardCache # NoCard)
    <3>1. unsure' = (unsure \/ j.state = "done" \/ j.step # j.op) /\ UNCHANGED <<cardCache, cardFetch>>
      BY <1>8, <2>2 DEF CardFails
    <3>2. \A i \in jobs : ~MoreToCome(i)
      BY <2>0, <2>2, <3>1 DEF MoreToCome
    <3> QED
      BY <1>q, <2>0, <3>1, <3>2 DEF cardUser
  <2> QED
    BY <2>1, <2>2
<1>9. CASE ReadCard
  BY <1>9 DEF ReadCard
<1>10. CASE CardArrives
  <2>1. cardFetch \in CardRecords /\ cardFetch # NoFetch /\ cardFetch # Asking
    BY <1>0, <1>10 DEF CardArrives
  <2>2. UNCHANGED <<cardUser, card, jobs, unsure, cardNews>> /\ cardFetch' = NoFetch
        /\ cardCache' = IF cardFetch.life = "gone" THEN cardCache ELSE cardFetch
    BY <1>10 DEF CardArrives
  <2>3. cardCache # NoCard
    BY <2>1 DEF CardInv, CardTyped, CardTypeOK
  <2>4. cardFetch = card
    BY <1>q, <2>1, <2>2, <2>3 DEF cardUser
  <2> QED
    BY <2>2, <2>4
<1>11. CASE EventComes
  <2>1. cardCache = NoCard
    BY <1>11 DEF EventComes
  <2> QED
    BY <1>11, <2>1 DEF EventComes
<1>12. CASE PollMatrix
  BY <1>q, <1>12 DEF PollMatrix, cardUser
<1>13. ASSUME NEW c, ForeignChange(c) PROVE FALSE
  BY <1>13 DEF ForeignChange, cardUser
<1>14. CASE UNCHANGED cardVars
  BY <1>q, <1>14 DEF cardVars, cardUser
<1> QED
  BY <1>1, <1>2, <1>3, <1>4, <1>5, <1>6, <1>7, <1>8, <1>9, <1>10, <1>11, <1>12, <1>13, <1>14 DEF CardNext

LEMMA CardKept == CardInv /\ [CardNext]_cardVars => CardInv'
  BY CardTypedSteps, CopySteps DEF CardInv

LEMMA CopyIsTrue == CardInv => QuietCardIsTrue
  BY CardAssumption DEF CardInv, CardTyped, CardTypeOK, CopyIsTrueOrWaits, QuietCardIsTrue
-----------------------------------------------------------------------------
(* The calendar: its queries, its form and what is dragged.                *)
DetailShowsAnEvent == calSheet.kind = "detail" => calSheet.event \in EventRecords

(* An answer on its way that may miss nothing is what the server has.      *)
CalComing == CalOnItsWay /\ calLate = {} => calFetch = InRange(calStore, calView)
CalDoubtTyped ==
  calDoubt \subseteq Views \X CalWhys /\ calLate \subseteq CalWhys /\ (CalOnItsWay \/ calLate = {})

CalInv == CalendarTypeOK /\ DetailShowsAnEvent /\ CalComing /\ QuietCalendarIsTrue
-----------------------------------------------------------------------------
CalRecords == EventRecords \cup {NoEvent}
CalRanges == [CalEvents -> CalRecords]
CalRequests == [n : 0 .. MaxCalOps - 1, by : {"form", "detail", "grid"},
       kind : {"create", "update", "held", "no_show", "canceled", "delete"},
       event : CalEvents \cup {NoEvent}, start : Nat, end : Int \cup {NoEnd},
       note : CalEvents \cup {NoEvent}]

LEMMA InRangeTyped ==
  ASSUME NEW s \in CalRanges, NEW k PROVE InRange(s, k) \in CalRanges
  BY DEF InRange, CalRanges, CalRecords

LEMMA ViewsHaveWeek == <<"week", 0>> \in Views
  BY CalendarAssumption DEF Views, Midnights

LEMMA EndTyped == ASSUME NEW r \in EventRecords PROVE EndOf(r) \in Int /\ r.start \in Nat
  BY CalendarAssumption DEF EndOf, EventRecords

LEMMA SameDayTyped == \A t \in Nat : \A u \in Int : SameDay(t, u) \in Nat
<1> TAKE t \in Nat
<1> TAKE u \in Int
<1>1. DayOf(t) \in Nat /\ u % DaySlots \in Nat /\ DaySlots \in Nat
  BY CalendarAssumption DEF DayOf
<1>2. \A a, b, c \in Nat : a * b + c \in Nat
  OBVIOUS
<1> QED
  BY <1>1, <1>2 DEF SameDay

LEMMA AppliedTyped ==
  ASSUME NEW s \in CalRanges, NEW j \in CalRequests, Takes(s, j)
  PROVE  CalApplied(s, j) \in CalRanges
<1> USE DEF CalRanges, CalRecords
<1>1. CASE j.kind = "create"
  <2>1. [start |-> j.start, end |-> j.end, status |-> "scheduled", note |-> NoEvent] \in EventRecords
    BY DEF CalRequests, EventRecords
  <2> QED
    BY <1>1, <2>1 DEF CalApplied
<1>2. CASE j.kind # "create"
  <2>1. s[j.event] # NoEvent
    BY <1>2 DEF Takes
  <2>2. CASE j.event \notin CalEvents
    BY <1>2, <2>2 DEF CalApplied, CalRequests
  <2>3. CASE j.event \in CalEvents
    <3>1. s[j.event] \in EventRecords
      BY <2>1, <2>3
    <3>2. \A x \in CalRecords : [s EXCEPT ![j.event] = x] \in CalRanges
      OBVIOUS
    <3>3. CASE j.kind = "update"
      <4> DEFINE then == [s EXCEPT ![j.event].start = j.start]
      <4>1. CalApplied(s, j) = [then EXCEPT ![j.event].end = IF j.end = NoEnd THEN @ ELSE j.end]
        BY <3>3, Zenon DEF CalApplied
      <4>2. then = [s EXCEPT ![j.event] = [s[j.event] EXCEPT !.start = j.start]]
        BY Zenon
      <4>3. [s[j.event] EXCEPT !.start = j.start] \in EventRecords
        BY <3>1 DEF EventRecords, CalRequests
      <4>4. then \in CalRanges /\ then[j.event] \in EventRecords
        BY <2>3, <3>2, <4>2, <4>3
      <4> HIDE DEF then
      <4>5. [then[j.event] EXCEPT !.end = IF j.end = NoEnd THEN @ ELSE j.end] \in EventRecords
        BY <4>4 DEF EventRecords, CalRequests
      <4> QED
        BY <4>1, <4>4, <4>5
    <3>4. CASE j.kind = "delete"
      BY <3>4, <3>2 DEF CalApplied
    <3>5. CASE j.kind \in {"held", "no_show", "canceled"}
      <4> DEFINE then == [s EXCEPT ![j.event].status = j.kind]
      <4>1. CalApplied(s, j) = [then EXCEPT ![j.event].note = IF j.note = NoEvent THEN @ ELSE j.note]
        <5>1. j.kind \notin {"create", "update", "delete"}
          BY <3>5
        <5> QED
          BY <5>1, Zenon DEF CalApplied
      <4>2. then = [s EXCEPT ![j.event] = [s[j.event] EXCEPT !.status = j.kind]]
        BY Zenon
      <4>3. [s[j.event] EXCEPT !.status = j.kind] \in EventRecords
        BY <3>1, <3>5 DEF EventRecords, CalRequests
      <4>4. then \in CalRanges /\ then[j.event] \in EventRecords
        BY <2>3, <3>2, <4>2, <4>3
      <4> HIDE DEF then
      <4>5. [then[j.event] EXCEPT !.note = IF j.note = NoEvent THEN @ ELSE j.note] \in EventRecords
        BY <4>4 DEF EventRecords, CalRequests
      <4> QED
        BY <4>1, <4>4, <4>5
    <3> QED
      BY <3>3, <3>4, <3>5, <1>2 DEF CalRequests
  <2> QED
    BY <2>2, <2>3
<1> QED
  BY <1>1, <1>2

(* An answer on its way is what the server has, unless the page knows why  *)
(* it may not be.                                                          *)
LEMMA CalComingSteps == CalendarTypeOK /\ CalComing /\ [CalNext]_calVars => CalComing'
<1> SUFFICES ASSUME CalendarTypeOK, CalComing, [CalNext]_calVars PROVE CalComing'
  OBVIOUS
<1>1. CASE UNCHANGED <<calStore, calView, calFetch, calLate>>
  BY <1>1 DEF CalComing, CalOnItsWay, InRange
<1>2. CASE CalServed
  BY <1>2 DEF CalServed, CalComing, InRange
<1>3. CASE CalArrives
  BY <1>3 DEF CalArrives, CalComing, CalOnItsWay
<1>4. CASE TurnPage
  <2>1. calFetch' \in {NoCalRead, CalAsking}
    BY <1>4 DEF TurnPage, ShowView
  <2> QED
    BY <2>1 DEF CalComing, CalOnItsWay
<1>5. CASE CalAnswers
  <2> PICK j \in calJobs : CalAccepted(j) \/ CalLost(j) \/ CalRefused(j)
    BY <1>5 DEF CalAnswers
  <2>1. CASE CalAccepted(j)
    BY <2>1 DEF CalAccepted, CalComing, CalOnItsWay, CalLateFor
  <2>2. CASE CalLost(j)
    BY <2>2 DEF CalLost, CalComing, CalOnItsWay, CalLateFor
  <2>3. CASE CalRefused(j)
    BY <2>3, <1>1 DEF CalRefused
  <2> QED
    BY <2>1, <2>2, <2>3
<1>6. CASE CalOthers
  BY <1>6 DEF CalOthers, CalComing, CalOnItsWay, CalLateFor
<1> QED
  BY <1>1, <1>2, <1>3, <1>4, <1>5, <1>6 DEF CalNext, calVars, OpenForm, OpenEvent,
     CloseCalSheet, DragEvent, SubmitForm, StartEdit, TypeOutcome, ActOnEvent

(* Why a range may miss a change is told for ranges, and for an answer     *)
(* only while one is on its way.                                           *)
LEMMA CalDoubtSteps == CalendarTypeOK /\ [CalNext]_calVars => CalDoubtTyped'
<1> SUFFICES ASSUME CalendarTypeOK, [CalNext]_calVars PROVE CalDoubtTyped'
  OBVIOUS
<1>0. CalDoubtTyped /\ calView \in Views /\ \A why \in CalWhys : CalLateFor(why) \subseteq CalWhys
  BY DEF CalendarTypeOK, CalDoubtTyped, CalLateFor
<1>w. "untold" \in CalWhys /\ "first load" \in CalWhys
  BY DEF CalWhys
<1>1. CASE UNCHANGED <<calDoubt, calFetch, calLate>>
  BY <1>0, <1>1 DEF CalDoubtTyped, CalOnItsWay
<1>2. CASE CalServed
  BY <1>0, <1>2 DEF CalServed, CalDoubtTyped, CalOnItsWay
<1>3. CASE CalArrives
  BY <1>0, <1>3 DEF CalArrives, CalDoubtTyped
<1>4. CASE TurnPage
  BY <1>0, <1>4 DEF TurnPage, CalDoubtTyped, CalOnItsWay
<1>5. CASE CalAnswers
  <2> PICK j \in calJobs : CalAccepted(j) \/ CalLost(j) \/ CalRefused(j)
    BY <1>5 DEF CalAnswers
  <2>1. CASE CalAccepted(j)
    BY <1>0, <1>w, <2>1 DEF CalAccepted, CalDoubtTyped, CalOnItsWay, CalLateFor
  <2>2. CASE CalLost(j)
    BY <1>0, <1>w, <2>2 DEF CalLost, CalDoubtTyped, CalOnItsWay, CalLateFor, Unseen
  <2>3. CASE CalRefused(j)
    BY <2>3, <1>1 DEF CalRefused
  <2> QED
    BY <2>1, <2>2, <2>3
<1>6. CASE CalOthers
  BY <1>0, <1>w, <1>6 DEF CalOthers, CalDoubtTyped, CalOnItsWay, CalLateFor, Unseen
<1> QED
  BY <1>1, <1>2, <1>3, <1>4, <1>5, <1>6 DEF CalNext, calVars, OpenForm, OpenEvent,
     CloseCalSheet, DragEvent, SubmitForm, StartEdit, TypeOutcome, ActOnEvent

LEMMA CalendarQuietSteps ==
  CalendarTypeOK /\ CalComing /\ QuietCalendarIsTrue /\ [CalNext]_calVars => QuietCalendarIsTrue'
<1> SUFFICES ASSUME CalendarTypeOK, CalComing, QuietCalendarIsTrue, [CalNext]_calVars,
                    NEW k \in Views, calData'[k] # NoCalRead, k \notin calStale',
                    \A why \in CalWhys : <<k, why>> \notin calDoubt'
             PROVE  calData'[k] = InRange(calStore, k)'
  BY DEF QuietCalendarIsTrue
<1>0. calData[k] # NoCalRead /\ k \notin calStale /\ (\A why \in CalWhys : <<k, why>> \notin calDoubt)
         => calData[k] = InRange(calStore, k)
  <2>1. (\A why \in CalWhys : <<k, why>> \notin calDoubt) => calDoubt \cap ({k} \X CalWhys) = {}
    OBVIOUS
  <2> QED
    BY <2>1 DEF QuietCalendarIsTrue
<1>1. CASE UNCHANGED <<calStore, calData, calStale, calDoubt>>
  BY <1>0, <1>1 DEF InRange
<1>2. CASE CalArrives
  <2>1. calData \in [Views -> CalRanges \cup {NoCalRead}] /\ calView \in Views /\ calLate \subseteq CalWhys
    BY DEF CalendarTypeOK, CalRanges, CalRecords
  <2>2. CASE k = calView
    <3>1. calLate = {} /\ calData'[k] = calFetch /\ UNCHANGED calStore
      BY <1>2, <2>1, <2>2 DEF CalArrives
    <3>2. calFetch = InRange(calStore, k)
      BY <1>2, <2>2, <3>1 DEF CalArrives, CalComing, CalOnItsWay
    <3> QED
      BY <3>1, <3>2 DEF InRange
  <2>3. CASE k # calView
    <3>1. calData'[k] = calData[k] /\ UNCHANGED calStore /\ k \notin calStale
          /\ \A why \in CalWhys : <<k, why>> \notin calDoubt
      BY <1>2, <2>1, <2>3 DEF CalArrives
    <3> QED
      BY <1>0, <3>1 DEF InRange
  <2> QED
    BY <2>2, <2>3
<1>3. CASE CalAnswers
  <2> PICK j \in calJobs : CalAccepted(j) \/ CalLost(j) \/ CalRefused(j)
    BY <1>3 DEF CalAnswers
  <2>1. CASE CalAccepted(j)
    BY <2>1 DEF CalAccepted, Related
  <2>2. CASE CalLost(j)
    BY <2>2 DEF CalLost, Unseen, CalWhys
  <2>3. CASE CalRefused(j)
    BY <1>0, <2>3 DEF CalRefused, InRange
  <2> QED
    BY <2>1, <2>2, <2>3
<1>4. CASE CalOthers
  BY <1>4 DEF CalOthers, Unseen, CalWhys
<1> QED
  BY <1>1, <1>2, <1>3, <1>4 DEF CalNext, calVars, CalServed, TurnPage, OpenForm, OpenEvent,
     CloseCalSheet, DragEvent, SubmitForm, StartEdit, TypeOutcome, ActOnEvent

LEMMA CalendarTypeStarts == CalInit => CalendarTypeOK
<1> SUFFICES ASSUME CalInit PROVE CalendarTypeOK
  OBVIOUS
<1>1. \A n \in {NoEnd, 1 + HourSlots} :
        [start |-> 1, end |-> n, status |-> "scheduled", note |-> NoEvent] \in EventRecords
  BY CalendarAssumption DEF EventRecords
<1>2. calStore \in CalRanges
  BY <1>1 DEF CalInit, CalRanges, CalRecords
<1>3. calData \in [Views -> CalRanges \cup {NoCalRead}] /\ calView \in Views
  BY ViewsHaveWeek DEF CalInit
<1>4. /\ calStale = {} /\ calDoubt = {} /\ calLate = {} /\ calFetch = CalAsking /\ calNote = NoEvent
      /\ calSheet = NoSheet /\ calJobs = {} /\ calOps = 0
  BY DEF CalInit
<1> QED
  BY <1>2, <1>3, <1>4, CalendarAssumption DEF CalendarTypeOK, CalRanges, CalRecords, NoSheet

CalSheets == [kind : {"none", "form", "detail"}, event : EventRecords \cup {NoEvent},
              start : Nat, end : Int \cup {NoEnd}, on : CalEvents \cup {NoEvent}]

LEMMA FormShape ==
  \A t \in Nat : \A u \in Int \cup {NoEnd} : \A e \in CalEvents \cup {NoEvent} :
         /\ [NoSheet EXCEPT !.kind = "form", !.start = t, !.end = u] \in CalSheets
         /\ [NoSheet EXCEPT !.kind = "form", !.start = t, !.end = u].kind = "form"
         /\ [NoSheet EXCEPT !.kind = "form", !.on = e, !.start = t, !.end = u] \in CalSheets
         /\ [NoSheet EXCEPT !.kind = "form", !.on = e, !.start = t, !.end = u].kind = "form"
  BY ZenonT(60) DEF CalSheets, NoSheet

LEMMA FormTyped == ASSUME NEW t \in Nat PROVE FormAt(t) \in CalSheets /\ FormAt(t).kind = "form"
<1>1. t + HourSlots \in Int
  BY CalendarAssumption
<1>2. SameDay(t, t + HourSlots) \in Int \cup {NoEnd}
  BY <1>1, SameDayTyped
<1>3. NoEvent \in CalEvents \cup {NoEvent}
  OBVIOUS
<1> QED
  BY <1>2, <1>3, FormShape, Zenon DEF FormAt

LEMMA SnappedTyped == ASSUME NEW t \in Nat PROVE Snapped(t) \in Nat
<1>1. HourSlots \in Nat \ {0} /\ HourSlots \div 2 \in Nat /\ 2 * t + HourSlots \div 2 \in Nat
  BY CalendarAssumption
<1>2. \A a \in Nat, b \in Nat \ {0} : a \div b \in Nat
  OBVIOUS
<1>3. \A a, b \in Nat : a * b \in Nat
  OBVIOUS
<1> QED
  BY <1>1, <1>2, <1>3 DEF Snapped

LEMMA DayAndQuarter == \A d \in Midnights, y \in Nat : d * DaySlots + y \in Nat
<1>1. \A a, b, c \in Nat : a * b + c \in Nat
  OBVIOUS
<1> QED
  BY <1>1, CalendarAssumption DEF Midnights

LEMMA ProposedTyped == ASSUME NEW d \in Midnights, NEW t \in Proposed(d) PROVE t \in Nat
<1>1. Places \subseteq Nat /\ DefaultSlot \in Nat
  BY CalendarAssumption
<1> QED
  BY <1>1, DayAndQuarter, SnappedTyped DEF Proposed

(* The place a dragged event is dropped at: on the day of its column, not before midnight. *)
LEMMA DropTyped ==
  ASSUME NEW r \in EventRecords, NEW d \in Midnights, NEW y \in Places
  PROVE  /\ CalClamp(y, Height(r)) \in 0 .. DaySlots - 1
         /\ DragTo(r, d, y) = d * DaySlots + CalClamp(y, Height(r))
         /\ DragTo(r, d, y) \in Nat /\ DragTo(r, d, y) + (EndOf(r) - r.start) \in Int
<1>1. EndOf(r) \in Int /\ r.start \in Nat /\ HourSlots \in Nat /\ y \in 0 .. DaySlots - 1 /\ DaySlots \in Nat \ {0}
  BY EndTyped, CalendarAssumption
<1>2. Height(r) \in Int
  BY <1>1 DEF Height
<1>3. CalClamp(y, Height(r)) \in 0 .. DaySlots - 1
  BY <1>1, <1>2 DEF CalClamp
<1>4. d * DaySlots + CalClamp(y, Height(r)) \in Nat
  BY <1>3, DayAndQuarter
<1> QED
  BY <1>1, <1>3, <1>4 DEF DragTo

LEMMA SentTyped ==
  ASSUME CalendarTypeOK, NEW by \in {"form", "detail", "grid"},
         NEW kind \in {"create", "update", "held", "no_show", "canceled", "delete"},
         NEW e \in CalEvents \cup {NoEvent}, NEW start \in Nat, NEW end \in Int \cup {NoEnd},
         NEW note \in CalEvents \cup {NoEvent}, CalSend(by, kind, e, start, end, note)
  PROVE  calJobs' \subseteq CalRequests /\ calOps' \in 0 .. MaxCalOps
<1>1. calOps \in 0 .. MaxCalOps - 1 /\ calOps' \in 0 .. MaxCalOps
  BY CalendarAssumption DEF CalSend, CalendarTypeOK
<1>2. calJobs \subseteq CalRequests
  BY Zenon DEF CalendarTypeOK, CalRequests
<1>3. [n |-> calOps, by |-> by, kind |-> kind, event |-> e, start |-> start, end |-> end,
       note |-> note] \in CalRequests
  BY <1>1 DEF CalRequests
<1> QED
  BY <1>1, <1>2, <1>3 DEF CalSend

LEMMA FilledInTyped ==
  ASSUME NEW f \in CalSheets, NEW p \in FilledIn(f)
  PROVE  p[1] \in Nat /\ p[2] \in Int \cup {NoEnd}
<1> DEFINE other == {d * DaySlots + y : d \in Midnights, y \in Places}
           moved == {<<t, IF f.end = NoEnd THEN NoEnd ELSE SameDay(t, f.end)>> : t \in {f.start} \cup other}
<1>1. \A t \in {f.start} \cup other : t \in Nat
  <2>1. Places \subseteq Nat
    BY CalendarAssumption
  <2> QED
    BY <2>1, DayAndQuarter DEF CalSheets
<1>2. f.end # NoEnd => \A t \in Nat : SameDay(t, f.end) \in Nat
  <2>1. f.end # NoEnd => f.end \in Int
    BY DEF CalSheets
  <2> QED
    BY <2>1, SameDayTyped
<1>3. \A q \in moved : q[1] \in Nat /\ q[2] \in Int \cup {NoEnd}
  <2> TAKE q \in moved
  <2>1. PICK t \in {f.start} \cup other : q = <<t, IF f.end = NoEnd THEN NoEnd ELSE SameDay(t, f.end)>>
    OBVIOUS
  <2>2. t \in Nat
    BY <1>1
  <2>3. f.end # NoEnd => SameDay(t, f.end) \in Nat
    BY <1>2, <2>2
  <2> QED
    BY <2>1, <2>2, <2>3
<1>4. p \in moved \cup {<<q[1], NoEnd>> : q \in moved}
  BY DEF FilledIn
<1> QED
  BY <1>3, <1>4

LEMMA CalendarTypeSteps ==
  CalendarTypeOK /\ DetailShowsAnEvent /\ [CalNext]_calVars => CalendarTypeOK' /\ DetailShowsAnEvent'
<1> SUFFICES ASSUME CalendarTypeOK, DetailShowsAnEvent, [CalNext]_calVars
             PROVE  CalendarTypeOK' /\ DetailShowsAnEvent'
  OBVIOUS
<1>0. /\ calStore \in CalRanges /\ calData \in [Views -> CalRanges \cup {NoCalRead}]
      /\ calStale \subseteq Views
      /\ calFetch \in CalRanges \cup {NoCalRead, CalAsking} /\ calView \in Views
      /\ calSheet \in CalSheets /\ calNote \in CalEvents \cup {NoEvent}
      /\ calJobs \subseteq CalRequests /\ calOps \in 0 .. MaxCalOps
  BY Zenon DEF CalendarTypeOK, CalRanges, CalRecords, CalSheets, CalRequests
<1>t. CalDoubtTyped'
  BY CalDoubtSteps
<1>h. ASSUME calStore' \in CalRanges, calData' \in [Views -> CalRanges \cup {NoCalRead}],
             calStale' \subseteq Views,
             calFetch' \in CalRanges \cup {NoCalRead, CalAsking}, calView' \in Views,
             calSheet' \in CalSheets, calNote' \in CalEvents \cup {NoEvent},
             calJobs' \subseteq CalRequests, calOps' \in 0 .. MaxCalOps, DetailShowsAnEvent'
      PROVE  CalendarTypeOK' /\ DetailShowsAnEvent'
  BY <1>h, <1>t, Zenon DEF CalendarTypeOK, CalDoubtTyped, CalOnItsWay, CalRanges, CalRecords, CalSheets, CalRequests
<1>s. NoSheet \in CalSheets /\ NoSheet.kind = "none"
  BY DEF NoSheet, CalSheets
<1>d. calSheet' = calSheet => DetailShowsAnEvent'
  BY DEF DetailShowsAnEvent
<1>c. CalShown # NoCalRead => \A e \in CalExisting(CalShown) : e \in CalEvents /\ CalShown[e] \in EventRecords
  BY <1>0 DEF CalShown, CalExisting, CalRanges, CalRecords
<1>1. CASE CalServed
  BY <1>0, <1>1, <1>d, <1>h, InRangeTyped DEF CalServed
<1>2. CASE CalArrives
  BY <1>0, <1>2, <1>d, <1>h DEF CalArrives
<1>3. CASE TurnPage
  BY <1>0, <1>3, <1>d, <1>h DEF TurnPage, ShowView
<1>4. CASE OpenForm
  <2>1. calSheet' \in CalSheets /\ calSheet'.kind = "form"
    BY <1>4, FormTyped, ProposedTyped, CalendarAssumption DEF OpenForm, NextHours, Times
  <2> QED
    BY <1>0, <1>4, <1>h, <2>1 DEF OpenForm, DetailShowsAnEvent
<1>5. CASE OpenEvent
  <2>1. PICK e \in CalExisting(CalShown) :
          calSheet' = [NoSheet EXCEPT !.kind = "detail", !.event = CalShown[e], !.on = e]
    BY <1>5 DEF OpenEvent
  <2>2. e \in CalEvents /\ CalShown[e] \in EventRecords
    BY <1>5, <1>c DEF OpenEvent, OnGrid
  <2>3. calSheet' \in CalSheets /\ calSheet'.event \in EventRecords
    BY <2>1, <2>2 DEF NoSheet, CalSheets
  <2> QED
    BY <1>0, <1>5, <1>h, <2>3 DEF OpenEvent, DetailShowsAnEvent
<1>6. CASE CloseCalSheet
  BY <1>0, <1>6, <1>h, <1>s DEF CloseCalSheet, DetailShowsAnEvent
<1>7. CASE DragEvent
  <2>1. PICK e \in CalExisting(CalShown), y \in Places, d \in Midnights :
          CalSend("grid", "update", e, DragTo(CalShown[e], d, y),
                  DragTo(CalShown[e], d, y) + (EndOf(CalShown[e]) - CalShown[e].start), NoEvent)
    BY <1>0, <1>7 DEF DragEvent, Views
  <2>2. e \in CalEvents \cup {NoEvent} /\ CalShown[e] \in EventRecords
    BY <1>7, <1>c DEF DragEvent, OnGrid
  <2> DEFINE t == DragTo(CalShown[e], d, y)
             u == t + (EndOf(CalShown[e]) - CalShown[e].start)
  <2>4. t \in Nat /\ u \in Int \cup {NoEnd}
    BY <2>2, DropTyped
  <2> HIDE DEF t, u
  <2>5. CalSend("grid", "update", e, t, u, NoEvent)
    BY <2>1, Zenon DEF t, u
  <2>3. calJobs' \subseteq CalRequests /\ calOps' \in 0 .. MaxCalOps
    BY <2>2, <2>4, <2>5, SentTyped
  <2> QED
    BY <1>0, <1>7, <1>d, <1>h, <2>3 DEF DragEvent
<1>8. CASE SubmitForm
  <2>1. PICK p \in FilledIn(calSheet) :
          CalSend("form", IF calSheet.on = NoEvent THEN "create" ELSE "update",
                  calSheet.on, p[1], p[2], NoEvent)
    BY <1>8 DEF SubmitForm
  <2>2. calSheet.on \in CalEvents \cup {NoEvent} /\ p[1] \in Nat /\ p[2] \in Int \cup {NoEnd}
    BY <1>0, FilledInTyped DEF CalSheets
  <2>3. calJobs' \subseteq CalRequests /\ calOps' \in 0 .. MaxCalOps
    BY <2>1, <2>2, SentTyped
  <2> QED
    BY <1>0, <1>8, <1>d, <1>h, <2>3 DEF SubmitForm
<1>9. CASE StartEdit
  <2> DEFINE r == calSheet.event
  <2>1. calSheet' = [NoSheet EXCEPT !.kind = "form", !.on = calSheet.on, !.start = r.start,
                       !.end = IF r.end = NoEnd THEN NoEnd ELSE SameDay(r.start, r.end)]
    BY <1>9 DEF StartEdit
  <2>2. r \in EventRecords /\ calSheet.on \in CalEvents \cup {NoEvent}
    BY <1>0, <1>9 DEF StartEdit, CalSheets, DetailShowsAnEvent
  <2>3. r.end # NoEnd => SameDay(r.start, r.end) \in Nat
    BY <2>2, SameDayTyped DEF EventRecords
  <2>4. r.start \in Nat /\ (IF r.end = NoEnd THEN NoEnd ELSE SameDay(r.start, r.end)) \in Int \cup {NoEnd}
    BY <2>2, <2>3 DEF EventRecords
  <2>5. calSheet' \in CalSheets /\ calSheet'.kind = "form"
    <3> DEFINE u == IF r.end = NoEnd THEN NoEnd ELSE SameDay(r.start, r.end)
    <3>1. calSheet' = [NoSheet EXCEPT !.kind = "form", !.on = calSheet.on, !.start = r.start, !.end = u]
      BY <2>1, Zenon
    <3>2. r.start \in Nat /\ u \in Int \cup {NoEnd} /\ calSheet.on \in CalEvents \cup {NoEvent}
      BY <2>2, <2>4, Zenon
    <3> HIDE DEF u, r
    <3> QED
      BY <3>1, <3>2, FormShape, Zenon
  <2> QED
    BY <1>0, <1>9, <1>h, <2>5 DEF StartEdit, DetailShowsAnEvent
<1>10. CASE TypeOutcome
  BY <1>0, <1>10, <1>d, <1>h DEF TypeOutcome, CalSheets
<1>11. CASE ActOnEvent
  <2>1. PICK k \in {"held", "no_show", "canceled", "delete"} :
          CalSend("detail", k, calSheet.on, 0, NoEnd, IF k = "delete" THEN NoEvent ELSE calNote)
    BY <1>11 DEF ActOnEvent
  <2>2. calSheet.on \in CalEvents \cup {NoEvent}
    BY <1>0 DEF CalSheets
  <2>3. calJobs' \subseteq CalRequests /\ calOps' \in 0 .. MaxCalOps
    <3>1. (IF k = "delete" THEN NoEvent ELSE calNote) \in CalEvents \cup {NoEvent} /\ 0 \in Nat
          /\ NoEnd \in Int \cup {NoEnd}
          /\ k \in {"create", "update", "held", "no_show", "canceled", "delete"}
      BY <1>0
    <3> QED
      BY <2>1, <2>2, <3>1, SentTyped
  <2> QED
    BY <1>0, <1>11, <1>d, <1>h, <2>3 DEF ActOnEvent
<1>12. CASE CalAnswers
  <2> PICK j \in calJobs : /\ CalAccepted(j) \/ CalLost(j) \/ CalRefused(j)
                           /\ calJobs' = calJobs \ {j} /\ UNCHANGED calOps
    BY <1>12 DEF CalAnswers
  <2>1. CASE CalAccepted(j)
    <3>1. calStore' \in CalRanges
      BY <1>0, <2>1, AppliedTyped DEF CalAccepted
    <3> QED
      BY <1>0, <1>h, <1>s, <2>1, <3>1 DEF CalAccepted, Related, DetailShowsAnEvent
  <2>2. CASE CalLost(j)
    <3>1. calStore' \in CalRanges
      BY <1>0, <2>2, AppliedTyped DEF CalLost
    <3> QED
      BY <1>0, <1>d, <1>h, <2>2, <3>1 DEF CalLost, Unseen
  <2>3. CASE CalRefused(j)
    BY <1>0, <1>d, <1>h, <2>3 DEF CalRefused
  <2> QED
    BY <2>1, <2>2, <2>3
<1>13. CASE CalOthers
  <2>1. PICK e \in CalEvents, n \in {NoEnd, DaySlots + 1} :
          \/ calStore' = [calStore EXCEPT ![e] = [start |-> DaySlots - 1, end |-> n,
                                               status |-> "scheduled", note |-> NoEvent]]
          \/ calStore' = [calStore EXCEPT ![e] = NoEvent]
    BY <1>13 DEF CalOthers
  <2>2. [start |-> DaySlots - 1, end |-> n, status |-> "scheduled", note |-> NoEvent] \in CalRecords
    BY CalendarAssumption DEF EventRecords, CalRecords
  <2>3. calStore' \in CalRanges
    BY <1>0, <2>1, <2>2 DEF CalRanges, CalRecords
  <2>4. calOps' \in 0 .. MaxCalOps
    BY <1>0, <1>13, CalendarAssumption DEF CalOthers
  <2> QED
    BY <1>0, <1>13, <1>d, <1>h, <2>3, <2>4 DEF CalOthers, Unseen
<1>14. CASE UNCHANGED calVars
  BY <1>0, <1>14, <1>d, <1>h DEF calVars
<1> QED
  BY <1>1, <1>2, <1>3, <1>4, <1>5, <1>6, <1>7, <1>8, <1>9, <1>10, <1>11, <1>12, <1>13, <1>14
     DEF CalNext

LEMMA CalendarStarts == CalInit => CalInv
<1>1. CalInit => QuietCalendarIsTrue /\ DetailShowsAnEvent /\ CalComing
  BY DEF CalInit, QuietCalendarIsTrue, DetailShowsAnEvent, NoSheet, CalComing, CalOnItsWay
<1> QED
  BY <1>1, CalendarTypeStarts DEF CalInv

LEMMA CalendarSteps == CalInv /\ [CalNext]_calVars => CalInv'
  BY CalendarTypeSteps, CalComingSteps, CalendarQuietSteps DEF CalInv
-----------------------------------------------------------------------------
(* A step of DragStaysInItsDay.                                            *)
DragFits ==
  \A j \in calJobs' \ calJobs :
    (j.by = "grid") =>
      LET r == CalShown[j.event]
      IN /\ j.end - j.start = EndOf(r) - r.start
         /\ Fits(r.start, EndOf(r)) => Fits(j.start, j.end)

LEMMA DayFacts ==
  \A d \in Nat : \A c \in 0 .. DaySlots - 1 : DayOf(d * DaySlots + c) = d
<1> SUFFICES ASSUME NEW d \in Nat, NEW c \in 0 .. DaySlots - 1 PROVE (d * DaySlots + c) \div DaySlots = d
  BY DEF DayOf
<1>1. DaySlots \in Nat \ {0}
  BY CalendarAssumption
<1>2. d * DaySlots \in Nat
  BY <1>1
<1> QED
  BY <1>1, <1>2

LEMMA StartsOnItsDay ==
  \A t \in Nat : DayOf(t) * DaySlots <= t /\ t < (DayOf(t) + 1) * DaySlots /\ DayOf(t) \in Nat
<1> TAKE t \in Nat
<1>1. DaySlots \in Nat \ {0}
  BY CalendarAssumption
<1> QED
  BY <1>1 DEF DayOf

LEMMA DropFits ==
  ASSUME NEW r \in EventRecords, NEW d \in Midnights, NEW y \in Places, Fits(r.start, EndOf(r))
  PROVE  Fits(DragTo(r, d, y), DragTo(r, d, y) + (EndOf(r) - r.start))
<1> DEFINE c == CalClamp(y, Height(r))
           length == EndOf(r) - r.start
<1>1. /\ EndOf(r) \in Int /\ r.start \in Nat /\ HourSlots \in Nat \ {0} /\ y \in 0 .. DaySlots - 1
      /\ DaySlots \in Nat \ {0} /\ d \in Nat
  BY EndTyped, CalendarAssumption DEF Midnights
<1>2. c \in 0 .. DaySlots - 1 /\ DragTo(r, d, y) = d * DaySlots + c
  BY DropTyped
<1>3. length <= DaySlots /\ length \in Int
  <2>1. DayOf(r.start) * DaySlots <= r.start /\ DayOf(r.start) \in Nat
    BY <1>1, StartsOnItsDay
  <2>2. EndOf(r) <= (DayOf(r.start) + 1) * DaySlots
    BY DEF Fits
  <2>3. (DayOf(r.start) + 1) * DaySlots = DayOf(r.start) * DaySlots + DaySlots
    BY <1>1, <2>1
  <2>4. DayOf(r.start) * DaySlots \in Nat
    BY <1>1, <2>1
  <2> QED
    BY <1>1, <2>1, <2>2, <2>3, <2>4
<1>4. length <= Height(r) /\ Height(r) \in Int
  BY <1>1 DEF Height
<1>5. c + length <= DaySlots
  BY <1>1, <1>3, <1>4 DEF CalClamp
<1>6. DayOf(d * DaySlots + c) = d
  BY <1>1, <1>2, DayFacts
<1>7. (d + 1) * DaySlots = d * DaySlots + DaySlots /\ d * DaySlots \in Nat
  BY <1>1
<1> HIDE DEF c, length
<1>8. d * DaySlots + c + length <= (d + 1) * DaySlots
  BY <1>1, <1>2, <1>3, <1>5, <1>7
<1> QED
  BY <1>2, <1>6, <1>8 DEF Fits, length

LEMMA EventDragSteps == CalInv /\ [CalNext]_calVars => DragFits
<1> SUFFICES ASSUME CalInv, [CalNext]_calVars,
                    NEW j \in calJobs' \ calJobs, j.by = "grid"
             PROVE  LET r == CalShown[j.event]
                    IN /\ j.end - j.start = EndOf(r) - r.start
                       /\ Fits(r.start, EndOf(r)) => Fits(j.start, j.end)
  BY DEF DragFits
<1>1. CASE DragEvent
  <2>0. calData \in [Views -> CalRanges \cup {NoCalRead}] /\ calView \in Views
    BY Zenon DEF CalInv, CalendarTypeOK, CalRanges, CalRecords
  <2>1. PICK e \in CalExisting(CalShown), y \in Places, d \in Midnights :
          CalSend("grid", "update", e, DragTo(CalShown[e], d, y),
                  DragTo(CalShown[e], d, y) + (EndOf(CalShown[e]) - CalShown[e].start), NoEvent)
    BY <1>1, <2>0 DEF DragEvent, Views
  <2>2. e \in CalEvents /\ CalShown[e] \in EventRecords
    BY <1>1, <2>0 DEF DragEvent, OnGrid, CalShown, CalExisting, CalRanges, CalRecords
  <2>3. j.event = e /\ j.start = DragTo(CalShown[e], d, y)
        /\ j.end = j.start + (EndOf(CalShown[e]) - CalShown[e].start)
    BY <2>1 DEF CalSend
  <2>4. j.start \in Nat /\ EndOf(CalShown[e]) \in Int /\ CalShown[e].start \in Nat
    BY <2>2, <2>3, DropTyped, EndTyped
  <2>5. j.end - j.start = EndOf(CalShown[e]) - CalShown[e].start
    BY <2>3, <2>4
  <2>6. Fits(CalShown[e].start, EndOf(CalShown[e])) => Fits(j.start, j.end)
    BY <2>2, <2>3, DropFits
  <2> QED
    BY <2>3, <2>5, <2>6
<1>2. CASE SubmitForm
  BY <1>2 DEF SubmitForm, CalSend
<1>3. CASE ActOnEvent
  BY <1>3 DEF ActOnEvent, CalSend
<1>4. CASE CalAnswers
  BY <1>4 DEF CalAnswers
<1> QED
  BY <1>1, <1>2, <1>3, <1>4 DEF CalNext, calVars, CalServed, CalArrives, TurnPage, OpenForm, OpenEvent,
     CloseCalSheet, StartEdit, TypeOutcome, CalOthers
-----------------------------------------------------------------------------
(* How the calendar lays out a day: the recursion that places its events one*)
(* by one, and why no two that overlap in time share a lane.               *)
NoSlots == [cluster |-> 0, ends |-> <<>>, over |-> 0, slots |-> [e \in CalEvents |-> <<0, 0>>]]

PlacesAll(s, q, n, p) ==
  p = [i \in 0 .. n |-> IF i = 0 THEN NoSlots ELSE PlaceEvent(s, p[i - 1], q[i])]

LEMMA PlacingsExist ==
  ASSUME NEW s, NEW q, NEW N \in Nat
  PROVE  \E p : PlacesAll(s, q, N, p)
<1> DEFINE W == {n \in Nat : ~\E p : PlacesAll(s, q, n, p)}
<1> SUFFICES ASSUME W # {} PROVE FALSE
  OBVIOUS
<1>1. PICK n \in W : \A m \in W : n <= m
  BY LeastNat
<1>2. CASE n = 0
  <2> DEFINE p == [i \in 0 .. n |-> NoSlots]
  <2>1. p = [i \in 0 .. n |-> IF i = 0 THEN NoSlots ELSE PlaceEvent(s, p[i - 1], q[i])]
    BY <1>2
  <2>2. QED
    BY <2>1, <1>1 DEF PlacesAll
<1>3. CASE n # 0
  <2>1. n - 1 \in Nat /\ n - 1 \notin W
    BY <1>1, <1>3
  <2>2. PICK h : PlacesAll(s, q, n - 1, h)
    BY <2>1
  <2>3. h = [i \in 0 .. (n - 1) |-> IF i = 0 THEN NoSlots ELSE PlaceEvent(s, h[i - 1], q[i])]
    BY <2>2 DEF PlacesAll
  <2> DEFINE p == [i \in 0 .. n |-> IF i < n THEN h[i] ELSE PlaceEvent(s, h[n - 1], q[n])]
  <2>4. ASSUME NEW i \in 0 .. n
        PROVE  p[i] = IF i = 0 THEN NoSlots ELSE PlaceEvent(s, p[i - 1], q[i])
    <3>1. CASE i = n
      <4>1. p[i] = PlaceEvent(s, h[n - 1], q[n]) /\ p[n - 1] = h[n - 1]
        BY <3>1, <1>1, <1>3
      <4>2. QED
        BY <4>1, <3>1, <1>3
    <3>2. CASE i # n
      <4>1. i \in 0 .. (n - 1) /\ p[i] = h[i] /\ (i # 0 => p[i - 1] = h[i - 1])
        BY <3>2, <1>1, <1>3
      <4>2. h[i] = IF i = 0 THEN NoSlots ELSE PlaceEvent(s, h[i - 1], q[i])
        BY <4>1, <2>3
      <4> HIDE DEF p
      <4>3. QED
        BY <4>1, <4>2
    <3>3. QED
      BY <3>1, <3>2
  <2>5. p = [i \in 0 .. n |-> p[i]]
    OBVIOUS
  <2> HIDE DEF p
  <2>6. p = [i \in 0 .. n |-> IF i = 0 THEN NoSlots ELSE PlaceEvent(s, p[i - 1], q[i])]
    BY <2>4, <2>5
  <2>7. QED
    BY <2>6, <1>1 DEF PlacesAll
<1>4. QED
  BY <1>2, <1>3

LEMMA PlacingsAre ==
  ASSUME NEW s, NEW q, Len(q) \in Nat
  PROVE  PlacesAll(s, q, Len(q), Placings(s, q))
<1>1. PICK p : PlacesAll(s, q, Len(q), p)
  BY PlacingsExist
<1>2. Placings(s, q) = CHOOSE p0 : PlacesAll(s, q, Len(q), p0)
  BY DEF Placings, PlacesAll, NoSlots
<1>3. QED
  BY <1>1, <1>2
-----------------------------------------------------------------------------
(* The events of a day can be sorted.                                      *)
DayEvents(s, T) ==
  /\ T \in SUBSET CalEvents /\ IsFiniteSet(T)
  /\ \A e \in T : s[e].start \in Nat /\ EndOf(s[e]) \in Int
Sorts(s, q) == \A i, j \in DOMAIN q : i < j => ~Earlier(s, q[j], q[i])
SortsSet(s, T, n, q) ==
  /\ q \in [1 .. n -> T]
  /\ \A i, j \in 1 .. n : i # j => q[i] # q[j]
  /\ \A i, j \in 1 .. n : i < j => ~Earlier(s, q[j], q[i])

LEMMA EarlierIsAnOrder ==
  ASSUME NEW s, NEW T, DayEvents(s, T), NEW a \in T, NEW b \in T, NEW c \in T
  PROVE  /\ Earlier(s, a, b) /\ ~Earlier(s, c, b) => ~Earlier(s, c, a)
         /\ ~Earlier(s, b, a) => s[a].start <= s[b].start
BY DEF DayEvents, Earlier

LEMMA InsertedInOrder ==
  ASSUME NEW s, NEW T, DayEvents(s, T), NEW x \in T, NEW n \in Nat, NEW h,
         SortsSet(s, T \ {x}, n, h)
  PROVE  \E q : SortsSet(s, T, n + 1, q)
<1> USE DEF SortsSet
<1> DEFINE A == {i \in 1 .. n : Earlier(s, x, h[i])} \cup {n + 1}
<1>1. PICK k \in A : \A i \in A : k <= i
  <2>1. A \in SUBSET Nat /\ A # {}
    OBVIOUS
  <2> HIDE DEF A
  <2>2. QED
    BY <2>1, LeastNat
<1> DEFINE q == [j \in 1 .. (n + 1) |-> IF j < k THEN h[j] ELSE IF j = k THEN x ELSE h[j - 1]]
<1>2. k \in 1 .. (n + 1) /\ (k # n + 1 => Earlier(s, x, h[k]))
  BY <1>1
<1>3. \A j \in 1 .. n : j < k => ~Earlier(s, x, h[j])
  BY <1>1
<1> HIDE DEF A
<1>4. \A j \in 1 .. n : h[j] \in T /\ h[j] # x
  OBVIOUS
<1>5. q \in [1 .. (n + 1) -> T]
  <2>1. ASSUME NEW j \in 1 .. (n + 1) PROVE (IF j < k THEN h[j] ELSE IF j = k THEN x ELSE h[j - 1]) \in T
    BY <1>2, <1>4
  <2>2. QED
    BY <2>1
<1>6. \A j \in 1 .. n : j >= k => ~Earlier(s, h[j], x)
  <2> TAKE j \in 1 .. n
  <2> HAVE j >= k
  <2>1. k \in 1 .. n /\ Earlier(s, x, h[k]) /\ (j = k \/ ~Earlier(s, h[j], h[k]))
    BY <1>2
  <2>2. CASE j = k
    <3>1. h[k] \in T
      BY <2>1, <1>4
    <3>2. ~Earlier(s, h[k], x)
      BY <2>1, <3>1 DEF Earlier, DayEvents
    <3>3. QED
      BY <3>2, <2>2
  <2>3. CASE j # k
    <3>1. h[k] \in T /\ h[j] \in T /\ ~Earlier(s, h[j], h[k])
      BY <2>1, <2>3, <1>4
    <3>2. QED
      BY <2>1, <3>1, EarlierIsAnOrder
  <2>4. QED
    BY <2>2, <2>3
<1>7. \A j \in 1 .. (n + 1) : q[j] = IF j < k THEN h[j] ELSE IF j = k THEN x ELSE h[j - 1]
  OBVIOUS
<1> HIDE DEF q
<1>8. ASSUME NEW i \in 1 .. (n + 1), NEW j \in 1 .. (n + 1), i # j PROVE q[i] # q[j]
  BY <1>2, <1>4, <1>7, <1>8
<1>9. ASSUME NEW i \in 1 .. (n + 1), NEW j \in 1 .. (n + 1), i < j PROVE ~Earlier(s, q[j], q[i])
  <2>1. CASE j < k
    BY <1>2, <1>7, <1>9, <2>1
  <2>2. CASE j = k
    BY <1>2, <1>3, <1>7, <1>9, <2>2
  <2>3. CASE j > k /\ i = k
    BY <1>2, <1>6, <1>7, <1>9, <2>3
  <2>4. CASE j > k /\ i < k
    BY <1>2, <1>7, <1>9, <2>4
  <2>5. CASE j > k /\ i > k
    BY <1>2, <1>7, <1>9, <2>5
  <2>6. QED
    BY <1>2, <2>1, <2>2, <2>3, <2>4, <2>5
<1>10. QED
  BY <1>5, <1>8, <1>9

LEMMA SortedExists ==
  ASSUME NEW s, NEW T, DayEvents(s, T)
  PROVE  \E q : SortsSet(s, T, Cardinality(T), q)
<1> DEFINE W == {n \in Nat : \E S \in SUBSET T : Cardinality(S) = n /\ ~\E q : SortsSet(s, S, n, q)}
<1>1. IsFiniteSet(T) /\ Cardinality(T) \in Nat
  BY FS_CardinalityType DEF DayEvents
<1> SUFFICES ASSUME W # {} PROVE FALSE
  BY <1>1
<1>2. PICK n \in W : \A m \in W : n <= m
  BY LeastNat
<1>3. PICK S \in SUBSET T : Cardinality(S) = n /\ ~\E q : SortsSet(s, S, n, q)
  BY <1>2
<1>4. IsFiniteSet(S) /\ n \in Nat
  BY <1>1, <1>2, FS_Subset
<1>5. DayEvents(s, S)
  BY <1>4 DEF DayEvents
<1>6. CASE S = {}
  <2>1. n = 0
    BY <1>3, <1>6, FS_EmptySet
  <2>2. SortsSet(s, S, n, <<>>)
    BY <2>1, <1>6 DEF SortsSet
  <2>3. QED
    BY <2>2, <1>3
<1>7. CASE S # {}
  <2>1. PICK x \in S : TRUE
    BY <1>7
  <2>2. Cardinality(S \ {x}) = n - 1 /\ IsFiniteSet(S \ {x})
    BY <1>3, <1>4, <2>1, FS_RemoveElement
  <2>3. n - 1 \in Nat
    BY <2>2, FS_CardinalityType
  <2>4. n - 1 \notin W
    BY <2>3, <1>2
  <2>5. PICK h : SortsSet(s, S \ {x}, n - 1, h)
    BY <2>2, <2>3, <2>4
  <2>6. \E q : SortsSet(s, S, (n - 1) + 1, q)
    BY <1>5, <2>1, <2>3, <2>5, InsertedInOrder
  <2>7. (n - 1) + 1 = n
    BY <1>4
  <2>8. QED
    BY <2>6, <2>7, <1>3
<1>8. QED
  BY <1>6, <1>7
-----------------------------------------------------------------------------
(* What is true of the layout after n events of the sorted list q: it has  *)
(* placed those; an event of the last cluster is over when the cluster is, *)
(* and when the next event of its lane may begin; the events of the other  *)
(* clusters are over when the last one begins; and those that overlap are  *)
(* side by side.                                                           *)
Begin(s, q, i) == s[q[i]].start
Finish(s, q, i) == EndOf(s[q[i]])

AccTyped(acc) ==
  /\ acc.cluster \in Nat /\ acc.ends \in Seq(Int) /\ acc.over \in Int
  /\ acc.slots \in [CalEvents -> Nat \X Nat]

InLane(s, q, n, acc, i) ==
  LET lane == acc.slots[q[i]][2] IN
  /\ lane \in 1 .. Len(acc.ends)
  /\ Finish(s, q, i) <= acc.over
  /\ Finish(s, q, i) <= acc.ends[lane] \/ Finish(s, q, i) <= Begin(s, q, n)

Beside(s, q, acc, i, j) ==
  Begin(s, q, i) < Finish(s, q, j) /\ Begin(s, q, j) < Finish(s, q, i) =>
    acc.slots[q[i]][1] = acc.slots[q[j]][1] /\ acc.slots[q[i]][2] # acc.slots[q[j]][2]

LaidOut(s, q, n, acc) ==
  /\ AccTyped(acc)
  /\ n = 0 => acc.over = 0
  /\ \A i \in 1 .. n : acc.slots[q[i]][1] <= acc.cluster
  /\ \A i \in 1 .. n : IF acc.slots[q[i]][1] = acc.cluster THEN InLane(s, q, n, acc, i)
                       ELSE Finish(s, q, i) <= Begin(s, q, n)
  /\ \A i, j \in 1 .. n : i # j => Beside(s, q, acc, i, j)

SortedDay(s, q, N) ==
  /\ q \in [1 .. N -> CalEvents]
  /\ \A i, j \in 1 .. N : i # j => q[i] # q[j]
  /\ \A i \in 1 .. N : Begin(s, q, i) \in Nat /\ Finish(s, q, i) \in Int
  /\ \A i, j \in 1 .. N : i < j => Begin(s, q, i) <= Begin(s, q, j)

(* A lane that is new, or one whose last event is over.                    *)
LEMMA LaneIsFree ==
  ASSUME NEW ends \in Seq(Int), NEW start \in Nat
  PROVE  \/ Lane(ends, start) = Len(ends) + 1
         \/ Lane(ends, start) \in 1 .. Len(ends) /\ ends[Lane(ends, start)] <= start
<1> DEFINE F == FreeLanes(ends, start)
<1>1. F \in SUBSET Nat /\ F \subseteq 1 .. Len(ends) /\ \A i \in F : ends[i] <= start
  BY DEF FreeLanes
<1> HIDE DEF F
<1>2. CASE F = {}
  BY <1>2 DEF Lane, F
<1>3. CASE F # {}
  <2>1. \E i \in F : \A j \in F : i <= j
    BY <1>1, <1>3, LeastNat
  <2>2. Lane(ends, start) = CHOOSE i \in F : \A j \in F : i <= j
    BY <1>3 DEF Lane, F
  <2>3. Lane(ends, start) \in F
    BY <2>1, <2>2
  <2>4. QED
    BY <1>1, <2>3
<1>4. QED
  BY <1>2, <1>3

(* One more event, into the cluster under way.                             *)
LEMMA PlacedBeside ==
  ASSUME NEW s, NEW N \in Nat, NEW q, SortedDay(s, q, N), NEW n \in 0 .. (N - 1), NEW acc,
         LaidOut(s, q, n, acc), Begin(s, q, n + 1) < acc.over
  PROVE  LaidOut(s, q, n + 1, PlaceEvent(s, acc, q[n + 1]))
<1> DEFINE e == q[n + 1]
           start == Begin(s, q, n + 1)
           end == Finish(s, q, n + 1)
           lane == Lane(acc.ends, start)
           ends1 == IF lane > Len(acc.ends) THEN Append(acc.ends, end) ELSE [acc.ends EXCEPT ![lane] = end]
           over1 == IF end > acc.over THEN end ELSE acc.over
           slots1 == [acc.slots EXCEPT ![e] = <<acc.cluster, lane>>]
           new == PlaceEvent(s, acc, e)
<1>1. n + 1 \in 1 .. N /\ n \in Nat /\ \A i \in 1 .. n : i \in 1 .. N
  OBVIOUS
<1>2. e \in CalEvents /\ start \in Nat /\ end \in Int
  BY <1>1 DEF SortedDay
<1>3. acc.cluster \in Nat /\ acc.ends \in Seq(Int) /\ acc.over \in Int
      /\ acc.slots \in [CalEvents -> Nat \X Nat]
  BY DEF LaidOut, AccTyped
<1>4. new = [cluster |-> acc.cluster, ends |-> ends1, over |-> over1, slots |-> slots1]
  <2>1. ~(s[e].start >= acc.over)
    BY <1>2, <1>3 DEF Begin
  <2>2. QED
    BY <2>1 DEF PlaceEvent, Begin, Finish
<1>5. \/ lane = Len(acc.ends) + 1
      \/ lane \in 1 .. Len(acc.ends) /\ acc.ends[lane] <= start
  BY <1>2, <1>3, LaneIsFree
<1>6. new.cluster = acc.cluster /\ new.ends = ends1 /\ new.over = over1 /\ new.slots = slots1
  BY <1>4
<1> HIDE DEF e, start, end, lane, ends1, over1, slots1, new
<1>7. /\ ends1 \in Seq(Int) /\ lane \in 1 .. Len(ends1) /\ lane \in Nat
      /\ Len(acc.ends) <= Len(ends1) /\ ends1[lane] = end
      /\ Len(acc.ends) \in Nat /\ Len(ends1) \in Nat
      /\ \A i \in 1 .. Len(acc.ends) : i # lane => ends1[i] = acc.ends[i]
  <2>1. CASE lane = Len(acc.ends) + 1
    BY <2>1, <1>2, <1>3 DEF ends1
  <2>2. CASE lane \in 1 .. Len(acc.ends)
    <3>1. ends1 = [acc.ends EXCEPT ![lane] = end]
      BY <2>2, <1>3 DEF ends1
    <3> DEFINE a == acc.ends
    <3>2. a \in Seq(Int) /\ lane \in 1 .. Len(a)
      BY <2>2, <1>3
    <3> HIDE DEF a
    <3>3. /\ [a EXCEPT ![lane] = end] \in Seq(Int) /\ Len([a EXCEPT ![lane] = end]) = Len(a)
          /\ \A i \in 1 .. Len(a) : [a EXCEPT ![lane] = end][i] = IF i = lane THEN end ELSE a[i]
      BY <3>2, <1>2, ExceptSeq
    <3>4. Len(a) \in Nat
      BY <3>2
    <3>5. QED
      BY <3>1, <3>2, <3>3, <3>4 DEF a
  <2>3. QED
    BY <2>1, <2>2, <1>5
<1>8. over1 \in Int /\ acc.over <= over1 /\ end <= over1
  BY <1>2, <1>3 DEF over1
<1>9. /\ slots1 \in [CalEvents -> Nat \X Nat]
      /\ slots1[e] = <<acc.cluster, lane>>
      /\ \A f \in CalEvents : f # e => slots1[f] = acc.slots[f]
  BY <1>2, <1>3, <1>7 DEF slots1
<1>10. AccTyped(new)
  BY <1>3, <1>6, <1>7, <1>8, <1>9 DEF AccTyped
<1>11. \A i \in 1 .. n : q[i] \in CalEvents /\ q[i] # e /\ slots1[q[i]] = acc.slots[q[i]]
  <2> TAKE i \in 1 .. n
  <2>1. i \in 1 .. N /\ i # n + 1
    BY <1>1
  <2>2. q[i] \in CalEvents /\ q[i] # e
    BY <2>1, <1>1 DEF SortedDay, e
  <2>3. QED
    BY <2>2, <1>9
<1>12. \A i \in 1 .. n : Begin(s, q, n) <= start /\ Begin(s, q, i) <= start
                        /\ Finish(s, q, i) \in Int /\ Begin(s, q, i) \in Nat /\ Begin(s, q, n) \in Nat
  BY <1>1 DEF SortedDay, start
<1>13. ASSUME NEW i \in 1 .. n
       PROVE  IF new.slots[q[i]][1] = new.cluster THEN InLane(s, q, n + 1, new, i)
              ELSE Finish(s, q, i) <= Begin(s, q, n + 1)
  <2>1. IF acc.slots[q[i]][1] = acc.cluster THEN InLane(s, q, n, acc, i)
        ELSE Finish(s, q, i) <= Begin(s, q, n)
    BY DEF LaidOut
  <2>2. CASE acc.slots[q[i]][1] # acc.cluster
    BY <2>1, <2>2, <1>2, <1>6, <1>11, <1>12 DEF start
  <2>3. CASE acc.slots[q[i]][1] = acc.cluster
    <3> DEFINE k == acc.slots[q[i]][2]
    <3>1. /\ k \in 1 .. Len(acc.ends) /\ Finish(s, q, i) <= acc.over
          /\ Finish(s, q, i) <= acc.ends[k] \/ Finish(s, q, i) <= Begin(s, q, n)
      BY <2>1, <2>3 DEF InLane
    <3>2. k \in 1 .. Len(ends1) /\ Finish(s, q, i) <= over1
      <4> HIDE DEF k
      <4>1. k \in 1 .. Len(ends1)
        BY <3>1, <1>7
      <4>2. Finish(s, q, i) \in Int
        BY <1>12
      <4>3. QED
        BY <4>1, <4>2, <3>1, <1>3, <1>8
    <3>3. Finish(s, q, i) <= ends1[k] \/ Finish(s, q, i) <= start
      <4> HIDE DEF k
      <4>1. CASE k = lane
        <5>1. acc.ends[k] <= start /\ acc.ends[k] \in Int
          BY <4>1, <3>1, <1>3, <1>5
        <5>2. QED
          BY <5>1, <3>1, <1>2, <1>12
      <4>2. CASE k # lane
        <5>1. ends1[k] = acc.ends[k]
          BY <4>2, <3>1, <1>7
        <5>2. Finish(s, q, i) <= Begin(s, q, n) => Finish(s, q, i) <= start
          BY <1>2, <1>12
        <5>3. QED
          BY <5>1, <5>2, <3>1
      <4>3. QED
        BY <4>1, <4>2
    <3>4. QED
      BY <3>2, <3>3, <2>3, <1>6, <1>11 DEF InLane, start
  <2>4. QED
    BY <2>2, <2>3
<1>14. IF new.slots[q[n + 1]][1] = new.cluster THEN InLane(s, q, n + 1, new, n + 1)
       ELSE Finish(s, q, n + 1) <= Begin(s, q, n + 1)
  <2>1. new.slots[q[n + 1]][1] = new.cluster /\ new.slots[q[n + 1]][2] = lane
    BY <1>6, <1>9 DEF e
  <2>2. Finish(s, q, n + 1) <= over1 /\ Finish(s, q, n + 1) <= ends1[lane]
    BY <1>2, <1>7, <1>8 DEF end
  <2>3. QED
    BY <2>1, <2>2, <1>6, <1>7 DEF InLane
<1>15. ASSUME NEW i \in 1 .. n
       PROVE  Beside(s, q, new, i, n + 1) /\ Beside(s, q, new, n + 1, i)
  <2> SUFFICES ASSUME start < Finish(s, q, i)
               PROVE  slots1[q[i]][1] = slots1[e][1] /\ slots1[q[i]][2] # slots1[e][2]
    BY <1>6 DEF Beside, start, e
  <2>1. acc.slots[q[i]][1] = acc.cluster /\ InLane(s, q, n, acc, i)
    BY <1>2, <1>12 DEF LaidOut
  <2> DEFINE k == acc.slots[q[i]][2]
  <2>2. k \in 1 .. Len(acc.ends) /\ Finish(s, q, i) <= acc.ends[k]
    BY <2>1, <1>2, <1>12 DEF InLane
  <2>3. k # lane
    <3> HIDE DEF k
    <3>1. SUFFICES ASSUME k = lane PROVE FALSE
      OBVIOUS
    <3>2. acc.ends[k] <= start /\ acc.ends[k] \in Int
      BY <3>1, <2>2, <1>3, <1>5
    <3>3. QED
      BY <3>2, <2>2, <1>2, <1>12
  <2>4. QED
    BY <2>1, <2>3, <1>9, <1>11
<1>16. ASSUME NEW i \in 1 .. n, NEW j \in 1 .. n, i # j PROVE Beside(s, q, new, i, j)
  <2>1. Beside(s, q, acc, i, j)
    BY <1>16 DEF LaidOut
  <2>2. QED
    BY <2>1, <1>6, <1>11 DEF Beside
<1>16a. ASSUME NEW i \in 1 .. n PROVE new.slots[q[i]][1] <= new.cluster
  BY <1>6, <1>11 DEF LaidOut
<1>16b. new.slots[q[n + 1]][1] <= new.cluster
  BY <1>3, <1>6, <1>9 DEF e
<1>17. \A i \in 1 .. (n + 1) : i \in 1 .. n \/ i = n + 1
  BY <1>1
<1>18. QED
  BY <1>1, <1>10, <1>13, <1>14, <1>15, <1>16, <1>16a, <1>16b, <1>17 DEF LaidOut, new, e

(* One more event, that begins a cluster of its own.                       *)
LEMMA PlacedApart ==
  ASSUME NEW s, NEW N \in Nat, NEW q, SortedDay(s, q, N), NEW n \in 0 .. (N - 1), NEW acc,
         LaidOut(s, q, n, acc), acc.over <= Begin(s, q, n + 1)
  PROVE  LaidOut(s, q, n + 1, PlaceEvent(s, acc, q[n + 1]))
<1> DEFINE e == q[n + 1]
           start == Begin(s, q, n + 1)
           end == Finish(s, q, n + 1)
           slots1 == [acc.slots EXCEPT ![e] = <<acc.cluster + 1, 1>>]
           new == PlaceEvent(s, acc, e)
<1>1. n + 1 \in 1 .. N /\ n \in Nat /\ \A i \in 1 .. n : i \in 1 .. N
  OBVIOUS
<1>2. e \in CalEvents /\ start \in Nat /\ end \in Int
  BY <1>1 DEF SortedDay
<1>3. acc.cluster \in Nat /\ acc.over \in Int /\ acc.slots \in [CalEvents -> Nat \X Nat]
  BY DEF LaidOut, AccTyped
<1>4. new = [cluster |-> acc.cluster + 1, ends |-> <<end>>, over |-> end, slots |-> slots1]
  <2>1. s[e].start >= acc.over
    BY <1>2, <1>3 DEF Begin
  <2>2. Lane(<<>>, s[e].start) = 1
    BY DEF Lane, FreeLanes
  <2>3. Append(<<>>, EndOf(s[e])) = <<end>>
    BY DEF Finish
  <2>4. QED
    BY <2>1, <2>2, <2>3 DEF PlaceEvent, Finish
<1>6. new.cluster = acc.cluster + 1 /\ new.ends = <<end>> /\ new.over = end /\ new.slots = slots1
  BY <1>4
<1> HIDE DEF e, start, end, slots1, new
<1>9. /\ slots1 \in [CalEvents -> Nat \X Nat]
      /\ slots1[e] = <<acc.cluster + 1, 1>>
      /\ \A f \in CalEvents : f # e => slots1[f] = acc.slots[f]
  BY <1>2, <1>3 DEF slots1
<1>10. AccTyped(new)
  BY <1>2, <1>3, <1>6, <1>9 DEF AccTyped
<1>11. \A i \in 1 .. n : q[i] \in CalEvents /\ q[i] # e /\ slots1[q[i]] = acc.slots[q[i]]
  <2> TAKE i \in 1 .. n
  <2>1. i \in 1 .. N /\ i # n + 1
    BY <1>1
  <2>2. q[i] \in CalEvents /\ q[i] # e
    BY <2>1, <1>1 DEF SortedDay, e
  <2>3. QED
    BY <2>2, <1>9
<1>12. \A i \in 1 .. n : Begin(s, q, n) <= start /\ Finish(s, q, i) \in Int /\ Begin(s, q, n) \in Nat
  BY <1>1 DEF SortedDay, start
<1>13. ASSUME NEW i \in 1 .. n
       PROVE  /\ new.slots[q[i]][1] <= new.cluster /\ new.slots[q[i]][1] # new.cluster
              /\ Finish(s, q, i) <= start
  <2>1. /\ acc.slots[q[i]][1] <= acc.cluster
        /\ IF acc.slots[q[i]][1] = acc.cluster THEN InLane(s, q, n, acc, i)
           ELSE Finish(s, q, i) <= Begin(s, q, n)
    BY DEF LaidOut
  <2>2. acc.slots[q[i]][1] \in Nat
    BY <1>3, <1>11
  <2>3. Finish(s, q, i) <= acc.over \/ Finish(s, q, i) <= Begin(s, q, n)
    BY <2>1 DEF InLane
  <2>4. acc.over <= start
    BY DEF start
  <2>5. Finish(s, q, i) <= start
    BY <2>3, <2>4, <1>2, <1>3, <1>12
  <2>6. QED
    BY <2>1, <2>2, <2>5, <1>3, <1>6, <1>11
<1>14. /\ new.slots[q[n + 1]][1] = new.cluster /\ new.slots[q[n + 1]][1] <= new.cluster
       /\ InLane(s, q, n + 1, new, n + 1)
  <2>1. new.slots[q[n + 1]][1] = new.cluster /\ new.slots[q[n + 1]][2] = 1
    BY <1>6, <1>9 DEF e
  <2>2. Finish(s, q, n + 1) = new.over /\ new.ends[1] = end /\ Len(new.ends) = 1
    BY <1>6, <1>2 DEF end
  <2>3. QED
    BY <2>1, <2>2, <1>2, <1>3, <1>6 DEF InLane, end
<1>15. ASSUME NEW i \in 1 .. n
       PROVE  Beside(s, q, new, i, n + 1) /\ Beside(s, q, new, n + 1, i)
  <2>1. ~(start < Finish(s, q, i))
    BY <1>2, <1>12, <1>13
  <2>2. QED
    BY <2>1 DEF Beside, start
<1>16. ASSUME NEW i \in 1 .. n, NEW j \in 1 .. n, i # j PROVE Beside(s, q, new, i, j)
  <2>1. Beside(s, q, acc, i, j)
    BY <1>16 DEF LaidOut
  <2>2. QED
    BY <2>1, <1>6, <1>11 DEF Beside
<1>17. \A i \in 1 .. (n + 1) : i \in 1 .. n \/ i = n + 1
  BY <1>1
<1>18. QED
  BY <1>1, <1>10, <1>13, <1>14, <1>15, <1>16, <1>17 DEF LaidOut, new, e, start

LEMMA AllLaidOut ==
  ASSUME NEW s, NEW N \in Nat, NEW q, SortedDay(s, q, N), NEW p, PlacesAll(s, q, N, p)
  PROVE  LaidOut(s, q, N, p[N])
<1> DEFINE W == {n \in 0 .. N : ~LaidOut(s, q, n, p[n])}
<1> SUFFICES ASSUME W # {} PROVE FALSE
  OBVIOUS
<1>1. PICK n \in W : \A m \in W : n <= m
  <2>1. W \in SUBSET Nat
    OBVIOUS
  <2> HIDE DEF W
  <2>2. QED
    BY <2>1, LeastNat
<1>2. \A i \in 0 .. N : p[i] = IF i = 0 THEN NoSlots ELSE PlaceEvent(s, p[i - 1], q[i])
  BY DEF PlacesAll
<1>3. CASE n = 0
  <2>1. p[n] = NoSlots
    BY <1>1, <1>2, <1>3
  <2>2. LaidOut(s, q, 0, NoSlots)
    BY DEF LaidOut, NoSlots, AccTyped
  <2>3. QED
    BY <2>1, <2>2, <1>1, <1>3
<1>4. CASE n # 0
  <2> DEFINE m == n - 1
  <2>1. m \in 0 .. (N - 1) /\ m + 1 = n /\ m \notin W /\ m \in 0 .. N /\ n \in 0 .. N
    BY <1>1, <1>4
  <2>2. LaidOut(s, q, m, p[m])
    BY <2>1
  <2>3. p[n] = PlaceEvent(s, p[m], q[m + 1])
    BY <2>1, <1>2, <1>4
  <2> HIDE DEF m
  <2>4. Begin(s, q, m + 1) \in Nat /\ p[m].over \in Int
    <3>1. m + 1 \in 1 .. N
      BY <2>1
    <3>2. Begin(s, q, m + 1) \in Nat
      BY <3>1 DEF SortedDay
    <3>3. p[m].over \in Int
      BY <2>2 DEF LaidOut, AccTyped
    <3>4. QED
      BY <3>2, <3>3
  <2>5. CASE Begin(s, q, m + 1) < p[m].over
    BY <2>1, <2>2, <2>3, <2>5, <1>1, PlacedBeside
  <2>6. CASE p[m].over <= Begin(s, q, m + 1)
    BY <2>1, <2>2, <2>3, <2>6, <1>1, PlacedApart
  <2>7. QED
    BY <2>4, <2>5, <2>6
<1>5. QED
  BY <1>3, <1>4

(* Events of a day that overlap are side by side.                          *)
LEMMA DayIsSideBySide ==
  ASSUME NEW s \in [CalEvents -> EventRecords \cup {NoEvent}], NEW day,
         NEW e \in {g \in CalExisting(s) : DayOf(s[g].start) = day},
         NEW f \in {g \in CalExisting(s) : DayOf(s[g].start) = day},
         e # f, Overlap(s[e], s[f])
  PROVE  /\ LayoutDay(s, day)[e][1] = LayoutDay(s, day)[f][1]
         /\ LayoutDay(s, day)[e][2] # LayoutDay(s, day)[f][2]
<1> DEFINE T == {g \in CalExisting(s) : DayOf(s[g].start) = day}
           n == Cardinality(T)
           q == CHOOSE q0 \in SetToSeqs(T) : \A i, j \in DOMAIN q0 : i < j => ~Earlier(s, q0[j], q0[i])
           p == Placings(s, q)
<1>1. T \in SUBSET CalEvents /\ IsFiniteSet(T) /\ n \in Nat
  <2>1. T \in SUBSET CalEvents
    BY DEF CalExisting
  <2>2. QED
    BY <2>1, CalendarAssumption, FS_Subset, FS_CardinalityType
<1>2. DayEvents(s, T)
  <2>1. ASSUME NEW g \in T PROVE s[g].start \in Nat /\ EndOf(s[g]) \in Int
    <3>1. s[g] \in EventRecords
      BY DEF CalExisting
    <3>2. QED
      BY <3>1, CalendarAssumption DEF EventRecords, EndOf
  <2>2. QED
    BY <1>1, <2>1 DEF DayEvents
<1> HIDE DEF T
<1>3. PICK q1 : SortsSet(s, T, n, q1)
  BY <1>2, SortedExists
<1>4. q \in SetToSeqs(T) /\ \A i, j \in DOMAIN q : i < j => ~Earlier(s, q[j], q[i])
  <2>1. q1 \in SetToSeqs(T) /\ \A i, j \in DOMAIN q1 : i < j => ~Earlier(s, q1[j], q1[i])
    BY <1>3 DEF SortsSet, SetToSeqs
  <2>2. QED
    BY <2>1
<1> HIDE DEF q
<1>5. /\ q \in [1 .. n -> T] /\ \A i, j \in 1 .. n : i # j => q[i] # q[j]
      /\ Len(q) = n
  <2>1. q \in [1 .. n -> T] /\ \A i, j \in 1 .. n : i # j => q[i] # q[j]
    BY <1>4 DEF SetToSeqs
  <2>2. q \in Seq(T)
    BY <2>1, <1>1
  <2>3. QED
    BY <2>1, <2>2, <1>1
<1>6. \A g \in T : \E i \in 1 .. n : q[i] = g
  <2>1. q \in Injection(1 .. n, T)
    BY <1>5 DEF Injection, IsInjective
  <2>2. Cardinality(1 .. n) = n /\ IsFiniteSet(1 .. n)
    BY <1>1, FS_Interval
  <2>3. q \in Surjection(1 .. n, T)
    BY <2>1, <2>2, <1>1, FS_Injection
  <2>4. QED
    BY <2>3 DEF Surjection
<1>7. SortedDay(s, q, n)
  <2>1. ASSUME NEW i \in 1 .. n, NEW j \in 1 .. n, i < j PROVE Begin(s, q, i) <= Begin(s, q, j)
    <3>1. ~Earlier(s, q[j], q[i]) /\ q[i] \in T /\ q[j] \in T
      BY <1>4, <1>5, <2>1
    <3>2. QED
      BY <3>1, <1>2, EarlierIsAnOrder DEF Begin
  <2>2. \A i \in 1 .. n : q[i] \in T /\ q[i] \in CalEvents
    BY <1>1, <1>5
  <2>3. QED
    BY <2>1, <2>2, <1>2, <1>5 DEF SortedDay, DayEvents, Begin, Finish
<1>8. LaidOut(s, q, n, p[n])
  <2>1. PlacesAll(s, q, n, p)
    BY <1>1, <1>5, PlacingsAre
  <2> HIDE DEF p
  <2>2. QED
    BY <1>1, <1>7, <2>1, AllLaidOut
<1>9. LayoutDay(s, day) = p[n].slots
  BY <1>5 DEF LayoutDay, q, T
<1>10. PICK i \in 1 .. n : q[i] = e
  BY <1>6 DEF T
<1>11. PICK j \in 1 .. n : q[j] = f
  BY <1>6 DEF T
<1> HIDE DEF p
<1>12. Beside(s, q, p[n], i, j)
  BY <1>8, <1>10, <1>11 DEF LaidOut
<1>13. QED
  BY <1>9, <1>10, <1>11, <1>12 DEF Beside, Begin, Finish, Overlap

LEMMA SideBySide ==
  ASSUME CalendarTypeOK
  PROVE  OverlappingAreSideBySide
<1> SUFFICES ASSUME CalShown # NoCalRead, NEW d \in Midnights,
                    NEW e \in {g \in CalExisting(CalShown) : DayOf(CalShown[g].start) = d},
                    NEW f \in {g \in CalExisting(CalShown) : DayOf(CalShown[g].start) = d},
                    e # f, Overlap(CalShown[e], CalShown[f])
             PROVE  /\ LayoutDay(CalShown, d)[e][1] = LayoutDay(CalShown, d)[f][1]
                    /\ LayoutDay(CalShown, d)[e][2] # LayoutDay(CalShown, d)[f][2]
  BY DEF OverlappingAreSideBySide
<1>1. CalShown \in [CalEvents -> EventRecords \cup {NoEvent}]
  BY DEF CalendarTypeOK, CalShown
<1> DEFINE s == CalShown
<1> HIDE DEF s
<1>2. s \in [CalEvents -> EventRecords \cup {NoEvent}]
  BY <1>1 DEF s
<1>3. /\ e \in {g \in CalExisting(s) : DayOf(s[g].start) = d}
      /\ f \in {g \in CalExisting(s) : DayOf(s[g].start) = d} /\ Overlap(s[e], s[f])
  BY DEF s
<1>4. LayoutDay(s, d)[e][1] = LayoutDay(s, d)[f][1] /\ LayoutDay(s, d)[e][2] # LayoutDay(s, d)[f][2]
  BY <1>2, <1>3, DayIsSideBySide
<1>5. QED
  BY <1>4 DEF s
-----------------------------------------------------------------------------
(* The comments of a card: every text has one home.                        *)
(* A comment that is under the card, or was before it was deleted: it never leaves the card. *)
KnownIn(s, c, k) ==
  /\ c \in CommentIds
  /\ s[c] = GoneComment \/ (c \in Alive(s) /\ s[c].card = k)

Known(c, k) == KnownIn(comments, c, k)

ParentsIn(s) ==
  \A c \in Alive(s) : s[c].parent # NoComment => KnownIn(s, s[c].parent, s[c].card)

(* What the page names under a card is known under that card.              *)
NamesAreKnown ==
  /\ \A k \in CommentCards : threads[k] # NoThread =>
       \A c \in CommentIds : threads[k][c] # NoComment => Known(c, k)
  /\ threadFetch \notin {NoThread, ThreadAsking} =>
       \A c \in CommentIds : threadFetch[c] # NoComment => Known(c, cardOpen)
  /\ \A c \in CommentIds : fields[<<"edit", c>>] # ShutField => Known(c, cardOpen)
  /\ \A j \in commentJobs : j.kind # "create" => Known(j.comment, j.on)

(* The number of a text that was typed is held at one place: a comment and *)
(* whatever shows or changes it, a field for a new comment, or a request   *)
(* that creates one.                                                       *)
HeldByComment(c, n) ==
  \/ c \in Alive(comments) /\ comments[c].text[2] = n
  \/ \E k \in CommentCards : threads[k] # NoThread /\ threads[k][c] # NoComment /\ threads[k][c].text[2] = n
  \/ threadFetch \notin {NoThread, ThreadAsking} /\ threadFetch[c] # NoComment /\ threadFetch[c].text[2] = n
  \/ fields[<<"edit", c>>] \notin {ShutField, NoText} /\ fields[<<"edit", c>>][2] = n
  \/ \E j \in commentJobs : j.kind = "edit" /\ j.comment = c /\ j.text[2] = n

NewPlaces == {AddField} \cup ({"reply"} \X CommentIds)
HeldByField(p, n) == fields[p] \notin {ShutField, NoText} /\ fields[p][2] = n
HeldByJob(j, n) == j.kind = "create" /\ j.text[2] = n

Holds(home, x, n) ==
  \/ home = "comment" /\ x \in CommentIds /\ HeldByComment(x, n)
  \/ home = "field" /\ x \in NewPlaces /\ HeldByField(x, n)
  \/ home = "job" /\ x \in commentJobs /\ HeldByJob(x, n)

TextsHaveOneHome ==
  \A n \in Nat \ {0} : \A home, x : Holds(home, x, n) =>
    n <= texts /\ \A other, y : Holds(other, y, n) => other = home /\ y = x

(* An answer on its way that may miss nothing is what the server has.      *)
ThreadComing == OnItsWay /\ threadLate = {} => threadFetch = ThreadOf(comments, cardOpen)
ThreadDoubtTyped ==
  threadDoubt \subseteq CommentCards \X Whys /\ threadLate \subseteq Whys /\ (OnItsWay \/ threadLate = {})

CommentsInv ==
  /\ ThreadComing
  /\ CommentsTypeOK /\ ParentsIn(comments) /\ NamesAreKnown /\ QuietCommentsAreTrue
  /\ TextsHaveOneHome
-----------------------------------------------------------------------------
Stores == [CommentIds -> CommentRecords \cup {NoComment, GoneComment}]
Threads == [CommentIds -> CommentRecords \cup {NoComment}]
CommentRequests ==
  [n : 0 .. MaxCommentOps, place : TextPlaces, kind : {"create", "edit", "delete"},
   comment : CommentIds \cup {NoComment}, text : Texts, on : CommentCards]

Grows(s, t) == \A c, k : KnownIn(s, c, k) => KnownIn(t, c, k)

LEMMA AliveAreRecords ==
  ASSUME NEW s \in Stores, NEW c \in CommentIds
  PROVE  /\ c \in Alive(s) <=> s[c] \in CommentRecords
         /\ c \in Alive(s) <=> s[c] \notin {NoComment, GoneComment}
  BY CommentsAssumption DEF Stores, Alive

LEMMA ThreadTyped ==
  ASSUME NEW s \in Stores, NEW k \in CommentCards
  PROVE  /\ ThreadOf(s, k) \in Threads
         /\ \A c \in CommentIds : ThreadOf(s, k)[c] # NoComment
              => c \in Alive(s) /\ s[c].card = k /\ ThreadOf(s, k)[c] = s[c]
  BY AliveAreRecords DEF ThreadOf, Threads

(* A new comment takes a free identifier.                                  *)
LEMMA Adding ==
  ASSUME NEW s \in Stores, ParentsIn(s), NEW k \in CommentCards, NEW own \in BOOLEAN, NEW x \in Texts,
         NEW p \in CommentIds \cup {NoComment}, p # NoComment => KnownIn(s, p, k), FreeIds(s) # {},
         NEW t, t = WithComment(s, k, p, own, x)
  PROVE  /\ t \in Stores /\ Grows(s, t) /\ ParentsIn(t)
         /\ \A other \in CommentCards \ {k} : ThreadOf(t, other) = ThreadOf(s, other)
         /\ \E c \in CommentIds : t[c].text = x /\ c \in Alive(t)
              /\ \A d \in Alive(t) : d # c => d \in Alive(s) /\ t[d] = s[d]
<1> DEFINE c == CHOOSE y \in FreeIds(s) : TRUE
           r == [card |-> k, parent |-> p, mine |-> own, text |-> x]
<1>1. c \in FreeIds(s)
  OBVIOUS
<1>2. c \in CommentIds /\ s[c] = NoComment
  BY <1>1, Zenon DEF FreeIds
<1>3. r \in CommentRecords
  BY DEF CommentRecords
<1>4. t = [s EXCEPT ![c] = r]
  BY DEF WithComment
<1> HIDE DEF c
<1>5. t \in Stores /\ t[c] = r /\ \A d \in CommentIds : d # c => t[d] = s[d]
  BY <1>2, <1>3, <1>4 DEF Stores
<1>6. r.card = k /\ r.parent = p /\ r.text = x
  OBVIOUS
<1> HIDE DEF r
<1>7. c \in Alive(t) /\ c \notin Alive(s) /\ \A d \in CommentIds : d # c => (d \in Alive(t) <=> d \in Alive(s))
  BY <1>2, <1>3, <1>5, CommentsAssumption DEF Alive
<1>8. Grows(s, t)
  BY <1>2, <1>5, <1>7, CommentsAssumption DEF Grows, KnownIn
<1>9. ParentsIn(t)
  <2> SUFFICES ASSUME NEW d \in Alive(t), t[d].parent # NoComment PROVE KnownIn(t, t[d].parent, t[d].card)
    BY DEF ParentsIn
  <2>1. CASE d = c
    BY <1>5, <1>6, <1>8, <2>1 DEF Grows
  <2>2. CASE d # c
    <3>1. d \in Alive(s) /\ t[d] = s[d]
      BY <1>5, <1>7, <2>2 DEF Alive
    <3> QED
      BY <1>8, <3>1 DEF Grows, ParentsIn
  <2> QED
    BY <2>1, <2>2
<1>10. ASSUME NEW other \in CommentCards \ {k} PROVE ThreadOf(t, other) = ThreadOf(s, other)
  BY <1>2, <1>5, <1>6, <1>7 DEF ThreadOf
<1> QED
  BY <1>2, <1>5, <1>6, <1>7, <1>8, <1>9, <1>10 DEF Alive

LEMMA Deleting ==
  ASSUME NEW s \in Stores, ParentsIn(s), NEW k, NEW c \in Alive(s), s[c].card = k,
         NEW t, t = WithoutComment(s, c)
  PROVE  /\ t \in Stores /\ Grows(s, t) /\ ParentsIn(t)
         /\ \A other \in CommentCards \ {k} : ThreadOf(t, other) = ThreadOf(s, other)
         /\ \A d \in Alive(t) : d \in Alive(s) /\ t[d] = s[d]
<1>1. t \in Stores /\ \A d \in CommentIds : t[d] = s[d] \/ (d \in Alive(s) /\ t[d] = GoneComment)
  BY DEF WithoutComment, Stores
<1>2. \A d \in Alive(t) : d \in CommentIds /\ d \in Alive(s) /\ t[d] = s[d]
  BY <1>1 DEF Alive
<1>3. Grows(s, t)
  BY <1>1 DEF Grows, KnownIn, Alive
<1>4. ParentsIn(t)
  BY <1>2, <1>3 DEF ParentsIn, Grows
<1>5. \A d \in Alive(s) : c \in {d, s[d].parent} => s[d].card = k
  <2> TAKE d \in Alive(s)
  <2> HAVE c \in {d, s[d].parent}
  <2>1. c \in CommentIds /\ c # NoComment /\ d \in CommentIds /\ s[c] # GoneComment
    BY CommentsAssumption DEF Alive
  <2>2. CASE c = d
    BY <2>2
  <2>3. CASE c = s[d].parent
    <3>1. KnownIn(s, c, s[d].card)
      BY <2>1, <2>3 DEF ParentsIn
    <3> QED
      BY <2>1, <3>1 DEF KnownIn
  <2> QED
    BY <2>2, <2>3
<1>6. ASSUME NEW other \in CommentCards \ {k} PROVE ThreadOf(t, other) = ThreadOf(s, other)
  <2>1. ASSUME NEW d \in CommentIds
        PROVE  (d \in Alive(t) /\ t[d].card = other) <=> (d \in Alive(s) /\ s[d].card = other)
    BY <1>1, <1>2, <1>5 DEF WithoutComment, Alive
  <2> QED
    BY <1>2, <2>1 DEF ThreadOf
<1> QED
  BY <1>1, <1>2, <1>3, <1>4, <1>6

Retold(s, c, x) == [s EXCEPT ![c].text = x]

LEMMA Editing ==
  ASSUME NEW s \in Stores, ParentsIn(s), NEW k, NEW c \in Alive(s), s[c].card = k, NEW x \in Texts,
         NEW t, t = Retold(s, c, x)
  PROVE  /\ t \in Stores /\ Grows(s, t) /\ ParentsIn(t)
         /\ \A other \in CommentCards \ {k} : ThreadOf(t, other) = ThreadOf(s, other)
         /\ \A d \in Alive(t) : d \in Alive(s) /\ (t[d] = s[d] \/ (d = c /\ t[d].text = x))
<1> DEFINE u == [s[c] EXCEPT !.text = x]
<1>1. c \in CommentIds /\ s[c] \in CommentRecords
  BY AliveAreRecords DEF Alive
<1>2. u \in CommentRecords /\ u.card = k /\ u.parent = s[c].parent /\ u.text = x
  BY <1>1 DEF CommentRecords
<1>3. t = [s EXCEPT ![c] = u]
  BY Zenon DEF Retold
<1> HIDE DEF u
<1>4. t \in Stores /\ t[c] = u /\ \A d \in CommentIds : d # c => t[d] = s[d]
  BY <1>1, <1>2, <1>3 DEF Stores
<1>5. Alive(t) = Alive(s) /\ \A d \in Alive(s) : t[d].card = s[d].card /\ t[d].parent = s[d].parent
  BY <1>1, <1>2, <1>4, AliveAreRecords DEF Alive
<1>6. Grows(s, t)
  BY <1>4, <1>5 DEF Grows, KnownIn, Alive
<1>7. ParentsIn(t)
  BY <1>5, <1>6 DEF ParentsIn, Grows
<1>8. ASSUME NEW other \in CommentCards \ {k} PROVE ThreadOf(t, other) = ThreadOf(s, other)
  BY <1>2, <1>4, <1>5 DEF ThreadOf
<1> QED
  BY <1>2, <1>4, <1>5, <1>6, <1>7, <1>8 DEF Alive

(* What a request does to the comments: only those of its card change, and *)
(* the one text that is new among them is the one of the request.          *)
LEMMA Effects ==
  ASSUME NEW s \in Stores, ParentsIn(s), NEW j \in CommentRequests, CommentTaken(s, j),
         j.kind # "create" => KnownIn(s, j.comment, j.on), NEW t, t = CommentEffect(s, j)
  PROVE  /\ t \in Stores /\ Grows(s, t) /\ ParentsIn(t)
         /\ \A other \in CommentCards \ {j.on} : ThreadOf(t, other) = ThreadOf(s, other)
         /\ j.kind = "create" => \E c \in CommentIds :
              /\ c \in Alive(t) /\ t[c].text = j.text
              /\ \A d \in Alive(t) : d # c => d \in Alive(s) /\ t[d] = s[d]
         /\ j.kind # "create" =>
              \A d \in Alive(t) : d \in Alive(s) /\ (t[d] = s[d] \/ (j.kind = "edit" /\ d = j.comment /\ t[d].text = j.text))
<1>0. /\ j.on \in CommentCards /\ j.text \in Texts /\ j.comment \in CommentIds \cup {NoComment}
      /\ j.kind \in {"create", "edit", "delete"}
  BY DEF CommentRequests
<1>1. CASE j.kind = "create"
  <2>1. FreeIds(s) # {} /\ (j.comment # NoComment => KnownIn(s, j.comment, j.on))
    BY <1>1 DEF CommentTaken, ParentServes, KnownIn, Alive
  <2> DEFINE own == TRUE
             p == j.comment
             k == j.on
             x == j.text
  <2>2. own \in BOOLEAN /\ p \in CommentIds \cup {NoComment} /\ k \in CommentCards /\ x \in Texts
    BY <1>0
  <2>3. t = WithComment(s, k, p, own, x)
    BY <1>1 DEF CommentEffect
  <2> HIDE DEF own, p, k, x
  <2>4. /\ t \in Stores /\ Grows(s, t) /\ ParentsIn(t)
        /\ \A other \in CommentCards \ {k} : ThreadOf(t, other) = ThreadOf(s, other)
        /\ \E c \in CommentIds : t[c].text = x /\ c \in Alive(t)
              /\ \A d \in Alive(t) : d # c => d \in Alive(s) /\ t[d] = s[d]
    <3>1. p # NoComment => KnownIn(s, p, k)
      BY <2>1 DEF p, k
    <3> QED
      BY <2>1, <2>2, <2>3, <3>1, Adding
  <2> QED
    BY <1>1, <2>4 DEF k, x
<1>2. ASSUME j.kind # "create" PROVE j.comment \in Alive(s) /\ s[j.comment].card = j.on
  BY <1>2 DEF CommentTaken, KnownIn, Alive
<1>3. CASE j.kind = "edit"
  <2>1. t = [s EXCEPT ![j.comment].text = j.text]
    BY <1>3 DEF CommentEffect
  <2> QED
    <3> DEFINE c == j.comment
               k == j.on
               x == j.text
    <3>1. c \in Alive(s) /\ s[c].card = k /\ x \in Texts /\ t = Retold(s, c, x)
      BY <1>0, <1>2, <1>3, <2>1 DEF Retold
    <3> HIDE DEF c, k, x
    <3>2. /\ t \in Stores /\ Grows(s, t) /\ ParentsIn(t)
          /\ \A other \in CommentCards \ {k} : ThreadOf(t, other) = ThreadOf(s, other)
          /\ \A d \in Alive(t) : d \in Alive(s) /\ (t[d] = s[d] \/ (d = c /\ t[d].text = x))
      BY <3>1, Editing
    <3> QED
      BY <1>3, <3>2 DEF c, k, x
<1>4. CASE j.kind = "delete"
  <2>1. t = WithoutComment(s, j.comment)
    BY <1>4 DEF CommentEffect
  <2> QED
    BY <1>0, <1>2, <1>4, <2>1, Deleting
<1> QED
  BY <1>0, <1>1, <1>3, <1>4
-----------------------------------------------------------------------------
(* The types, as the lemmas above name them.                               *)
LEMMA CommentTypes ==
  CommentsTypeOK <=>
    /\ comments \in Stores /\ threads \in [CommentCards -> Threads \cup {NoThread}]
    /\ threadStale \subseteq CommentCards /\ ThreadDoubtTyped
    /\ threadFetch \in Threads \cup {NoThread, ThreadAsking} /\ cardOpen \in CommentCards
    /\ fields \in [TextPlaces -> Texts \cup {NoText, ShutField}] /\ texts \in 0 .. MaxTexts
    /\ commentJobs \subseteq CommentRequests
    /\ commentOps \in (0 .. MaxCommentOps) \X (0 .. MaxCommentOthers)
  BY Zenon DEF CommentsTypeOK, ThreadDoubtTyped, Stores, Threads, CommentRequests

CommentsKnown == CommentsTypeOK /\ ParentsIn(comments) /\ NamesAreKnown

(* An answer to a request, and its effect on the comments.                 *)
LEMMA AnswersEffect ==
  ASSUME CommentsKnown, NEW j \in commentJobs, CommentStored(j) \/ CommentLost(j) \/ CommentRefused(j)
  PROVE  /\ comments' \in Stores /\ Grows(comments, comments') /\ ParentsIn(comments')
         /\ \A k \in CommentCards \ {j.on} : ThreadOf(comments', k) = ThreadOf(comments, k)
<1>1. comments \in Stores /\ j \in CommentRequests /\ ParentsIn(comments)
      /\ (j.kind # "create" => KnownIn(comments, j.comment, j.on))
  BY CommentTypes DEF CommentsKnown, NamesAreKnown, Known
<1>2. CASE CommentTaken(comments, j) /\ comments' = CommentEffect(comments, j)
  BY <1>1, <1>2, Effects
<1>3. CASE comments' = comments
  BY <1>1, <1>3 DEF Grows
<1> QED
  BY <1>2, <1>3 DEF CommentStored, CommentLost, CommentRefused

LEMMA OthersEffect ==
  ASSUME CommentsKnown, CommentOthers
  PROVE  /\ comments' \in Stores /\ Grows(comments, comments') /\ ParentsIn(comments')
         /\ \E k \in CommentCards : /\ threadDoubt' = threadDoubt \cup {<<k, "untold">>}
              /\ threadLate' = LateFor(k, "untold")
              /\ \A other \in CommentCards \ {k} : ThreadOf(comments', other) = ThreadOf(comments, other)
         /\ \A d \in Alive(comments') : (d \in Alive(comments) /\ comments'[d] = comments[d]) \/ comments'[d].text[2] = 0
<1>1. comments \in Stores /\ ParentsIn(comments)
  BY CommentTypes DEF CommentsKnown
<1>2. PICK k \in CommentCards :
         /\ \/ FreeIds(comments) # {} /\ comments' = WithComment(comments, k, NoComment, FALSE, <<k, 0>>)
            \/ \E c \in Alive(comments) : comments[c].card = k /\ comments' = WithoutComment(comments, c)
         /\ threadDoubt' = threadDoubt \cup {<<k, "untold">>} /\ threadLate' = LateFor(k, "untold")
  BY DEF CommentOthers
<1>3. CASE FreeIds(comments) # {} /\ comments' = WithComment(comments, k, NoComment, FALSE, <<k, 0>>)
  <2> DEFINE own == FALSE
             x == <<k, 0>>
             p == NoComment
  <2>1. own \in BOOLEAN /\ x \in Texts /\ x[2] = 0 /\ p \in CommentIds \cup {NoComment}
    BY CommentsAssumption DEF Texts
  <2>2. comments' = WithComment(comments, k, p, own, x) /\ ~(p # NoComment)
    BY <1>3
  <2> HIDE DEF own, x, p
  <2>3. /\ comments' \in Stores /\ Grows(comments, comments') /\ ParentsIn(comments')
        /\ \A other \in CommentCards \ {k} : ThreadOf(comments', other) = ThreadOf(comments, other)
        /\ \E c \in CommentIds : comments'[c].text = x /\ c \in Alive(comments')
              /\ \A d \in Alive(comments') : d # c => d \in Alive(comments) /\ comments'[d] = comments[d]
    <3>1. p # NoComment => KnownIn(comments, p, k)
      BY <2>2
    <3>2. own \in BOOLEAN /\ x \in Texts /\ p \in CommentIds \cup {NoComment} /\ FreeIds(comments) # {}
      BY <1>3, <2>1
    <3>3. comments' = WithComment(comments, k, p, own, x)
      BY <2>2
    <3> QED
      BY <1>1, <3>1, <3>2, <3>3, Adding
  <2> QED
    BY <1>2, <2>1, <2>3
<1>4. ASSUME NEW c \in Alive(comments), comments[c].card = k, comments' = WithoutComment(comments, c)
      PROVE  /\ comments' \in Stores /\ Grows(comments, comments') /\ ParentsIn(comments')
             /\ \A other \in CommentCards \ {k} : ThreadOf(comments', other) = ThreadOf(comments, other)
             /\ \A d \in Alive(comments') : d \in Alive(comments) /\ comments'[d] = comments[d]
  BY <1>1, <1>4, Deleting
<1> QED
  BY <1>2, <1>3, <1>4

LEMMA ThreadFields ==
  ASSUME CommentsTypeOK, NEW thread \in Threads
  PROVE  /\ FieldsAfter(thread) \in [TextPlaces -> Texts \cup {NoText, ShutField}]
         /\ \A p \in TextPlaces : FieldsAfter(thread)[p] \in {ShutField, fields[p]}
  BY CommentTypes DEF FieldsAfter

LEMMA AskTyped ==
  ASSUME CommentsTypeOK, NEW p \in TextPlaces, NEW kind \in {"create", "edit", "delete"},
         NEW c \in CommentIds \cup {NoComment}, NEW text \in Texts, CommentAsk(p, kind, c, text)
  PROVE  /\ commentJobs' \subseteq CommentRequests
         /\ commentOps' \in (0 .. MaxCommentOps) \X (0 .. MaxCommentOthers)
<1>1. commentOps[1] \in 0 .. MaxCommentOps /\ commentOps[1] < MaxCommentOps /\ commentOps[2] \in 0 .. MaxCommentOthers
      /\ commentOps = <<commentOps[1], commentOps[2]>> /\ cardOpen \in CommentCards
      /\ commentJobs \subseteq CommentRequests
  BY CommentTypes DEF CommentAsk
<1>2. commentOps' = <<commentOps[1] + 1, commentOps[2]>>
  BY <1>1 DEF CommentAsk
<1>3. commentOps[1] + 1 \in 0 .. MaxCommentOps
  BY <1>1, CommentsAssumption
<1>4. [n |-> commentOps[1], place |-> p, kind |-> kind, comment |-> c, text |-> text, on |-> cardOpen]
        \in CommentRequests
  BY <1>1 DEF CommentRequests
<1> QED
  BY <1>1, <1>2, <1>3, <1>4 DEF CommentAsk

LEMMA PlacesTyped ==
  /\ \A c \in CommentIds : <<"edit", c>> \in TextPlaces /\ <<"reply", c>> \in TextPlaces
                          /\ <<"edit", c>> # AddField /\ <<"reply", c>> # AddField
  /\ AddField \in TextPlaces
  /\ \A p \in TextPlaces : p[2] \in CommentIds \cup {NoComment}
  /\ \A p \in TextPlaces : p # AddField => p[2] \in CommentIds /\ (p = <<"edit", p[2]>> \/ p = <<"reply", p[2]>>)
  BY CommentsAssumption DEF TextPlaces, AddField

(* Why a list may miss a change is told for cards, and for an answer only  *)
(* while one is on its way.                                                *)
LEMMA ThreadDoubtSteps == CommentsTypeOK /\ [CommentsNext]_commentVars => ThreadDoubtTyped'
<1> SUFFICES ASSUME CommentsTypeOK, [CommentsNext]_commentVars PROVE ThreadDoubtTyped'
  OBVIOUS
<1>0. ThreadDoubtTyped /\ cardOpen \in CommentCards
  BY CommentTypes
<1>w. "untold" \in Whys /\ "first load" \in Whys
  BY DEF Whys
<1>1. CASE UNCHANGED <<threadDoubt, threadFetch, threadLate>>
  BY <1>0, <1>1 DEF ThreadDoubtTyped, OnItsWay
<1>2. CASE ThreadServed
  BY <1>0, <1>2 DEF ThreadServed, ThreadDoubtTyped, OnItsWay
<1>3. CASE ThreadArrives
  BY <1>0, <1>3 DEF ThreadArrives, ThreadDoubtTyped
<1>4. CASE GoToCard
  BY <1>0, <1>4 DEF GoToCard, ThreadDoubtTyped, OnItsWay
<1>5. CASE CommentAnswers
  <2> PICK j \in commentJobs : CommentStored(j) \/ CommentLost(j) \/ CommentRefused(j)
    BY <1>5 DEF CommentAnswers
  <2>1. j.on \in CommentCards
    BY CommentTypes DEF CommentRequests
  <2>2. CASE CommentStored(j)
    BY <1>0, <1>w, <2>1, <2>2 DEF CommentStored, ThreadDoubtTyped, OnItsWay, LateFor, AsksAgain
  <2>3. CASE CommentLost(j)
    <3>1. threadDoubt' \subseteq CommentCards \X Whys
      <4>1. threadDoubt \subseteq CommentCards \X Whys
        BY <1>0 DEF ThreadDoubtTyped
      <4>2. <<j.on, "untold">> \in CommentCards \X Whys
        BY <1>w, <2>1
      <4>3. threadDoubt' = threadDoubt \cup {<<j.on, "untold">>}
        BY <2>3 DEF CommentLost
      <4> QED
        BY <4>1, <4>2, <4>3, Zenon
    <3>2. threadLate' \subseteq Whys /\ (OnItsWay' \/ threadLate' = {})
      BY <1>0, <1>w, <2>3 DEF CommentLost, ThreadDoubtTyped, OnItsWay, LateFor
    <3> QED
      BY <3>1, <3>2 DEF ThreadDoubtTyped
  <2>4. CASE CommentRefused(j)
    BY <2>4, <1>1 DEF CommentRefused
  <2> QED
    BY <2>2, <2>3, <2>4
<1>6. CASE CommentOthers
  <2>1. threadDoubt' \subseteq CommentCards \X Whys
    <3>1. threadDoubt \subseteq CommentCards \X Whys
      BY <1>0 DEF ThreadDoubtTyped
    <3>2. PICK k \in CommentCards : threadDoubt' = threadDoubt \cup {<<k, "untold">>}
      BY <1>6 DEF CommentOthers
    <3>3. <<k, "untold">> \in CommentCards \X Whys
      BY <1>w
    <3> QED
      BY <3>1, <3>2, <3>3, Zenon
  <2>2. threadLate' \subseteq Whys /\ (OnItsWay' \/ threadLate' = {})
    BY <1>0, <1>w, <1>6 DEF CommentOthers, ThreadDoubtTyped, OnItsWay, LateFor
  <2> QED
    BY <2>1, <2>2 DEF ThreadDoubtTyped
<1> QED
  BY <1>1, <1>2, <1>3, <1>4, <1>5, <1>6 DEF CommentsNext, commentVars, OpenReply,
     OpenCommentEdit, DeleteComment, CommentAsk, CancelField, TypeText, SubmitText

LEMMA CommentsTypeSteps == CommentsKnown /\ [CommentsNext]_commentVars => CommentsTypeOK'
<1> SUFFICES ASSUME CommentsKnown, [CommentsNext]_commentVars PROVE CommentsTypeOK'
  OBVIOUS
<1>t. CommentsTypeOK
  BY DEF CommentsKnown
<1>0. /\ comments \in Stores /\ threads \in [CommentCards -> Threads \cup {NoThread}]
      /\ threadStale \subseteq CommentCards
      /\ threadFetch \in Threads \cup {NoThread, ThreadAsking} /\ cardOpen \in CommentCards
      /\ fields \in [TextPlaces -> Texts \cup {NoText, ShutField}] /\ texts \in 0 .. MaxTexts
      /\ commentJobs \subseteq CommentRequests
      /\ commentOps \in (0 .. MaxCommentOps) \X (0 .. MaxCommentOthers)
  BY <1>t, CommentTypes
<1>d. ThreadDoubtTyped'
  BY <1>t, ThreadDoubtSteps
<1>h. ASSUME comments' \in Stores, threads' \in [CommentCards -> Threads \cup {NoThread}],
             threadStale' \subseteq CommentCards,
             threadFetch' \in Threads \cup {NoThread, ThreadAsking}, cardOpen' \in CommentCards,
             fields' \in [TextPlaces -> Texts \cup {NoText, ShutField}], texts' \in 0 .. MaxTexts,
             commentJobs' \subseteq CommentRequests,
             commentOps' \in (0 .. MaxCommentOps) \X (0 .. MaxCommentOthers)
      PROVE  CommentsTypeOK'
  BY <1>d, <1>h, Zenon DEF CommentsTypeOK, ThreadDoubtTyped, Stores, Threads, CommentRequests
<1>1. CASE ThreadServed
  BY <1>0, <1>1, <1>h, ThreadTyped DEF ThreadServed
<1>2. CASE ThreadArrives
  <2>1. threadFetch \in Threads
    BY <1>0, <1>2 DEF ThreadArrives
  <2>2. fields' \in [TextPlaces -> Texts \cup {NoText, ShutField}]
    BY <1>2, <1>t, <2>1, ThreadFields DEF ThreadArrives
  <2> QED
    BY <1>0, <1>2, <1>h, <2>1, <2>2 DEF ThreadArrives
<1>3. CASE GoToCard
  BY <1>0, <1>3, <1>h DEF GoToCard
<1>4. ASSUME NEW c \in CommentIds, OpenReply(c) PROVE CommentsTypeOK'
  BY <1>0, <1>4, <1>h, PlacesTyped DEF OpenReply
<1>5. ASSUME NEW c \in CommentIds, OpenCommentEdit(c) PROVE CommentsTypeOK'
  <2>1. OnScreen[c].text \in Texts
    BY <1>0, <1>5 DEF OpenCommentEdit, Drawn, Read, OnScreen, Threads, CommentRecords
  <2> QED
    BY <1>0, <1>5, <1>h, <2>1, PlacesTyped DEF OpenCommentEdit
<1>6. ASSUME NEW c \in CommentIds, DeleteComment(c) PROVE CommentsTypeOK'
  <2> DEFINE p == <<"edit", c>>
             x == <<cardOpen, 0>>
             kind == "delete"
  <2>1. p \in TextPlaces /\ x \in Texts /\ kind \in {"create", "edit", "delete"}
    <3>1. p \in TextPlaces
      BY PlacesTyped, Zenon
    <3>2. 0 \in 0 .. MaxTexts
      BY CommentsAssumption
    <3> QED
      BY <1>0, <3>1, <3>2 DEF Texts
  <2>2. CommentAsk(p, kind, c, x)
    BY <1>6 DEF DeleteComment
  <2> HIDE DEF p, x, kind
  <2>3. /\ commentJobs' \subseteq CommentRequests
        /\ commentOps' \in (0 .. MaxCommentOps) \X (0 .. MaxCommentOthers)
    BY <1>t, <2>1, <2>2, AskTyped
  <2> QED
    BY <1>0, <1>6, <1>h, <2>3 DEF DeleteComment
<1>7. ASSUME NEW p \in TextPlaces, CancelField(p) PROVE CommentsTypeOK'
  BY <1>0, <1>7, <1>h DEF CancelField
<1>8. ASSUME NEW p \in TextPlaces, TypeText(p) PROVE CommentsTypeOK'
  <2>1. texts' \in 0 .. MaxTexts /\ <<cardOpen, texts + 1>> \in Texts
    BY <1>0, <1>8, CommentsAssumption DEF TypeText, Texts
  <2> QED
    BY <1>0, <1>8, <1>h, <2>1 DEF TypeText
<1>9. ASSUME NEW p \in TextPlaces, SubmitText(p) PROVE CommentsTypeOK'
  <2> DEFINE kind == IF p[1] = "edit" THEN "edit" ELSE "create"
             c == p[2]
             x == fields[p]
  <2>1. c \in CommentIds \cup {NoComment} /\ x \in Texts /\ kind \in {"create", "edit", "delete"}
    BY <1>0, <1>9, PlacesTyped DEF SubmitText
  <2>2. CommentAsk(p, kind, c, x)
    BY <1>9 DEF SubmitText
  <2> HIDE DEF x, kind, c
  <2>3. /\ commentJobs' \subseteq CommentRequests
        /\ commentOps' \in (0 .. MaxCommentOps) \X (0 .. MaxCommentOthers)
    BY <1>t, <2>1, <2>2, AskTyped
  <2>4. fields' \in [TextPlaces -> Texts \cup {NoText, ShutField}]
    BY <1>0, <1>9 DEF SubmitText, Emptied
  <2> QED
    BY <1>0, <1>9, <1>h, <2>3, <2>4 DEF SubmitText
<1>10. CASE CommentAnswers
  <2> PICK j \in commentJobs : /\ CommentStored(j) \/ CommentLost(j) \/ CommentRefused(j)
                               /\ commentJobs' = commentJobs \ {j}
                               /\ UNCHANGED <<cardOpen, texts, commentOps>>
    BY <1>10 DEF CommentAnswers
  <2>1. comments' \in Stores
    BY AnswersEffect
  <2>2. j.on \in CommentCards
    BY <1>0 DEF CommentRequests
  <2>3. CASE CommentStored(j)
    BY <1>0, <1>h, <2>1, <2>2, <2>3 DEF CommentStored, StaleAfter
  <2>4. CASE CommentLost(j)
    BY <1>0, <1>h, <2>1, <2>2, <2>4 DEF CommentLost
  <2>5. CASE CommentRefused(j)
    BY <1>0, <1>h, <2>5 DEF CommentRefused
  <2> QED
    BY <2>3, <2>4, <2>5
<1>11. CASE CommentOthers
  <2>1. comments' \in Stores
    BY <1>11, OthersEffect
  <2>2. commentOps[2] \in 0 .. MaxCommentOthers /\ commentOps[1] \in 0 .. MaxCommentOps
        /\ commentOps = <<commentOps[1], commentOps[2]>> /\ commentOps[2] < MaxCommentOthers
    BY <1>0, <1>11 DEF CommentOthers
  <2>3. commentOps' = <<commentOps[1], commentOps[2] + 1>>
    BY <1>11, <2>2 DEF CommentOthers
  <2>4. commentOps' \in (0 .. MaxCommentOps) \X (0 .. MaxCommentOthers)
    BY <2>2, <2>3, CommentsAssumption
  <2> QED
    BY <1>0, <1>11, <1>h, <2>1, <2>4 DEF CommentOthers
<1>12. CASE UNCHANGED commentVars
  BY <1>0, <1>12, <1>h DEF commentVars
<1> QED
  BY <1>1, <1>2, <1>3, <1>4, <1>5, <1>6, <1>7, <1>8, <1>9, <1>10, <1>11, <1>12 DEF CommentsNext

(* A comment stays under its card, and what the page names is among them.  *)
LEMMA KnownSteps == CommentsKnown /\ [CommentsNext]_commentVars => ParentsIn(comments') /\ NamesAreKnown'
<1> SUFFICES ASSUME CommentsKnown, [CommentsNext]_commentVars PROVE ParentsIn(comments') /\ NamesAreKnown'
  OBVIOUS
<1>0. /\ comments \in Stores /\ threads \in [CommentCards -> Threads \cup {NoThread}]
      /\ threadFetch \in Threads \cup {NoThread, ThreadAsking} /\ cardOpen \in CommentCards
      /\ fields \in [TextPlaces -> Texts \cup {NoText, ShutField}]
      /\ ParentsIn(comments) /\ NamesAreKnown
  BY CommentTypes DEF CommentsKnown
<1>n. ASSUME comments' \in {comments} \/ Grows(comments, comments'),
             \A k \in CommentCards : threads'[k] # NoThread =>
               \A c \in CommentIds : threads'[k][c] # NoComment => Known(c, k),
             threadFetch' \notin {NoThread, ThreadAsking} =>
               \A c \in CommentIds : threadFetch'[c] # NoComment => Known(c, cardOpen'),
             \A c \in CommentIds : fields'[<<"edit", c>>] # ShutField => Known(c, cardOpen'),
             \A j \in commentJobs' : j.kind # "create" => Known(j.comment, j.on)
      PROVE  NamesAreKnown'
  <2>1. \A c, k : Known(c, k) => KnownIn(comments', c, k)
    BY <1>n DEF Grows, Known
  <2> QED
    BY <1>n, <2>1 DEF NamesAreKnown, Known
<1>e. /\ \A c \in CommentIds : <<"edit", c>> \in TextPlaces /\ <<"reply", c>> \in TextPlaces /\ <<"edit", c>> # AddField
      /\ \A c, d \in CommentIds : <<"edit", c>> = <<"edit", d>> => c = d
      /\ \A c, d \in CommentIds : <<"edit", c>> # <<"reply", d>>
  BY PlacesTyped
<1>d. ASSUME NEW c \in CommentIds, Read(c) PROVE Known(c, cardOpen)
  BY <1>0, <1>d DEF Read, OnScreen, NamesAreKnown
<1>1. CASE ThreadServed
  <2>1. \A c \in CommentIds : threadFetch'[c] # NoComment => Known(c, cardOpen)
    BY <1>0, <1>1, ThreadTyped DEF ThreadServed, Known, KnownIn
  <2> QED
    BY <1>0, <1>1, <1>n, <2>1 DEF ThreadServed, NamesAreKnown
<1>2. CASE ThreadArrives
  <2>1. threadFetch \in Threads
    BY <1>0, <1>2 DEF ThreadArrives
  <2>2. \A p \in TextPlaces : fields'[p] \in {ShutField, fields[p]}
    BY <1>2, <2>1, ThreadFields DEF ThreadArrives, CommentsKnown
  <2> QED
    BY <1>0, <1>2, <1>e, <1>n, <2>1, <2>2 DEF ThreadArrives, NamesAreKnown
<1>3. CASE GoToCard
  <2>1. \A c \in CommentIds : fields'[<<"edit", c>>] = ShutField
    BY <1>3, <1>e DEF GoToCard
  <2> QED
    BY <1>0, <1>3, <1>n, <2>1 DEF GoToCard, NamesAreKnown
<1>4. ASSUME NEW c \in CommentIds, OpenReply(c) PROVE ParentsIn(comments') /\ NamesAreKnown'
  <2>1. \A d \in CommentIds : fields'[<<"edit", d>>] = fields[<<"edit", d>>]
    BY <1>0, <1>4, <1>e DEF OpenReply
  <2> QED
    BY <1>0, <1>4, <1>n, <2>1 DEF OpenReply, NamesAreKnown
<1>5. ASSUME NEW c \in CommentIds, OpenCommentEdit(c) PROVE ParentsIn(comments') /\ NamesAreKnown'
  <2>1. \A d \in CommentIds : d = c \/ fields'[<<"edit", d>>] = fields[<<"edit", d>>]
    BY <1>0, <1>5, <1>e DEF OpenCommentEdit
  <2>2. Known(c, cardOpen)
    BY <1>5, <1>d DEF OpenCommentEdit, Drawn
  <2> QED
    BY <1>0, <1>5, <1>n, <2>1, <2>2 DEF OpenCommentEdit, NamesAreKnown
<1>6. ASSUME NEW c \in CommentIds, DeleteComment(c) PROVE ParentsIn(comments') /\ NamesAreKnown'
  <2>1. Known(c, cardOpen)
    BY <1>6, <1>d DEF DeleteComment, Drawn
  <2>2. \A j \in commentJobs' : j \in commentJobs \/ (j.comment = c /\ j.on = cardOpen)
    BY <1>6 DEF DeleteComment, CommentAsk
  <2> QED
    BY <1>0, <1>6, <1>n, <2>1, <2>2 DEF DeleteComment, NamesAreKnown
<1>7. ASSUME NEW p \in TextPlaces, CancelField(p) PROVE ParentsIn(comments') /\ NamesAreKnown'
  <2>1. \A q \in TextPlaces : fields'[q] \in {ShutField, fields[q]}
    BY <1>0, <1>7 DEF CancelField
  <2> QED
    BY <1>0, <1>7, <1>e, <1>n, <2>1 DEF CancelField, NamesAreKnown
<1>8. ASSUME NEW p \in TextPlaces, TypeText(p) PROVE ParentsIn(comments') /\ NamesAreKnown'
  <2>1. \A q \in TextPlaces : fields[q] # ShutField \/ fields'[q] = fields[q]
    BY <1>0, <1>8 DEF TypeText
  <2> QED
    BY <1>0, <1>8, <1>e, <1>n, <2>1 DEF TypeText, NamesAreKnown
<1>9. ASSUME NEW p \in TextPlaces, SubmitText(p) PROVE ParentsIn(comments') /\ NamesAreKnown'
  <2>1. \A q \in TextPlaces : fields[q] # ShutField \/ fields'[q] = fields[q]
    BY <1>0, <1>9 DEF SubmitText, Emptied
  <2>2. p[1] = "edit" => p[2] \in CommentIds /\ p = <<"edit", p[2]>>
    BY DEF TextPlaces
  <2>3. p[1] = "edit" => Known(p[2], cardOpen)
    BY <1>0, <1>9, <2>2 DEF SubmitText, NamesAreKnown
  <2>4. \A j \in commentJobs' : \/ j \in commentJobs
                                \/ j.kind = "create"
                                \/ p[1] = "edit" /\ j.comment = p[2] /\ j.on = cardOpen
    BY <1>9 DEF SubmitText, CommentAsk
  <2> QED
    BY <1>0, <1>9, <1>e, <1>n, <2>1, <2>3, <2>4 DEF SubmitText, NamesAreKnown
<1>10. CASE CommentAnswers
  <2> PICK j \in commentJobs : /\ CommentStored(j) \/ CommentLost(j) \/ CommentRefused(j)
                               /\ commentJobs' = commentJobs \ {j}
                               /\ UNCHANGED <<cardOpen, texts, commentOps>>
    BY <1>10 DEF CommentAnswers
  <2>1. Grows(comments, comments') /\ ParentsIn(comments')
    BY AnswersEffect
  <2>2. /\ threads' = threads /\ threadFetch' \in {threadFetch, ThreadAsking}
        /\ \A q \in TextPlaces : fields'[q] \in {ShutField, fields[q]}
    BY <1>0 DEF CommentStored, CommentLost, CommentRefused
  <2> QED
    BY <1>0, <1>e, <1>n, <2>1, <2>2 DEF NamesAreKnown
<1>11. CASE CommentOthers
  <2>1. Grows(comments, comments') /\ ParentsIn(comments')
    BY <1>11, OthersEffect
  <2> QED
    BY <1>0, <1>11, <1>n, <2>1 DEF CommentOthers, NamesAreKnown
<1>12. CASE UNCHANGED commentVars
  BY <1>0, <1>12, <1>n DEF commentVars, NamesAreKnown
<1> QED
  BY <1>1, <1>2, <1>3, <1>4, <1>5, <1>6, <1>7, <1>8, <1>9, <1>10, <1>11, <1>12 DEF CommentsNext

(* An answer on its way is what the server has, unless the page knows why  *)
(* it may not be.                                                          *)
LEMMA ThreadComingSteps == CommentsKnown /\ ThreadComing /\ [CommentsNext]_commentVars => ThreadComing'
<1> SUFFICES ASSUME CommentsKnown, ThreadComing, [CommentsNext]_commentVars PROVE ThreadComing'
  OBVIOUS
<1>0. cardOpen \in CommentCards
  BY CommentTypes DEF CommentsKnown
<1>1. CASE UNCHANGED <<comments, cardOpen, threadFetch, threadLate>>
  BY <1>1 DEF ThreadComing, OnItsWay
<1>2. CASE ThreadServed
  BY <1>2 DEF ThreadServed, ThreadComing
<1>3. CASE ThreadArrives
  BY <1>3 DEF ThreadArrives, ThreadComing, OnItsWay
<1>4. CASE GoToCard
  <2>1. threadFetch' \in {NoThread, ThreadAsking}
    BY <1>4 DEF GoToCard
  <2> QED
    BY <2>1 DEF ThreadComing, OnItsWay
<1>5. CASE CommentAnswers
  <2> PICK j \in commentJobs : /\ CommentStored(j) \/ CommentLost(j) \/ CommentRefused(j)
                               /\ cardOpen' = cardOpen
    BY <1>5 DEF CommentAnswers
  <2>1. j.on # cardOpen => ThreadOf(comments', cardOpen) = ThreadOf(comments, cardOpen)
    BY <1>0, AnswersEffect
  <2>2. CASE CommentStored(j)
    BY <2>1, <2>2 DEF CommentStored, AsksAgain, ThreadComing, OnItsWay, LateFor
  <2>3. CASE CommentLost(j)
    BY <2>1, <2>3 DEF CommentLost, ThreadComing, OnItsWay, LateFor
  <2>4. CASE CommentRefused(j)
    BY <2>4, <1>1 DEF CommentRefused
  <2> QED
    BY <2>2, <2>3, <2>4
<1>6. CASE CommentOthers
  <2>1. PICK o \in CommentCards : /\ threadLate' = LateFor(o, "untold")
          /\ \A other \in CommentCards \ {o} : ThreadOf(comments', other) = ThreadOf(comments, other)
    BY <1>6, OthersEffect
  <2> QED
    BY <1>0, <1>6, <2>1 DEF CommentOthers, ThreadComing, OnItsWay, LateFor
<1> QED
  BY <1>1, <1>2, <1>3, <1>4, <1>5, <1>6 DEF CommentsNext, commentVars, OpenReply,
     OpenCommentEdit, DeleteComment, CommentAsk, CancelField, TypeText, SubmitText

LEMMA QuietCommentsSteps ==
  CommentsKnown /\ ThreadComing /\ QuietCommentsAreTrue /\ [CommentsNext]_commentVars => QuietCommentsAreTrue'
<1> SUFFICES ASSUME CommentsKnown, ThreadComing, QuietCommentsAreTrue, [CommentsNext]_commentVars,
                    NEW k \in CommentCards, threads'[k] # NoThread, k \notin threadStale',
                    \A why \in Whys : <<k, why>> \notin threadDoubt'
             PROVE  threads'[k] = ThreadOf(comments', k)
  BY DEF QuietCommentsAreTrue, Fetched
<1>0. /\ threads \in [CommentCards -> Threads \cup {NoThread}] /\ cardOpen \in CommentCards
      /\ threadLate \subseteq Whys
  BY CommentTypes DEF CommentsKnown, ThreadDoubtTyped
<1>q. threads[k] # NoThread /\ k \notin threadStale /\ (\A why \in Whys : <<k, why>> \notin threadDoubt)
         => threads[k] = ThreadOf(comments, k)
  <2>1. (\A why \in Whys : <<k, why>> \notin threadDoubt) => threadDoubt \cap ({k} \X Whys) = {}
    OBVIOUS
  <2> QED
    BY <2>1 DEF QuietCommentsAreTrue, Fetched
<1>1. CASE UNCHANGED <<comments, threads, threadStale, threadDoubt>>
  BY <1>q, <1>1
<1>2. CASE ThreadArrives
  <2>1. CASE k = cardOpen
    <3>1. threadLate = {} /\ threads'[k] = threadFetch /\ UNCHANGED comments
      BY <1>0, <1>2, <2>1 DEF ThreadArrives
    <3> QED
      BY <1>2, <2>1, <3>1 DEF ThreadArrives, ThreadComing, OnItsWay
  <2>2. CASE k # cardOpen
    <3>1. threads'[k] = threads[k] /\ UNCHANGED comments /\ k \notin threadStale
          /\ \A why \in Whys : <<k, why>> \notin threadDoubt
      BY <1>0, <1>2, <2>2 DEF ThreadArrives
    <3> QED
      BY <1>q, <3>1
  <2> QED
    BY <2>1, <2>2
<1>3. CASE CommentAnswers
  <2> PICK j \in commentJobs : CommentStored(j) \/ CommentLost(j) \/ CommentRefused(j)
    BY <1>3 DEF CommentAnswers
  <2>1. \A other \in CommentCards \ {j.on} : ThreadOf(comments', other) = ThreadOf(comments, other)
    BY AnswersEffect
  <2>2. CASE CommentStored(j)
    BY <1>q, <2>1, <2>2 DEF CommentStored, StaleAfter
  <2>3. CASE CommentLost(j)
    BY <1>q, <2>1, <2>3 DEF CommentLost, Whys
  <2>4. CASE CommentRefused(j)
    BY <1>q, <2>4 DEF CommentRefused
  <2> QED
    BY <2>2, <2>3, <2>4
<1>4. CASE CommentOthers
  <2>1. PICK o \in CommentCards : /\ threadDoubt' = threadDoubt \cup {<<o, "untold">>}
          /\ \A other \in CommentCards \ {o} : ThreadOf(comments', other) = ThreadOf(comments, other)
    BY <1>4, OthersEffect
  <2> QED
    BY <1>q, <1>4, <2>1 DEF CommentOthers, Whys
<1> QED
  BY <1>1, <1>2, <1>3, <1>4 DEF CommentsNext, commentVars, ThreadServed, GoToCard, OpenReply,
     OpenCommentEdit, DeleteComment, CancelField, TypeText, SubmitText
-----------------------------------------------------------------------------
(* The texts: they stay where they are, or go from one home to another.    *)
LEMMA TextsStay ==
  ASSUME TextsHaveOneHome, texts \in Nat, texts' \in Nat, texts <= texts',
         \A n \in Nat \ {0} : \A c \in CommentIds : HeldByComment(c, n)' => HeldByComment(c, n),
         \A n \in Nat \ {0} : \A p \in NewPlaces : HeldByField(p, n)' => HeldByField(p, n),
         \A j \in commentJobs' : j \in commentJobs \/ j.kind # "create"
  PROVE  TextsHaveOneHome'
<1>1. ASSUME NEW n \in Nat \ {0}, NEW home, NEW x, Holds(home, x, n)' PROVE Holds(home, x, n)
  BY <1>1 DEF Holds, HeldByJob
<1> QED
  BY <1>1 DEF TextsHaveOneHome

Goes(m, from, x, to, y) ==
  \A n \in Nat \ {0} : \A home, z : Holds(home, z, n)' =>
    (Holds(home, z, n) /\ ~(home = from /\ z = x /\ n = m)) \/ (home = to /\ z = y /\ n = m)

LEMMA TextsMove ==
  ASSUME TextsHaveOneHome, texts' = texts, NEW m, NEW from, NEW x, NEW to, NEW y, Holds(from, x, m),
         Goes(m, from, x, to, y)
  PROVE  TextsHaveOneHome'
  BY DEF TextsHaveOneHome, Goes

LEMMA TextsStart ==
  ASSUME TextsHaveOneHome, texts \in Nat, texts' = texts + 1, NEW to, NEW y,
         \A n \in Nat \ {0} : \A home, z : Holds(home, z, n)' =>
           Holds(home, z, n) \/ (home = to /\ z = y /\ n = texts + 1)
  PROVE  TextsHaveOneHome'
<1>1. \A n \in Nat \ {0} : \A home, z : Holds(home, z, n) => n # texts + 1
  BY DEF TextsHaveOneHome
<1>2. ASSUME NEW n \in Nat \ {0}, NEW home, NEW x, Holds(home, x, n)' PROVE n <= texts'
  BY <1>2 DEF TextsHaveOneHome
<1> QED
  BY <1>1, <1>2 DEF TextsHaveOneHome

LEMMA TextsSteps == CommentsKnown /\ TextsHaveOneHome /\ [CommentsNext]_commentVars => TextsHaveOneHome'
<1> SUFFICES ASSUME CommentsKnown, TextsHaveOneHome, [CommentsNext]_commentVars PROVE TextsHaveOneHome'
  OBVIOUS
<1>0. /\ comments \in Stores /\ threads \in [CommentCards -> Threads \cup {NoThread}]
      /\ threadFetch \in Threads \cup {NoThread, ThreadAsking} /\ cardOpen \in CommentCards
      /\ fields \in [TextPlaces -> Texts \cup {NoText, ShutField}] /\ texts \in Nat
      /\ commentJobs \subseteq CommentRequests
  BY CommentTypes, CommentsAssumption DEF CommentsKnown
<1>e. /\ \A c \in CommentIds : <<"edit", c>> \in TextPlaces /\ <<"edit", c>> \notin NewPlaces
      /\ \A c, d \in CommentIds : <<"edit", c>> = <<"edit", d>> => c = d
      /\ NewPlaces \subseteq TextPlaces
      /\ \A p \in TextPlaces : p \in NewPlaces \/ (p = <<"edit", p[2]>> /\ p[2] \in CommentIds)
      /\ \A p \in NewPlaces : p[1] # "edit"
  BY PlacesTyped DEF NewPlaces, TextPlaces, AddField
(* Fields that keep their text or lose it, with everything else as before. *)
<1>s. ASSUME comments' = comments, threads' = threads, threadFetch' \in {threadFetch, NoThread, ThreadAsking},
             \A p \in TextPlaces : fields'[p] \in {fields[p], ShutField, NoText},
             texts' = texts, \A j \in commentJobs' : j \in commentJobs \/ j.kind \notin {"create", "edit"}
      PROVE  TextsHaveOneHome'
  <2>1. ASSUME NEW n \in Nat \ {0}, NEW c \in CommentIds, HeldByComment(c, n)' PROVE HeldByComment(c, n)
    BY <1>s, <1>e, <2>1 DEF HeldByComment
  <2>2. ASSUME NEW n \in Nat \ {0}, NEW p \in NewPlaces, HeldByField(p, n)' PROVE HeldByField(p, n)
    BY <1>s, <1>e, <2>2 DEF HeldByField
  <2>3. texts' \in Nat /\ texts <= texts'
    BY <1>0, <1>s
  <2> QED
    BY <1>0, <1>s, <2>1, <2>2, <2>3, TextsStay
<1>1. CASE ThreadServed
  <2>1. ASSUME NEW n \in Nat \ {0}, NEW c \in CommentIds, HeldByComment(c, n)' PROVE HeldByComment(c, n)
    BY <1>0, <1>1, <2>1, ThreadTyped DEF ThreadServed, HeldByComment
  <2>2. ASSUME NEW n \in Nat \ {0}, NEW p \in NewPlaces, HeldByField(p, n)' PROVE HeldByField(p, n)
    BY <1>1, <2>2 DEF ThreadServed, HeldByField
  <2>3. texts' \in Nat /\ texts <= texts' /\ commentJobs' = commentJobs
    BY <1>0, <1>1 DEF ThreadServed
  <2> QED
    BY <1>0, <2>1, <2>2, <2>3, TextsStay
<1>2. CASE ThreadArrives
  <2>0. threadFetch \in Threads
    BY <1>0, <1>2 DEF ThreadArrives
  <2>p. \A p \in TextPlaces : fields'[p] \in {ShutField, fields[p]}
    BY <1>2, <2>0, ThreadFields DEF ThreadArrives, CommentsKnown
  <2>1. ASSUME NEW n \in Nat \ {0}, NEW c \in CommentIds, HeldByComment(c, n)' PROVE HeldByComment(c, n)
    <3>1. \A k \in CommentCards : threads'[k] = threads[k] \/ threads'[k] = threadFetch
      BY <1>0, <1>2 DEF ThreadArrives
    <3>2. /\ comments' = comments /\ threadFetch' = NoThread /\ commentJobs' = commentJobs
          /\ threadFetch \notin {NoThread, ThreadAsking} /\ fields'[<<"edit", c>>] \in {ShutField, fields[<<"edit", c>>]}
      BY <1>2, <1>e, <2>p DEF ThreadArrives
    <3> QED
      BY <2>1, <3>1, <3>2 DEF HeldByComment
  <2>2. ASSUME NEW n \in Nat \ {0}, NEW p \in NewPlaces, HeldByField(p, n)' PROVE HeldByField(p, n)
    BY <1>e, <2>p, <2>2 DEF HeldByField
  <2>3. texts' \in Nat /\ texts <= texts' /\ commentJobs' = commentJobs
    BY <1>0, <1>2 DEF ThreadArrives
  <2> QED
    BY <1>0, <2>1, <2>2, <2>3, TextsStay
<1>3. CASE GoToCard
  <2>1. \A p \in TextPlaces : fields'[p] \in {fields[p], ShutField, NoText}
    BY <1>3 DEF GoToCard
  <2> QED
    BY <1>3, <1>s, <2>1 DEF GoToCard
<1>4. ASSUME NEW c \in CommentIds, OpenReply(c) PROVE TextsHaveOneHome'
  <2>1. \A p \in TextPlaces : fields'[p] \in {fields[p], ShutField, NoText}
    BY <1>0, <1>4 DEF OpenReply
  <2> QED
    BY <1>4, <1>s, <2>1 DEF OpenReply
<1>5. ASSUME NEW c \in CommentIds, OpenCommentEdit(c) PROVE TextsHaveOneHome'
  <2>0. /\ comments' = comments /\ threads' = threads /\ threadFetch' = threadFetch /\ texts' = texts
        /\ commentJobs' = commentJobs
        /\ \A p \in TextPlaces : p # <<"edit", c>> => fields'[p] = fields[p]
        /\ fields'[<<"edit", c>>] = threads[cardOpen][c].text
        /\ threads[cardOpen] # NoThread /\ threads[cardOpen][c] # NoComment
    BY <1>0, <1>5, <1>e DEF OpenCommentEdit, Drawn, Read, OnScreen
  <2>1. ASSUME NEW n \in Nat \ {0}, NEW d \in CommentIds, HeldByComment(d, n)' PROVE HeldByComment(d, n)
    <3>1. CASE d = c
      BY <1>0, <2>0, <2>1, <3>1 DEF HeldByComment
    <3>2. CASE d # c
      <4>1. fields'[<<"edit", d>>] = fields[<<"edit", d>>]
        BY <1>e, <2>0, <3>2
      <4> QED
        BY <2>0, <2>1, <4>1 DEF HeldByComment
    <3> QED
      BY <3>1, <3>2
  <2>2. ASSUME NEW n \in Nat \ {0}, NEW p \in NewPlaces, HeldByField(p, n)' PROVE HeldByField(p, n)
    BY <1>e, <2>0, <2>2 DEF HeldByField
  <2>3. texts' \in Nat /\ texts <= texts'
    BY <1>0, <2>0
  <2> QED
    BY <1>0, <2>0, <2>1, <2>2, <2>3, TextsStay
<1>6. ASSUME NEW c \in CommentIds, DeleteComment(c) PROVE TextsHaveOneHome'
  <2>1. \A j \in commentJobs' : j \in commentJobs \/ j.kind \notin {"create", "edit"}
    BY <1>6 DEF DeleteComment, CommentAsk
  <2> QED
    BY <1>6, <1>s, <2>1 DEF DeleteComment
<1>7. ASSUME NEW p \in TextPlaces, CancelField(p) PROVE TextsHaveOneHome'
  <2>1. \A q \in TextPlaces : fields'[q] \in {fields[q], ShutField, NoText}
    BY <1>0, <1>7 DEF CancelField
  <2> QED
    BY <1>7, <1>s, <2>1 DEF CancelField
<1>8. ASSUME NEW p \in TextPlaces, TypeText(p) PROVE TextsHaveOneHome'
  <2>0. /\ comments' = comments /\ threads' = threads /\ threadFetch' = threadFetch
        /\ commentJobs' = commentJobs /\ texts' = texts + 1
        /\ \A q \in TextPlaces : q # p => fields'[q] = fields[q]
        /\ fields'[p][2] = texts + 1
    BY <1>0, <1>8 DEF TypeText
  <2>1. ASSUME NEW n \in Nat \ {0}, NEW c \in CommentIds, HeldByComment(c, n)'
        PROVE  HeldByComment(c, n) \/ (p = <<"edit", c>> /\ n = texts + 1)
    <3>1. CASE p = <<"edit", c>>
      BY <2>0, <2>1, <3>1 DEF HeldByComment
    <3>2. CASE p # <<"edit", c>>
      BY <1>e, <2>0, <2>1, <3>2 DEF HeldByComment
    <3> QED
      BY <3>1, <3>2
  <2>2. ASSUME NEW n \in Nat \ {0}, NEW q \in NewPlaces, HeldByField(q, n)'
        PROVE  HeldByField(q, n) \/ (p = q /\ n = texts + 1)
    BY <1>e, <2>0, <2>2 DEF HeldByField
  <2>3. CASE p \in NewPlaces
    <3>1. ASSUME NEW n \in Nat \ {0}, NEW home, NEW z, Holds(home, z, n)'
          PROVE  Holds(home, z, n) \/ (home = "field" /\ z = p /\ n = texts + 1)
      BY <1>e, <2>0, <2>1, <2>2, <2>3, <3>1 DEF Holds
    <3> QED
      BY <1>0, <2>0, <3>1, TextsStart
  <2>4. CASE p = <<"edit", p[2]>> /\ p[2] \in CommentIds
    <3>1. ASSUME NEW n \in Nat \ {0}, NEW home, NEW z, Holds(home, z, n)'
          PROVE  Holds(home, z, n) \/ (home = "comment" /\ z = p[2] /\ n = texts + 1)
      BY <1>e, <2>0, <2>1, <2>2, <2>4, <3>1 DEF Holds
    <3> QED
      BY <1>0, <2>0, <3>1, TextsStart
  <2>5. p \in NewPlaces \/ (p = <<"edit", p[2]>> /\ p[2] \in CommentIds)
    BY <1>e, Zenon
  <2> QED
    BY <2>3, <2>4, <2>5, Zenon
<1>9. ASSUME NEW p \in TextPlaces, SubmitText(p) PROVE TextsHaveOneHome'
  <2> DEFINE j == [n |-> commentOps[1], place |-> p, kind |-> IF p[1] = "edit" THEN "edit" ELSE "create",
                   comment |-> p[2], text |-> fields[p], on |-> cardOpen]
  <2>0. /\ comments' = comments /\ threads' = threads /\ threadFetch' = threadFetch
        /\ commentJobs' = commentJobs \cup {j} /\ texts' = texts
        /\ \A q \in TextPlaces : q # p => fields'[q] = fields[q]
        /\ fields'[p] = NoText /\ fields[p] \notin {ShutField, NoText}
    BY <1>0, <1>9 DEF SubmitText, Emptied, CommentAsk
  <2>j. j.kind = (IF p[1] = "edit" THEN "edit" ELSE "create") /\ j.comment = p[2] /\ j.text = fields[p]
    OBVIOUS
  <2> HIDE DEF j
  <2>2. ASSUME NEW n \in Nat \ {0}, NEW q \in NewPlaces, HeldByField(q, n)' PROVE HeldByField(q, n) /\ q # p
    BY <1>e, <2>0, <2>2 DEF HeldByField
  <2>1. ASSUME NEW n \in Nat \ {0}, NEW c \in CommentIds, HeldByComment(c, n)' PROVE HeldByComment(c, n)
    <3>1. CASE p = <<"edit", c>>
      <4>1. p[1] = "edit" /\ p[2] = c
        BY <3>1
      <4> QED
        BY <2>0, <2>1, <2>j, <3>1, <4>1 DEF HeldByComment
    <3>2. CASE p # <<"edit", c>>
      <4>1. fields'[<<"edit", c>>] = fields[<<"edit", c>>] /\ ~(j.kind = "edit" /\ j.comment = c)
        BY <1>e, <2>0, <2>j, <3>2
      <4> QED
        BY <2>0, <2>1, <4>1 DEF HeldByComment
    <3> QED
      BY <3>1, <3>2
  <2>3. CASE p \in NewPlaces
    <3>1. Holds("field", p, fields[p][2])
      BY <2>0, <2>3 DEF Holds, HeldByField
    <3>2. ASSUME NEW n \in Nat \ {0}, NEW home, NEW z, Holds(home, z, n)'
          PROVE  \/ Holds(home, z, n) /\ ~(home = "field" /\ z = p /\ n = fields[p][2])
                 \/ home = "job" /\ z = j /\ n = fields[p][2]
      BY <1>e, <2>0, <2>1, <2>2, <2>j, <3>2 DEF Holds, HeldByJob
    <3> PICK m, y : m = fields[p][2] /\ y = j
      OBVIOUS
    <3> DEFINE from == "field"
               to == "job"
    <3>3. Holds(from, p, m) /\ texts' = texts
      BY <2>0, <3>1
    <3>4. Goes(m, from, p, to, y)
      BY <3>2 DEF Goes
    <3> HIDE DEF from, to
    <3> QED
      BY <3>3, <3>4, TextsMove
  <2>4. CASE p = <<"edit", p[2]>> /\ p[2] \in CommentIds
    <3>1. p[1] = "edit"
      BY <2>4
    <3>2. \A k \in commentJobs' : k \in commentJobs \/ k.kind # "create"
      BY <2>0, <2>j, <3>1
    <3>3. texts' \in Nat /\ texts <= texts'
      BY <1>0, <2>0
    <3> QED
      BY <1>0, <2>1, <2>2, <3>2, <3>3, TextsStay
  <2>5. p \in NewPlaces \/ (p = <<"edit", p[2]>> /\ p[2] \in CommentIds)
    BY <1>e, Zenon
  <2> QED
    BY <2>3, <2>4, <2>5, Zenon
<1>10. CASE CommentAnswers
  <2> PICK j \in commentJobs : /\ CommentStored(j) \/ CommentLost(j) \/ CommentRefused(j)
                               /\ commentJobs' = commentJobs \ {j}
                               /\ UNCHANGED <<cardOpen, texts, commentOps>>
    BY <1>10 DEF CommentAnswers
  <2>0. /\ threads' = threads /\ threadFetch' \in {threadFetch, ThreadAsking}
        /\ \A q \in TextPlaces : fields'[q] \in {ShutField, fields[q]}
        /\ comments' = comments \/ (CommentTaken(comments, j) /\ comments' = CommentEffect(comments, j))
    BY <1>0 DEF CommentStored, CommentLost, CommentRefused
  <2>j. j \in CommentRequests /\ j.kind \in {"create", "edit", "delete"} /\ ParentsIn(comments)
        /\ (j.kind # "create" => KnownIn(comments, j.comment, j.on))
    BY <1>0 DEF CommentRequests, CommentsKnown, NamesAreKnown, Known
  <2>1. CASE comments' = comments
    BY <1>s, <2>0, <2>1
  <2>2. ASSUME NEW n \in Nat \ {0}, NEW q \in NewPlaces, HeldByField(q, n)' PROVE HeldByField(q, n)
    BY <1>e, <2>0, <2>2 DEF HeldByField
  <2>t. texts' = texts /\ texts' \in Nat /\ texts <= texts'
    BY <1>0
  <2>3. CASE CommentTaken(comments, j) /\ comments' = CommentEffect(comments, j) /\ j.kind # "create"
    <3>1. \A d \in Alive(comments') : d \in Alive(comments)
            /\ (comments'[d] = comments[d] \/ (j.kind = "edit" /\ d = j.comment /\ comments'[d].text = j.text))
      BY <1>0, <2>3, <2>j, Effects
    <3>2. ASSUME NEW n \in Nat \ {0}, NEW c \in CommentIds, HeldByComment(c, n)' PROVE HeldByComment(c, n)
      <4>1. c \in Alive(comments)' /\ comments'[c].text[2] = n => HeldByComment(c, n)
        BY <3>1 DEF HeldByComment
      <4>2. fields'[<<"edit", c>>] \in {ShutField, fields[<<"edit", c>>]}
        BY <1>e, <2>0
      <4> QED
        BY <2>0, <3>2, <4>1, <4>2 DEF HeldByComment
    <3> QED
      BY <1>0, <2>2, <2>t, <3>2, TextsStay
  <2>4. CASE CommentTaken(comments, j) /\ comments' = CommentEffect(comments, j) /\ j.kind = "create"
    <3>1. PICK c \in CommentIds :
             /\ c \in Alive(comments') /\ comments'[c].text = j.text
             /\ \A d \in Alive(comments') : d # c => d \in Alive(comments) /\ comments'[d] = comments[d]
      BY <1>0, <2>4, <2>j, Effects
    <3>2. ASSUME NEW n \in Nat \ {0}, NEW d \in CommentIds, HeldByComment(d, n)'
          PROVE  HeldByComment(d, n) \/ (d = c /\ n = j.text[2])
      <4>1. d \in Alive(comments)' /\ comments'[d].text[2] = n => HeldByComment(d, n) \/ (d = c /\ n = j.text[2])
        BY <3>1 DEF HeldByComment
      <4>2. fields'[<<"edit", d>>] \in {ShutField, fields[<<"edit", d>>]}
        BY <1>e, <2>0
      <4> QED
        BY <2>0, <3>2, <4>1, <4>2 DEF HeldByComment
    <3>3. Holds("job", j, j.text[2])
      BY <2>4 DEF Holds, HeldByJob
    <3>4. ASSUME NEW n \in Nat \ {0}, NEW home, NEW z, Holds(home, z, n)'
          PROVE  \/ Holds(home, z, n) /\ ~(home = "job" /\ z = j /\ n = j.text[2])
                 \/ home = "comment" /\ z = c /\ n = j.text[2]
      BY <2>2, <3>2, <3>4 DEF Holds, HeldByJob
    <3> DEFINE m == j.text[2]
               from == "job"
               to == "comment"
    <3>5. Holds(from, j, m) /\ texts' = texts
      BY <2>t, <3>3
    <3>6. Goes(m, from, j, to, c)
      BY <3>4 DEF Goes
    <3> HIDE DEF m, from, to
    <3> QED
      BY <3>5, <3>6, TextsMove
  <2> QED
    BY <2>0, <2>1, <2>3, <2>4
<1>11. CASE CommentOthers
  <2>0. /\ threads' = threads /\ threadFetch' = threadFetch /\ fields' = fields /\ texts' = texts
        /\ commentJobs' = commentJobs
    BY <1>11 DEF CommentOthers
  <2>1. \A d \in Alive(comments') : (d \in Alive(comments) /\ comments'[d] = comments[d]) \/ comments'[d].text[2] = 0
    BY <1>11, OthersEffect
  <2>2. ASSUME NEW n \in Nat \ {0}, NEW c \in CommentIds, HeldByComment(c, n)' PROVE HeldByComment(c, n)
    BY <2>0, <2>1, <2>2 DEF HeldByComment
  <2>3. ASSUME NEW n \in Nat \ {0}, NEW p \in NewPlaces, HeldByField(p, n)' PROVE HeldByField(p, n)
    BY <2>0, <2>3 DEF HeldByField
  <2>4. texts' \in Nat /\ texts <= texts'
    BY <1>0, <2>0
  <2> QED
    BY <1>0, <2>0, <2>2, <2>3, <2>4, TextsStay
<1>12. CASE UNCHANGED commentVars
  BY <1>s, <1>12 DEF commentVars
<1> QED
  BY <1>1, <1>2, <1>3, <1>4, <1>5, <1>6, <1>7, <1>8, <1>9, <1>10, <1>11, <1>12 DEF CommentsNext

LEMMA CommentsSteps == CommentsInv /\ [CommentsNext]_commentVars => CommentsInv'
<1> SUFFICES ASSUME CommentsInv, [CommentsNext]_commentVars PROVE CommentsInv'
  OBVIOUS
<1>1. CommentsKnown
  BY DEF CommentsKnown, CommentsInv
<1>2. CommentsTypeOK' /\ NamesAreKnown' /\ ThreadComing' /\ QuietCommentsAreTrue' /\ TextsHaveOneHome'
  BY <1>1, CommentsTypeSteps, KnownSteps, ThreadComingSteps, QuietCommentsSteps, TextsSteps DEF CommentsInv
<1>3. ParentsIn(comments')
  BY <1>1, KnownSteps
<1> QED
  BY <1>2, <1>3 DEF CommentsInv

LEMMA CommentsStart == CommentsInit => CommentsInv
<1> SUFFICES ASSUME CommentsInit PROVE CommentsInv
  OBVIOUS
<1>1. PICK first \in CommentIds \cup {NoComment}, here \in CommentCards, own \in BOOLEAN :
       comments = [c \in CommentIds |-> IF c = first
                     THEN [card |-> here, parent |-> NoComment, mine |-> own, text |-> <<here, 0>>]
                     ELSE NoComment]
  BY DEF CommentsInit
<1>2. [card |-> here, parent |-> NoComment, mine |-> own, text |-> <<here, 0>>] \in CommentRecords
  BY CommentsAssumption DEF CommentRecords, Texts
<1>3. comments \in Stores /\ \A c \in Alive(comments) : comments[c].parent = NoComment /\ comments[c].text[2] = 0
  BY <1>1, <1>2 DEF Stores, Alive
<1>4. /\ threads = [k \in CommentCards |-> NoThread] /\ threadStale = {}
      /\ threadDoubt = {} /\ threadLate = {} /\ threadFetch = ThreadAsking /\ cardOpen \in CommentCards
      /\ fields = [p \in TextPlaces |-> IF p = AddField THEN NoText ELSE ShutField]
      /\ texts = 0 /\ commentJobs = {} /\ commentOps = <<0, 0>>
  BY DEF CommentsInit
<1>5. CommentsTypeOK
  <2>1. fields \in [TextPlaces -> Texts \cup {NoText, ShutField}]
    BY <1>4
  <2>2. commentOps \in (0 .. MaxCommentOps) \X (0 .. MaxCommentOthers) /\ texts \in 0 .. MaxTexts
    BY <1>4, CommentsAssumption
  <2>3. threads \in [CommentCards -> Threads \cup {NoThread}]
    BY <1>4
  <2> QED
    BY <1>3, <1>4, <2>1, <2>2, <2>3, CommentTypes DEF ThreadDoubtTyped
<1>6. \A c \in CommentIds : fields[<<"edit", c>>] = ShutField
  BY <1>4, PlacesTyped
<1>7. ParentsIn(comments) /\ NamesAreKnown /\ ThreadComing /\ QuietCommentsAreTrue
  BY <1>3, <1>4, <1>6 DEF ThreadComing, OnItsWay, ParentsIn, NamesAreKnown, QuietCommentsAreTrue, Fetched
<1>8. TextsHaveOneHome
  <2>1. ASSUME NEW n \in Nat \ {0}, NEW c \in CommentIds PROVE ~HeldByComment(c, n)
    BY <1>3, <1>4, <1>6 DEF HeldByComment
  <2>2. ASSUME NEW n \in Nat \ {0}, NEW p \in NewPlaces PROVE ~HeldByField(p, n)
    <3>1. p \in TextPlaces
      BY DEF NewPlaces, TextPlaces, AddField
    <3> QED
      BY <1>4, <3>1 DEF HeldByField
  <2> QED
    BY <1>4, <2>1, <2>2 DEF TextsHaveOneHome, Holds
<1> QED
  BY <1>5, <1>7, <1>8 DEF CommentsInv

LEMMA StoredOnce == CommentsInv => TypedIsStoredOnce
<1> SUFFICES ASSUME CommentsInv, NEW c \in Alive(comments), NEW d \in Alive(comments),
                    c # d, comments[c].text[2] > 0, comments[c].text = comments[d].text
             PROVE  FALSE
  BY DEF TypedIsStoredOnce
<1>1. comments[c].text[2] \in Nat \ {0} /\ c \in CommentIds /\ d \in CommentIds
  BY CommentTypes, AliveAreRecords, CommentsAssumption DEF CommentsInv, Alive, CommentRecords, Texts
<1>2. Holds("comment", c, comments[c].text[2]) /\ Holds("comment", d, comments[c].text[2])
  BY <1>1 DEF Holds, HeldByComment
<1> QED
  BY <1>1, <1>2 DEF CommentsInv, TextsHaveOneHome
-----------------------------------------------------------------------------
(* The notifications.                                                      *)
(* A list of the newest notifications, in the cache or on its way.         *)
AList(l) == DOMAIN l \subseteq 1 .. MaxNotices /\ \A i \in DOMAIN l : l[i] \in Notices
(* An answer on its way that may miss nothing is what the server has.      *)
BellComing == BellOnItsWay /\ bellLate = {} => bellFetch = Newest(notices)

BellInv ==
  BellTypeOK /\ BellComing /\ QuietBellIsTrue /\ (BellOnItsWay => AList(bellFetch))
-----------------------------------------------------------------------------
LEMMA NewestTyped ==
  ASSUME NEW s \in Seq(Notices), Len(s) <= MaxNotices
  PROVE  AList(Newest(s))
<1>1. DOMAIN s = 1 .. Len(s) /\ Len(s) \in Nat /\ \A i \in 1 .. Len(s) : s[i] \in Notices
  BY ElementOfSeq, LenProperties
<1> QED
  BY <1>1, NotificationsAssumption DEF Newest, AList

LEMMA MarkedTyped ==
  ASSUME NEW s \in Seq(Notices), NEW which
  PROVE  MarkedRead(s, which) \in Seq(Notices) /\ Len(MarkedRead(s, which)) = Len(s)
<1>1. DOMAIN s = 1 .. Len(s) /\ Len(s) \in Nat /\ \A i \in 1 .. Len(s) : s[i] \in Notices
  BY ElementOfSeq, LenProperties
<1>2. MarkedRead(s, which) = [i \in 1 .. Len(s) |-> IF i \in which THEN [s[i] EXCEPT !.read = TRUE] ELSE s[i]]
  BY <1>1 DEF MarkedRead
<1>3. MarkedRead(s, which) \in [1 .. Len(s) -> Notices]
  BY <1>1, <1>2 DEF Notices
<1> QED
  BY <1>1, <1>3, IsASeq, LenProperties

LEMMA BellStarts == BellInit => BellInv
<1> SUFFICES ASSUME BellInit PROVE BellInv
  OBVIOUS
<1>1. notices \in Seq(Notices) /\ Len(notices) <= MaxNotices
  <2>1. CASE notices = <<>>
    BY <2>1, EmptySeq, NotificationsAssumption
  <2>2. ASSUME NEW n \in Notices, notices = <<n>> PROVE notices \in Seq(Notices) /\ Len(notices) <= MaxNotices
    BY <2>2, NotificationsAssumption
  <2>3. notices = <<>> \/ \E k \in NoticeKinds, r \in BOOLEAN : notices = <<[kind |-> k, read |-> r]>>
    BY DEF BellInit
  <2>4. \A k \in NoticeKinds, r \in BOOLEAN : [kind |-> k, read |-> r] \in Notices
    BY DEF Notices
  <2> QED
    BY <2>1, <2>2, <2>3, <2>4
<1>2. /\ bell = NoBell /\ bellStale = FALSE /\ bellFetch = BellAsking /\ bellFilter = AllKinds
      /\ bellJobs = {} /\ bellDoubt = {} /\ bellLate = {} /\ bellSeen = {} /\ bellOps = 0
  BY DEF BellInit
<1>3. BellTypeOK
  <2>1. 0 \in 0 .. MaxBellOps
    BY NotificationsAssumption
  <2> QED
    BY <1>1, <1>2, <2>1, Zenon DEF BellTypeOK
<1> QED
  BY <1>2, <1>3 DEF BellInv, QuietBellIsTrue, BellComing, BellOnItsWay

(* The client is told of a change, or not.                                 *)
LEMMA ToldSteps ==
  ASSUME BellInv, Told \/ Untold, bell' = bell, notices' \in Seq(Notices)
  PROVE  /\ bellStale' \in BOOLEAN /\ bellDoubt' \subseteq BellWhys /\ bellLate' \subseteq BellWhys
         /\ BellOnItsWay' \/ bellLate' = {}
         /\ BellComing' /\ QuietBellIsTrue' /\ (BellOnItsWay' => AList(bellFetch'))
<1> USE DEF BellInv, BellTypeOK, BellOnItsWay, BellLateFor, BellWhys
<1>1. CASE Told
  BY <1>1 DEF Told, BellComing, QuietBellIsTrue
<1>2. CASE Untold
  BY <1>2 DEF Untold, BellComing, QuietBellIsTrue
<1> QED
  BY <1>1, <1>2

LEMMA BellSteps == BellInv /\ [BellNext]_bellVars => BellInv'
<1> SUFFICES ASSUME BellInv, [BellNext]_bellVars PROVE BellInv'
  OBVIOUS
<1> USE NotificationsAssumption DEF BellInv, BellTypeOK, QuietBellIsTrue, AList, BellComing, BellOnItsWay
<1>1. CASE BellServed
  BY <1>1, NewestTyped DEF BellServed
<1>2. CASE BellArrives
  BY <1>2 DEF BellArrives, KeptByFilter
<1>3. CASE BellRevisited
  BY <1>3 DEF BellRevisited
<1>4. CASE SetKind
  BY <1>4 DEF SetKind
<1>5. CASE OpenNotice
  BY <1>5 DEF OpenNotice, AskBell, KeptByFilter, Unread
<1>6. CASE MarkAll
  BY <1>6 DEF MarkAll, AskBell
<1>7. CASE BellAnswers
  <2>1. /\ \E j \in bellJobs : notices' = MarkedRead(notices, j.of) /\ bellJobs' = bellJobs \ {j}
        /\ Told \/ Untold
        /\ UNCHANGED <<bell, bellFilter, bellSeen, bellOps>>
    BY <1>7 DEF BellAnswers
  <2>2. notices' \in Seq(Notices) /\ Len(notices') = Len(notices)
    BY <2>1, MarkedTyped
  <2> QED
    BY <2>1, <2>2, ToldSteps
<1>8. CASE NoticeCreated
  <2>1. PICK k \in NoticeKinds : notices' = Append(notices, [kind |-> k, read |-> FALSE])
    BY <1>8 DEF NoticeCreated
  <2>2. notices' \in Seq(Notices) /\ Len(notices') = Len(notices) + 1 /\ Len(notices) \in Nat
    BY <2>1, AppendProperties, LenProperties DEF Notices
  <2>3. /\ UNCHANGED <<bell, bellFilter, bellJobs, bellSeen, bellOps>> /\ Len(notices) < MaxNotices
        /\ Told \/ Untold
    BY <1>8 DEF NoticeCreated
  <2> QED
    BY <2>2, <2>3, ToldSteps
<1>9. CASE UNCHANGED bellVars
  BY <1>9 DEF bellVars, Newest
<1> QED
  BY <1>1, <1>2, <1>3, <1>4, <1>5, <1>6, <1>7, <1>8, <1>9 DEF BellNext
-----------------------------------------------------------------------------
(* The composition: a step of the page in front is a step of one part, and *)
(* leaves the others as they are.                                          *)
DataInv ==
  /\ page \in DataPages
  /\ RecordInv /\ DragInv /\ CardInv /\ CalInv /\ CommentsInv /\ BellInv

LEMMA PartsStart == DataInit => DataInv
<1> SUFFICES ASSUME DataInit PROVE DataInv
  OBVIOUS
<1>1. /\ page \in DataPages
      /\ RecordInit /\ DragInit /\ CardInit /\ CalInit /\ CommentsInit /\ BellInit
  BY DEF DataInit
<1>2. RecordInv /\ DragInv
  BY <1>1, RecordStarts, DragStarts
<1> QED
  BY <1>1, <1>2, CardStarts, CalendarStarts, CommentsStart, BellStarts DEF DataInv

LEMMA PartsStep ==
  ASSUME [DataNext]_dataVars
  PROVE  /\ page' = page
         /\ [RecordNext]_recordVars /\ [DragNext]_dragVars /\ [CardNext]_cardVars
         /\ [CalNext]_calVars /\ [CommentsNext]_commentVars /\ [BellNext]_bellVars
BY Zenon DEF DataNext, dataVars

LEMMA PartsKept ==
  ASSUME DataInv, [DataNext]_dataVars
  PROVE  DataInv'
<1>1. /\ page' = page
      /\ [RecordNext]_recordVars /\ [DragNext]_dragVars /\ [CardNext]_cardVars
      /\ [CalNext]_calVars /\ [CommentsNext]_commentVars /\ [BellNext]_bellVars
  BY PartsStep
<1>2. /\ page \in DataPages
      /\ RecordInv /\ DragInv /\ CardInv /\ CalInv /\ CommentsInv /\ BellInv
  BY DEF DataInv
<1>3. page' \in DataPages
  BY <1>1, <1>2
<1>4. RecordInv' /\ DragInv'
  BY <1>1, <1>2, RecordSteps, DragSteps
<1>5. CardInv' /\ CalInv' /\ CommentsInv' /\ BellInv'
  BY <1>1, <1>2, CardKept, CalendarSteps, CommentsSteps, BellSteps
<1> QED
  BY <1>3, <1>4, <1>5 DEF DataInv, DataPages

LEMMA PartsHold == DataSpec => []DataInv
<1>1. DataInv /\ [DataNext]_dataVars => DataInv'
  BY PartsKept
<1> QED
  BY <1>1, PartsStart, PTL DEF DataSpec

(* The types of the page in front, whatever the sizes of the instance.     *)
THEOREM DataAlwaysTyped == DataSpec => []DataTypeOK
<1>1. ASSUME DataInv PROVE DataTypeOK
  <2>1. RecordTypeOK /\ DragTypeOK
    BY <1>1, RecordTypes, DragTypes DEF DataInv
  <2>2. CardTypeOK /\ CalendarTypeOK /\ CommentsTypeOK /\ BellTypeOK /\ page \in DataPages
    BY <1>1 DEF DataInv, CardInv, CardTyped, CalInv, CommentsInv, BellInv
  <2> QED
    BY <2>1, <2>2 DEF DataTypeOK, DataPages
<1> QED
  BY <1>1, PartsHold, PTL

(* In every behaviour of these pages a drop puts the card beside the card  *)
(* under the pointer, on a board of any size, except a drop on the lower   *)
(* half of the last card of its own column; events that overlap stand      *)
(* beside each other, whatever is put into a day; and the page of a record *)
(* offers what the server serves, except on the page of a tender without   *)
(* the rights the server asks for, for the conversion of a lead that lacks *)
(* the right to add contacts or is linked already, and for the copy of a   *)
(* candidate who has contacts.                                             *)
THEOREM ScreenAlwaysRight == DataSpec => []ScreenIsRight
<1>1. ASSUME DataInv PROVE ScreenIsRight
  <2>1. DragInv /\ CardTyped /\ CalendarTypeOK
    BY <1>1 DEF DataInv, CardInv, CalInv
  <2>2. LandsUnderThePointer /\ OverlappingAreSideBySide /\ OfferedIsServed
    BY <2>1, CardsLand, SideBySide, OffersAreServed
  <2> QED
    BY <2>2 DEF ScreenIsRight
<1> QED
  BY <1>1, PartsHold, PTL

(* In every behaviour of these pages what is shown when nothing is stale   *)
(* is what the server has, whichever of answer, event and change overtakes *)
(* another. Excepted are changes the page was not told of, and changes it  *)
(* was told of while a first load already read by the server was on its    *)
(* way. A comment is stored once, as typed.                                *)
THEOREM QuietRecordsAlwaysTrue == DataSpec => []QuietRecordsAreTrue
<1>1. DataInv => QuietRecordsAreTrue
  BY CopyIsTrue, StoredOnce DEF DataInv, CalInv, CommentsInv, BellInv, QuietRecordsAreTrue
<1> QED
  BY <1>1, PartsHold, PTL

(* In every behaviour of these pages a save, a resume that is read, a drop *)
(* and a dragged event change what was meant and nothing else.             *)
THEOREM OthersWorkAlwaysSurvives == DataSpec => OthersWorkSurvives
<1>1. DataInv /\ [DataNext]_dataVars =>
        [sent # Nothing /\ sent' # Nothing /\ sent.state = "sent" /\ sent'.state = "saved"
           /\ ~sent.touched /\ saved = sent.base => saved' = saved]_recordVars
  BY PartsStep, UntouchedKept DEF DataInv
<1>2. DataInv /\ [DataNext]_dataVars =>
        [importing /\ ~importing' /\ entity = "candidate" /\ form \notin {Blank, Nothing} /\ form' # Nothing
           => form' = form]_recordVars
  BY PartsStep, TypedKept DEF DataInv
<1>3. DataInv /\ [DataNext]_dataVars =>
        [drops' = drops + 1 /\ ~refetched =>
           \A c, d \in BoardCards \ {activeId} :
             /\ items'[c].column = items[c].column
             /\ items[c].column = items[d].column /\ Above(items, c, d) => Above(items', c, d)]_dragVars
  BY PartsStep, OrderKept DEF DataInv, Orderly
<1>4. DataInv /\ [DataNext]_dataVars =>
        [\A j \in calJobs' \ calJobs :
           (j.by = "grid") =>
             LET r == CalShown[j.event]
             IN /\ j.end - j.start = EndOf(r) - r.start
                /\ Fits(r.start, EndOf(r)) => Fits(j.start, j.end)]_calVars
  BY PartsStep, EventDragSteps DEF DataInv, DragFits
<1>5. DataSpec => UntouchedSurvives
  BY <1>1, PartsHold, PTL DEF DataSpec, UntouchedSurvives
<1>6. DataSpec => ImportKeepsTyped
  BY <1>2, PartsHold, PTL DEF DataSpec, ImportKeepsTyped
<1>7. DataSpec => OthersKeepTheirOrder
  BY <1>3, PartsHold, PTL DEF DataSpec, OthersKeepTheirOrder
<1>8. DataSpec => DragStaysInItsDay
  BY <1>4, PartsHold, PTL DEF DataSpec, DragStaysInItsDay
<1> QED
  BY <1>5, <1>6, <1>7, <1>8, PTL DEF OthersWorkSurvives
=============================================================================
