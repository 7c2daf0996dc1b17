-------------------------- MODULE TraceStoreProofs --------------------------
(***************************************************************************)
(* Proofs about TraceStore, for any traces, retention age and cap, and     *)
(* about TraceReader, for any filter and page size.                        *)
(***************************************************************************)
EXTENDS TraceReader, FiniteSetTheorems, TLAPS

USE TraceStoreAssumption

\* Every step keeps the types; a trace is inserted only under a free id.
LEMMA TypeStep ==
  ASSUME TypeOK, [Next]_vars
  PROVE  TypeOK'
<1> USE DEF TypeOK, Goto, Places, Ended, Times
<1>1. ASSUME NEW r \in Records, Receive(r) PROVE TypeOK'
  <2>1. PICK t \in Dates(r) : created' = [created EXCEPT ![r] = t]
    BY <1>1 DEF Receive
  <2>2. t \in Times
    BY DEF Dates
  <2> QED  BY <1>1, <2>1, <2>2 DEF Receive
<1>2. ASSUME NEW r \in Records, Insert(r) PROVE TypeOK'
  BY <1>2 DEF Insert, Taken
<1>3. ASSUME NEW r \in Records, InsertFails(r) PROVE TypeOK'
  BY <1>3 DEF InsertFails
<1>4. ASSUME NEW r \in Records, Expire(r) PROVE TypeOK'
  BY <1>4 DEF Expire
<1>5. ASSUME NEW r \in Records, Trim(r) PROVE TypeOK'
  BY <1>5 DEF Trim, Newest
<1>6. ASSUME NEW r \in Records, SweepFails(r) PROVE TypeOK'
  BY <1>6 DEF SweepFails
<1>7. CASE Tick
  BY <1>7 DEF Tick
<1>8. CASE UNCHANGED vars
  BY <1>8 DEF vars
<1> QED
  BY <1>1, <1>2, <1>3, <1>4, <1>5, <1>6, <1>7, <1>8 DEF Next, Persist

\* Every variable of the trace store keeps its type and no id is stored twice.
THEOREM TypeCorrect == Spec => []TypeOK
<1>1. Init => TypeOK
  BY DEF Init, TypeOK, Times, Places, Ended
<1>2. TypeOK /\ [Next]_vars => TypeOK'
  BY TypeStep
<1> QED  BY <1>1, <1>2, PTL DEF Spec

-----------------------------------------------------------------------------
(* The cap.                                                                *)

\* The table and the traces in flight are finite, so they can be counted.
LEMMA Countable ==
  ASSUME TypeOK
  PROVE  /\ IsFiniteSet(rows) /\ Cardinality(rows) \in Nat
         /\ IsFiniteSet(Unswept) /\ Cardinality(Unswept) \in Nat
         /\ MaxCount \in Nat
<1>1. rows \subseteq Records /\ Unswept \subseteq Records
  BY DEF TypeOK, Unswept
<1>2. IsFiniteSet(rows) /\ IsFiniteSet(Unswept)
  BY <1>1, FS_Subset
<1> QED  BY <1>2, FS_CardinalityType

\* An insert adds one trace to the table and one to those that are unswept, a
\* trim that completes leaves no more than the cap, and no other step adds a row
\* or ends the obligation to sweep.
LEMMA CapStep ==
  ASSUME TypeOK, CapHeld, [Next]_vars
  PROVE  CapHeld'
<1> SUFFICES ASSUME MaxCount > 0
             PROVE  Cardinality(rows') <= MaxCount + Cardinality(Unswept')
  BY DEF CapHeld
<1>1. Cardinality(rows) <= MaxCount + Cardinality(Unswept)
  BY DEF CapHeld
<1>2. /\ IsFiniteSet(rows) /\ Cardinality(rows) \in Nat
      /\ IsFiniteSet(Unswept) /\ Cardinality(Unswept) \in Nat
      /\ MaxCount \in Nat
  BY Countable
<1>3. TypeOK'
  BY TypeStep
<1>4. /\ IsFiniteSet(rows') /\ Cardinality(rows') \in Nat
      /\ IsFiniteSet(Unswept') /\ Cardinality(Unswept') \in Nat
  <2>1. rows' \subseteq Records /\ Unswept' \subseteq Records
    BY <1>3 DEF TypeOK, Unswept
  <2>2. IsFiniteSet(rows') /\ IsFiniteSet(Unswept')
    BY <2>1, FS_Subset
  <2> QED  BY <2>2, FS_CardinalityType
\* A step that adds no row and leaves everyone's obligation alone.
<1>5. ASSUME rows' \subseteq rows, Unswept' = Unswept
      PROVE  Cardinality(rows') <= MaxCount + Cardinality(Unswept')
  <2>1. Cardinality(rows') <= Cardinality(rows)
    BY <1>2, <1>5, FS_Subset
  <2> QED  BY <1>1, <1>2, <1>4, <1>5, <2>1
<1>6. ASSUME NEW r \in Records, Receive(r) PROVE rows' = rows /\ Unswept' = Unswept
  BY <1>6 DEF Receive, Goto, Unswept, TypeOK
<1>7. ASSUME NEW r \in Records, Insert(r)
      PROVE  Cardinality(rows') <= MaxCount + Cardinality(Unswept')
  <2>1. rows' = rows \cup {r} /\ r \notin rows
    BY <1>7 DEF Insert, Taken
  <2>2. Unswept' = Unswept \cup {r} /\ r \notin Unswept
    BY <1>7 DEF Insert, Goto, Unswept, TypeOK
  <2>3. Cardinality(rows') = Cardinality(rows) + 1
    BY <1>2, <2>1, FS_AddElement
  <2>4. Cardinality(Unswept') = Cardinality(Unswept) + 1
    BY <1>2, <2>2, FS_AddElement
  <2> QED  BY <1>1, <1>2, <2>3, <2>4
<1>8. ASSUME NEW r \in Records, InsertFails(r) PROVE rows' = rows /\ Unswept' = Unswept
  BY <1>8 DEF InsertFails, Goto, Unswept, TypeOK
<1>9. ASSUME NEW r \in Records, Expire(r)
      PROVE  rows' \subseteq rows /\ Unswept' = Unswept
  BY <1>9 DEF Expire, Goto, Unswept, TypeOK
<1>10. ASSUME NEW r \in Records, Trim(r)
       PROVE  Cardinality(rows') <= MaxCount + Cardinality(Unswept')
  <2>1. Cardinality(rows') <= MaxCount
    <3>1. CASE Cardinality(rows) > MaxCount
      BY <1>10, <3>1, <1>2 DEF Trim, Newest
    <3>2. CASE ~(Cardinality(rows) > MaxCount)
      BY <1>10, <3>2, <1>2 DEF Trim
    <3> QED  BY <3>1, <3>2
  <2> QED  BY <2>1, <1>2, <1>4
<1>11. ASSUME NEW r \in Records, SweepFails(r) PROVE rows' = rows /\ Unswept' = Unswept
  BY <1>11 DEF SweepFails, Goto, Unswept, TypeOK
<1>12. CASE Tick \/ UNCHANGED vars
  BY <1>12, <1>5 DEF Tick, vars, Unswept
<1> QED
  BY <1>5, <1>6, <1>7, <1>8, <1>9, <1>10, <1>11, <1>12 DEF Next, Persist

\* The traces table passes the cap by at most the number of traces whose sweep
\* is under way or was cut short, for any number of concurrent captures.
THEOREM CapCorrect == Spec => []CapHeld
<1>1. Init => CapHeld
  <2>1. Cardinality({}) = 0
    BY FS_EmptySet
  <2>2. SUFFICES ASSUME Init PROVE CapHeld
    OBVIOUS
  <2>3. IsFiniteSet(Unswept)
    BY FS_Subset DEF Unswept
  <2>4. Cardinality(Unswept) \in Nat
    BY <2>3, FS_CardinalityType
  <2> QED  BY <2>1, <2>2, <2>4 DEF Init, CapHeld
<1>2. TypeOK /\ CapHeld /\ [Next]_vars => CapHeld'
  BY CapStep
<1> QED  BY <1>1, <1>2, TypeCorrect, PTL DEF Spec

-----------------------------------------------------------------------------
(* Retention.                                                              *)

\* The proxy dates no trace later than the clock; an SDK may.
Dated == \A r \in Records \ Sdk : created[r] <= now

\* No step makes it date one so.
LEMMA DatedStep ==
  ASSUME TypeOK, Dated, [Next]_vars
  PROVE  Dated'
<1> USE DEF TypeOK, Dated, Times
<1>1. ASSUME NEW r \in Records, Receive(r) PROVE Dated'
  <2>1. PICK t \in Dates(r) : created' = [created EXCEPT ![r] = t]
    BY <1>1 DEF Receive
  <2>2. r \notin Sdk => t = now
    BY DEF Dates
  <2> QED  BY <1>1, <2>1, <2>2 DEF Receive
<1>2. ASSUME NEW r \in Records, Persist(r) PROVE Dated'
  BY <1>2 DEF Persist, Insert, InsertFails, Expire, Trim, SweepFails
<1>3. CASE Tick
  BY <1>3 DEF Tick
<1>4. CASE UNCHANGED vars
  BY <1>4 DEF vars
<1> QED  BY <1>1, <1>2, <1>3, <1>4 DEF Next

\* A trim keeps as many traces as the cap allows, and each of them is at least as
\* young as any it deletes.
LEMMA TrimDeserved ==
  ASSUME TypeOK, NEW r \in Records, Trim(r),
         NEW x \in rows \ rows'
  PROVE  Outnumbered(x)
<1>1. MaxCount > 0 /\ Newest(rows')
  BY DEF Trim
<1> DEFINE younger == {y \in rows \ {x} : created[y] >= created[x]}
<1>2. rows' \subseteq younger
  BY <1>1 DEF Newest
<1>3. IsFiniteSet(younger)
  BY Countable, FS_Subset
<1>4. Cardinality(rows') <= Cardinality(younger)
  BY <1>2, <1>3, FS_Subset
<1> QED  BY <1>1, <1>4 DEF Newest, Outnumbered

\* The sweep of a trace of the proxy goes by a time that has passed, that of an
\* SDK's by the date of a trace that is inserted.
LEMMA ExpireDeserved ==
  ASSUME TypeOK, Dated, NEW r \in Records, Expire(r),
         NEW x \in rows \ rows'
  PROVE  Outlived(x)
<1>1. MaxAge > 0 /\ created[x] + MaxAge < created[r] /\ pc[r] = "expire"
  BY DEF Expire, Older, Goto
<1>2. /\ created[x] \in Nat /\ created[r] \in Nat /\ now \in Nat /\ MaxAge \in Nat
  BY DEF TypeOK, Times
<1>3. CASE r \in Sdk
  <2>1. created[r] \in Claimed
    BY <1>1, <1>3 DEF Claimed, Inserted
  <2> QED  BY <1>1, <2>1 DEF Outlived
<1>4. CASE r \notin Sdk
  <2>1. created[x] + MaxAge < now
    BY <1>1, <1>2, <1>4 DEF Dated
  <2>2. now \in Claimed
    BY DEF Claimed
  <2> QED  BY <1>1, <2>1, <2>2 DEF Outlived
<1> QED  BY <1>3, <1>4

\* Whatever dates the SDKs give, only traces that are past the retention age as of
\* the clock or of a date that an SDK gave, or that are outnumbered by younger
\* ones, are ever deleted.
THEOREM RetentionCorrect == Spec => OnlyOldDeleted
<1>1. Init => Dated
  BY TraceStoreAssumption DEF Init, Dated
<1>2. TypeOK /\ Dated /\ [Next]_vars => Dated'
  BY DatedStep
<1>3. ASSUME TypeOK, Dated, Next, NEW x \in rows \ rows' PROVE Outlived(x) \/ Outnumbered(x)
  BY <1>3, ExpireDeserved, TrimDeserved
     DEF Next, Persist, Receive, Insert, InsertFails, SweepFails, Tick
<1>4. TypeOK /\ Dated /\ [Next]_vars
      => [\A x \in rows \ rows' : Outlived(x) \/ Outnumbered(x)]_vars
  BY <1>3
<1> QED  BY <1>1, <1>2, <1>4, TypeCorrect, PTL DEF Spec, OnlyOldDeleted

-----------------------------------------------------------------------------
(* Paging.                                                                 *)

\* The traces found that come before x whatever the order among equal times.
Before(x) == {y \in Found : created[y] > created[x]}
Rank(x) == Cardinality(Before(x))

\* What is stored was received, and what was kept is stored and wanted.
ReaderTypeOK ==
  /\ TypeOK
  /\ \A r \in rows : pc[r] # "idle"
  /\ reader \in {"new", "more", "ended"} /\ offset \in Nat
  /\ kept \subseteq Found
  /\ reader = "new" => offset = 0 /\ kept = {}

\* A kept trace that was not shown is still ahead of the reader.
Ahead ==
  \A x \in kept \ shown : Distinct(x) => reader = "more" /\ Rank(x) >= offset

\* Finite sets that the proofs count.
LEMMA FoundCountable ==
  ASSUME TypeOK
  PROVE  \A s \in SUBSET Found : IsFiniteSet(s) /\ Cardinality(s) \in Nat
<1>1. IsFiniteSet(Found)
  BY Countable, FS_Subset DEF Found
<1> QED  BY <1>1, FS_Subset, FS_CardinalityType

\* What is stored has been received, and its time is a time.
LEMMA Stored ==
  ASSUME ReaderTypeOK
  PROVE  \A y \in rows : y \in Records /\ created[y] \in Nat /\ pc[y] # "idle"
BY DEF ReaderTypeOK, TypeOK, Times

\* One page: a trace that is not on it, and that has as many traces before it as
\* the reader has passed, has all of the page before it as well, and the page
\* says that there is more.
LEMMA PageAhead ==
  ASSUME ReaderTypeOK, NEW x \in Found, Distinct(x), Rank(x) >= offset,
         NEW selected \in SUBSET Found, NEW items \in SUBSET Found,
         Selects(selected, offset, Limit + 1), First(items, selected, Limit),
         x \notin items
  PROVE  Cardinality(selected) > Limit /\ Rank(x) >= offset + Cardinality(items)
<1> USE TraceReaderAssumption
<1>1. PICK before \in SUBSET Found :
        First(before, Found, offset) /\ First(selected, Found \ before, Limit + 1)
  BY DEF Selects
<1>2. \A s \in SUBSET Found : IsFiniteSet(s) /\ Cardinality(s) \in Nat
  BY FoundCountable DEF ReaderTypeOK
<1>3. \A y \in Found : created[y] \in Nat /\ (created[y] = created[x] => y = x)
  BY Stored DEF Distinct, Found
<1>4. /\ Before(x) \in SUBSET Found /\ Found \ before \in SUBSET Found
      /\ offset \in Nat /\ Limit + 1 \in Nat /\ Rank(x) \in Nat
  BY <1>2 DEF Before, Rank, ReaderTypeOK
<1>5. x \notin before
  <2> SUFFICES ASSUME x \in before PROVE FALSE
    OBVIOUS
  <2>1. Before(x) \cup {x} \in SUBSET before
    BY <1>1, <1>3 DEF First, Before
  <2>2. Cardinality(Before(x) \cup {x}) = Rank(x) + 1
    <3>1. x \notin Before(x)
      BY <1>3 DEF Before
    <3>2. IsFiniteSet(Before(x))
      BY <1>2, <1>4
    <3> QED  BY <3>1, <3>2, FS_AddElement DEF Rank
  <2>3. Cardinality(Before(x) \cup {x}) <= Cardinality(before)
    BY <1>2, <2>1, FS_Subset
  <2>4. Cardinality(before) <= offset
    BY <1>1, <1>2, <1>4 DEF First
  <2> QED  BY <1>2, <1>4, <2>2, <2>3, <2>4
<1>6. Cardinality(before) = offset
  <2>1. before # Found
    BY <1>5
  <2>2. Cardinality(before) # Cardinality(Found)
    BY <1>2, <2>1, FS_Subset
  <2> QED  BY <1>1, <2>2 DEF First
<1>7. Cardinality(selected) > Limit
  <2>1. CASE x \in selected
    <3>1. Cardinality(items) # Cardinality(selected)
      BY <1>2, <2>1, FS_Subset DEF First
    <3>2. /\ Cardinality(items) = IF Limit < Cardinality(selected)
                                  THEN Limit ELSE Cardinality(selected)
      BY DEF First
    <3> QED  BY <1>2, <3>1, <3>2
  <2>2. CASE x \notin selected
    <3>1. selected # Found \ before /\ selected \subseteq Found \ before
      BY <1>1, <1>5, <2>2 DEF First
    <3>2. Cardinality(selected) # Cardinality(Found \ before)
      BY <1>2, <1>4, <3>1, FS_Subset
    <3>3. Cardinality(selected) = Limit + 1
      BY <1>1, <3>2 DEF First
    <3> QED  BY <3>3
  <2> QED  BY <2>1, <2>2
<1>8. before \cup items \in SUBSET Before(x)
  <2>1. \A y \in before : created[y] >= created[x] /\ y # x
    BY <1>1, <1>5 DEF First
  <2>2. \A y \in items : created[y] >= created[x]
    <3>1. CASE x \in selected
      BY <3>1 DEF First
    <3>2. CASE x \notin selected
      BY <1>1, <1>5, <3>2 DEF First
    <3> QED  BY <3>1, <3>2
  <2>3. \A y \in before \cup items : y \in Found /\ created[y] >= created[x] /\ y # x
    BY <2>1, <2>2
  <2>4. \A y \in before \cup items : created[y] > created[x]
    BY <1>3, <2>3
  <2> QED  BY <2>3, <2>4 DEF Before
<1>9. Cardinality(before \cup items) = offset + Cardinality(items)
  <2>1. before \cap items = {}
    BY <1>1 DEF First
  <2>2. Cardinality(before \cap items) = 0
    BY <2>1, FS_EmptySet
  <2>3. Cardinality(before \cup items) =
          Cardinality(before) + Cardinality(items) - Cardinality(before \cap items)
    BY <1>2, FS_Union
  <2> QED  BY <1>2, <1>4, <1>6, <2>2, <2>3
<1>10. Cardinality(before \cup items) <= Rank(x)
  BY <1>2, <1>4, <1>8, FS_Subset DEF Rank
<1> QED  BY <1>7, <1>9, <1>10
\* A step of the store leaves a trace that stays stored with at least as many
\* traces before it: inserts only add to them, and a sweep that spares it spares
\* all that are younger.
LEMMA StoreAhead ==
  ASSUME ReaderTypeOK, Next, NEW x \in Found \cap rows', Distinct(x)'
  PROVE  /\ Distinct(x)
         /\ Before(x) \subseteq Before(x)'
<1> USE DEF Found
<1>1. /\ \A y \in rows : y \in Records /\ created[y] \in Nat /\ pc[y] # "idle"
      /\ created \in [Records -> Times] /\ pc \in [Records -> Places]
      /\ Wanted \subseteq Records
  BY Stored, TraceReaderAssumption DEF ReaderTypeOK, TypeOK
<1>2. ASSUME \A y \in Records : pc[y] # "idle" => pc'[y] # "idle" /\ created'[y] = created[y]
      PROVE  Distinct(x)
  BY <1>1, <1>2 DEF Distinct
<1>3. \A y \in Records : pc[y] # "idle" => pc'[y] # "idle" /\ created'[y] = created[y]
  BY <1>1 DEF Next, Receive, Persist, Insert, InsertFails, Expire, Trim, SweepFails,
              Tick, Goto
<1>4. \A y \in Before(x) : y \in rows' => y \in Before(x)'
  BY <1>1, <1>3 DEF Before
<1>5. ASSUME NEW y \in Before(x) PROVE y \in rows'
  <2>1. y \in rows /\ created[y] > created[x] /\ x \in rows
    BY <1>5 DEF Before
  <2>2. ASSUME NEW r \in Records, Expire(r) PROVE y \in rows'
    <3>1. created[r] \in Nat /\ created[x] \in Nat /\ created[y] \in Nat /\ MaxAge \in Nat
      BY <1>1, <2>1, TraceStoreAssumption DEF Times
    <3>2. Older(y, r) => Older(x, r)
      BY <2>1, <3>1 DEF Older
    <3> QED  BY <2>1, <2>2, <3>2 DEF Expire
  <2>3. ASSUME NEW r \in Records, Trim(r) PROVE y \in rows'
    <3>1. CASE UNCHANGED rows
      BY <2>1, <3>1
    <3>2. CASE Newest(rows')
      <4>1. y \notin rows' => created[x] >= created[y]
        BY <2>1, <3>2 DEF Newest
      <4> QED  BY <1>1, <2>1, <4>1
    <3> QED  BY <2>3, <3>1, <3>2 DEF Trim
  <2>4. CASE rows \subseteq rows'
    BY <2>1, <2>4
  <2> QED
    BY <2>2, <2>3, <2>4 DEF Next, Receive, Persist, Insert, InsertFails, SweepFails, Tick
<1> QED  BY <1>2, <1>3, <1>4, <1>5

\* Every step keeps the reader's types.
LEMMA ReaderTypeStep ==
  ASSUME ReaderTypeOK, [NextReader]_allVars
  PROVE  ReaderTypeOK'
<1>1. TypeOK'
  BY TypeStep DEF ReaderTypeOK, NextReader, Page, Store, allVars, vars
<1>2. CASE Page
  <2>1. PICK selected \in SUBSET Found, items \in SUBSET Found :
          /\ reader' = IF Cardinality(selected) > Limit THEN "more" ELSE "ended"
          /\ offset' = offset + Cardinality(items)
    BY <1>2 DEF Page
  <2>2. Cardinality(items) \in Nat
    BY FoundCountable DEF ReaderTypeOK
  <2>3. UNCHANGED vars /\ kept' \subseteq Found
    BY <1>2 DEF Page, ReaderTypeOK
  <2> QED  BY <1>1, <2>1, <2>2, <2>3 DEF ReaderTypeOK, vars, Found
<1>3. CASE Store
  <2>1. \A r \in rows' : pc'[r] # "idle"
    BY <1>3 DEF Store, Next, Receive, Persist, Insert, InsertFails, Expire, Trim, Newest,
                SweepFails, Tick, Goto, ReaderTypeOK, TypeOK
  <2> QED  BY <1>1, <1>3, <2>1 DEF Store, ReaderTypeOK, Found
<1>4. CASE UNCHANGED allVars
  BY <1>1, <1>4 DEF allVars, vars, readerVars, ReaderTypeOK, Found
<1> QED  BY <1>2, <1>3, <1>4 DEF NextReader

\* Every step keeps what the reader has not shown ahead of it.
LEMMA AheadStep ==
  ASSUME ReaderTypeOK, Ahead, [NextReader]_allVars
  PROVE  Ahead'
<1>1. ReaderTypeOK'
  BY ReaderTypeStep
<1>2. CASE Page
  <2>1. PICK selected \in SUBSET Found, items \in SUBSET Found :
          /\ Selects(selected, offset, Limit + 1)
          /\ First(items, selected, Limit)
          /\ reader' = IF Cardinality(selected) > Limit THEN "more" ELSE "ended"
          /\ offset' = offset + Cardinality(items)
          /\ shown' = shown \cup items
    BY <1>2 DEF Page
  <2>2. UNCHANGED vars
    BY <1>2 DEF Page
  <2> SUFFICES ASSUME NEW x \in kept' \ shown', Distinct(x)'
               PROVE  reader' = "more" /\ Rank(x)' >= offset'
    BY DEF Ahead
  <2>3. x \in Found /\ x \notin items /\ Distinct(x) /\ Rank(x)' = Rank(x)
    BY <1>2, <2>1, <2>2 DEF Page, ReaderTypeOK, Distinct, Rank, Before, Found, vars
  <2>4. Rank(x) >= offset
    <3>1. CASE reader = "new"
      <4>1. Before(x) \in SUBSET Found
        BY DEF Before
      <4>2. Rank(x) \in Nat /\ offset = 0
        BY <3>1, <4>1, FoundCountable DEF ReaderTypeOK, Rank
      <4> QED  BY <4>2
    <3>2. CASE reader # "new"
      BY <1>2, <2>1, <2>3, <3>2 DEF Page, Ahead
    <3> QED  BY <3>1, <3>2
  <2>5. Cardinality(selected) > Limit /\ Rank(x) >= offset + Cardinality(items)
    BY <2>1, <2>3, <2>4, PageAhead
  <2> QED  BY <2>1, <2>3, <2>5
<1>3. CASE Store
  <2> SUFFICES ASSUME NEW x \in kept' \ shown', Distinct(x)'
               PROVE  reader' = "more" /\ Rank(x)' >= offset'
    BY DEF Ahead
  <2>1. /\ x \in kept \ shown /\ x \in Found \cap rows'
        /\ Next /\ reader' = reader /\ offset' = offset
    BY <1>3 DEF Store, ReaderTypeOK
  <2>2. Distinct(x) /\ Before(x) \subseteq Before(x)'
    BY <2>1, StoreAhead
  <2>3. reader = "more" /\ Rank(x) >= offset
    BY <2>1, <2>2 DEF Ahead
  <2>4. IsFiniteSet(Before(x)') /\ Rank(x)' \in Nat
    <3>1. TypeOK'
      BY <1>1 DEF ReaderTypeOK
    <3>2. IsFiniteSet(rows')
      BY <3>1, Countable, TypeStep, FS_Subset, TraceStoreAssumption DEF TypeOK
    <3>3. Before(x)' \in SUBSET rows'
      BY DEF Before, Found
    <3> QED  BY <3>2, <3>3, FS_Subset, FS_CardinalityType DEF Rank
  <2>5. Cardinality(Before(x)) <= Cardinality(Before(x)')
    BY <2>2, <2>4, FS_Subset
  <2>6. Rank(x) \in Nat /\ offset \in Nat
    <3>1. Before(x) \in SUBSET Found
      BY DEF Before
    <3> QED  BY <3>1, FoundCountable DEF ReaderTypeOK, Rank
  <2> QED  BY <2>1, <2>3, <2>4, <2>5, <2>6 DEF Rank
<1>4. CASE UNCHANGED allVars
  BY <1>4 DEF allVars, vars, readerVars, Ahead, Distinct, Rank, Before, Found
<1> QED  BY <1>2, <1>3, <1>4 DEF NextReader

\* Whoever pages through the traces by next_offset until has_more is false has
\* seen every trace that was there all the time, whatever captures insert and
\* delete in between, for any page size, cap and retention age.
THEOREM PagingCorrect == SpecReader => []NothingSkipped
<1>1. InitReader => ReaderTypeOK /\ Ahead
  BY DEF InitReader, Init, ReaderTypeOK, TypeOK, Ahead, Times, Places, Ended, Found
<1>2. ReaderTypeOK /\ Ahead /\ [NextReader]_allVars => ReaderTypeOK' /\ Ahead'
  BY ReaderTypeStep, AheadStep
<1>3. Ahead => NothingSkipped
  BY DEF Ahead, NothingSkipped
<1> QED  BY <1>1, <1>2, <1>3, PTL DEF SpecReader

\* A reader disturbs nothing: to the store it is not there.
THEOREM ReaderOnlyReads == SpecReader => Spec
<1>1. InitReader => Init
  BY DEF InitReader
<1>2. [NextReader]_allVars => [Next]_vars
  BY DEF NextReader, Page, Store, allVars
<1> QED  BY <1>1, <1>2, PTL DEF SpecReader, Spec
=============================================================================
