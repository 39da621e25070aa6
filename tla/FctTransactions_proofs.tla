----------------------- MODULE FctTransactions_proofs -----------------------
(***************************************************************************)
(* Proofs about the transaction fact: it is well-typed, what it misses     *)
(* lies behind the overlap window, and its rows are the ones a rebuild     *)
(* would choose, for any ids, partitions, window and bounds.               *)
(***************************************************************************)
EXTENDS FctTransactions, FiniteSetTheorems, NaturalExtremes, TLAPS

USE FactAssumption

-----------------------------------------------------------------------------
\* The fields the ranking compares are numbers (Copy).
LEMMA CopyFields ==
  ASSUME NEW r \in Copy
  PROVE  r.partition \in Nat /\ r.offset \in Nat /\ r.at \in Nat
<1>1. r.partition \in Partition /\ r.offset \in 0 .. MaxCopies /\ r.at \in 0 .. MaxTime
  BY DEF Copy
<1>2. r.partition \in Nat
  BY <1>1
<1> QED
  BY <1>1, <1>2

\* The latest event time of some copies is one of theirs (LatestTime, max() in SQL).
LEMMA LatestTimeIsMax ==
  ASSUME NEW rows \in SUBSET Copy, rows # {}
  PROVE  /\ LatestTime(rows) \in 0 .. MaxTime
         /\ \A r \in rows : r.at <= LatestTime(rows)
<1>1. Times(rows) \in SUBSET (0 .. MaxTime) /\ Times(rows) # {}
  BY DEF Times, Copy
<1>2. \E t \in Times(rows) : \A u \in Times(rows) : u <= t
  BY <1>1, GreatestNatural
<1>3. LatestTime(rows) \in Times(rows) /\ \A u \in Times(rows) : u <= LatestTime(rows)
  BY <1>2 DEF LatestTime
<1> QED
  BY <1>1, <1>3 DEF Times

\* Of the copies of a transaction one is ranked first, so the dedup keeps one
\* (Deduplicated, row_number() = 1).
LEMMA SomeCopyIsKept ==
  ASSUME NEW rows \in SUBSET Copy, NEW r \in rows
  PROVE  \E k \in Deduplicated(rows) : k.id = r.id
<1>. DEFINE Same == {s \in rows : s.id = r.id}
            Parts == {s.partition : s \in Same}
<1>1. Parts \in SUBSET Nat /\ Parts # {}
  BY DEF Copy
<1>2. PICK p \in Parts : \A q \in Parts : p <= q
  BY <1>1, LeastNatural
<1>. DEFINE First == {s \in Same : s.partition = p}
            Offsets == {s.offset : s \in First}
<1>3. Offsets \in SUBSET (0 .. MaxCopies) /\ Offsets # {}
  BY DEF Copy
<1>4. PICK o \in Offsets : \A q \in Offsets : q <= o
  BY <1>3, GreatestNatural
<1>5. PICK k \in First : k.offset = o
  BY <1>4
<1>6. \A s \in Same : RanksBefore(k, s)
  <2>. TAKE s \in Same
  <2>1. p \in Nat /\ s.partition \in Nat /\ k.partition = p /\ p <= s.partition
    BY <1>1, <1>2, <1>5
  <2>2. CASE s.partition = p
    BY <2>1, <2>2, <1>4, <1>5 DEF RanksBefore
  <2>3. CASE s.partition # p
    BY <2>1, <2>3 DEF RanksBefore
  <2> QED
    BY <2>2, <2>3
<1> QED
  BY <1>5, <1>6 DEF Deduplicated

-----------------------------------------------------------------------------
\* An offset names one copy of a partition, as land order gives offsets (Land).
OffsetsName ==
  /\ IsFiniteSet(silver)
  /\ \A r \in silver : r.offset < Cardinality({s \in silver : s.partition = r.partition})
  /\ \A r, s \in silver : r.partition = s.partition /\ r.offset = s.offset => r = s

\* What the fact holds was read by a build, and newest is not behind it.
NewestBounds ==
  \A f \in facts : f.at <= newest

FactInv ==
  /\ FactTypeOK /\ OffsetsName /\ NewestBounds
  /\ LostOnlyBehindWindow /\ OneRowPerTransaction /\ LowestPartitionThenLastOffset

LEMMA FactInit == Init => FactInv
BY FS_EmptySet DEF Init, FactInv, FactTypeOK, OffsetsName, NewestBounds, LostOnlyBehindWindow,
   OneRowPerTransaction, LowestPartitionThenLastOffset

\* Landing a copy keeps the invariant: only offsets are at stake.
LEMMA LandKeeps ==
  ASSUME FactInv, NEW id \in Id, NEW at \in 0 .. MaxTime, NEW p \in Partition, Land(id, at, p)
  PROVE  FactInv'
<1>. DEFINE Mine == {r \in silver : r.partition = p}
            new == [id |-> id, at |-> at, partition |-> p, offset |-> Cardinality(Mine)]
<1>1. silver' = silver \cup {new} /\ UNCHANGED <<facts, seen, newest, runs>>
  BY DEF Land
<1>2. IsFiniteSet(silver) /\ Mine \in SUBSET silver
  BY DEF FactInv, OffsetsName
<1>3. /\ IsFiniteSet(Mine) /\ Cardinality(Mine) \in Nat
      /\ Cardinality(Mine) <= Cardinality(silver)
  BY <1>2, FS_Subset, FS_CardinalityType
<1>4. Cardinality(silver) \in Nat /\ Cardinality(silver) < MaxCopies
  BY <1>2, FS_CardinalityType DEF Land
<1>5. new \in Copy
  BY <1>3, <1>4 DEF Copy
<1>6. FactTypeOK'
  BY <1>1, <1>5 DEF FactInv, FactTypeOK
<1>7. \A r \in silver : r.partition = p => r.offset < Cardinality(Mine)
  BY DEF FactInv, OffsetsName
<1>8. \A r \in silver : r.partition \in Nat /\ r.offset \in Nat
  BY CopyFields DEF FactInv, FactTypeOK
<1>9. new \notin Mine
  BY <1>3, <1>7
<1>10. OffsetsName'
  <2>1. IsFiniteSet(silver)'
    BY <1>1, <1>2, FS_AddElement
  <2>2. ASSUME NEW r \in silver'
        PROVE  r.offset < Cardinality({s \in silver' : s.partition = r.partition})
    <3>1. CASE r.partition = p
      <4>1. {s \in silver' : s.partition = r.partition} = Mine \cup {new}
        BY <1>1, <3>1
      <4>2. Cardinality(Mine \cup {new}) = Cardinality(Mine) + 1
        BY <1>3, <1>9, FS_AddElement
      <4>3. r.offset <= Cardinality(Mine) /\ r.offset \in Nat
        BY <1>1, <1>3, <1>7, <1>8, <3>1
      <4> QED
        BY <1>3, <4>1, <4>2, <4>3
    <3>2. CASE r.partition # p
      <4>1. {s \in silver' : s.partition = r.partition} = {s \in silver : s.partition = r.partition}
        BY <1>1, <3>2
      <4>2. r \in silver
        BY <1>1, <3>2
      <4> QED
        BY <4>1, <4>2 DEF FactInv, OffsetsName
    <3> QED
      BY <3>1, <3>2
  <2>3. ASSUME NEW r \in silver', NEW s \in silver', r.partition = s.partition, r.offset = s.offset
        PROVE  r = s
    BY <1>1, <1>3, <1>7, <1>8, <2>3 DEF FactInv, OffsetsName
  <2> QED
    BY <2>1, <2>2, <2>3 DEF OffsetsName
<1>11. (NewestBounds /\ LostOnlyBehindWindow /\ OneRowPerTransaction /\ LowestPartitionThenLastOffset)'
  BY <1>1 DEF FactInv, NewestBounds, LostOnlyBehindWindow, OneRowPerTransaction,
     LowestPartitionThenLastOffset
<1> QED
  BY <1>6, <1>10, <1>11 DEF FactInv

-----------------------------------------------------------------------------
\* The dedup keeps one copy of a transaction: two that rank before each other
\* have one partition and one offset (Deduplicated).
LEMMA OneCopyIsKept ==
  ASSUME FactTypeOK, OffsetsName, NEW rows \in SUBSET silver,
         NEW f \in Deduplicated(rows), NEW g \in Deduplicated(rows), f.id = g.id
  PROVE  f = g
<1>1. f \in silver /\ g \in silver /\ RanksBefore(f, g) /\ RanksBefore(g, f)
  BY DEF Deduplicated
<1>2. /\ f.partition \in Nat /\ f.offset \in Nat
      /\ g.partition \in Nat /\ g.offset \in Nat
  BY <1>1, CopyFields DEF FactTypeOK
<1>3. f.partition = g.partition /\ f.offset = g.offset
  BY <1>1, <1>2 DEF RanksBefore
<1> QED
  BY <1>1, <1>3 DEF OffsetsName

\* newest follows the fact up, and is a time (IncrementalRun, FullRefresh).
LEMMA NewestAfter ==
  ASSUME FactInv, facts' \in SUBSET Copy,
         \/ newest' = IF facts' = {} \/ LatestTime(facts') < newest THEN newest ELSE LatestTime(facts')
         \/ newest' = IF facts' = {} THEN 0 ELSE LatestTime(facts')
  PROVE  newest' \in 0 .. MaxTime /\ NewestBounds'
<1>. DEFINE new == facts'
<1>1. newest \in 0 .. MaxTime
  BY DEF FactInv, FactTypeOK
<1>2. CASE new = {}
  BY <1>1, <1>2 DEF NewestBounds
<1>3. CASE new # {}
  <2>1. /\ LatestTime(new) \in 0 .. MaxTime
        /\ \A r \in new : r.at <= LatestTime(new)
    BY <1>3, LatestTimeIsMax
  <2>2. \A r \in new : r.at \in 0 .. MaxTime
    BY DEF Copy
  <2>3. newest' \in 0 .. MaxTime /\ LatestTime(new) <= newest'
    BY <1>1, <1>3, <2>1
  <2>4. \A r \in new : r.at <= newest'
    BY <2>1, <2>2, <2>3
  <2> QED
    BY <2>3, <2>4 DEF NewestBounds
<1> QED
  BY <1>2, <1>3

\* A build that is well-typed keeps what does not depend on how it reads.
LEMMA BuiltKeeps ==
  ASSUME FactInv, NEW new, new \in SUBSET silver, Built(new), newest' \in 0 .. MaxTime
  PROVE  FactTypeOK' /\ OffsetsName' /\ seen' = silver /\ silver' = silver /\ facts' = new
<1>1. /\ seen' = silver /\ silver' = silver /\ facts' = new
      /\ runs < MaxRuns /\ runs' = runs + 1
  BY DEF Built
<1>2. runs' \in 0 .. MaxRuns
  BY <1>1 DEF FactInv, FactTypeOK
<1>3. FactTypeOK'
  BY <1>1, <1>2 DEF FactInv, FactTypeOK
<1>4. OffsetsName'
  BY <1>1 DEF FactInv, OffsetsName
<1> QED
  BY <1>1, <1>3, <1>4

LEMMA FullRefreshKeeps ==
  ASSUME FactInv, FullRefresh
  PROVE  FactInv'
<1>. DEFINE new == Deduplicated(silver)
<1>1. new \in SUBSET silver /\ silver \in SUBSET Copy
  BY DEF Deduplicated, FactInv, FactTypeOK
<1>2. Built(new) /\ facts' = new /\ newest' = IF facts' = {} THEN 0 ELSE LatestTime(facts')
  BY DEF FullRefresh, Built
<1>3. newest' \in 0 .. MaxTime /\ NewestBounds'
  BY <1>1, <1>2, NewestAfter
<1>4. FactTypeOK' /\ OffsetsName' /\ seen' = silver
  BY <1>1, <1>2, <1>3, BuiltKeeps
<1>5. LostOnlyBehindWindow'
  <2>1. \A r \in silver : \E f \in new : f.id = r.id
    BY <1>1, SomeCopyIsKept
  <2> QED
    BY <1>2, <1>4, <2>1 DEF LostOnlyBehindWindow
<1>6. OneRowPerTransaction' /\ LowestPartitionThenLastOffset'
  <2>1. \A f, g \in new : f.id = g.id => f = g
    BY OneCopyIsKept DEF FactInv
  <2>2. \A f \in new : \A r \in silver : r.id = f.id => RanksBefore(f, r)
    BY DEF Deduplicated
  <2> QED
    BY <1>2, <1>4, <2>1, <2>2 DEF OneRowPerTransaction, LowestPartitionThenLastOffset, RanksBefore
<1> QED
  BY <1>3, <1>4, <1>5, <1>6 DEF FactInv

LEMMA IncrementalRunKeeps ==
  ASSUME FactInv, IncrementalRun
  PROVE  FactInv'
<1>. DEFINE read == {r \in silver : WithinWindow(r)}
            source == Deduplicated(read)
            new == source \cup {f \in facts : ~Matches(f, source)}
<1>1. /\ new \in SUBSET silver /\ silver \in SUBSET Copy /\ read \in SUBSET Copy
      /\ source \in SUBSET read
  BY DEF Deduplicated, FactInv, FactTypeOK
<1>2. /\ Built(new) /\ facts' = new
      /\ newest' = IF facts' = {} \/ LatestTime(facts') < newest THEN newest ELSE LatestTime(facts')
  BY DEF IncrementalRun, Built
<1>3. newest' \in 0 .. MaxTime /\ NewestBounds'
  BY <1>1, <1>2, NewestAfter
<1>4. FactTypeOK' /\ OffsetsName' /\ seen' = silver
  BY <1>1, <1>2, <1>3, BuiltKeeps
<1>5. newest <= newest'
  <2>1. newest \in 0 .. MaxTime
    BY DEF FactInv, FactTypeOK
  <2>2. CASE new = {}
    BY <1>2, <2>1, <2>2
  <2>3. CASE new # {}
    <3>1. LatestTime(new) \in 0 .. MaxTime
      BY <1>1, <2>3, LatestTimeIsMax
    <3> QED
      BY <1>2, <2>1, <2>3, <3>1
  <2> QED
    BY <2>2, <2>3
<1>6. \A r \in silver : r.at >= newest' - Window => r \in read
  <2>. SUFFICES ASSUME NEW r \in silver, r.at >= newest' - Window, facts # {}
                PROVE  r.at >= LatestTime(facts) - Window
    BY DEF WithinWindow
  <2>1. facts \in SUBSET Copy
    BY <1>1 DEF FactInv, FactTypeOK
  <2>2. PICK f \in facts : f.at = LatestTime(facts)
    <3>1. Times(facts) \in SUBSET (0 .. MaxTime) /\ Times(facts) # {}
      BY <2>1 DEF Times, Copy
    <3>2. \E t \in Times(facts) : \A u \in Times(facts) : u <= t
      BY <3>1, GreatestNatural
    <3>3. LatestTime(facts) \in Times(facts)
      BY <3>2 DEF LatestTime
    <3> QED
      BY <3>3 DEF Times
  <2>3. f.at <= newest /\ f.at \in Nat /\ newest \in Nat /\ newest' \in Nat /\ r.at \in Nat
    BY <1>1, <1>3, <2>1 DEF FactInv, FactTypeOK, NewestBounds, Copy
  <2> QED
    BY <1>5, <2>2, <2>3
<1>7. \A r \in read : \E k \in source : k.id = r.id
  BY <1>1, SomeCopyIsKept
<1>8. LostOnlyBehindWindow'
  <2>. SUFFICES ASSUME NEW r \in silver, \A f \in new : f.id # r.id
                PROVE  r.at < newest' - Window
    BY <1>2, <1>4 DEF LostOnlyBehindWindow
  <2>1. r \notin read
    BY <1>7
  <2>2. ~(r.at >= newest' - Window)
    BY <1>6, <2>1
  <2>3. r.at \in Nat /\ newest' \in Nat
    BY <1>1, <1>3 DEF Copy
  <2> QED
    BY <2>2, <2>3
<1>9. OneRowPerTransaction' /\ LowestPartitionThenLastOffset'
  <2>1. ASSUME NEW f \in new, NEW g \in new, f.id = g.id
        PROVE  f = g
    <3>1. CASE f \in source /\ g \in source
      BY <2>1, <3>1, OneCopyIsKept DEF FactInv
    <3>2. CASE f \notin source /\ g \notin source
      BY <2>1, <3>2 DEF FactInv, OneRowPerTransaction
    <3> QED
      BY <2>1, <3>1, <3>2 DEF Matches
  <2>2. ASSUME NEW f \in new, NEW r \in silver, r.id = f.id, r.at >= newest' - Window
        PROVE  RanksBefore(f, r)
    <3>1. r \in read
      BY <1>6, <2>2
    <3>2. f \in source
      BY <1>7, <2>2, <3>1 DEF Matches
    <3> QED
      BY <2>2, <3>1, <3>2 DEF Deduplicated
  <2> QED
    BY <1>2, <1>4, <2>1, <2>2 DEF OneRowPerTransaction, LowestPartitionThenLastOffset, RanksBefore
<1> QED
  BY <1>3, <1>4, <1>8, <1>9 DEF FactInv

-----------------------------------------------------------------------------
\* The invariant of the fact: types, offsets that name copies, a newest time that
\* bounds the fact, and both properties, which need each other's facts.
THEOREM FactInvariant == Spec => []FactInv
<1>1. Init => FactInv
  BY FactInit
<1>2. FactInv /\ [Next]_vars => FactInv'
  <2>. SUFFICES ASSUME FactInv, [Next]_vars
                PROVE  FactInv'
    OBVIOUS
  <2>1. ASSUME NEW id \in Id, NEW at \in 0 .. MaxTime, NEW p \in Partition, Land(id, at, p)
        PROVE  FactInv'
    BY <2>1, LandKeeps
  <2>2. CASE IncrementalRun
    BY <2>2, IncrementalRunKeeps
  <2>3. CASE FullRefresh
    BY <2>3, FullRefreshKeeps
  <2>4. CASE UNCHANGED vars
    BY <2>4 DEF vars, FactInv, FactTypeOK, OffsetsName, NewestBounds, LostOnlyBehindWindow,
       OneRowPerTransaction, LowestPartitionThenLastOffset
  <2> QED
    BY <2>1, <2>2, <2>3, <2>4 DEF Next
<1> QED
  BY <1>1, <1>2, PTL DEF Spec

\* Every reachable fact is made of copies a build has read from silver.
THEOREM FactTypeCorrect == Spec => []FactTypeOK
BY FactInvariant, PTL DEF FactInv

\* A transaction a build could read is in the fact, unless every copy of it lies
\* behind the overlap window of fct_transactions.sql.
THEOREM NothingLostWithinWindow == Spec => []LostOnlyBehindWindow
BY FactInvariant, PTL DEF FactInv

\* A transaction has one row, whatever the incremental builds have read of it
\* (the merge on unique_key).
THEOREM FactHasOneRowEach == Spec => []OneRowPerTransaction
BY FactInvariant, PTL DEF FactInv

\* The row is the copy a rebuild would choose among those within the window (the
\* order by of fct_transactions.sql), whatever the incremental builds have read.
THEOREM FactKeepsTheRankedCopy == Spec => []LowestPartitionThenLastOffset
BY FactInvariant, PTL DEF FactInv
=============================================================================
