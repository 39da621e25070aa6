----------------------- MODULE MetricsCollector_proofs -----------------------
(***************************************************************************)
(* Proofs about the event log collector: no event is collected twice, and  *)
(* the watermark passes over none but those that share a timestamp with    *)
(* one collected, for any pipelines and logs.                              *)
(***************************************************************************)
EXTENDS MetricsCollector, SequenceTheorems, NaturalExtremes, TLAPS

USE CollectorAssumption

-----------------------------------------------------------------------------
\* The log of a pipeline is appended in the order of its clock (LogEvent).
LogOrdered ==
  \A p \in Pipeline : \A t \in Table : \A i, j \in DOMAIN eventLog[p][t] :
    /\ eventLog[p][t][i] \in 1 .. now
    /\ i <= j => eventLog[p][t][i] <= eventLog[p][t][j]

\* Between the count and the append the table stays as it was, so the pending
\* query starts from the newest row of its pipeline (CountNew, AppendNew).
IsMark(p, t, mark) ==
  /\ \A r \in RowsOf(p, t) : TimeAt(r, t) <= mark
  /\ mark = 0 \/ \E r \in RowsOf(p, t) : TimeAt(r, t) = mark

PendingMark ==
  pending => AtWork /\ IsMark(Pipelines[current], Tables[target], since)

CollectorInv ==
  CollectorTypeOK /\ LogOrdered /\ PendingMark /\ CollectedOnce /\ OnlyTiesAreSkipped

\* A collection is at a pipeline and a table it was given (collect).
LEMMA AtWorkSomewhere ==
  ASSUME CollectorTypeOK, AtWork
  PROVE  /\ current \in 1 .. Len(Pipelines) /\ Pipelines[current] \in Pipeline
         /\ Tables[target] \in Table
BY DEF CollectorTypeOK, AtWork, Pipeline, Table

\* The rows of a pipeline are of events it has logged, no later than now (RowsOf).
LEMMA RowTimes ==
  ASSUME CollectorTypeOK, LogOrdered, NEW t \in Table, NEW r \in rows[t]
  PROVE  /\ r.pipeline \in Pipeline /\ r.event \in DOMAIN eventLog[r.pipeline][t]
         /\ TimeAt(r, t) \in 1 .. now
<1>1. r.pipeline \in Pipeline /\ r.event \in DOMAIN eventLog[r.pipeline][t]
  BY DEF CollectorTypeOK
<1> QED
  BY <1>1 DEF LogOrdered, TimeAt

\* The newest timestamp of a table is one of its rows', or the epoch (Watermark).
LEMMA WatermarkIsMark ==
  ASSUME CollectorTypeOK, LogOrdered, NEW p \in Pipeline, NEW t \in Table
  PROVE  Watermark(p, t) \in 0 .. now /\ IsMark(p, t, Watermark(p, t))
<1>. DEFINE S == {0} \cup {TimeAt(r, t) : r \in RowsOf(p, t)}
<1>1. now \in Nat
  BY DEF CollectorTypeOK
<1>2. \A r \in RowsOf(p, t) : TimeAt(r, t) \in 1 .. now
  BY RowTimes DEF RowsOf
<1>3. S \in SUBSET (0 .. now) /\ S # {}
  BY <1>1, <1>2
<1>4. \E n \in S : \A m \in S : m <= n
  BY <1>1, <1>3, GreatestNatural
<1>5. Largest(S) \in S /\ \A m \in S : m <= Largest(S)
  BY <1>4 DEF Largest
<1>6. Watermark(p, t) = Largest(S)
  BY DEF Watermark
<1> QED
  BY <1>3, <1>5, <1>6 DEF IsMark

-----------------------------------------------------------------------------
\* The collector starts with empty logs and tables (Init).
LEMMA CollectorStart ==
  ASSUME Init
  PROVE  CollectorInv
<1>1. << >> \in Seq(Nat \ {0}) /\ DOMAIN << >> = {}
  BY EmptySeq, LenProperties
<1>2. 1 \in DOMAIN Tables
  BY DEF Tables
<1>3. CollectorTypeOK
  <2>1. now \in 1 .. MaxTime /\ now = 1
    BY DEF Init
  <2>2. /\ eventLog \in [Pipeline -> [Table -> Seq(Nat \ {0})]]
        /\ rows \in [Table -> SUBSET [pipeline : Pipeline, event : Nat \ {0}, collection : Nat]]
        /\ \A t \in Table : rows[t] = {}
    BY <1>1 DEF Init
  <2>3. /\ collection = 1 /\ since = 0 /\ current = 1 /\ target = 1
        /\ pending = FALSE /\ collecting = FALSE /\ errors = 0
    BY DEF Init
  <2>4. current \in 1 .. Len(Pipelines) + 1 /\ since \in 0 .. now
    BY <2>1, <2>3
  <2>5. collection \in Nat /\ errors \in 0 .. MaxErrors
    BY <2>3
  <2>6. pending \in BOOLEAN /\ collecting \in BOOLEAN
    BY <2>3
  <2> QED
    BY <1>2, <2>1, <2>2, <2>3, <2>4, <2>5, <2>6 DEF CollectorTypeOK
<1>4. \A p \in Pipeline : \A t \in Table : DOMAIN eventLog[p][t] = {}
  BY <1>1 DEF Init
<1>5. LogOrdered /\ PendingMark /\ CollectedOnce /\ OnlyTiesAreSkipped
  BY <1>4 DEF Init, LogOrdered, PendingMark, CollectedOnce, OnlyTiesAreSkipped
<1> QED
  BY <1>3, <1>5 DEF CollectorInv

\* What a step that only moves the collector on has to show: it appends nothing,
\* and what is pending is what CountNew saw.
LEMMA OnlyPlaceChanges ==
  ASSUME CollectorInv, UNCHANGED <<logVars, rows, collection>>,
         current' \in 1 .. Len(Pipelines) + 1, target' \in DOMAIN Tables, since' \in 0 .. now,
         pending' \in BOOLEAN, collecting' \in BOOLEAN, errors' \in 0 .. MaxErrors,
         PendingMark'
  PROVE  CollectorInv'
<1>1. now' = now /\ eventLog' = eventLog /\ rows' = rows /\ collection' = collection
  BY DEF logVars
<1>2. CollectorTypeOK'
  BY <1>1 DEF CollectorInv, CollectorTypeOK
<1>3. LogOrdered' /\ CollectedOnce'
  BY <1>1 DEF CollectorInv, LogOrdered, CollectedOnce
<1>4. OnlyTiesAreSkipped'
  BY <1>1 DEF CollectorInv, OnlyTiesAreSkipped, Collected, RowsOf
<1> QED
  BY <1>2, <1>3, <1>4 DEF CollectorInv

\* After the last table comes the first of the next pipeline (Advance).
LEMMA AdvanceStays ==
  ASSUME CollectorTypeOK, AtWork, Advance
  PROVE  current' \in 1 .. Len(Pipelines) + 1 /\ target' \in DOMAIN Tables
<1>1. DOMAIN Tables = 1 .. 3 /\ Len(Tables) = 3
  BY DEF Tables
<1>2. current \in 1 .. Len(Pipelines) /\ target \in 1 .. 3
  BY <1>1, AtWorkSomewhere DEF CollectorTypeOK
<1> QED
  BY <1>1, <1>2 DEF Advance

-----------------------------------------------------------------------------
\* A pipeline logs an event, no earlier than those before it (LogEvent).
LEMMA LogEventKeeps ==
  ASSUME CollectorInv, NEW p \in Pipeline, NEW t \in Table, LogEvent(p, t)
  PROVE  CollectorInv'
<1>1. /\ eventLog' = [eventLog EXCEPT ![p][t] = Append(@, now)]
      /\ now' = now /\ UNCHANGED collectorVars
  BY DEF LogEvent
<1>2. /\ now \in Nat \ {0}
      /\ eventLog \in [Pipeline -> [Table -> Seq(Nat \ {0})]]
  BY DEF CollectorInv, CollectorTypeOK
<1>3. /\ eventLog' \in [Pipeline -> [Table -> Seq(Nat \ {0})]]
      /\ eventLog'[p][t] = Append(eventLog[p][t], now)
  BY <1>1, <1>2
<1>4. ASSUME NEW q \in Pipeline, NEW u \in Table
      PROVE  /\ DOMAIN eventLog[q][u] \subseteq DOMAIN eventLog'[q][u]
             /\ \A i \in DOMAIN eventLog[q][u] : eventLog'[q][u][i] = eventLog[q][u][i]
             /\ \A i \in DOMAIN eventLog'[q][u] \ DOMAIN eventLog[q][u] :
                  /\ eventLog'[q][u][i] = now
                  /\ \A j \in DOMAIN eventLog[q][u] : j < i
             /\ \A i, j \in DOMAIN eventLog'[q][u] \ DOMAIN eventLog[q][u] : i = j
             /\ DOMAIN eventLog'[q][u] \subseteq Nat
  <2>1. CASE q = p /\ u = t
    <3>1. eventLog[p][t] \in Seq(Nat \ {0})
      BY <1>2
    <3>2. /\ Len(eventLog'[p][t]) = Len(eventLog[p][t]) + 1
          /\ DOMAIN eventLog'[p][t] = 1 .. Len(eventLog[p][t]) + 1
          /\ DOMAIN eventLog[p][t] = 1 .. Len(eventLog[p][t])
          /\ Len(eventLog[p][t]) \in Nat
          /\ \A i \in 1 .. Len(eventLog[p][t]) : eventLog'[p][t][i] = eventLog[p][t][i]
          /\ eventLog'[p][t][Len(eventLog[p][t]) + 1] = now
      BY <1>2, <1>3, <3>1, AppendProperties, LenProperties
    <3> QED
      BY <2>1, <3>2
  <2>2. CASE ~(q = p /\ u = t)
    <3>1. eventLog'[q][u] = eventLog[q][u]
      BY <1>1, <1>2, <2>2
    <3>2. DOMAIN eventLog[q][u] = 1 .. Len(eventLog[q][u]) /\ Len(eventLog[q][u]) \in Nat
      BY <1>2, LenProperties
    <3> QED
      BY <3>1, <3>2
  <2> QED
    BY <2>1, <2>2
<1>5. UNCHANGED <<rows, collection, collecting, current, target, pending, since, errors, unreadable>>
  BY <1>1 DEF collectorVars
<1>6. ASSUME NEW u \in Table, NEW r \in rows[u]
      PROVE  TimeAt(r, u)' = TimeAt(r, u) /\ r.event \in DOMAIN eventLog'[r.pipeline][u]
  <2>1. r.pipeline \in Pipeline /\ r.event \in DOMAIN eventLog[r.pipeline][u]
    BY RowTimes DEF CollectorInv
  <2> QED
    BY <1>4, <2>1 DEF TimeAt
<1>7. CollectorTypeOK'
  BY <1>1, <1>3, <1>5, <1>6 DEF CollectorInv, CollectorTypeOK
<1>8. LogOrdered'
  <2>. SUFFICES ASSUME NEW q \in Pipeline, NEW u \in Table,
                       NEW i \in DOMAIN eventLog'[q][u], NEW j \in DOMAIN eventLog'[q][u]
                PROVE  /\ eventLog'[q][u][i] \in 1 .. now
                       /\ i <= j => eventLog'[q][u][i] <= eventLog'[q][u][j]
    BY <1>1 DEF LogOrdered
  <2>1. \A k, m \in DOMAIN eventLog[q][u] :
          eventLog[q][u][k] \in 1 .. now /\ (k <= m => eventLog[q][u][k] <= eventLog[q][u][m])
    BY DEF CollectorInv, LogOrdered
  <2>2. CASE i \in DOMAIN eventLog[q][u] /\ j \in DOMAIN eventLog[q][u]
    BY <1>4, <2>1, <2>2
  <2>3. CASE i \in DOMAIN eventLog[q][u] /\ j \notin DOMAIN eventLog[q][u]
    BY <1>2, <1>4, <2>1, <2>3
  <2>4. CASE i \notin DOMAIN eventLog[q][u]
    <3>1. eventLog'[q][u][i] = now /\ \A k \in DOMAIN eventLog[q][u] : k < i
      BY <1>4, <2>4
    <3>2. i \in Nat /\ j \in Nat
      BY <1>4
    <3>3. i <= j => j \notin DOMAIN eventLog[q][u]
      BY <3>1, <3>2
    <3>4. i <= j => eventLog'[q][u][j] = now
      BY <1>4, <3>3
    <3> QED
      BY <1>2, <3>1, <3>4
  <2> QED
    BY <2>2, <2>3, <2>4
<1>9. PendingMark'
  <2>. SUFFICES ASSUME pending
                PROVE  AtWork' /\ IsMark(Pipelines[current], Tables[target], since)'
    BY <1>5 DEF PendingMark
  <2>1. AtWork /\ IsMark(Pipelines[current], Tables[target], since)
    BY DEF CollectorInv, PendingMark
  <2>2. Tables[target] \in Table
    BY <2>1, AtWorkSomewhere DEF CollectorInv
  <2>3. \A r \in RowsOf(Pipelines[current], Tables[target]) :
          TimeAt(r, Tables[target])' = TimeAt(r, Tables[target])
    BY <1>5, <1>6, <2>2 DEF RowsOf, TimeAt
  <2>4. AtWork'
    BY <1>5, <2>1 DEF AtWork
  <2>5. IsMark(Pipelines[current], Tables[target], since)'
    BY <1>5, <2>1, <2>3 DEF IsMark, RowsOf, TimeAt
  <2> QED
    BY <2>4, <2>5
<1>10. CollectedOnce'
  BY <1>5 DEF CollectorInv, CollectedOnce
<1>11. OnlyTiesAreSkipped'
  <2>. SUFFICES ASSUME NEW q \in Pipeline, NEW u \in Table,
                       NEW i \in DOMAIN eventLog'[q][u], i \notin Collected(q, u),
                       NEW k \in Collected(q, u), eventLog'[q][u][k] >= eventLog'[q][u][i]
                PROVE  \E j \in Collected(q, u) : j < i /\ eventLog'[q][u][j] = eventLog'[q][u][i]
    BY <1>5 DEF OnlyTiesAreSkipped, Collected, RowsOf
  <2>1. \A j \in Collected(q, u) : j \in DOMAIN eventLog[q][u]
    BY DEF Collected, RowsOf, CollectorInv, CollectorTypeOK
  <2>2. \A j \in Collected(q, u) :
          eventLog'[q][u][j] = eventLog[q][u][j] /\ eventLog[q][u][j] \in 1 .. now
    BY <1>4, <2>1 DEF CollectorInv, LogOrdered
  <2>3. CASE i \in DOMAIN eventLog[q][u]
    <3>1. eventLog[q][u][k] >= eventLog[q][u][i]
      BY <1>4, <2>2, <2>3
    <3>2. \E j \in Collected(q, u) : j < i /\ eventLog[q][u][j] = eventLog[q][u][i]
      BY <2>3, <3>1 DEF CollectorInv, OnlyTiesAreSkipped
    <3>3. PICK j \in Collected(q, u) : j < i /\ eventLog[q][u][j] = eventLog[q][u][i]
      BY <3>2
    <3>4. eventLog'[q][u][j] = eventLog[q][u][j] /\ eventLog'[q][u][i] = eventLog[q][u][i]
      BY <1>4, <2>2, <2>3
    <3> QED
      BY <3>3, <3>4
  <2>4. CASE i \notin DOMAIN eventLog[q][u]
    <3>1. eventLog'[q][u][i] = now /\ k < i
      BY <1>4, <2>1, <2>4
    <3>2. eventLog'[q][u][k] \in 1 .. now
      BY <2>2
    <3>3. eventLog'[q][u][k] = now
      BY <1>2, <3>1, <3>2
    <3> QED
      BY <3>1, <3>3
  <2> QED
    BY <2>3, <2>4
<1> QED
  BY <1>7, <1>8, <1>9, <1>10, <1>11 DEF CollectorInv

\* Time passes (Tick).
LEMMA TickKeeps ==
  ASSUME CollectorInv, Tick
  PROVE  CollectorInv'
<1>1. /\ now < MaxTime /\ now' = now + 1 /\ eventLog' = eventLog /\ UNCHANGED collectorVars
  BY DEF Tick
<1>2. UNCHANGED <<rows, collection, collecting, current, target, pending, since, errors, unreadable>>
  BY <1>1 DEF collectorVars
<1>3. now \in 1 .. MaxTime /\ since \in 0 .. now
  BY DEF CollectorInv, CollectorTypeOK
<1>4. now' \in 1 .. MaxTime /\ since' \in 0 .. now'
  BY <1>1, <1>2, <1>3
<1>5. CollectorTypeOK'
  BY <1>1, <1>2, <1>4 DEF CollectorInv, CollectorTypeOK
<1>6. LogOrdered'
  BY <1>1, <1>3 DEF CollectorInv, LogOrdered
<1>7. PendingMark' /\ CollectedOnce'
  BY <1>1, <1>2 DEF CollectorInv, PendingMark, CollectedOnce, IsMark, RowsOf, TimeAt, AtWork
<1>8. OnlyTiesAreSkipped'
  BY <1>1, <1>2 DEF CollectorInv, OnlyTiesAreSkipped, Collected, RowsOf
<1> QED
  BY <1>5, <1>6, <1>7, <1>8 DEF CollectorInv

\* The query is built from the watermark of the moment (CountNew).
LEMMA CountNewKeeps ==
  ASSUME CollectorInv, CountNew
  PROVE  CollectorInv'
<1>. DEFINE p == Pipelines[current]
            t == Tables[target]
            mark == Watermark(p, t)
<1>1. /\ AtWork /\ ~pending
      /\ UNCHANGED <<logVars, rows, collection, collecting, errors, unreadable>>
      /\ \/ pending' = TRUE /\ since' = mark /\ UNCHANGED <<current, target>>
         \/ Advance /\ UNCHANGED <<pending, since>>
  BY DEF CountNew
<1>2. p \in Pipeline /\ t \in Table
  BY <1>1, AtWorkSomewhere DEF CollectorInv
<1>3. mark \in 0 .. now /\ IsMark(p, t, mark)
  BY <1>2, WatermarkIsMark DEF CollectorInv
<1>4. current' \in 1 .. Len(Pipelines) + 1 /\ target' \in DOMAIN Tables
  BY <1>1, AdvanceStays DEF CollectorInv, CollectorTypeOK
<1>5. since' \in 0 .. now /\ pending' \in BOOLEAN
  BY <1>1, <1>3 DEF CollectorInv, CollectorTypeOK
<1>6. collecting' \in BOOLEAN /\ errors' \in 0 .. MaxErrors
  BY <1>1 DEF CollectorInv, CollectorTypeOK
<1>7. PendingMark'
  <2>. SUFFICES ASSUME pending'
                PROVE  AtWork' /\ IsMark(Pipelines[current], Tables[target], since)'
    BY DEF PendingMark
  <2>1. since' = mark /\ current' = current /\ target' = target
    BY <1>1
  <2>2. rows' = rows /\ eventLog' = eventLog
    BY <1>1 DEF logVars
  <2>3. AtWork'
    BY <1>1, <2>1 DEF AtWork
  <2>. HIDE DEF mark
  <2>4. IsMark(Pipelines[current], Tables[target], since)'
    BY <1>3, <2>1, <2>2 DEF IsMark, RowsOf, TimeAt
  <2> QED
    BY <2>3, <2>4
<1> QED
  BY <1>1, <1>4, <1>5, <1>6, <1>7, OnlyPlaceChanges

\* What is appended is newer than all the table holds of its pipeline, and what
\* the watermark has passed over shares its timestamp (AppendNew).
LEMMA AppendNewKeeps ==
  ASSUME CollectorInv, AppendNew
  PROVE  CollectorInv'
<1>. DEFINE p == Pipelines[current]
            t == Tables[target]
            new == {[pipeline |-> p, event |-> i, collection |-> collection] : i \in NewEvents(p, t, since)}
<1>1. /\ AtWork /\ pending /\ rows' = [rows EXCEPT ![t] = @ \cup new]
      /\ collection' = collection + 1 /\ Advance /\ pending' = FALSE /\ since' = 0
      /\ UNCHANGED <<logVars, collecting, errors, unreadable>>
  BY DEF AppendNew
<1>2. p \in Pipeline /\ t \in Table
  BY <1>1, AtWorkSomewhere DEF CollectorInv
<1>3. now' = now /\ eventLog' = eventLog
  BY <1>1 DEF logVars
<1>4. IsMark(p, t, since) /\ since \in Nat
  BY <1>1 DEF CollectorInv, PendingMark, CollectorTypeOK
<1>. HIDE DEF p, t
<1>5. /\ eventLog[p][t] \in Seq(Nat \ {0})
      /\ \A i \in DOMAIN eventLog[p][t] : i \in Nat \ {0} /\ eventLog[p][t][i] \in Nat \ {0}
  <2>1. eventLog[p][t] \in Seq(Nat \ {0})
    BY <1>2 DEF CollectorInv, CollectorTypeOK
  <2>2. DOMAIN eventLog[p][t] = 1 .. Len(eventLog[p][t]) /\ Len(eventLog[p][t]) \in Nat
    BY <2>1, LenProperties
  <2> QED
    BY <2>1, <2>2, ElementOfSeq
<1>6. collection \in Nat /\ rows \in [Table -> SUBSET [pipeline : Pipeline, event : Nat \ {0}, collection : Nat]]
  BY DEF CollectorInv, CollectorTypeOK
<1>7. /\ new \subseteq [pipeline : Pipeline, event : Nat \ {0}, collection : Nat]
      /\ \A r \in new : /\ r.pipeline = p /\ r.event \in DOMAIN eventLog[p][t]
                        /\ r.collection = collection /\ eventLog[p][t][r.event] > since
      /\ \A r, s \in new : r.event = s.event => r = s
  BY <1>2, <1>5, <1>6 DEF NewEvents
<1>8. /\ rows' \in [Table -> SUBSET [pipeline : Pipeline, event : Nat \ {0}, collection : Nat]]
      /\ rows'[t] = rows[t] \cup new
      /\ \A u \in Table : u # t => rows'[u] = rows[u]
  BY <1>1, <1>2, <1>6, <1>7
<1>9. current' \in 1 .. Len(Pipelines) + 1 /\ target' \in DOMAIN Tables
  BY <1>1, AdvanceStays DEF CollectorInv
<1>10. CollectorTypeOK'
  <2>1. ASSUME NEW u \in Table, NEW r \in rows'[u]
        PROVE  r.event \in DOMAIN eventLog[r.pipeline][u] /\ r.collection < collection + 1
    <3>1. CASE r \in rows[u]
      <4>1. r.event \in DOMAIN eventLog[r.pipeline][u] /\ r.collection < collection
        BY <3>1 DEF CollectorInv, CollectorTypeOK
      <4>2. r.collection \in Nat
        BY <1>6, <3>1
      <4> QED
        BY <1>6, <4>1, <4>2
    <3>2. CASE u = t /\ r \in new
      BY <1>6, <1>7, <3>2
    <3> QED
      BY <1>8, <3>1, <3>2
  <2>2. now \in 1 .. MaxTime /\ since' \in 0 .. now
    BY <1>1 DEF CollectorInv, CollectorTypeOK
  <2>3. \A u \in Table : \A r \in rows'[u] :
          r.event \in DOMAIN eventLog'[r.pipeline][u] /\ r.collection < collection'
    BY <1>1, <1>3, <2>1
  <2>4. /\ eventLog' \in [Pipeline -> [Table -> Seq(Nat \ {0})]]
        /\ collecting' \in BOOLEAN /\ errors' \in 0 .. MaxErrors
    BY <1>1, <1>3 DEF CollectorInv, CollectorTypeOK
  <2>5. collection' \in Nat /\ now' \in 1 .. MaxTime /\ since' \in 0 .. now'
    BY <1>1, <1>3, <1>6, <2>2
  <2>6. pending' \in BOOLEAN
    BY <1>1
  <2> QED
    BY <1>8, <1>9, <2>3, <2>4, <2>5, <2>6 DEF CollectorTypeOK
<1>11. LogOrdered' /\ PendingMark'
  BY <1>1, <1>3 DEF CollectorInv, LogOrdered, PendingMark
<1>12. CollectedOnce'
  <2>. SUFFICES ASSUME NEW u \in Table, NEW r \in rows'[u], NEW s \in rows'[u],
                       r.pipeline = s.pipeline, r.event = s.event
                PROVE  r = s
    BY DEF CollectedOnce
  <2>1. CASE r \in rows[u] /\ s \in rows[u]
    BY <2>1 DEF CollectorInv, CollectedOnce
  <2>2. ASSUME u = t, NEW x \in new, NEW y \in rows[t]
        PROVE  ~(x.pipeline = y.pipeline /\ x.event = y.event)
    <3>. SUFFICES ASSUME x.pipeline = y.pipeline, x.event = y.event
                  PROVE  FALSE
      OBVIOUS
    <3>1. y \in RowsOf(p, t) /\ eventLog[p][t][x.event] > since
      BY <1>7 DEF RowsOf
    <3>2. TimeAt(y, t) = eventLog[p][t][x.event]
      BY <1>7 DEF TimeAt
    <3>3. TimeAt(y, t) <= since
      BY <1>4, <3>1 DEF IsMark
    <3>4. eventLog[p][t][x.event] \in Nat
      BY <1>5, <1>7
    <3> QED
      BY <1>4, <3>1, <3>2, <3>3, <3>4
  <2>3. CASE u = t /\ r \in new /\ s \in new
    BY <1>7, <2>3
  <2> QED
    BY <1>8, <2>1, <2>2, <2>3
<1>13. OnlyTiesAreSkipped'
  <2>. SUFFICES ASSUME NEW q \in Pipeline, NEW u \in Table,
                       NEW i \in DOMAIN eventLog[q][u], i \notin Collected(q, u)',
                       NEW k \in Collected(q, u)', eventLog[q][u][k] >= eventLog[q][u][i]
                PROVE  \E j \in Collected(q, u)' : j < i /\ eventLog[q][u][j] = eventLog[q][u][i]
    BY <1>3 DEF OnlyTiesAreSkipped
  <2>1. Collected(q, u) \subseteq Collected(q, u)'
    BY <1>8 DEF Collected, RowsOf
  <2>2. (\E m \in Collected(q, u) : eventLog[q][u][m] >= eventLog[q][u][i]) =>
          \E j \in Collected(q, u) : j < i /\ eventLog[q][u][j] = eventLog[q][u][i]
    BY <2>1 DEF CollectorInv, OnlyTiesAreSkipped
  <2>3. CASE k \in Collected(q, u)
    BY <2>1, <2>2, <2>3
  <2>4. CASE k \notin Collected(q, u)
    <3>1. u = t /\ q = p
      BY <1>7, <1>8, <2>4 DEF Collected, RowsOf
    <3>2. i \notin NewEvents(p, t, since)
      <4>. SUFFICES ASSUME i \in NewEvents(p, t, since)
                    PROVE  i \in Collected(q, u)'
        OBVIOUS
      <4>1. [pipeline |-> p, event |-> i, collection |-> collection] \in rows'[t]
        BY <1>8
      <4> QED
        BY <3>1, <4>1 DEF Collected, RowsOf
    <3>3. eventLog[p][t][i] <= since /\ eventLog[p][t][i] \in Nat \ {0}
      BY <1>4, <1>5, <3>1, <3>2 DEF NewEvents
    <3>4. PICK r \in RowsOf(p, t) : TimeAt(r, t) = since
      BY <1>4, <3>3 DEF IsMark
    <3>5. r.event \in Collected(p, t) /\ eventLog[p][t][r.event] = since
      BY <3>4 DEF Collected, RowsOf, TimeAt
    <3>6. eventLog[p][t][r.event] >= eventLog[p][t][i]
      BY <1>4, <3>3, <3>5
    <3> QED
      BY <2>1, <2>2, <3>1, <3>5, <3>6
  <2> QED
    BY <2>3, <2>4
<1> QED
  BY <1>10, <1>11, <1>12, <1>13 DEF CollectorInv

\* A step that begins, gives up or ends something appends nothing
\* (StartCollection, Unreadable, CollectError, EndCollection, Kill).
LEMMA OtherStepsKeep ==
  ASSUME CollectorInv,
         StartCollection \/ Unreadable \/ CollectError \/ EndCollection \/ Kill
  PROVE  CollectorInv'
<1>1. /\ now \in Nat /\ since \in 0 .. now /\ errors \in 0 .. MaxErrors /\ pending \in BOOLEAN
      /\ current \in 1 .. Len(Pipelines) + 1 /\ target \in DOMAIN Tables
      /\ collecting \in BOOLEAN /\ 1 \in DOMAIN Tables /\ 0 \in 0 .. now
      /\ 1 \in 1 .. Len(Pipelines) + 1
  <2>1. 1 \in DOMAIN Tables
    BY DEF Tables
  <2> QED
    BY <2>1 DEF CollectorInv, CollectorTypeOK
<1>2. pending => AtWork
  BY DEF CollectorInv, PendingMark
<1>3. CASE StartCollection
  <2>1. ~pending
    BY <1>2, <1>3 DEF StartCollection, AtWork
  <2> QED
    BY <1>1, <1>3, <2>1, OnlyPlaceChanges DEF StartCollection, PendingMark
<1>4. CASE Unreadable \/ CollectError
  <2>1. /\ current' = current + 1 /\ target' = 1 /\ pending' = FALSE /\ since' = 0
        /\ UNCHANGED <<logVars, rows, collection, collecting, unreadable>>
        /\ current \in 1 .. Len(Pipelines)
    BY <1>1, <1>4, AtWorkSomewhere DEF Unreadable, CollectError, GiveUpPipeline, AfterError, CollectorInv
  <2>2. errors' \in 0 .. MaxErrors
    BY <1>1, <1>4 DEF Unreadable, CollectError
  <2>3. current' \in 1 .. Len(Pipelines) + 1
    BY <2>1
  <2> QED
    BY <1>1, <2>1, <2>2, <2>3, OnlyPlaceChanges DEF PendingMark
<1>5. CASE EndCollection
  <2>1. ~pending
    BY <1>1, <1>2, <1>5 DEF EndCollection, AtWork
  <2> QED
    BY <1>1, <1>5, <2>1, OnlyPlaceChanges DEF EndCollection, PendingMark
<1>6. CASE Kill
  <2>1. errors' \in 0 .. MaxErrors
    BY <1>1, <1>6 DEF Kill
  <2> QED
    BY <1>1, <1>6, <2>1, OnlyPlaceChanges DEF Kill, PendingMark
<1> QED
  BY <1>3, <1>4, <1>5, <1>6

-----------------------------------------------------------------------------
\* The invariant of the collector: logs are ordered, and a pending append starts
\* from the newest row of its table.
THEOREM CollectorInvariant == Spec => []CollectorInv
<1>1. Init => CollectorInv
  BY CollectorStart
<1>2. CollectorInv /\ [Next]_vars => CollectorInv'
  <2>. SUFFICES ASSUME CollectorInv, [Next]_vars
                PROVE  CollectorInv'
    OBVIOUS
  <2>1. CASE \E p \in Pipeline, t \in Table : LogEvent(p, t)
    BY <2>1, LogEventKeeps
  <2>2. CASE Tick
    BY <2>2, TickKeeps
  <2>3. CASE CollectStep
    BY <2>3, CountNewKeeps, AppendNewKeeps, OtherStepsKeep DEF CollectStep
  <2>4. CASE CollectError \/ Kill
    BY <2>4, OtherStepsKeep
  <2>5. CASE UNCHANGED vars
    <3>1. /\ UNCHANGED <<logVars, rows, collection>>
          /\ UNCHANGED <<collecting, current, target, pending, since, errors>>
      BY <2>5 DEF vars, collectorVars
    <3>2. PendingMark'
      BY <3>1 DEF logVars, CollectorInv, PendingMark, IsMark, RowsOf, TimeAt, AtWork
    <3> QED
      BY <3>1, <3>2, OnlyPlaceChanges DEF CollectorInv, CollectorTypeOK
  <2> QED
    BY <2>1, <2>2, <2>3, <2>4, <2>5 DEF Next
<1> QED
  BY <1>1, <1>2, PTL DEF Spec

\* Every reachable state of the collector is well-typed.
THEOREM CollectorTypeCorrect == Spec => []CollectorTypeOK
BY CollectorInvariant, PTL DEF CollectorInv

\* A rerun of the collector, after whatever error or kill, appends no event twice
\* (metrics_collector.py).
THEOREM NoEventCollectedTwice == Spec => []CollectedOnce
BY CollectorInvariant, PTL DEF CollectorInv

\* The strict comparison with the watermark loses ties, and nothing else
\* (metrics_collector.py).
THEOREM NothingButTiesSkipped == Spec => []OnlyTiesAreSkipped
BY CollectorInvariant, PTL DEF CollectorInv
=============================================================================
