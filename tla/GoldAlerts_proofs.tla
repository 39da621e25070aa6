------------------------- MODULE GoldAlerts_proofs -------------------------
(***************************************************************************)
(* Proofs about the gold layer, for any transactions, watchlist, profiles, *)
(* delays and windows: the type invariant, that a match or a transaction   *)
(* raises one alert, that a match is found whichever row came first, and   *)
(* that a window is published once and with its count.                     *)
(*                                                                         *)
(* The queries share only the silver tables, which are appended to, so the *)
(* invariant is a conjunction of one part per query; each part is about    *)
(* rows its own checkpoint has passed, which no arrival changes.           *)
(***************************************************************************)
EXTENDS GoldAlerts, SequenceTheorems, FiniteSetTheorems, NaturalExtremes, TLAPS

\* The number of profiles dates the next batch of them (LoadProfiles).
SourcesInv == SourcesTypeOK /\ IsFiniteSet(customers)

\* A transaction that is read is held, or was discarded behind joinMark, which
\* was then behind the marks of both sides; all held pairs have met.
JoinInv ==
  /\ JoinTypeOK
  /\ joinMark = QueryMark(txMark, entryMark)
  /\ \A i \in 1 .. txRead :
       i \in txHeld \/ (transactions[i].at <= txMark /\ transactions[i].at <= entryMark)
  /\ \A j \in 1 .. entryRead :
       \/ j \in entryHeld
       \/ /\ watchlist[j].from # NULL
          /\ watchlist[j].from <= txMark /\ watchlist[j].from <= entryMark
  /\ \A i \in txHeld, j \in entryHeld :
       transactions[i].card = watchlist[j].entity => Alerted(i, j)
  /\ \A a \in fraudAlerts : a.tx \in txHeld /\ a.entry \in entryHeld
  /\ OneAlertPerMatch

\* An alert is of a transaction the query has read (HighValueBatch).
LimitInv ==
  /\ LimitTypeOK
  /\ \A a \in highValueAlerts : a.tx \in 1 .. limitRead
  /\ OneHighValueAlert

\* A published window was published by a batch the query has run (CountBatch).
CountsInv ==
  /\ CountsTypeOK
  /\ \A p \in counts : p.read \in 0 .. countRead
  /\ WindowPublishedOnce
  /\ WindowCountsExact

GoldInv == SourcesInv /\ JoinInv /\ LimitInv /\ CountsInv

-----------------------------------------------------------------------------
\* What a step leaves of the streams: rows are added at the end, none changes.
Appended ==
  /\ Len(transactions) \in Nat /\ Len(transactions') \in Nat
  /\ Len(transactions) <= Len(transactions')
  /\ \A i \in 1 .. Len(transactions) : transactions'[i] = transactions[i]
  /\ Len(watchlist) \in Nat /\ Len(watchlist') \in Nat
  /\ Len(watchlist) <= Len(watchlist')
  /\ \A j \in 1 .. Len(watchlist) : watchlist'[j] = watchlist[j]

\* The fields of the rows a checkpoint may point at (silver.transactions and
\* silver.fraud_watchlist).
LEMMA RowFields ==
  ASSUME SourcesTypeOK
  PROVE  /\ Len(transactions) \in Nat /\ Len(watchlist) \in Nat
         /\ \A i \in 1 .. Len(transactions) :
              /\ transactions[i].at \in Tick
              /\ transactions[i].customer \in Customer
              /\ transactions[i].amount \in Nat \cup {NULL}
         /\ \A j \in 1 .. Len(watchlist) : watchlist[j].from \in Tick \cup {NULL}
<1>1. /\ Len(transactions) \in Nat /\ Len(watchlist) \in Nat
      /\ \A i \in 1 .. Len(transactions) : transactions[i] \in Transaction
      /\ \A j \in 1 .. Len(watchlist) : watchlist[j] \in Entry
  BY LenProperties, ElementOfSeq DEF SourcesTypeOK
<1> QED BY <1>1, GoldSourcesAssumption

\* A query that runs leaves the tables it reads alone.
LEMMA SourcesUnmoved ==
  ASSUME SourcesInv, UNCHANGED sourceVars
  PROVE  SourcesInv' /\ Appended
<1>1. Len(transactions) \in Nat /\ Len(watchlist) \in Nat
  BY RowFields DEF SourcesInv
<1>2. Appended
  BY <1>1 DEF sourceVars, Appended
<1>3. SourcesInv'
  BY DEF sourceVars, SourcesInv, SourcesTypeOK
<1> QED BY <1>2, <1>3

\* Every arrival appends (TransactionArrives, EntryArrives, LoadProfiles).
LEMMA ArrivalAppends ==
  ASSUME SourcesInv, SourcesNext
  PROVE  SourcesInv' /\ Appended
<1>1. /\ transactions \in Seq(Transaction) /\ watchlist \in Seq(Entry)
      /\ customers \subseteq Profile /\ IsFiniteSet(customers)
      /\ Len(transactions) \in Nat /\ Len(watchlist) \in Nat
  BY RowFields DEF SourcesInv, SourcesTypeOK
<1>2. ASSUME NEW t \in Transaction, TransactionArrives(t)
      PROVE  SourcesInv' /\ Appended
  <2>1. transactions' = Append(transactions, t) /\ watchlist' = watchlist /\ customers' = customers
    BY <1>2 DEF TransactionArrives
  <2>2. /\ transactions' \in Seq(Transaction)
        /\ Len(transactions') = Len(transactions) + 1
        /\ \A i \in 1 .. Len(transactions) : transactions'[i] = transactions[i]
    BY <1>1, <2>1, AppendProperties
  <2> QED BY <1>1, <2>1, <2>2 DEF SourcesInv, SourcesTypeOK, Appended
<1>3. ASSUME NEW e \in Entry, EntryArrives(e)
      PROVE  SourcesInv' /\ Appended
  <2>1. watchlist' = Append(watchlist, e) /\ transactions' = transactions /\ customers' = customers
    BY <1>3 DEF EntryArrives
  <2>2. /\ watchlist' \in Seq(Entry)
        /\ Len(watchlist') = Len(watchlist) + 1
        /\ \A j \in 1 .. Len(watchlist) : watchlist'[j] = watchlist[j]
    BY <1>1, <2>1, AppendProperties
  <2> QED BY <1>1, <2>1, <2>2 DEF SourcesInv, SourcesTypeOK, Appended
<1>4. ASSUME NEW rows \in SUBSET NextProfiles, LoadProfiles(rows)
      PROVE  SourcesInv' /\ Appended
  <2>1. /\ customers' = customers \cup rows /\ IsFiniteSet(rows)
        /\ transactions' = transactions /\ watchlist' = watchlist
    BY <1>4 DEF LoadProfiles
  <2>2. Cardinality(customers) \in Nat
    BY <1>1, FS_CardinalityType
  <2>3. rows \subseteq Profile
    BY <2>2 DEF NextProfiles, Profile, Tick
  <2>4. IsFiniteSet(customers')
    BY <1>1, <2>1, FS_Union
  <2> QED BY <1>1, <2>1, <2>3, <2>4 DEF SourcesInv, SourcesTypeOK, Appended
<1> QED BY <1>2, <1>3, <1>4 DEF SourcesNext

-----------------------------------------------------------------------------
\* The join with latest_customer adds one row to a transaction, whatever number
\* of profiles its customer has, none included (Enriched, LatestTables).
LEMMA EnrichedIsOne ==
  ASSUME SourcesTypeOK, NEW latest \in LatestTables, NEW i \in 1 .. Len(transactions)
  PROVE  \E p \in Profile \cup {NULL} : Enriched(i, latest) = {p}
<1> DEFINE c == transactions[i].customer
           found == {r \in latest : r.customer = c}
<1>1. c \in Customer
  BY RowFields
<1>2. latest \subseteq Profile
  BY DEF LatestTables, SourcesTypeOK
<1>3. \/ Newest(c) = {} /\ ~\E r \in latest : r.customer = c
      \/ \E r \in Newest(c) : found = {r}
  BY <1>1 DEF LatestTables
<1>4. CASE Newest(c) = {} /\ ~\E r \in latest : r.customer = c
  <2>1. found = {}
    BY <1>4
  <2>2. Enriched(i, latest) = {NULL}
    BY <2>1 DEF Enriched
  <2> QED BY <2>2
<1>5. CASE \E r \in Newest(c) : found = {r}
  <2>1. PICK r \in Newest(c) : found = {r}
    BY <1>5
  <2>2. r \in Profile
    BY <1>2, <2>1
  <2>3. Enriched(i, latest) = {r}
    BY <2>1 DEF Enriched
  <2> QED BY <2>2, <2>3
<1> QED BY <1>3, <1>4, <1>5

\* The rows of the streams are finitely many, so their event times have a bound.
LEMMA TimesBounded ==
  ASSUME SourcesTypeOK
  PROVE  \E b \in Nat :
           /\ \A i \in 1 .. Len(transactions) : transactions[i].at \in 0 .. b
           /\ \A j \in 1 .. Len(watchlist) : watchlist[j].from \in (0 .. b) \cup {NULL}
<1> DEFINE f == [i \in 1 .. Len(transactions) |-> transactions[i].at]
           g == [j \in 1 .. Len(watchlist) |-> IF watchlist[j].from = NULL THEN 0 ELSE watchlist[j].from]
<1>1. Len(transactions) \in Nat /\ Len(watchlist) \in Nat
  BY RowFields
<1>2. \A i \in 1 .. Len(transactions) : f[i] = transactions[i].at /\ f[i] \in Nat
  BY RowFields DEF Tick
<1>3. \A j \in 1 .. Len(watchlist) :
        /\ g[j] = IF watchlist[j].from = NULL THEN 0 ELSE watchlist[j].from
        /\ g[j] \in Nat
  BY RowFields DEF Tick
<1> HIDE DEF f, g
<1>4. PICK b \in Nat : \A i \in 1 .. Len(transactions) : f[i] <= b
  BY <1>1, <1>2, PrefixBounded
<1>5. PICK c \in Nat : \A j \in 1 .. Len(watchlist) : g[j] <= c
  BY <1>1, <1>3, PrefixBounded
<1>6. b + c \in Nat
  OBVIOUS
<1>7. ASSUME NEW i \in 1 .. Len(transactions) PROVE transactions[i].at \in 0 .. b + c
  BY <1>2, <1>4
<1>8. ASSUME NEW j \in 1 .. Len(watchlist) PROVE watchlist[j].from \in (0 .. b + c) \cup {NULL}
  BY <1>3, <1>5
<1> QED BY <1>6, <1>7, <1>8

\* A watermark never moves back, and an event time that is missing or early does
\* not move it (Marks, Greatest).
LEMMA MarkAdvances ==
  ASSUME NEW mark \in Nat, NEW times, NEW b \in Nat,
         \A t \in times : t \in (0 .. b) \cup {NULL}
  PROVE  Greatest(Marks(mark, times)) \in Nat /\ mark <= Greatest(Marks(mark, times))
<1> DEFINE S == Marks(mark, times)
<1>3. \A y \in S : y = mark \/ \E n \in 0 .. b : y = n - JoinDelay
  <2> SUFFICES ASSUME NEW t \in times
               PROVE  \E n \in 0 .. b : (IF t = NULL THEN 0 ELSE t) - JoinDelay = n - JoinDelay
    BY DEF Marks
  <2>1. (IF t = NULL THEN 0 ELSE t) \in 0 .. b
    OBVIOUS
  <2> QED BY <2>1
<1>4. mark \in S
  BY DEF Marks
<1> HIDE DEF S
<1>5. \A y \in S : y \in Int /\ (y <= mark \/ y <= b)
  <2> SUFFICES ASSUME NEW y \in S PROVE y \in Int /\ (y <= mark \/ y <= b)
    OBVIOUS
  <2>1. CASE y = mark
    BY <2>1
  <2>2. CASE \E n \in 0 .. b : y = n - JoinDelay
    BY <2>2, JoinAssumption
  <2> QED BY <1>3, <2>1, <2>2
<1>6. PICK c \in Nat : mark <= c /\ b <= c
  <2>1. mark <= mark + b /\ b <= mark + b /\ mark + b \in Nat
    OBVIOUS
  <2> QED BY <2>1
<1> DEFINE T == {y \in S : 0 <= y}
<1>7. T \in SUBSET (0 .. c) /\ mark \in T
  <2>1. ASSUME NEW y \in T PROVE y \in 0 .. c
    <3>1. y \in Int /\ (y <= mark \/ y <= b) /\ 0 <= y
      BY <1>5
    <3> QED BY <1>6, <3>1
  <2>2. mark \in T
    BY <1>4
  <2> QED BY <2>1, <2>2
<1>8. PICK x \in T : \A y \in T : y <= x
  <2> HIDE DEF T
  <2> QED BY <1>7, GreatestNatural
<1>9. x \in S /\ \A y \in S : y <= x
  <2>1. x \in S /\ x \in Nat
    BY <1>5, <1>7, <1>8
  <2>2. ASSUME NEW y \in S PROVE y <= x
    <3>1. y \in Int
      BY <1>5
    <3>2. CASE 0 <= y
      BY <1>8, <3>2
    <3>3. CASE ~(0 <= y)
      BY <2>1, <3>1, <3>3
    <3> QED BY <3>2, <3>3
  <2> QED BY <2>1, <2>2
<1>10. Greatest(S) \in S /\ \A y \in S : y <= Greatest(S)
  BY <1>9 DEF Greatest
<1>11. Greatest(S) \in Nat /\ mark <= Greatest(S)
  <2>1. Greatest(S) \in Int
    BY <1>5, <1>10
  <2>2. mark <= Greatest(S)
    BY <1>4, <1>10
  <2> QED BY <2>1, <2>2
<1> QED BY <1>11 DEF S

\* The checkpoints, marks and states of the join are of the kind they should be,
\* and joinMark is behind both sides (QueryMark).
LEMMA JoinFacts ==
  ASSUME JoinInv, SourcesInv
  PROVE  /\ Len(transactions) \in Nat /\ Len(watchlist) \in Nat
         /\ txRead \in 0 .. Len(transactions) /\ entryRead \in 0 .. Len(watchlist)
         /\ txMark \in Nat /\ entryMark \in Nat /\ joinMark \in Nat
         /\ joinMark <= txMark /\ joinMark <= entryMark
         /\ txHeld \subseteq 1 .. txRead /\ entryHeld \subseteq 1 .. entryRead
BY RowFields DEF JoinInv, JoinTypeOK, SourcesInv, QueryMark

\* Rows that arrive, and the other queries, leave the join as it is: it holds
\* and has alerted on rows that are still where they were.
LEMMA JoinUnmoved ==
  ASSUME SourcesInv, JoinInv, Appended, UNCHANGED joinVars
  PROVE  JoinInv'
<1>1. /\ txRead' = txRead /\ entryRead' = entryRead /\ txMark' = txMark /\ entryMark' = entryMark
      /\ joinMark' = joinMark /\ txHeld' = txHeld /\ entryHeld' = entryHeld
      /\ fraudAlerts' = fraudAlerts
  BY DEF joinVars
<1>2. /\ txRead \in 0 .. Len(transactions) /\ entryRead \in 0 .. Len(watchlist)
      /\ txHeld \subseteq 1 .. txRead /\ entryHeld \subseteq 1 .. entryRead
      /\ Len(transactions) \in Nat /\ Len(watchlist) \in Nat
  BY JoinFacts
<1>3. /\ \A i \in 1 .. txRead : transactions'[i] = transactions[i]
      /\ \A j \in 1 .. entryRead : watchlist'[j] = watchlist[j]
  BY <1>2 DEF Appended
<1>4. JoinTypeOK'
  <2>1. txRead' \in 0 .. Len(transactions') /\ entryRead' \in 0 .. Len(watchlist')
    BY <1>1, <1>2 DEF Appended
  <2> QED BY <1>1, <2>1 DEF JoinInv, JoinTypeOK
<1>5. (\A i \in 1 .. txRead :
         i \in txHeld \/ (transactions[i].at <= txMark /\ transactions[i].at <= entryMark))'
  BY <1>1, <1>3 DEF JoinInv
<1>6. (\A j \in 1 .. entryRead :
         \/ j \in entryHeld
         \/ /\ watchlist[j].from # NULL
            /\ watchlist[j].from <= txMark /\ watchlist[j].from <= entryMark)'
  BY <1>1, <1>3 DEF JoinInv
<1>7. (\A i \in txHeld, j \in entryHeld :
         transactions[i].card = watchlist[j].entity => Alerted(i, j))'
  <2> SUFFICES ASSUME NEW i \in txHeld, NEW j \in entryHeld,
                      transactions'[i].card = watchlist'[j].entity
               PROVE  Alerted(i, j)'
    BY <1>1
  <2>1. transactions'[i] = transactions[i] /\ watchlist'[j] = watchlist[j]
    BY <1>2, <1>3
  <2>2. Alerted(i, j)
    BY <2>1 DEF JoinInv
  <2> QED BY <1>1, <2>2 DEF Alerted
<1>8. OneAlertPerMatch' /\ (\A a \in fraudAlerts : a.tx \in txHeld /\ a.entry \in entryHeld)'
  BY <1>1 DEF JoinInv, OneAlertPerMatch
<1>9. joinMark' = QueryMark(txMark, entryMark)'
  BY <1>1 DEF JoinInv, QueryMark
<1> QED BY <1>4, <1>5, <1>6, <1>7, <1>8, <1>9 DEF JoinInv

\* What Matches returns: pairs of a held or new row of each side, one of them new,
\* that agree on the card, and all of those.
LEMMA MatchesAre ==
  ASSUME NEW newTx, NEW newEntries
  PROVE  /\ \A m \in Matches(newTx, newEntries) :
              /\ m = <<m[1], m[2]>>
              /\ m[1] \in newTx \cup txHeld /\ m[2] \in newEntries \cup entryHeld
              /\ m[1] \in newTx \/ m[2] \in newEntries
              /\ transactions[m[1]].card = watchlist[m[2]].entity
         /\ \A i \in newTx \cup txHeld, j \in newEntries \cup entryHeld :
              /\ i \in newTx \/ j \in newEntries
              /\ transactions[i].card = watchlist[j].entity
              => <<i, j>> \in Matches(newTx, newEntries)
<1>1. ASSUME NEW m \in Matches(newTx, newEntries)
      PROVE  /\ m = <<m[1], m[2]>>
             /\ m[1] \in newTx \cup txHeld /\ m[2] \in newEntries \cup entryHeld
             /\ m[1] \in newTx \/ m[2] \in newEntries
             /\ transactions[m[1]].card = watchlist[m[2]].entity
  BY DEF Matches
<1>2. ASSUME NEW i \in newTx \cup txHeld, NEW j \in newEntries \cup entryHeld,
             i \in newTx \/ j \in newEntries,
             transactions[i].card = watchlist[j].entity
      PROVE  <<i, j>> \in Matches(newTx, newEntries)
  <2>1. <<i, j>> \in (newTx \X (entryHeld \cup newEntries)) \cup (txHeld \X newEntries)
    BY <1>2
  <2> QED BY <1>2, <2>1 DEF Matches
<1> QED BY <1>1, <1>2

\* A micro-batch of the join: a row it reads is held or behind joinMark, a new
\* pair is alerted on once, and an old pair is not met again (FraudBatch).
LEMMA FraudBatchPreserves ==
  ASSUME SourcesInv, JoinInv, UNCHANGED sourceVars,
         NEW upto \in txRead .. Len(transactions), NEW uptoEntry \in entryRead .. Len(watchlist),
         FraudBatch(upto, uptoEntry)
  PROVE  JoinInv'
<1> DEFINE newTx == OnTimeTx(upto)
           newEntries == OnTimeEntries(uptoEntry)
           M == Matches(newTx, newEntries)
<1>0. /\ Len(transactions) \in Nat /\ Len(watchlist) \in Nat
      /\ txRead \in Nat /\ entryRead \in Nat /\ upto \in Nat /\ uptoEntry \in Nat
      /\ txRead <= upto /\ entryRead <= uptoEntry
      /\ upto <= Len(transactions) /\ uptoEntry <= Len(watchlist)
      /\ txMark \in Nat /\ entryMark \in Nat /\ joinMark \in Nat
      /\ joinMark <= txMark /\ joinMark <= entryMark
      /\ txHeld \subseteq 1 .. txRead /\ entryHeld \subseteq 1 .. entryRead
  BY JoinFacts
<1>1. /\ txRead' = upto /\ entryRead' = uptoEntry
      /\ txHeld' = txHeld \cup newTx /\ entryHeld' = entryHeld \cup newEntries
      /\ joinMark' = QueryMark(txMark', entryMark')
      /\ transactions' = transactions /\ watchlist' = watchlist /\ customers' = customers
  BY DEF FraudBatch, sourceVars
<1>2. PICK latest \in LatestTables :
        fraudAlerts' = fraudAlerts \cup
          UNION { {[tx |-> m[1], entry |-> m[2], profile |-> r] : r \in Enriched(m[1], latest)} : m \in M }
  BY DEF FraudBatch
<1>3. /\ txMark' \in Nat /\ txMark <= txMark'
      /\ entryMark' \in Nat /\ entryMark <= entryMark'
  <2>1. PICK b \in Nat :
          /\ \A i \in 1 .. Len(transactions) : transactions[i].at \in 0 .. b
          /\ \A j \in 1 .. Len(watchlist) : watchlist[j].from \in (0 .. b) \cup {NULL}
    BY TimesBounded DEF SourcesInv
  <2>2. \A t \in {transactions[i].at : i \in txRead + 1 .. upto} : t \in (0 .. b) \cup {NULL}
    BY <1>0, <2>1
  <2>3. \A t \in {watchlist[j].from : j \in entryRead + 1 .. uptoEntry} : t \in (0 .. b) \cup {NULL}
    BY <1>0, <2>1
  <2>4. txMark' \in Nat /\ txMark <= txMark'
    BY <1>0, <2>2, MarkAdvances DEF FraudBatch
  <2>5. entryMark' \in Nat /\ entryMark <= entryMark'
    BY <1>0, <2>3, MarkAdvances DEF FraudBatch
  <2> QED BY <2>4, <2>5
<1>5. newTx \subseteq txRead + 1 .. upto /\ newEntries \subseteq entryRead + 1 .. uptoEntry
  BY DEF OnTimeTx, OnTimeEntries
<1>6. \A m \in M :
        /\ m = <<m[1], m[2]>>
        /\ m[1] \in newTx \cup txHeld /\ m[2] \in newEntries \cup entryHeld
        /\ m[1] \in newTx \/ m[2] \in newEntries
  BY MatchesAre
<1>7. \A m \in M : m[1] \in 1 .. upto /\ m[2] \in 1 .. uptoEntry
  BY <1>0, <1>5, <1>6
\* the one row a match is enriched with
<1>8. \A m \in M : \E p \in Profile \cup {NULL} : Enriched(m[1], latest) = {p}
  <2> SUFFICES ASSUME NEW m \in M
               PROVE  \E p \in Profile \cup {NULL} : Enriched(m[1], latest) = {p}
    OBVIOUS
  <2>1. m[1] \in 1 .. Len(transactions)
    BY <1>0, <1>7
  <2> QED BY <2>1, EnrichedIsOne DEF SourcesInv
<1>9. ASSUME NEW a \in fraudAlerts', a \notin fraudAlerts
      PROVE  \E m \in M, p \in Profile \cup {NULL} :
               /\ Enriched(m[1], latest) = {p}
               /\ a = [tx |-> m[1], entry |-> m[2], profile |-> p]
  <2>1. PICK m \in M : a \in {[tx |-> m[1], entry |-> m[2], profile |-> r] : r \in Enriched(m[1], latest)}
    BY <1>2, <1>9
  <2> QED BY <1>8, <2>1
<1>10. ASSUME NEW m \in M
       PROVE  \E a \in fraudAlerts' : a.tx = m[1] /\ a.entry = m[2]
  <2>1. PICK p \in Profile \cup {NULL} : Enriched(m[1], latest) = {p}
    BY <1>8
  <2>2. [tx |-> m[1], entry |-> m[2], profile |-> p] \in
          {[tx |-> m[1], entry |-> m[2], profile |-> r] : r \in Enriched(m[1], latest)}
    BY <2>1
  <2>3. [tx |-> m[1], entry |-> m[2], profile |-> p] \in fraudAlerts'
    <3> HIDE DEF M
    <3> QED BY <1>2, <2>2
  <2> QED BY <2>3
<1> HIDE DEF newTx, newEntries, M
<1>11. JoinTypeOK'
  <2>1. fraudAlerts' \subseteq [tx : Tick, entry : Tick, profile : Profile \cup {NULL}]
    <3> SUFFICES ASSUME NEW a \in fraudAlerts'
                 PROVE  a \in [tx : Tick, entry : Tick, profile : Profile \cup {NULL}]
      OBVIOUS
    <3>1. CASE a \in fraudAlerts
      BY <3>1 DEF JoinInv, JoinTypeOK
    <3>2. CASE a \notin fraudAlerts
      <4>1. PICK m \in M : \E p \in Profile \cup {NULL} :
                             a = [tx |-> m[1], entry |-> m[2], profile |-> p]
        BY <1>9, <3>2
      <4>2. m[1] \in Tick /\ m[2] \in Tick
        BY <1>0, <1>7 DEF Tick
      <4> QED BY <4>1, <4>2
    <3> QED BY <3>1, <3>2
  <2>2. txHeld' \subseteq 1 .. txRead' /\ entryHeld' \subseteq 1 .. entryRead'
    BY <1>0, <1>1, <1>5
  <2>3. joinMark' \in Nat
    BY <1>1, <1>3 DEF QueryMark
  <2>4. txRead' \in 0 .. Len(transactions') /\ entryRead' \in 0 .. Len(watchlist')
    BY <1>0, <1>1
  <2> QED BY <1>3, <2>1, <2>2, <2>3, <2>4 DEF JoinTypeOK
<1>12. ASSUME NEW i \in 1 .. upto
       PROVE  i \in txHeld' \/ (transactions[i].at <= txMark' /\ transactions[i].at <= entryMark')
  <2>1. transactions[i].at \in Nat
    BY <1>0, RowFields DEF SourcesInv, Tick
  <2>2. CASE i \in 1 .. txRead
    <3>1. i \in txHeld \/ (transactions[i].at <= txMark /\ transactions[i].at <= entryMark)
      BY <2>2 DEF JoinInv
    <3> QED BY <1>0, <1>1, <1>3, <2>1, <3>1
  <2>3. CASE i \notin 1 .. txRead
    <3>1. i \in txRead + 1 .. upto
      BY <1>0, <2>3
    <3>2. i \in newTx \/ ~(joinMark < transactions[i].at)
      BY <3>1 DEF newTx, OnTimeTx
    <3> QED BY <1>0, <1>1, <1>3, <2>1, <3>2
  <2> QED BY <2>2, <2>3
<1>13. ASSUME NEW j \in 1 .. uptoEntry
       PROVE  \/ j \in entryHeld'
              \/ /\ watchlist[j].from # NULL
                 /\ watchlist[j].from <= txMark' /\ watchlist[j].from <= entryMark'
  <2>1. watchlist[j].from \in Nat \/ watchlist[j].from = NULL
    BY <1>0, RowFields DEF SourcesInv, Tick
  <2>2. CASE j \in 1 .. entryRead
    <3>1. \/ j \in entryHeld
          \/ /\ watchlist[j].from # NULL
             /\ watchlist[j].from <= txMark /\ watchlist[j].from <= entryMark
      BY <2>2 DEF JoinInv
    <3> QED BY <1>0, <1>1, <1>3, <2>1, <3>1
  <2>3. CASE j \notin 1 .. entryRead
    <3>1. j \in entryRead + 1 .. uptoEntry
      BY <1>0, <2>3
    <3>2. j \in newEntries \/ (watchlist[j].from # NULL /\ ~(joinMark < watchlist[j].from))
      BY <3>1 DEF newEntries, OnTimeEntries
    <3> QED BY <1>0, <1>1, <1>3, <2>1, <3>2
  <2> QED BY <2>2, <2>3
<1>14. ASSUME NEW i \in txHeld', NEW j \in entryHeld',
              transactions[i].card = watchlist[j].entity
       PROVE  \E a \in fraudAlerts' : a.tx = i /\ a.entry = j
  <2>1. CASE i \in newTx \/ j \in newEntries
    <3>1. <<i, j>> \in M
      BY <1>1, <1>14, <2>1, MatchesAre DEF M
    <3> QED BY <1>10, <3>1
  <2>2. CASE ~(i \in newTx \/ j \in newEntries)
    <3>1. i \in txHeld /\ j \in entryHeld
      BY <1>1, <2>2
    <3>2. Alerted(i, j)
      BY <1>14, <3>1 DEF JoinInv
    <3> QED BY <1>2, <3>2 DEF Alerted
  <2> QED BY <2>1, <2>2
<1>15. ASSUME NEW a \in fraudAlerts'
       PROVE  a.tx \in txHeld' /\ a.entry \in entryHeld'
  <2>1. CASE a \in fraudAlerts
    BY <1>1, <2>1 DEF JoinInv
  <2>2. CASE a \notin fraudAlerts
    <3>1. PICK m \in M : a.tx = m[1] /\ a.entry = m[2]
      BY <1>9, <2>2
    <3> QED BY <1>1, <1>6, <3>1
  <2> QED BY <2>1, <2>2
\* an alert of this batch is of a pair that had not met
<1>16. ASSUME NEW a \in fraudAlerts', a \notin fraudAlerts, NEW b \in fraudAlerts
       PROVE  ~(a.tx = b.tx /\ a.entry = b.entry)
  <2>1. PICK m \in M : a.tx = m[1] /\ a.entry = m[2]
    BY <1>9, <1>16
  <2>2. b.tx \in 1 .. txRead /\ b.entry \in 1 .. entryRead
    BY <1>0 DEF JoinInv
  <2>3. CASE m[1] \in newTx
    BY <1>0, <1>5, <2>1, <2>2, <2>3
  <2>4. CASE m[2] \in newEntries
    BY <1>0, <1>5, <2>1, <2>2, <2>4
  <2> QED BY <1>6, <2>3, <2>4
<1>17. ASSUME NEW a \in fraudAlerts', NEW b \in fraudAlerts', a.tx = b.tx, a.entry = b.entry
       PROVE  a = b
  <2>1. CASE a \in fraudAlerts /\ b \in fraudAlerts
    BY <1>17, <2>1 DEF JoinInv, OneAlertPerMatch
  <2>2. CASE a \notin fraudAlerts /\ b \notin fraudAlerts
    <3>1. PICK m \in M : \E p \in Profile \cup {NULL} :
            Enriched(m[1], latest) = {p} /\ a = [tx |-> m[1], entry |-> m[2], profile |-> p]
      BY <1>9, <2>2
    <3>2. PICK n \in M : \E p \in Profile \cup {NULL} :
            Enriched(n[1], latest) = {p} /\ b = [tx |-> n[1], entry |-> n[2], profile |-> p]
      BY <1>9, <2>2
    <3>3. m[1] = n[1] /\ m[2] = n[2]
      BY <1>17, <3>1, <3>2
    <3> QED BY <3>1, <3>2, <3>3
  <2>3. CASE a \notin fraudAlerts /\ b \in fraudAlerts
    BY <1>16, <1>17, <2>3
  <2>4. CASE a \in fraudAlerts /\ b \notin fraudAlerts
    BY <1>16, <1>17, <2>4
  <2> QED BY <2>1, <2>2, <2>3, <2>4
<1>18. OneAlertPerMatch'
  BY <1>17 DEF OneAlertPerMatch
<1>19. (\A i \in txHeld, j \in entryHeld :
          transactions[i].card = watchlist[j].entity => Alerted(i, j))'
  BY <1>1, <1>14 DEF Alerted
<1>20. (\A i \in 1 .. txRead :
          i \in txHeld \/ (transactions[i].at <= txMark /\ transactions[i].at <= entryMark))'
  BY <1>1, <1>12
<1>21. (\A j \in 1 .. entryRead :
          \/ j \in entryHeld
          \/ /\ watchlist[j].from # NULL
             /\ watchlist[j].from <= txMark /\ watchlist[j].from <= entryMark)'
  BY <1>1, <1>13
<1>22. joinMark' = QueryMark(txMark, entryMark)'
  BY <1>1 DEF QueryMark
<1> QED BY <1>11, <1>15, <1>18, <1>19, <1>20, <1>21, <1>22 DEF JoinInv

-----------------------------------------------------------------------------
\* Rows that arrive, and the other queries, leave the limit alerts as they are.
LEMMA LimitUnmoved ==
  ASSUME LimitInv, Appended, UNCHANGED limitVars
  PROVE  LimitInv'
<1>1. limitRead' = limitRead /\ highValueAlerts' = highValueAlerts
  BY DEF limitVars
<1>2. limitRead' \in 0 .. Len(transactions')
  BY <1>1 DEF LimitInv, LimitTypeOK, Appended
<1> QED BY <1>1, <1>2 DEF LimitInv, LimitTypeOK, OneHighValueAlert

\* A micro-batch compares rows no earlier one has read, each with the one row its
\* customer has, so none of them alerts twice (HighValueBatch).
LEMMA HighValueBatchPreserves ==
  ASSUME SourcesInv, LimitInv, UNCHANGED sourceVars,
         NEW upto \in limitRead + 1 .. Len(transactions), HighValueBatch(upto)
  PROVE  LimitInv'
<1>0. /\ Len(transactions) \in Nat /\ limitRead \in Nat /\ upto \in Nat
      /\ limitRead < upto /\ upto <= Len(transactions)
  BY RowFields DEF SourcesInv, LimitInv, LimitTypeOK
<1>1. limitRead' = upto /\ transactions' = transactions
  BY DEF HighValueBatch, sourceVars
<1>2. PICK latest \in LatestTables :
        highValueAlerts' = highValueAlerts \cup
          UNION { {[tx |-> i, profile |-> r] : r \in {p \in Enriched(i, latest) : Exceeds(i, p)}} :
                    i \in limitRead + 1 .. upto }
  BY DEF HighValueBatch, NewTransactions
<1>3. ASSUME NEW i \in limitRead + 1 .. upto
      PROVE  \E p \in Profile \cup {NULL} : Enriched(i, latest) = {p}
  <2>1. i \in 1 .. Len(transactions)
    BY <1>0
  <2> QED BY <2>1, EnrichedIsOne DEF SourcesInv
<1>4. ASSUME NEW a \in highValueAlerts', a \notin highValueAlerts
      PROVE  \E i \in limitRead + 1 .. upto, r \in Profile :
               Enriched(i, latest) = {r} /\ a = [tx |-> i, profile |-> r]
  <2>1. PICK i \in limitRead + 1 .. upto :
          a \in {[tx |-> i, profile |-> r] : r \in {p \in Enriched(i, latest) : Exceeds(i, p)}}
    BY <1>2, <1>4
  <2>2. PICK r \in Enriched(i, latest) : Exceeds(i, r) /\ a = [tx |-> i, profile |-> r]
    BY <2>1
  <2>3. PICK p \in Profile \cup {NULL} : Enriched(i, latest) = {p}
    BY <1>3
  <2>4. r \in Profile
    BY <2>2, <2>3 DEF Exceeds
  <2> QED BY <2>2, <2>3, <2>4
<1>5. LimitTypeOK'
  <2>1. highValueAlerts' \subseteq [tx : Tick, profile : Profile]
    <3> SUFFICES ASSUME NEW a \in highValueAlerts'
                 PROVE  a \in [tx : Tick, profile : Profile]
      OBVIOUS
    <3>1. CASE a \in highValueAlerts
      BY <3>1 DEF LimitInv, LimitTypeOK
    <3>2. CASE a \notin highValueAlerts
      <4>1. PICK i \in limitRead + 1 .. upto : \E r \in Profile : a = [tx |-> i, profile |-> r]
        BY <1>4, <3>2
      <4>2. i \in Tick
        BY <1>0 DEF Tick
      <4> QED BY <4>1, <4>2
    <3> QED BY <3>1, <3>2
  <2>2. limitRead' \in 0 .. Len(transactions')
    BY <1>0, <1>1
  <2> QED BY <2>1, <2>2 DEF LimitTypeOK
<1>6. ASSUME NEW a \in highValueAlerts'
      PROVE  /\ a.tx \in 1 .. upto
             /\ a \in highValueAlerts => a.tx \in 1 .. limitRead
             /\ a \notin highValueAlerts => a.tx \in limitRead + 1 .. upto
  <2>1. CASE a \in highValueAlerts
    BY <1>0, <2>1 DEF LimitInv
  <2>2. CASE a \notin highValueAlerts
    <3>1. PICK i \in limitRead + 1 .. upto : a.tx = i
      BY <1>4, <2>2
    <3> QED BY <1>0, <2>2, <3>1
  <2> QED BY <2>1, <2>2
<1>7. ASSUME NEW a \in highValueAlerts', NEW b \in highValueAlerts', a.tx = b.tx
      PROVE  a = b
  <2>1. CASE a \in highValueAlerts /\ b \in highValueAlerts
    BY <1>7, <2>1 DEF LimitInv, OneHighValueAlert
  <2>2. CASE a \notin highValueAlerts /\ b \notin highValueAlerts
    <3>1. PICK i \in limitRead + 1 .. upto : \E r \in Profile :
            Enriched(i, latest) = {r} /\ a = [tx |-> i, profile |-> r]
      BY <1>4, <2>2
    <3>2. PICK j \in limitRead + 1 .. upto : \E r \in Profile :
            Enriched(j, latest) = {r} /\ b = [tx |-> j, profile |-> r]
      BY <1>4, <2>2
    <3>3. i = j
      BY <1>7, <3>1, <3>2
    <3> QED BY <3>1, <3>2, <3>3
  <2>3. CASE ~(a \in highValueAlerts <=> b \in highValueAlerts)
    BY <1>0, <1>6, <1>7, <2>3
  <2> QED BY <2>1, <2>2, <2>3
<1>8. OneHighValueAlert'
  BY <1>7 DEF OneHighValueAlert
<1> QED BY <1>1, <1>5, <1>6, <1>8 DEF LimitInv

-----------------------------------------------------------------------------
\* The rows of a window read up to n are those read up to m and those between:
\* counting a window batch by batch counts it once (InWindow).
LEMMA InWindowGrows ==
  ASSUME NEW s, NEW m \in Nat, NEW n \in Nat, m <= n
  PROVE  /\ InWindow(s, m) \in Nat
         /\ Cardinality({i \in m + 1 .. n : s \in WindowsOf(transactions[i].at)}) \in Nat
         /\ InWindow(s, n) =
              InWindow(s, m) + Cardinality({i \in m + 1 .. n : s \in WindowsOf(transactions[i].at)})
         /\ (\A i \in 1 .. m : s \notin WindowsOf(transactions[i].at)) => InWindow(s, m) = 0
         /\ (\E i \in m + 1 .. n : s \in WindowsOf(transactions[i].at)) =>
              Cardinality({i \in m + 1 .. n : s \in WindowsOf(transactions[i].at)}) # 0
<1> DEFINE A == {i \in 1 .. m : s \in WindowsOf(transactions[i].at)}
           B == {i \in m + 1 .. n : s \in WindowsOf(transactions[i].at)}
           C == {i \in 1 .. n : s \in WindowsOf(transactions[i].at)}
<1>1. IsFiniteSet(A) /\ IsFiniteSet(B)
  <2>1. IsFiniteSet(1 .. m) /\ IsFiniteSet(m + 1 .. n)
    BY FS_Interval
  <2>2. A \in SUBSET (1 .. m) /\ B \in SUBSET (m + 1 .. n)
    OBVIOUS
  <2> QED BY <2>1, <2>2, FS_Subset
<1>2. C = A \cup B /\ A \cap B = {}
  <2>1. \A i : i \in 1 .. n <=> i \in 1 .. m \/ i \in m + 1 .. n
    OBVIOUS
  <2>2. \A i : ~(i \in 1 .. m /\ i \in m + 1 .. n)
    OBVIOUS
  <2> QED BY <2>1, <2>2
<1>3. A = {} <=> \A i \in 1 .. m : s \notin WindowsOf(transactions[i].at)
  OBVIOUS
<1>4. B = {} <=> ~\E i \in m + 1 .. n : s \in WindowsOf(transactions[i].at)
  OBVIOUS
<1>5. InWindow(s, m) = Cardinality(A) /\ InWindow(s, n) = Cardinality(C)
  BY DEF InWindow
<1> HIDE DEF A, B, C
<1>6. Cardinality(A) \in Nat /\ Cardinality(B) \in Nat
  BY <1>1, FS_CardinalityType
<1>7. Cardinality(A \cap B) = 0
  BY <1>2, FS_EmptySet
<1>8. Cardinality(C) = Cardinality(A) + Cardinality(B) - Cardinality(A \cap B)
  BY <1>1, <1>2, FS_Union
<1>9. Cardinality(C) = Cardinality(A) + Cardinality(B)
  BY <1>6, <1>7, <1>8
<1>10. (A = {} => Cardinality(A) = 0) /\ (B # {} => Cardinality(B) # 0)
  BY <1>1, FS_EmptySet
<1> QED BY <1>3, <1>4, <1>5, <1>6, <1>9, <1>10 DEF B

\* A window starts at a whole number of ticks (WindowsOf).
LEMMA WindowStarts ==
  ASSUME NEW t \in Tick, NEW s \in WindowsOf(t)
  PROVE  s \in Int
BY CountsAssumption DEF WindowsOf, Tick

\* Rows that arrive, and the other queries, leave the counts as they are, and the
\* rows counted are still where they were.
LEMMA CountsUnmoved ==
  ASSUME SourcesInv, CountsInv, Appended, UNCHANGED countVars
  PROVE  CountsInv'
<1>1. /\ countRead' = countRead /\ countMark' = countMark
      /\ openCounts' = openCounts /\ counts' = counts
  BY DEF countVars
<1>2. Len(transactions) \in Nat /\ countRead \in 0 .. Len(transactions)
  BY RowFields DEF SourcesInv, CountsInv, CountsTypeOK
<1>3. \A i \in 1 .. countRead : transactions'[i] = transactions[i]
  BY <1>2 DEF Appended
<1>4. ASSUME NEW s, NEW n \in 0 .. countRead
      PROVE  InWindow(s, n)' = InWindow(s, n)
  <2>1. \A i \in 1 .. n : transactions'[i] = transactions[i]
    BY <1>2, <1>3
  <2>2. {i \in 1 .. n : s \in WindowsOf(transactions'[i].at)} = {i \in 1 .. n : s \in WindowsOf(transactions[i].at)}
    BY <2>1
  <2> QED BY <2>2 DEF InWindow
<1>5. CountsTypeOK'
  <2>1. countRead' \in 0 .. Len(transactions')
    BY <1>1, <1>2 DEF Appended
  <2> QED BY <1>1, <2>1 DEF CountsInv, CountsTypeOK
<1>6. (\A p \in counts : p.read \in 0 .. countRead)' /\ WindowPublishedOnce'
  BY <1>1 DEF CountsInv, WindowPublishedOnce
<1>7. WindowCountsExact'
  <2>1. ASSUME NEW s \in DOMAIN openCounts PROVE openCounts[s] = InWindow(s, countRead)'
    <3>1. countRead \in 0 .. countRead
      BY <1>2
    <3>2. openCounts[s] = InWindow(s, countRead)
      BY DEF CountsInv, WindowCountsExact
    <3>3. InWindow(s, countRead)' = InWindow(s, countRead)
      BY <1>1, <1>4, <3>1
    <3> QED BY <3>2, <3>3
  <2>2. ASSUME NEW p \in counts
        PROVE  EndOf(p.start) <= countMark /\ p.count = InWindow(p.start, p.read)'
    <3>1. p.read \in 0 .. countRead /\ p.count = InWindow(p.start, p.read) /\ EndOf(p.start) <= countMark
      BY DEF CountsInv, WindowCountsExact
    <3>2. InWindow(p.start, p.read)' = InWindow(p.start, p.read)
      BY <1>4, <3>1
    <3> QED BY <3>1, <3>2
  <2>3. ASSUME NEW i \in 1 .. countRead, NEW s \in WindowsOf(transactions'[i].at)
        PROVE  s \in DOMAIN openCounts \/ EndOf(s) <= countMark
    BY <1>3 DEF CountsInv, WindowCountsExact
  <2>4. \A s \in DOMAIN openCounts' : openCounts'[s] = InWindow(s, countRead)'
    BY <1>1, <2>1
  <2>5. \A p \in counts' : EndOf(p.start) <= countMark' /\ p.count = InWindow(p.start, p.read)'
    BY <1>1, <2>2
  <2>6. \A i \in 1 .. countRead' : \A s \in WindowsOf(transactions'[i].at) :
          s \in DOMAIN openCounts' \/ EndOf(s) <= countMark'
    BY <1>1, <2>3
  <2> QED BY <2>4, <2>5, <2>6 DEF WindowCountsExact
<1> QED BY <1>5, <1>6, <1>7 DEF CountsInv

\* A micro-batch of the counts: a window that is open has the count of all rows
\* read, one that had no row and is not yet passed starts from none, and what is
\* published leaves the state and can not come back behind the watermark.
LEMMA CountBatchPreserves ==
  ASSUME SourcesInv, CountsInv, UNCHANGED sourceVars,
         NEW upto \in countRead .. Len(transactions), CountBatch(upto)
  PROVE  CountsInv'
<1> DEFINE new == countRead + 1 .. upto
           InNew(s) == Cardinality({i \in new : s \in WindowsOf(transactions[i].at)})
           hit == {s \in UNION {WindowsOf(transactions[i].at) : i \in new} : StillOpen(s)}
           all == [s \in hit \cup DOMAIN openCounts |->
                     (IF s \in DOMAIN openCounts THEN openCounts[s] ELSE 0) + InNew(s)]
           done == {s \in DOMAIN all : Closed(s)}
<1>0. /\ Len(transactions) \in Nat /\ countRead \in Nat /\ upto \in Nat /\ countMark \in Nat
      /\ countRead <= upto /\ upto <= Len(transactions)
  BY RowFields DEF SourcesInv, CountsInv, CountsTypeOK
<1>1. /\ countRead' = upto /\ transactions' = transactions
      /\ counts' = counts \cup {[start |-> s, count |-> all[s], read |-> upto] : s \in done}
      /\ openCounts' = [s \in DOMAIN all \ done |-> all[s]]
  BY DEF CountBatch, sourceVars
<1>2. countMark' \in Nat /\ countMark <= countMark'
  <2>1. /\ countMark' \in {countMark} \cup {transactions[i].at - CountDelay : i \in new}
        /\ countMark <= countMark'
    BY DEF CountBatch
  <2>2. \A i \in new : transactions[i].at - CountDelay \in Int
    <3>1. \A i \in new : i \in 1 .. Len(transactions)
      BY <1>0
    <3>2. \A i \in new : transactions[i].at \in Nat
      BY <3>1, RowFields DEF SourcesInv, Tick
    <3> QED BY <3>2, CountsAssumption
  <2> QED BY <1>0, <2>1, <2>2
<1>3. ASSUME NEW i \in 1 .. upto
      PROVE  transactions[i].at \in Tick
  <2>1. i \in 1 .. Len(transactions)
    BY <1>0
  <2> QED BY <2>1, RowFields DEF SourcesInv
<1>4. DOMAIN all = hit \cup DOMAIN openCounts /\ done \subseteq DOMAIN all
  OBVIOUS
<1>5. \A s \in hit : StillOpen(s) /\ \E i \in new : s \in WindowsOf(transactions[i].at)
  OBVIOUS
<1>6. ASSUME NEW s, NEW i \in new, s \in WindowsOf(transactions[i].at)
      PROVE  s \in hit \/ ~StillOpen(s)
  BY <1>6
<1>7. ASSUME NEW s \in DOMAIN all
      PROVE  all[s] = (IF s \in DOMAIN openCounts THEN openCounts[s] ELSE 0) + InNew(s)
  BY <1>4, <1>7
<1>8. ASSUME NEW s
      PROVE  /\ InWindow(s, countRead) \in Nat /\ InNew(s) \in Nat
             /\ InWindow(s, upto) = InWindow(s, countRead) + InNew(s)
             /\ (\A i \in 1 .. countRead : s \notin WindowsOf(transactions[i].at)) =>
                  InWindow(s, countRead) = 0
             /\ (\E i \in new : s \in WindowsOf(transactions[i].at)) => InNew(s) # 0
  BY <1>0, InWindowGrows
<1>9. \A s \in done : Closed(s)
  OBVIOUS
<1>10. \A s \in DOMAIN all : s \notin done => ~Closed(s)
  OBVIOUS
<1> HIDE DEF all, hit, done, InNew
<1>11. ASSUME NEW s \in DOMAIN all
       PROVE  s \in Int /\ all[s] \in Tick /\ all[s] = InWindow(s, upto)
  <2>1. CASE s \in DOMAIN openCounts
    <3>1. s \in Int /\ openCounts[s] \in Tick /\ openCounts[s] = InWindow(s, countRead)
      BY <2>1 DEF CountsInv, CountsTypeOK, WindowCountsExact
    <3>2. all[s] = openCounts[s] + InNew(s)
      BY <1>7, <2>1
    <3> QED BY <1>8, <3>1, <3>2 DEF Tick
  <2>2. CASE s \notin DOMAIN openCounts
    <3>1. s \in hit
      BY <1>4, <2>2
    <3>2. StillOpen(s)
      BY <1>5, <3>1
    <3>3. PICK i \in new : s \in WindowsOf(transactions[i].at)
      BY <1>5, <3>1
    <3>4. s \in Int
      <4>1. i \in 1 .. upto
        BY <1>0
      <4> QED BY <1>3, <3>3, <4>1, WindowStarts
    <3>5. ~(EndOf(s) <= countMark)
      BY <1>0, <3>2, <3>4, CountsAssumption DEF StillOpen, EndOf, Tick
    <3>6. \A k \in 1 .. countRead : s \notin WindowsOf(transactions[k].at)
      BY <2>2, <3>5 DEF CountsInv, WindowCountsExact
    <3>7. InWindow(s, countRead) = 0 /\ InNew(s) # 0
      BY <1>8, <3>3, <3>6
    <3>8. all[s] = 0 + InNew(s)
      BY <1>7, <2>2
    <3> QED BY <1>8, <3>4, <3>7, <3>8 DEF Tick
  <2> QED BY <2>1, <2>2
<1>12. ASSUME NEW p \in counts', p \notin counts
       PROVE  /\ p.start \in done /\ p.count = all[p.start] /\ p.read = upto
              /\ p = [start |-> p.start, count |-> all[p.start], read |-> upto]
  <2>1. PICK s \in done : p = [start |-> s, count |-> all[s], read |-> upto]
    BY <1>1, <1>12
  <2> QED BY <2>1
\* a window published before is not among those of this batch
<1>13. ASSUME NEW p \in counts
       PROVE  p.start \notin DOMAIN all
  <2>1. p.start \in Int /\ p.start \notin DOMAIN openCounts /\ EndOf(p.start) <= countMark
    BY DEF CountsInv, CountsTypeOK, WindowPublishedOnce, WindowCountsExact
  <2>2. ~StillOpen(p.start)
    BY <1>0, <2>1, CountsAssumption DEF StillOpen, EndOf, Tick
  <2> QED BY <1>4, <1>5, <2>1, <2>2
<1>14. CountsTypeOK'
  <2>1. countRead' \in 0 .. Len(transactions')
    BY <1>0, <1>1
  <2>2. \A s \in DOMAIN openCounts' : s \in Int /\ openCounts'[s] \in Tick
    BY <1>1, <1>11
  <2>3. counts' \subseteq [start : Int, count : Tick, read : Nat]
    <3> SUFFICES ASSUME NEW p \in counts'
                 PROVE  p \in [start : Int, count : Tick, read : Nat]
      OBVIOUS
    <3>1. CASE p \in counts
      BY <3>1 DEF CountsInv, CountsTypeOK
    <3>2. CASE p \notin counts
      <4>1. p = [start |-> p.start, count |-> all[p.start], read |-> upto] /\ p.start \in DOMAIN all
        BY <1>4, <1>12, <3>2
      <4>2. p.start \in Int /\ all[p.start] \in Tick
        BY <1>11, <4>1
      <4> QED BY <1>0, <4>1, <4>2
    <3> QED BY <3>1, <3>2
  <2> QED BY <1>2, <2>1, <2>2, <2>3 DEF CountsTypeOK
<1>15. ASSUME NEW p \in counts'
       PROVE  p.read \in 0 .. upto
  <2>1. CASE p \in counts
    BY <1>0, <2>1 DEF CountsInv
  <2>2. CASE p \notin counts
    BY <1>0, <1>12, <2>2
  <2> QED BY <2>1, <2>2
<1>16. ASSUME NEW p \in counts'
       PROVE  p.start \notin DOMAIN openCounts'
  <2>1. DOMAIN openCounts' = DOMAIN all \ done
    BY <1>1
  <2>2. CASE p \in counts
    BY <1>13, <2>1, <2>2
  <2>3. CASE p \notin counts
    BY <1>12, <2>1, <2>3
  <2> QED BY <2>2, <2>3
<1>17. ASSUME NEW p \in counts', NEW q \in counts', p.start = q.start
       PROVE  p = q
  <2>1. CASE p \in counts /\ q \in counts
    BY <1>17, <2>1 DEF CountsInv, WindowPublishedOnce
  <2>2. CASE p \notin counts /\ q \notin counts
    BY <1>12, <1>17, <2>2
  <2>3. CASE p \in counts /\ q \notin counts
    BY <1>4, <1>12, <1>13, <1>17, <2>3
  <2>4. CASE p \notin counts /\ q \in counts
    BY <1>4, <1>12, <1>13, <1>17, <2>4
  <2> QED BY <2>1, <2>2, <2>3, <2>4
<1>18. WindowPublishedOnce'
  BY <1>16, <1>17 DEF WindowPublishedOnce
<1>19. ASSUME NEW s, NEW n
       PROVE  InWindow(s, n)' = InWindow(s, n)
  BY <1>1 DEF InWindow
<1>20. ASSUME NEW p \in counts'
       PROVE  EndOf(p.start) <= countMark' /\ p.count = InWindow(p.start, p.read)
  <2>1. CASE p \in counts
    <3>1. /\ p.start \in Int /\ EndOf(p.start) <= countMark
          /\ p.count = InWindow(p.start, p.read)
      BY <2>1 DEF CountsInv, CountsTypeOK, WindowCountsExact
    <3> QED BY <1>0, <1>2, <3>1, CountsAssumption DEF EndOf, Tick
  <2>2. CASE p \notin counts
    <3>1. p.start \in done /\ p.start \in DOMAIN all /\ p.count = all[p.start] /\ p.read = upto
      BY <1>4, <1>12, <2>2
    <3>2. p.start \in Int /\ all[p.start] = InWindow(p.start, upto)
      BY <1>11, <3>1
    <3>3. EndOf(p.start) <= countMark
      BY <1>9, <3>1 DEF Closed
    <3>4. EndOf(p.start) \in Int
      BY <3>2, CountsAssumption DEF EndOf, Tick
    <3> QED BY <1>0, <1>2, <3>1, <3>2, <3>3, <3>4
  <2> QED BY <2>1, <2>2
<1>21. ASSUME NEW i \in 1 .. upto, NEW s \in WindowsOf(transactions[i].at)
       PROVE  s \in DOMAIN openCounts' \/ EndOf(s) <= countMark'
  <2>0. s \in Int /\ EndOf(s) \in Int
    <3>1. s \in Int
      BY <1>3, WindowStarts
    <3> QED BY <3>1, CountsAssumption DEF EndOf, Tick
  <2>1. CASE s \in DOMAIN all
    <3>1. CASE s \in done
      <4>1. EndOf(s) <= countMark
        BY <1>9, <3>1 DEF Closed
      <4> QED BY <1>0, <1>2, <2>0, <4>1
    <3>2. CASE s \notin done
      BY <1>1, <2>1, <3>2
    <3> QED BY <3>1, <3>2
  <2>2. CASE s \notin DOMAIN all
    <3>1. EndOf(s) <= countMark
      <4>1. CASE i \in 1 .. countRead
        <5>1. s \in DOMAIN openCounts \/ EndOf(s) <= countMark
          BY <4>1 DEF CountsInv, WindowCountsExact
        <5> QED BY <1>4, <2>2, <5>1
      <4>2. CASE i \notin 1 .. countRead
        <5>1. i \in new
          BY <1>0, <4>2
        <5>2. ~StillOpen(s)
          BY <1>4, <1>6, <2>2, <5>1
        <5> QED BY <1>0, <2>0, <5>2 DEF StillOpen
      <4> QED BY <4>1, <4>2
    <3> QED BY <1>0, <1>2, <2>0, <3>1
  <2> QED BY <2>1, <2>2
<1>22. WindowCountsExact'
  <2>1. \A s \in DOMAIN openCounts' : openCounts'[s] = InWindow(s, countRead)'
    <3> SUFFICES ASSUME NEW s \in DOMAIN openCounts' PROVE openCounts'[s] = InWindow(s, countRead)'
      OBVIOUS
    <3>1. s \in DOMAIN all /\ openCounts'[s] = all[s]
      BY <1>1
    <3>2. all[s] = InWindow(s, upto)
      BY <1>11, <3>1
    <3>3. InWindow(s, countRead)' = InWindow(s, upto)
      BY <1>1 DEF InWindow
    <3> QED BY <3>1, <3>2, <3>3
  <2>2. \A p \in counts' : EndOf(p.start) <= countMark' /\ p.count = InWindow(p.start, p.read)'
    BY <1>19, <1>20
  <2>3. \A i \in 1 .. countRead' : \A s \in WindowsOf(transactions'[i].at) :
          s \in DOMAIN openCounts' \/ EndOf(s) <= countMark'
    BY <1>1, <1>21
  <2> QED BY <2>1, <2>2, <2>3 DEF WindowCountsExact
<1>23. (\A p \in counts : p.read \in 0 .. countRead)'
  BY <1>1, <1>15
<1> QED BY <1>14, <1>18, <1>22, <1>23 DEF CountsInv

-----------------------------------------------------------------------------
\* Empty tables and fresh checkpoints (GoldInit).
LEMMA GoldInitially == GoldInit => GoldInv
<1> SUFFICES ASSUME GoldInit PROVE GoldInv
  OBVIOUS
<1>1. /\ transactions = << >> /\ watchlist = << >> /\ customers = {}
      /\ Len(transactions) = 0 /\ Len(watchlist) = 0
  BY EmptySeq DEF GoldInit, SourcesInit
<1>2. SourcesInv
  BY <1>1, EmptySeq, FS_EmptySet DEF SourcesInv, SourcesTypeOK
<1>3. JoinInv
  BY <1>1 DEF GoldInit, JoinInit, JoinInv, JoinTypeOK, QueryMark, OneAlertPerMatch
<1>4. LimitInv
  BY <1>1 DEF GoldInit, LimitInit, LimitInv, LimitTypeOK, OneHighValueAlert
<1>5. CountsInv
  <2>1. countRead = 0 /\ countMark = 0 /\ counts = {} /\ DOMAIN openCounts = {}
    BY DEF GoldInit, CountsInit
  <2> QED BY <1>1, <2>1 DEF CountsInv, CountsTypeOK, WindowPublishedOnce, WindowCountsExact
<1> QED BY <1>2, <1>3, <1>4, <1>5 DEF GoldInv

\* An arrival moves no query, and a query moves no other and no table it reads.
LEMMA GoldStep == GoldInv /\ [GoldNext]_goldVars => GoldInv'
<1> SUFFICES ASSUME GoldInv, [GoldNext]_goldVars PROVE GoldInv'
  OBVIOUS
<1>1. SourcesInv /\ JoinInv /\ LimitInv /\ CountsInv
  BY DEF GoldInv
<1>2. CASE Arrival
  <2>1. SourcesNext /\ UNCHANGED joinVars /\ UNCHANGED limitVars /\ UNCHANGED countVars
    BY <1>2 DEF Arrival
  <2>2. SourcesInv' /\ Appended
    BY <1>1, <2>1, ArrivalAppends
  <2> QED BY <1>1, <2>1, <2>2, JoinUnmoved, LimitUnmoved, CountsUnmoved DEF GoldInv
<1>3. CASE FraudQuery
  <2>1. FraudStep /\ UNCHANGED sourceVars /\ UNCHANGED limitVars /\ UNCHANGED countVars
    BY <1>3 DEF FraudQuery, FraudStep
  <2>2. SourcesInv' /\ Appended
    BY <1>1, <2>1, SourcesUnmoved
  <2>3. JoinInv'
    BY <1>1, <2>1, FraudBatchPreserves DEF FraudStep
  <2> QED BY <1>1, <2>1, <2>2, <2>3, LimitUnmoved, CountsUnmoved DEF GoldInv
<1>4. CASE HighValueQuery
  <2>1. HighValueStep /\ UNCHANGED sourceVars /\ UNCHANGED joinVars /\ UNCHANGED countVars
    BY <1>4 DEF HighValueQuery, HighValueStep
  <2>2. SourcesInv' /\ Appended
    BY <1>1, <2>1, SourcesUnmoved
  <2>3. LimitInv'
    BY <1>1, <2>1, HighValueBatchPreserves DEF HighValueStep
  <2> QED BY <1>1, <2>1, <2>2, <2>3, JoinUnmoved, CountsUnmoved DEF GoldInv
<1>5. CASE CountQuery
  <2>1. CountStep /\ UNCHANGED sourceVars /\ UNCHANGED joinVars /\ UNCHANGED limitVars
    BY <1>5 DEF CountQuery, CountStep
  <2>2. SourcesInv' /\ Appended
    BY <1>1, <2>1, SourcesUnmoved
  <2>3. CountsInv'
    BY <1>1, <2>1, CountBatchPreserves DEF CountStep
  <2> QED BY <1>1, <2>1, <2>2, <2>3, JoinUnmoved, LimitUnmoved DEF GoldInv
<1>6. CASE UNCHANGED goldVars
  <2>1. UNCHANGED sourceVars /\ UNCHANGED joinVars /\ UNCHANGED limitVars /\ UNCHANGED countVars
    BY <1>6 DEF goldVars
  <2>2. SourcesInv' /\ Appended
    BY <1>1, <2>1, SourcesUnmoved
  <2> QED BY <1>1, <2>1, <2>2, JoinUnmoved, LimitUnmoved, CountsUnmoved DEF GoldInv
<1> QED BY <1>2, <1>3, <1>4, <1>5, <1>6 DEF GoldNext

\* GoldInv holds whatever arrives and however the queries cut it into batches.
LEMMA GoldAlways == GoldSpec => []GoldInv
BY GoldInitially, GoldStep, PTL DEF GoldSpec

\* Checkpoints never run past the tables they read, the marks are naturals, and
\* every alert and count has the columns of its table.
THEOREM GoldTyped == GoldSpec => []GoldTypeOK
<1>1. GoldInv => GoldTypeOK
  BY DEF GoldInv, SourcesInv, JoinInv, LimitInv, CountsInv, GoldTypeOK
<1> QED BY <1>1, GoldAlways, PTL

\* A transaction that matches a watchlist row raises one alert, however many
\* profiles its customer has and whenever they were recorded.
THEOREM MatchAlertsOnce == GoldSpec => []OneAlertPerMatch
<1>1. GoldInv => OneAlertPerMatch
  BY DEF GoldInv, JoinInv
<1> QED BY <1>1, GoldAlways, PTL

\* Two matching rows that were read have raised an alert, whichever came first,
\* unless one of them was behind the watermark of both sides.
THEOREM MatchFoundEitherWay == GoldSpec => []MatchRegardlessOfOrder
<1>1. GoldInv => MatchRegardlessOfOrder
  BY DEF GoldInv, JoinInv, MatchRegardlessOfOrder
<1> QED BY <1>1, GoldAlways, PTL

\* A transaction over its customer's limit raises one alert, and none is raised
\* for it again when the customer's profile changes.
THEOREM HighValueAlertsOnce == GoldSpec => []OneHighValueAlert
<1>1. GoldInv => OneHighValueAlert
  BY DEF GoldInv, LimitInv
<1> QED BY <1>1, GoldAlways, PTL

\* A window has one row in its table, and none while it can still grow.
THEOREM WindowsPublishedOnce == GoldSpec => []WindowPublishedOnce
<1>1. GoldInv => WindowPublishedOnce
  BY DEF GoldInv, CountsInv
<1> QED BY <1>1, GoldAlways, PTL

\* The count of a window is the number of the transactions in it that were read
\* before the watermark passed its end, for tumbling and sliding windows alike.
THEOREM WindowCountsCorrect == GoldSpec => []WindowCountsExact
<1>1. GoldInv => WindowCountsExact
  BY DEF GoldInv, CountsInv
<1> QED BY <1>1, GoldAlways, PTL
=============================================================================
