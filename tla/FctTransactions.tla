-------------------------- MODULE FctTransactions --------------------------
(***************************************************************************)
(* fct_transactions.sql: the incremental build of the transaction fact     *)
(* over silver, which keeps every delivered copy of a transaction.  A run  *)
(* reads the copies not older than an overlap window behind the newest     *)
(* event time the fact holds, keeps one copy per transaction and merges it *)
(* by id.  The dimensions joined to the row are left out.                  *)
(***************************************************************************)
EXTENDS Integers, FiniteSets

CONSTANTS
  Id,               \* transaction ids
  Partition,        \* partitions of the topic; an id changes partition when their number does
  Window,           \* late_arrival_window_days
  MaxTime,          \* bound: event times
  MaxCopies,        \* bound: rows of silver
  MaxRuns           \* bound: builds

ASSUME FactAssumption ==
  /\ Partition \subseteq Nat /\ Id # {} /\ Partition # {}
  /\ {Window, MaxTime, MaxCopies, MaxRuns} \subseteq Nat

Copy == [id : Id, at : 0 .. MaxTime, partition : Partition, offset : 0 .. MaxCopies]

VARIABLES
  silver,           \* the copies in silver.transactions
  facts,            \* the copies the rows of fct_transactions were made of
  seen,             \* history: silver as the last build read it
  newest,           \* history: the latest event time facts has held since it was built in full
  runs              \* builds so far

vars == <<silver, facts, seen, newest, runs>>

Init == silver = {} /\ facts = {} /\ seen = {} /\ newest = 0 /\ runs = 0

\* A copy lands, whatever its event time: a straggler, or a redelivery.
Land(id, at, p) ==
  /\ Cardinality(silver) < MaxCopies
  /\ silver' = silver \cup
       {[id |-> id, at |-> at, partition |-> p,
         offset |-> Cardinality({r \in silver : r.partition = p})]}
  /\ UNCHANGED <<facts, seen, newest, runs>>

Times(rows) == {r.at : r \in rows}
LatestTime(rows) == CHOOSE t \in Times(rows) : \A u \in Times(rows) : u <= t

\* Mutant: the window is counted back from the newest row of the source.
BehindSource(r) == r.at >= LatestTime(silver) - Window

\* The filter of an incremental run.
WithinWindow(r) == facts = {} \/ r.at >= LatestTime(facts) - Window

\* Mutant: order by kafka_offset desc, the order the comment above the query promises.
RanksByOffset(r, s) ==
  r.offset > s.offset \/ (r.offset = s.offset /\ r.partition <= s.partition)

\* order by kafka_partition, kafka_offset desc
RanksBefore(r, s) ==
  r.partition < s.partition \/ (r.partition = s.partition /\ r.offset >= s.offset)

Deduplicated(rows) == {r \in rows : \A s \in rows : s.id = r.id => RanksBefore(r, s)}

\* Mutant: incremental_predicates bounds the target side by event time.
MatchesRecent(f, rows) ==
  /\ \E r \in rows : r.id = f.id
  /\ f.at >= LatestTime(facts) - Window

\* unique_key: transaction_id, over the whole target.
Matches(f, rows) == \E r \in rows : r.id = f.id

Built(new) ==
  /\ runs < MaxRuns /\ runs' = runs + 1
  /\ facts' = new /\ seen' = silver
  /\ UNCHANGED silver

\* dbt run: matched rows are updated, the others inserted, in one commit.
IncrementalRun ==
  LET source == Deduplicated({r \in silver : WithinWindow(r)})
  IN  /\ Built(source \cup {f \in facts : ~Matches(f, source)})
      /\ newest' = IF facts' = {} \/ LatestTime(facts') < newest THEN newest ELSE LatestTime(facts')

\* dbt run --full-refresh
FullRefresh ==
  /\ Built(Deduplicated(silver))
  /\ newest' = IF facts' = {} THEN 0 ELSE LatestTime(facts')

Next ==
  \/ \E id \in Id, at \in 0 .. MaxTime, p \in Partition : Land(id, at, p)
  \/ IncrementalRun \/ FullRefresh

Spec == Init /\ [][Next]_vars

-----------------------------------------------------------------------------
FactTypeOK ==
  /\ silver \subseteq Copy /\ seen \subseteq silver /\ facts \subseteq seen
  /\ newest \in 0 .. MaxTime /\ runs \in 0 .. MaxRuns

\* "Without the overlap those stragglers would be skipped permanently": a
\* transaction that a build could read and the fact does not have lies, with every
\* copy, further than the window behind the newest event time the fact has held,
\* even though a merge may move that time back.
LostOnlyBehindWindow ==
  \A r \in seen : (\E f \in facts : f.id = r.id) \/ r.at < newest - Window

\* "The mart is where a transaction must mean one business event": it has one row,
\* however its copies are spread over the builds and over event time.
OneRowPerTransaction ==
  \A f, g \in facts : f.id = g.id => f = g

\* The row of a transaction was made of the copy a full rebuild would choose among
\* those within the window: of the lowest partition that has one, the last copy.
\* Not the most recently delivered copy: the comment at fct_transactions.sql:128
\* ("highest kafka_offset wins") leaves out that line 137 orders by partition first.
LowestPartitionThenLastOffset ==
  \A f \in facts : \A r \in seen :
    r.id = f.id /\ r.at >= newest - Window =>
      \/ f.partition < r.partition
      \/ f.partition = r.partition /\ f.offset >= r.offset
=============================================================================
