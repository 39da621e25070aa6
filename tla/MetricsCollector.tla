-------------------------- MODULE MetricsCollector --------------------------
(***************************************************************************)
(* metrics_collector.py: the event log of each pipeline is mined into      *)
(* three append-only tables.  There is no other state: the newest          *)
(* timestamp a table holds of a pipeline is where the next collection of   *)
(* that pipeline into that table starts.  The query is evaluated twice,    *)
(* once to count its rows and once to append them, over a log that grows;  *)
(* an error gives up the rest of the pipeline and goes on with the next.   *)
(***************************************************************************)
EXTENDS Integers, Sequences, Functions

CONSTANTS
  Pipelines,        \* the --pipeline-ids, in order
  MaxTime,          \* bound: the clock
  MaxEvents,        \* bound: events of all pipelines
  MaxErrors         \* bound: collections that fail

ASSUME CollectorAssumption ==
  /\ MaxTime \in Nat \ {0} /\ {MaxEvents, MaxErrors} \subseteq Nat
  /\ Len(Pipelines) \in Nat /\ DOMAIN Pipelines = 1 .. Len(Pipelines)
  /\ \A i, j \in DOMAIN Pipelines : Pipelines[i] = Pipelines[j] => i = j

\* The tables a pipeline is collected into, in order; each takes one kind of event.
Tables == <<"pipeline_runs", "expectation_results", "stream_health">>

Pipeline == {Pipelines[i] : i \in DOMAIN Pipelines}
Table == {Tables[i] : i \in DOMAIN Tables}

VARIABLES
  now,              \* the clock of the event logs
  eventLog,         \* per pipeline and table, the timestamps of the events for it
  rows,             \* per table, its rows: [pipeline, event, collection]
  collection,       \* the collections that have appended something, plus one
  collecting,       \* whether a collection runs
  current,          \* the pipeline it is at
  target,           \* the table it is at
  pending,          \* TRUE between the count of the new rows and their append
  since,            \* the watermark the pending query was built with
  errors,           \* errors and kills so far
  unreadable        \* pipelines deleted, or no longer readable by the collector

collectorVars == <<rows, collection, collecting, current, target, pending, since, errors, unreadable>>
logVars == <<now, eventLog>>
vars == <<logVars, collectorVars>>

Init ==
  /\ now = 1
  /\ eventLog = [p \in Pipeline |-> [t \in Table |-> << >>]]
  /\ rows = [t \in Table |-> {}]
  /\ collection = 1 /\ collecting = FALSE
  /\ current = 1 /\ target = 1
  /\ pending = FALSE /\ since = 0 /\ errors = 0
  /\ unreadable \in SUBSET Pipeline

Events ==
  FoldFunction(LAMBDA log, n : FoldFunction(LAMBDA events, k : k + Len(events), n, log), 0, eventLog)

\* A pipeline logs an event; several may carry the same timestamp.
LogEvent(p, t) ==
  /\ Events < MaxEvents
  /\ eventLog' = [eventLog EXCEPT ![p][t] = Append(@, now)]
  /\ UNCHANGED <<now, collectorVars>>

Tick ==
  /\ now < MaxTime
  /\ now' = now + 1
  /\ UNCHANGED <<eventLog, collectorVars>>

TimeAt(r, t) == eventLog[r.pipeline][t][r.event]

\* WHERE pipeline_id = ...
RowsOf(p, t) == {r \in rows[t] : r.pipeline = p}

Largest(S) == CHOOSE n \in S : \A m \in S : m <= n

\* max(event_timestamp), or the epoch.
Watermark(p, t) == Largest({0} \cup {TimeAt(r, t) : r \in RowsOf(p, t)})

\* Mutant: timestamp >= since.
NewFromSince(p, t, mark) == {i \in DOMAIN eventLog[p][t] : eventLog[p][t][i] >= mark}

\* Mutant: the newest event only, as with a fetch limit.
NewestOnly(p, t, mark) ==
  {i \in DOMAIN eventLog[p][t] : eventLog[p][t][i] > mark /\ i = Len(eventLog[p][t])}

\* timestamp > since, as the log is now.
NewEvents(p, t, mark) == {i \in DOMAIN eventLog[p][t] : eventLog[p][t][i] > mark}

\* collect() begins with the first pipeline.
StartCollection ==
  /\ ~collecting
  /\ collecting' = TRUE /\ current' = 1 /\ target' = 1
  /\ UNCHANGED <<logVars, rows, collection, pending, since, errors, unreadable>>

AtWork == collecting /\ current <= Len(Pipelines)

\* The next table, or the first table of the next pipeline.
Advance ==
  IF target < Len(Tables)
  THEN target' = target + 1 /\ UNCHANGED current
  ELSE target' = 1 /\ current' = current + 1

\* The query is built and counted; without rows nothing is written.
CountNew ==
  /\ AtWork /\ ~pending /\ Pipelines[current] \notin unreadable
  /\ LET p == Pipelines[current]
         t == Tables[target]
         mark == Watermark(p, t)
     IN  IF NewEvents(p, t, mark) # {}
         THEN pending' = TRUE /\ since' = mark /\ UNCHANGED <<current, target>>
         ELSE Advance /\ UNCHANGED <<pending, since>>
  /\ UNCHANGED <<logVars, rows, collection, collecting, errors, unreadable>>

\* The query is evaluated again and its rows are appended.
AppendNew ==
  /\ AtWork /\ pending
  /\ LET p == Pipelines[current]
         t == Tables[target]
     IN  rows' = [rows EXCEPT ![t] = @ \cup
                    {[pipeline |-> p, event |-> i, collection |-> collection] :
                       i \in NewEvents(p, t, since)}]
  /\ collection' = collection + 1
  /\ Advance
  /\ pending' = FALSE /\ since' = 0
  /\ UNCHANGED <<logVars, collecting, errors, unreadable>>

\* Mutant: the exception ends the whole collection.
AfterErrorStop == Len(Pipelines) + 1

\* Mutant: the handler skips the pipeline, and the loop then skips the next.
AfterErrorTwice == current + 2

\* The except clause is inside the loop over the pipelines.
AfterError == current + 1

GiveUpPipeline ==
  /\ current' = AfterError /\ target' = 1
  /\ pending' = FALSE /\ since' = 0
  /\ UNCHANGED <<logVars, rows, collection, collecting, unreadable>>

\* event_log() of a pipeline that is gone raises, on every collection.
Unreadable ==
  /\ AtWork /\ Pipelines[current] \in unreadable
  /\ GiveUpPipeline
  /\ UNCHANGED errors

\* A query or an append of another pipeline raises.
CollectError ==
  /\ AtWork /\ Pipelines[current] \notin unreadable
  /\ errors < MaxErrors
  /\ errors' = errors + 1
  /\ GiveUpPipeline

EndCollection ==
  /\ collecting /\ current > Len(Pipelines)
  /\ collecting' = FALSE /\ current' = 1
  /\ UNCHANGED <<logVars, rows, collection, target, pending, since, errors, unreadable>>

\* The task is killed, by its run's time out for one, at any point.
Kill ==
  /\ collecting /\ errors < MaxErrors
  /\ errors' = errors + 1
  /\ collecting' = FALSE /\ current' = 1 /\ target' = 1
  /\ pending' = FALSE /\ since' = 0
  /\ UNCHANGED <<logVars, rows, collection, unreadable>>

CollectStep == StartCollection \/ CountNew \/ AppendNew \/ Unreadable \/ EndCollection

Next ==
  \/ \E p \in Pipeline, t \in Table : LogEvent(p, t)
  \/ Tick \/ CollectStep \/ CollectError \/ Kill

Spec == Init /\ [][Next]_vars

\* Collections are started by the job's schedule, and one that runs goes on.
FairSpec == Spec /\ WF_vars(CollectStep)

-----------------------------------------------------------------------------
CollectorTypeOK ==
  /\ now \in 1 .. MaxTime
  /\ eventLog \in [Pipeline -> [Table -> Seq(Nat \ {0})]]
  /\ rows \in [Table -> SUBSET [pipeline : Pipeline, event : Nat \ {0}, collection : Nat]]
  /\ \A t \in Table : \A r \in rows[t] :
       r.event \in DOMAIN eventLog[r.pipeline][t] /\ r.collection < collection
  /\ collection \in Nat /\ since \in 0 .. now
  /\ current \in 1 .. Len(Pipelines) + 1 /\ target \in DOMAIN Tables
  /\ pending \in BOOLEAN /\ collecting \in BOOLEAN /\ errors \in 0 .. MaxErrors

Collected(p, t) == {r.event : r \in RowsOf(p, t)}

\* "Reruns are therefore safe": whatever failed between two tables, and however
\* the log grew between the count and the append, no event is appended twice.
CollectedOnce ==
  \A t \in Table : \A r, s \in rows[t] :
    r.pipeline = s.pipeline /\ r.event = s.event => r = s

\* The watermark passes over an event only if another event of the same
\* timestamp, logged before it, was collected: no other order of logging,
\* collecting and failing loses one.
OnlyTiesAreSkipped ==
  \A p \in Pipeline : \A t \in Table : \A i \in DOMAIN eventLog[p][t] \ Collected(p, t) :
    (\E k \in Collected(p, t) : eventLog[p][t][k] >= eventLog[p][t][i])
      => \E j \in Collected(p, t) : j < i /\ eventLog[p][t][j] = eventLog[p][t][i]

\* "One unreadable pipeline must not stop collection for the others": an event of
\* a readable pipeline is eventually collected, or a tie has passed it over.
Settled(p, t, i) ==
  \/ p \in unreadable \/ i \in Collected(p, t)
  \/ \E j \in Collected(p, t) : eventLog[p][t][j] >= eventLog[p][t][i]
Logged(p, t, i) == i \in DOMAIN eventLog[p][t]
EveryEventCollected ==
  \A p \in Pipeline : \A t \in Table : \A i \in 1 .. MaxEvents :
    Logged(p, t, i) ~> (Logged(p, t, i) /\ Settled(p, t, i))
=============================================================================
