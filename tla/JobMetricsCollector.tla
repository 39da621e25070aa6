------------------------ MODULE JobMetricsCollector ------------------------
(***************************************************************************)
(* job_metrics_collector.py as the last task of the job it observes.  From *)
(* the runs the Jobs API lists it appends the ended ones, their tasks and  *)
(* the latency of the successful ones to three tables.  Each table is its  *)
(* own watermark: only starts later than the latest it holds are appended, *)
(* and what is still in flight is passed over.  An error gives up the      *)
(* tables that are left, and the task still succeeds.                      *)
(***************************************************************************)
EXTENDS DailyJob

CONSTANT FetchLimit     \* _MAX_RUNS: the runs fetched, newest first

ASSUME FetchAssumption == FetchLimit \in Nat \ {0}

VARIABLES
  jobRuns,          \* [run, collectedIn], the run that collected it being its collected_at
  taskRuns,         \* [run, key, collectedIn]
  sla,              \* [run, collectedIn]
  nextTable         \* the running collection: 1 job_runs, 2 job_task_runs, 3 job_sla, 4 done

tableVars == <<jobRuns, taskRuns, sla, nextTable>>
vars == <<jobVars, tableVars>>

Init ==
  /\ JobInit
  /\ jobRuns = {} /\ taskRuns = {} /\ sla = {} /\ nextTable = 1

Latest(S) == CHOOSE n \in S \cup {0} : \A m \in S \cup {0} : m <= n

RunMark == Latest({runStart[x.run] : x \in jobRuns})
TaskMark == Latest({taskStart[x.run][x.key] : x \in taskRuns})
SlaMark == Latest({runStart[x.run] : x \in sla})

\* _fetch_runs: the newest runs, in flight or not, as they are at this moment.
Fetched == {q \in Run : q <= triggered /\ q > triggered - FetchLimit}

NewRuns == {q \in Fetched : runStart[q] > RunMark /\ result[q] # "NONE"}
NewTasks ==
  {k \in Fetched \X Task :
     taskStart[k[1]][k[2]] > TaskMark /\ task[k[1]][k[2]] \in Terminal}
NewSla == {q \in Fetched : runStart[q] > SlaMark /\ result[q] = "SUCCESS"}

Collecting(c) == InFlight(c) /\ task[c]["collect_job_metrics"] = "running"

\* One of the three collections of run c; it returns early without new rows.
CollectTable(c) ==
  /\ Collecting(c) /\ nextTable <= 3
  /\ jobRuns' = IF nextTable # 1 THEN jobRuns
                ELSE jobRuns \cup {[run |-> q, collectedIn |-> c] : q \in NewRuns}
  /\ taskRuns' = IF nextTable # 2 THEN taskRuns
                 ELSE taskRuns \cup {[run |-> k[1], key |-> k[2], collectedIn |-> c] : k \in NewTasks}
  /\ sla' = IF nextTable # 3 THEN sla
            ELSE sla \cup {[run |-> q, collectedIn |-> c] : q \in NewSla}
  /\ nextTable' = nextTable + 1
  /\ UNCHANGED jobVars

\* Mutant: the handler counts the table that failed as one more.
AfterErrorTwice == 5

\* The except clause is around all three tables.
AfterError == 4

\* The API or an append raises: the tables left are passed over.
CollectError(c) ==
  /\ Collecting(c) /\ nextTable <= 3
  /\ nextTable' = AfterError
  /\ UNCHANGED <<jobVars, jobRuns, taskRuns, sla>>

\* collect() has returned, and the task succeeds; it fails if the tables cannot
\* be created, or its process dies, at any time.
EndCollector(r, outcome) ==
  /\ outcome = "success" => nextTable = 4
  /\ EndTask(r, "collect_job_metrics", outcome)
  /\ nextTable' = 1
  /\ UNCHANGED <<jobRuns, taskRuns, sla>>

EndOther(r) ==
  /\ \E t \in Task \ {"collect_job_metrics"}, outcome \in {"success", "failed"} : EndTask(r, t, outcome)
  /\ UNCHANGED tableVars

Schedule(r) == ScheduleStep(r) /\ UNCHANGED tableVars
StopRun(r) == TimeOut(r) /\ nextTable' = 1 /\ UNCHANGED <<jobRuns, taskRuns, sla>>

Next ==
  \/ Trigger /\ UNCHANGED tableVars
  \/ \E r \in Run :
       \/ Schedule(r) \/ StopRun(r)
       \/ CollectTable(r) \/ CollectError(r)
       \/ \E outcome \in {"success", "failed"} : EndCollector(r, outcome)
       \/ EndOther(r)

Spec == Init /\ [][Next]_vars

-----------------------------------------------------------------------------
TablesTypeOK ==
  /\ JobTypeOK
  /\ jobRuns \subseteq [run : Run, collectedIn : Run]
  /\ taskRuns \subseteq [run : Run, key : Task, collectedIn : Run]
  /\ sla \subseteq [run : Run, collectedIn : Run]
  /\ nextTable \in 1 .. 4

\* Every ended run has its row in job_runs, and every successful run its latency
\* in job_sla, once, unless the watermark has passed it in a collection that the
\* fetch limit kept from seeing it: a run in flight, or an error between two
\* tables, delays a row and never loses it.
Missed(rows, q) ==
  \E x \in rows : x.run > q /\ x.collectedIn - q < FetchLimit
RunsCollectedOnce ==
  /\ \A rows \in {jobRuns, sla} : \A x, y \in rows : x.run = y.run => x = y
  /\ \A q \in Run :
       /\ result[q] # "NONE" /\ Missed(jobRuns, q) => \E x \in jobRuns : x.run = q
       /\ result[q] = "SUCCESS" /\ Missed(sla, q) => \E x \in sla : x.run = q

\* Nothing a run did is lost from what it reports: the row of every ingest and dbt
\* task that started is appended once, although tasks are in flight, fail or are
\* stopped while a collection passes over them, unless the fetch limit hid its run.
TaskPassed(q, t) ==
  \E x \in taskRuns : taskStart[x.run][x.key] > taskStart[q][t] /\ x.collectedIn - q < FetchLimit
TasksCollectedOnce ==
  /\ \A x, y \in taskRuns : x.run = y.run /\ x.key = y.key => x = y
  /\ \A q \in Run : \A t \in Task \ Collectors :
       taskStart[q][t] > 0 /\ TaskPassed(q, t) => \E x \in taskRuns : x.run = q /\ x.key = t
=============================================================================
