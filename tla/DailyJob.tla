------------------------------ MODULE DailyJob ------------------------------
(***************************************************************************)
(* The runs of finguard_daily_pipeline: eight tasks with dependencies, of  *)
(* which the two collectors run whatever happened upstream.  One run at a  *)
(* time, ended by a time out if a task hangs.  Outcomes and starts are     *)
(* kept as the Jobs API lists them.                                        *)
(***************************************************************************)
EXTENDS Integers

CONSTANTS
  MaxRuns,          \* bound: runs of the job
  Fragile           \* bound: the tasks that may fail by themselves

Run == 1 .. MaxRuns

Dbt == {"dbt_snapshot", "dbt_run", "dbt_test", "dbt_source_freshness"}
Collectors == {"collect_metrics", "collect_job_metrics"}
Task == {"ingest_streaming", "ingest_customers"} \cup Dbt \cup Collectors

\* Mutant: both collectors are declared alike, behind the ingests.
DependsAlike(t) ==
  CASE t \in {"ingest_streaming", "ingest_customers"} -> {}
    [] t \in {"dbt_snapshot"} \cup Collectors -> {"ingest_streaming", "ingest_customers"}
    [] t = "dbt_run" -> {"dbt_snapshot"}
    [] t = "dbt_test" -> {"dbt_run"}
    [] t = "dbt_source_freshness" -> {"dbt_test"}

\* depends_on of each task.
DependsOn(t) ==
  CASE t \in {"ingest_streaming", "ingest_customers"} -> {}
    [] t \in {"dbt_snapshot", "collect_metrics"} -> {"ingest_streaming", "ingest_customers"}
    [] t = "dbt_run" -> {"dbt_snapshot"}
    [] t = "dbt_test" -> {"dbt_run"}
    [] t = "dbt_source_freshness" -> {"dbt_test"}
    [] t = "collect_job_metrics" -> {"dbt_source_freshness"}

ASSUME JobAssumption == MaxRuns \in Nat /\ Fragile \subseteq Task

VARIABLES
  triggered,        \* the runs begun: 1 .. triggered
  clock,            \* the latest start of a run or a task
  runStart,         \* per run, its start_time; 0 is "not set"
  result,           \* per run, its result_state, "NONE" while it is in flight
  task,             \* per run and task: "pending", "running", "success", "failed", "skipped",
                    \* and "ended" for any of the last three once its run has ended
  taskStart         \* per run and task, its start_time

jobVars == <<triggered, clock, runStart, result, task, taskStart>>

JobInit ==
  /\ triggered = 0 /\ clock = 0
  /\ runStart = [r \in Run |-> 0]
  /\ result = [r \in Run |-> "NONE"]
  /\ task = [r \in Run |-> [t \in Task |-> "pending"]]
  /\ taskStart = [r \in Run |-> [t \in Task |-> 0]]

Terminal == {"success", "failed", "skipped", "ended"}
InFlight(r) == r <= triggered /\ result[r] = "NONE"
Upstream(r, t) == {task[r][d] : d \in DependsOn(t)}

\* Mutant: concurrent runs are allowed.
AnyTime == TRUE

\* max_concurrent_runs: 1.
MayTrigger == \A r \in Run : ~InFlight(r)

\* A run starts, and with it the tasks that wait for none.
Trigger ==
  /\ MayTrigger /\ triggered < MaxRuns
  /\ triggered' = triggered + 1
  /\ clock' = clock + 1
  /\ runStart' = [runStart EXCEPT ![triggered'] = clock']
  /\ LET roots == {t \in Task : DependsOn(t) = {}}
     IN  /\ task' = [task EXCEPT ![triggered'] = [t \in Task |-> IF t \in roots THEN "running" ELSE @[t]]]
         /\ taskStart' = [taskStart EXCEPT ![triggered'] = [t \in Task |-> IF t \in roots THEN clock' ELSE @[t]]]
  /\ UNCHANGED result

\* Mutant: run_if is left at its default for every task.
AllSuccess(r, t) == Upstream(r, t) \subseteq {"success"}

\* run_if is ALL_DONE for the collectors and ALL_SUCCESS for the rest.
RunIf(r, t) == t \in Collectors \/ Upstream(r, t) \subseteq {"success"}

Ready(r, t) ==
  /\ InFlight(r) /\ task[r][t] = "pending"
  /\ Upstream(r, t) \subseteq Terminal

StartTask(r, t) ==
  /\ Ready(r, t) /\ RunIf(r, t)
  /\ task' = [task EXCEPT ![r][t] = "running"]
  /\ clock' = clock + 1
  /\ taskStart' = [taskStart EXCEPT ![r][t] = clock + 1]
  /\ UNCHANGED <<triggered, runStart, result>>

\* A task whose upstream failed does not start.
SkipTask(r, t) ==
  /\ Ready(r, t) /\ ~RunIf(r, t)
  /\ task' = [task EXCEPT ![r][t] = "skipped"]
  /\ UNCHANGED <<triggered, clock, runStart, result, taskStart>>

\* What is due starts before anything ends: the platform does not queue tasks.
EndTask(r, t, outcome) ==
  /\ InFlight(r) /\ task[r][t] = "running"
  /\ outcome = "failed" => t \in Fragile
  /\ \A u \in Task : ~Ready(r, u)
  /\ task' = [task EXCEPT ![r][t] = outcome]
  /\ UNCHANGED <<triggered, clock, runStart, result, taskStart>>

\* The tasks no other waits for; the platform judges a run by them.
Leaves == Task \ UNION {DependsOn(t) : t \in Task}

ResultOf(r) ==
  IF \A t \in Task : task[r][t] = "success" THEN "SUCCESS"
  ELSE IF \A t \in Leaves : task[r][t] = "success" THEN "SUCCESS_WITH_FAILURES"
  ELSE "FAILED"

\* Of an ended run, the listing is read for what has ended, not how.
AllEnded == [t \in Task |-> "ended"]

EndRun(r) ==
  /\ InFlight(r) /\ \A t \in Task : task[r][t] \in Terminal
  /\ result' = [result EXCEPT ![r] = ResultOf(r)]
  /\ task' = [task EXCEPT ![r] = AllEnded]
  /\ UNCHANGED <<triggered, clock, runStart, taskStart>>

\* timeout_seconds: what runs is stopped, what is pending does not start.
TimeOut(r) ==
  /\ InFlight(r) /\ \E t \in Task : task[r][t] = "running"
  /\ task' = [task EXCEPT ![r] = AllEnded]
  /\ result' = [result EXCEPT ![r] = "TIMEDOUT"]
  /\ UNCHANGED <<triggered, clock, runStart, taskStart>>

\* What the platform does by itself.
ScheduleStep(r) == EndRun(r) \/ \E t \in Task : StartTask(r, t) \/ SkipTask(r, t)

-----------------------------------------------------------------------------
JobTypeOK ==
  /\ triggered \in 0 .. MaxRuns /\ clock \in Nat
  /\ runStart \in [Run -> 0 .. clock]
  /\ result \in [Run -> {"NONE", "SUCCESS", "SUCCESS_WITH_FAILURES", "FAILED", "TIMEDOUT"}]
  /\ task \in [Run -> [Task -> {"pending", "running"} \cup Terminal]]
  /\ taskStart \in [Run -> [Task -> 0 .. clock]]

\* "Telemetry collection shall run whether the pipeline succeeded or failed": a
\* run that ended before its time out has run both collectors, and no model was
\* built before both ingests and all the models it reads were.
TelemetryWhateverHappened ==
  \A r \in Run :
    /\ result[r] \notin {"NONE", "TIMEDOUT"} => \A c \in Collectors : taskStart[r][c] > 0
    /\ \A t \in Dbt : \A d \in DependsOn(t) :
         taskStart[r][t] > 0 => task[r][d] \in {"success", "ended"} /\ taskStart[r][d] \in 1 .. taskStart[r][t]
=============================================================================
