--------------------- MODULE JobMetricsCollector_proofs ---------------------
(***************************************************************************)
(* Proofs about the daily job and the collector that is its last task, for *)
(* any number of runs, any fetch limit and any tasks that may fail: that a *)
(* run which ended has run its collectors, and that a run, its latency and *)
(* its tasks are each collected once and passed over only behind the fetch *)
(* limit.                                                                  *)
(*                                                                         *)
(* That a watermark loses nothing rests on the order of the starts: runs   *)
(* start one after the other, and when the collector runs, every task that *)
(* started before it, the other collector apart, has ended.                *)
(***************************************************************************)
EXTENDS JobMetricsCollector, NaturalExtremes, TLAPS

\* The life of a run: no task of it has moved before its trigger, all are ended
\* after it ended, and in between a task that moved has its upstream behind it.
Lifecycle ==
  \A r \in Run :
    /\ r > triggered => result[r] = "NONE" /\ runStart[r] = 0
    /\ r < triggered => result[r] # "NONE"
    /\ \A t \in Task :
         /\ r > triggered => task[r][t] = "pending"
         /\ result[r] # "NONE" <=> task[r][t] = "ended"
         /\ task[r][t] \in {"pending", "skipped"} => taskStart[r][t] = 0
         /\ task[r][t] \in {"running", "success", "failed"} => taskStart[r][t] > 0
         /\ task[r][t] # "pending" => \A d \in DependsOn(t) : task[r][d] \in Terminal
    /\ \A c \in Collectors : task[r][c] # "skipped"

\* One run at a time: the starts grow with the runs.
StartsInOrder ==
  \A q \in Run : q <= triggered =>
    /\ runStart[q] > 0
    /\ \A p \in Run : p < q => runStart[p] < runStart[q]

JobInv == JobTypeOK /\ Lifecycle /\ StartsInOrder /\ TelemetryWhateverHappened

\* A table of runs after n were triggered, of which those of E belong in it
\* (job_runs and job_sla): one row each, and none missed within the fetch limit.
RunsInTable(rows, E, n) ==
  /\ \A x \in rows : x.run \in E /\ x.run <= n /\ x.collectedIn <= n
  /\ \A x, y \in rows : x.run = y.run => x = y
  /\ \A q \in E : Missed(rows, q) => \E x \in rows : x.run = q

EndedRuns == {q \in Run : result[q] # "NONE"}
SuccessfulRuns == {q \in Run : result[q] = "SUCCESS"}

\* As TasksCollectedOnce, for tasks that share the start of a row too: a run
\* starts both ingests at once.
TasksInTable ==
  /\ \A x \in taskRuns :
       taskStart[x.run][x.key] > 0 /\ x.run <= triggered /\ x.collectedIn <= triggered
  /\ \A x, y \in taskRuns : x.run = y.run /\ x.key = y.key => x = y
  /\ \A q \in Run : \A t \in Task \ Collectors : \A x \in taskRuns :
       /\ taskStart[q][t] > 0
       /\ taskStart[q][t] <= taskStart[x.run][x.key]
       /\ x.collectedIn - q < FetchLimit
       => \E y \in taskRuns : y.run = q /\ y.key = t

TablesInv ==
  /\ TablesTypeOK
  /\ RunsInTable(jobRuns, EndedRuns, triggered)
  /\ RunsInTable(sla, SuccessfulRuns, triggered)
  /\ TasksInTable

CollectInv == JobInv /\ TablesInv

-----------------------------------------------------------------------------
\* What a step of the job leaves of the past: starts and results that are set
\* stay, a new start is later than all others, and only the run in flight ends.
JobAdvances ==
  /\ triggered <= triggered' /\ clock <= clock'
  /\ \A r \in Run :
       /\ r <= triggered => runStart'[r] = runStart[r]
       /\ result[r] # "NONE" => result'[r] = result[r]
       /\ result[r] = "NONE" /\ result'[r] # "NONE" => r = triggered'
       /\ \A t \in Task : \/ taskStart'[r][t] = taskStart[r][t]
                          \/ taskStart[r][t] = 0 /\ taskStart'[r][t] > clock

\* depends_on, read from the top: no task waits for a collector, only the ingests
\* wait for nothing, and the job's collector is behind all but the other one.
LEMMA Dependencies ==
  /\ \A t \in Task : DependsOn(t) \subseteq Task \ Collectors
  /\ \A t \in Task : DependsOn(t) = {} => t \notin Dbt \cup Collectors
  /\ "dbt_source_freshness" \in DependsOn("collect_job_metrics")
  /\ "dbt_test" \in DependsOn("dbt_source_freshness")
  /\ "dbt_run" \in DependsOn("dbt_test")
  /\ "dbt_snapshot" \in DependsOn("dbt_run")
  /\ "ingest_streaming" \in DependsOn("dbt_snapshot")
  /\ "ingest_customers" \in DependsOn("dbt_snapshot")
<1>1. ASSUME NEW t \in Task
      PROVE  DependsOn(t) \subseteq Task \ Collectors /\ (DependsOn(t) = {} => t \notin Dbt \cup Collectors)
  BY DEF DependsOn, Task, Collectors, Dbt
<1> QED BY <1>1 DEF DependsOn

\* The types of what one run and one task of it hold.
LEMMA JobFacts ==
  ASSUME JobTypeOK, NEW r \in Run, NEW t \in Task
  PROVE  /\ triggered \in Nat /\ clock \in Nat /\ r \in Nat \ {0}
         /\ runStart[r] \in Nat /\ runStart[r] <= clock
         /\ taskStart[r][t] \in Nat /\ taskStart[r][t] <= clock
         /\ task[r][t] \in {"pending", "running"} \cup Terminal
BY JobAssumption DEF JobTypeOK, Run

\* One task of the run in flight moves, its upstream being behind it: no task
\* that moved before waits for it, so what they rest on does not change.
LEMMA OneTaskMoves ==
  ASSUME JobInv, NEW r \in Run, NEW t \in Task, NEW s \in {"running", "success", "failed", "skipped"},
         NEW n \in Nat, InFlight(r), task[r][t] \in {"pending", "running"},
         task' = [task EXCEPT ![r][t] = s],
         taskStart' = [taskStart EXCEPT ![r][t] = n],
         clock' \in Nat, clock <= clock', n <= clock',
         UNCHANGED <<triggered, runStart, result>>,
         n = taskStart[r][t] \/ (taskStart[r][t] = 0 /\ n > clock),
         s = "skipped" => n = 0 /\ t \notin Collectors,
         s # "skipped" => n > 0,
         \A d \in DependsOn(t) : task[r][d] \in Terminal,
         t \in Dbt /\ n > 0 =>
           \A d \in DependsOn(t) : task[r][d] = "success" /\ taskStart[r][d] \in 1 .. n
  PROVE  JobInv' /\ JobAdvances
<1>1. /\ task \in [Run -> [Task -> {"pending", "running"} \cup Terminal]]
      /\ taskStart \in [Run -> [Task -> 0 .. clock]]
      /\ triggered' = triggered /\ runStart' = runStart /\ result' = result
  BY DEF JobInv, JobTypeOK
<1>2. /\ task'[r][t] = s /\ taskStart'[r][t] = n
      /\ \A q \in Run : \A u \in Task :
           q # r \/ u # t => task'[q][u] = task[q][u] /\ taskStart'[q][u] = taskStart[q][u]
  BY <1>1
<1>3. s \in {"pending", "running"} \cup Terminal /\ s # "ended" /\ s # "pending" /\ result[r] = "NONE"
      /\ r <= triggered /\ task[r][t] \notin Terminal
  BY DEF Terminal, InFlight
<1>4. JobTypeOK'
  <2>1. task' \in [Run -> [Task -> {"pending", "running"} \cup Terminal]]
    BY <1>1, <1>3
  <2>2. taskStart' \in [Run -> [Task -> 0 .. clock']]
    <3>1. taskStart \in [Run -> [Task -> 0 .. clock']]
      <4>1. \A q \in Run : \A u \in Task : taskStart[q][u] \in 0 .. clock'
        BY <1>1, JobFacts DEF JobInv
      <4> QED BY <1>1, <4>1
    <3>2. n \in 0 .. clock'
      OBVIOUS
    <3> QED BY <3>1, <3>2
  <2>3. runStart' \in [Run -> 0 .. clock']
    <3>1. \A q \in Run : runStart[q] \in 0 .. clock'
      <4> SUFFICES ASSUME NEW q \in Run PROVE runStart[q] \in 0 .. clock'
        OBVIOUS
      <4>1. runStart[q] \in 0 .. clock /\ clock \in Nat
        BY DEF JobInv, JobTypeOK
      <4> QED BY <4>1
    <3>2. runStart \in [Run -> 0 .. clock]
      BY DEF JobInv, JobTypeOK
    <3> QED BY <1>1, <3>1, <3>2
  <2> QED BY <1>1, <2>1, <2>2, <2>3 DEF JobInv, JobTypeOK
<1>5. Lifecycle'
  <2> SUFFICES ASSUME NEW q \in Run
               PROVE  /\ q > triggered => result[q] = "NONE" /\ runStart[q] = 0
                      /\ q < triggered => result[q] # "NONE"
                      /\ \A u \in Task :
                           /\ q > triggered => task'[q][u] = "pending"
                           /\ result[q] # "NONE" <=> task'[q][u] = "ended"
                           /\ task'[q][u] \in {"pending", "skipped"} => taskStart'[q][u] = 0
                           /\ task'[q][u] \in {"running", "success", "failed"} => taskStart'[q][u] > 0
                           /\ task'[q][u] # "pending" => \A d \in DependsOn(u) : task'[q][d] \in Terminal
                      /\ \A c \in Collectors : task'[q][c] # "skipped"
    BY <1>1 DEF Lifecycle
  <2>1. /\ q > triggered => result[q] = "NONE" /\ runStart[q] = 0
        /\ q < triggered => result[q] # "NONE"
    BY DEF JobInv, Lifecycle
  <2>2. ASSUME NEW u \in Task
        PROVE  /\ q > triggered => task'[q][u] = "pending"
               /\ result[q] # "NONE" <=> task'[q][u] = "ended"
               /\ task'[q][u] \in {"pending", "skipped"} => taskStart'[q][u] = 0
               /\ task'[q][u] \in {"running", "success", "failed"} => taskStart'[q][u] > 0
    <3>1. CASE q = r /\ u = t
      <4>1. triggered \in Nat /\ r \in Nat
        BY JobFacts DEF JobInv
      <4> QED BY <1>2, <1>3, <3>1, <4>1
    <3>2. CASE ~(q = r /\ u = t)
      <4>1. task'[q][u] = task[q][u] /\ taskStart'[q][u] = taskStart[q][u]
        BY <1>2, <3>2
      <4> QED BY <4>1 DEF JobInv, Lifecycle
    <3> QED BY <3>1, <3>2
  <2>3. ASSUME NEW u \in Task, task'[q][u] # "pending", NEW d \in DependsOn(u)
        PROVE  task'[q][d] \in Terminal
    <3>1. d \in Task
      BY Dependencies
    <3>2. task[q][d] \in Terminal
      <4>1. CASE q = r /\ u = t
        BY <4>1
      <4>2. CASE ~(q = r /\ u = t)
        BY <1>2, <2>3, <4>2 DEF JobInv, Lifecycle
      <4> QED BY <4>1, <4>2
    <3>3. ~(q = r /\ d = t)
      BY <1>3, <3>2
    <3> QED BY <1>2, <3>1, <3>2, <3>3
  <2>4. ASSUME NEW c \in Collectors
        PROVE  task'[q][c] # "skipped"
    <3>1. c \in Task
      BY DEF Task
    <3>2. CASE q = r /\ c = t
      BY <1>2, <3>2
    <3>3. CASE ~(q = r /\ c = t)
      BY <1>2, <3>1, <3>3 DEF JobInv, Lifecycle
    <3> QED BY <3>2, <3>3
  <2> QED BY <2>1, <2>2, <2>3, <2>4
<1>6. StartsInOrder'
  BY <1>1 DEF JobInv, StartsInOrder
<1>7. TelemetryWhateverHappened'
  <2>1. ASSUME NEW q \in Run, result[q] \notin {"NONE", "TIMEDOUT"}, NEW c \in Collectors
        PROVE  taskStart'[q][c] > 0
    <3>1. q # r /\ c \in Task
      BY <1>3, <2>1 DEF Task
    <3>2. taskStart'[q][c] = taskStart[q][c]
      BY <1>2, <3>1
    <3> QED BY <2>1, <3>2 DEF JobInv, TelemetryWhateverHappened
  <2>2. ASSUME NEW q \in Run, NEW u \in Dbt, NEW d \in DependsOn(u), taskStart'[q][u] > 0
        PROVE  task'[q][d] \in {"success", "ended"} /\ taskStart'[q][d] \in 1 .. taskStart'[q][u]
    <3>1. u \in Task /\ d \in Task
      BY Dependencies DEF Task
    <3>2. task[q][d] \in {"success", "ended"} /\ taskStart[q][d] \in 1 .. taskStart'[q][u]
      <4>1. CASE q = r /\ u = t
        BY <1>2, <2>2, <4>1
      <4>2. CASE ~(q = r /\ u = t)
        <5>1. taskStart'[q][u] = taskStart[q][u]
          BY <1>2, <3>1, <4>2
        <5> QED BY <2>2, <5>1 DEF JobInv, TelemetryWhateverHappened
      <4> QED BY <4>1, <4>2
    <3>3. ~(q = r /\ d = t)
      BY <3>2
    <3> QED BY <1>2, <3>1, <3>2, <3>3
  <2> QED BY <1>1, <2>1, <2>2 DEF TelemetryWhateverHappened
<1>8. JobAdvances
  <2>1. triggered <= triggered
    BY DEF JobInv, JobTypeOK
  <2>2. ASSUME NEW q \in Run, NEW u \in Task
        PROVE  \/ taskStart'[q][u] = taskStart[q][u]
               \/ taskStart[q][u] = 0 /\ taskStart'[q][u] > clock
    BY <1>2
  <2> QED BY <1>1, <2>1, <2>2 DEF JobAdvances
<1> QED BY <1>4, <1>5, <1>6, <1>7, <1>8 DEF JobInv

\* Writing back the start a task has changes nothing (SkipTask, EndTask).
LEMMA SameStart ==
  ASSUME JobTypeOK, NEW r \in Run, NEW t \in Task
  PROVE  taskStart = [taskStart EXCEPT ![r][t] = taskStart[r][t]]
BY DEF JobTypeOK

\* A task starts when its upstream is done, later than anything before it; a
\* model, only when all it reads succeeded (StartTask, RunIf).
LEMMA StartTaskKeeps ==
  ASSUME JobInv, NEW r \in Run, NEW t \in Task, StartTask(r, t)
  PROVE  JobInv' /\ JobAdvances
<1>1. /\ InFlight(r) /\ task[r][t] = "pending" /\ RunIf(r, t)
      /\ \A d \in DependsOn(t) : task[r][d] \in Terminal
      /\ task' = [task EXCEPT ![r][t] = "running"]
      /\ clock' = clock + 1 /\ taskStart' = [taskStart EXCEPT ![r][t] = clock + 1]
      /\ UNCHANGED <<triggered, runStart, result>>
  BY DEF StartTask, Ready, Upstream
<1>2. /\ clock \in Nat /\ taskStart[r][t] = 0
  BY <1>1, JobFacts DEF JobInv, Lifecycle
<1>3. ASSUME t \in Dbt, NEW d \in DependsOn(t)
      PROVE  task[r][d] = "success" /\ taskStart[r][d] \in 1 .. clock + 1
  <2>1. task[r][d] = "success" /\ d \in Task
    BY <1>1, <1>3, Dependencies DEF RunIf, Upstream, Dbt, Collectors
  <2>2. taskStart[r][d] > 0
    BY <2>1 DEF JobInv, Lifecycle
  <2>3. taskStart[r][d] \in Nat /\ taskStart[r][d] <= clock
    BY <2>1, JobFacts DEF JobInv
  <2> QED BY <1>2, <2>1, <2>2, <2>3
<1>4. clock' \in Nat /\ clock <= clock' /\ clock + 1 <= clock' /\ clock + 1 > clock /\ clock + 1 > 0
      /\ clock + 1 \in Nat
  BY <1>1, <1>2
<1> QED BY <1>1, <1>2, <1>3, <1>4, OneTaskMoves

\* A task is skipped before it ever started, and a collector never (SkipTask).
LEMMA SkipTaskKeeps ==
  ASSUME JobInv, NEW r \in Run, NEW t \in Task, SkipTask(r, t)
  PROVE  JobInv' /\ JobAdvances
<1>1. /\ InFlight(r) /\ task[r][t] = "pending" /\ t \notin Collectors
      /\ \A d \in DependsOn(t) : task[r][d] \in Terminal
      /\ task' = [task EXCEPT ![r][t] = "skipped"]
      /\ UNCHANGED <<triggered, clock, runStart, result, taskStart>>
  BY DEF SkipTask, Ready, Upstream, RunIf
<1>2. clock \in Nat /\ taskStart[r][t] = 0 /\ clock' = clock /\ 0 <= clock /\ clock <= clock
  BY <1>1, JobFacts DEF JobInv, Lifecycle
<1>3. PICK n \in Nat : n = taskStart[r][t] /\ n = 0
  BY <1>2
<1>4. taskStart' = [taskStart EXCEPT ![r][t] = n]
  BY <1>1, <1>3, SameStart DEF JobInv
<1>5. clock' \in Nat /\ clock <= clock' /\ n <= clock' /\ ~(n > 0)
  BY <1>2, <1>3
<1>6. "skipped" \in {"running", "success", "failed", "skipped"} /\ task[r][t] \in {"pending", "running"}
  BY <1>1
<1> QED BY <1>1, <1>3, <1>4, <1>5, <1>6, OneTaskMoves

\* A task that ends keeps its start, and what waits for it has not moved (EndTask).
LEMMA EndTaskKeeps ==
  ASSUME JobInv, NEW r \in Run, NEW t \in Task, NEW outcome \in {"success", "failed"},
         EndTask(r, t, outcome)
  PROVE  JobInv' /\ JobAdvances
<1> DEFINE n == taskStart[r][t]
<1>1. /\ InFlight(r) /\ task[r][t] = "running"
      /\ task' = [task EXCEPT ![r][t] = outcome]
      /\ UNCHANGED <<triggered, clock, runStart, result, taskStart>>
  BY DEF EndTask
<1>2. /\ n \in Nat /\ n > 0 /\ n <= clock' /\ clock' \in Nat /\ clock <= clock'
      /\ \A d \in DependsOn(t) : task[r][d] \in Terminal
  BY <1>1, JobFacts DEF JobInv, Lifecycle
<1>3. taskStart' = [taskStart EXCEPT ![r][t] = n]
  BY <1>1, SameStart DEF JobInv
<1>4. ASSUME t \in Dbt, NEW d \in DependsOn(t)
      PROVE  task[r][d] = "success" /\ taskStart[r][d] \in 1 .. n
  <2>1. task[r][d] \in {"success", "ended"} /\ taskStart[r][d] \in 1 .. n
    BY <1>2, <1>4 DEF JobInv, TelemetryWhateverHappened
  <2>2. task[r][d] # "ended" /\ d \in Task
    BY <1>1, Dependencies DEF JobInv, Lifecycle, InFlight
  <2> QED BY <2>1, <2>2
<1>5. n = taskStart[r][t]
  OBVIOUS
<1> HIDE DEF n
<1> QED BY <1>1, <1>2, <1>3, <1>4, <1>5, OneTaskMoves

\* A run that ends or is stopped has all its tasks ended, keeps their starts, and
\* leaves its result where none was (EndRun, TimeOut).
LEMMA RunEnds ==
  ASSUME JobInv, NEW r \in Run, InFlight(r),
         NEW s \in {"SUCCESS", "SUCCESS_WITH_FAILURES", "FAILED", "TIMEDOUT"},
         result' = [result EXCEPT ![r] = s],
         task' = [task EXCEPT ![r] = AllEnded],
         s # "TIMEDOUT" => \A t \in Task : task[r][t] \in Terminal,
         UNCHANGED <<triggered, clock, runStart, taskStart>>
  PROVE  JobInv' /\ JobAdvances
<1>1. /\ triggered' = triggered /\ clock' = clock /\ runStart' = runStart /\ taskStart' = taskStart
      /\ result[r] = "NONE" /\ r <= triggered
  BY DEF InFlight
<1>2. /\ result'[r] = s /\ \A t \in Task : task'[r][t] = "ended"
      /\ \A q \in Run : q # r => result'[q] = result[q] /\ task'[q] = task[q]
  BY DEF JobInv, JobTypeOK, AllEnded
<1>3. triggered \in Nat /\ clock \in Nat /\ \A q \in Run : q \in Nat
  BY JobAssumption DEF JobInv, JobTypeOK, Run
<1>4. r = triggered
  BY <1>1, <1>3 DEF JobInv, Lifecycle
<1>5. JobTypeOK'
  <2>1. AllEnded \in [Task -> {"pending", "running"} \cup Terminal]
    BY DEF AllEnded, Terminal
  <2>2. task' \in [Run -> [Task -> {"pending", "running"} \cup Terminal]]
    BY <2>1 DEF JobInv, JobTypeOK
  <2>3. result' \in [Run -> {"NONE", "SUCCESS", "SUCCESS_WITH_FAILURES", "FAILED", "TIMEDOUT"}]
    BY DEF JobInv, JobTypeOK
  <2> QED BY <1>1, <2>2, <2>3 DEF JobInv, JobTypeOK
<1>6. Lifecycle'
  <2> SUFFICES ASSUME NEW q \in Run
               PROVE  /\ q > triggered => result'[q] = "NONE" /\ runStart[q] = 0
                      /\ q < triggered => result'[q] # "NONE"
                      /\ \A t \in Task :
                           /\ q > triggered => task'[q][t] = "pending"
                           /\ result'[q] # "NONE" <=> task'[q][t] = "ended"
                           /\ task'[q][t] \in {"pending", "skipped"} => taskStart[q][t] = 0
                           /\ task'[q][t] \in {"running", "success", "failed"} => taskStart[q][t] > 0
                           /\ task'[q][t] # "pending" => \A d \in DependsOn(t) : task'[q][d] \in Terminal
                      /\ \A c \in Collectors : task'[q][c] # "skipped"
    BY <1>1 DEF Lifecycle
  <2>1. CASE q = r
    <3>1. \A t \in Task : \A d \in DependsOn(t) : task'[r][d] \in Terminal
      BY <1>2, Dependencies DEF Terminal
    <3>2. \A c \in Collectors : c \in Task
      BY DEF Task
    <3>3. s # "NONE" /\ ~(r > triggered) /\ ~(r < triggered)
      BY <1>3, <1>4
    <3> QED BY <1>2, <2>1, <3>1, <3>2, <3>3
  <2>2. CASE q # r
    BY <1>2, <2>2 DEF JobInv, Lifecycle
  <2> QED BY <2>1, <2>2
<1>7. StartsInOrder'
  BY <1>1 DEF JobInv, StartsInOrder
<1>8. TelemetryWhateverHappened'
  <2>1. ASSUME NEW q \in Run, result'[q] \notin {"NONE", "TIMEDOUT"}, NEW c \in Collectors
        PROVE  taskStart[q][c] > 0
    <3>1. CASE q = r
      <4>1. c \in Task
        BY DEF Task
      <4>2. task[r][c] \in Terminal
        BY <1>2, <2>1, <3>1, <4>1
      <4>3. task[r][c] \in {"success", "failed"}
        BY <1>1, <4>1, <4>2 DEF JobInv, Lifecycle, Terminal
      <4> QED BY <3>1, <4>1, <4>3 DEF JobInv, Lifecycle
    <3>2. CASE q # r
      BY <1>2, <2>1, <3>2 DEF JobInv, TelemetryWhateverHappened
    <3> QED BY <3>1, <3>2
  <2>2. ASSUME NEW q \in Run, NEW u \in Dbt, NEW d \in DependsOn(u), taskStart[q][u] > 0
        PROVE  task'[q][d] \in {"success", "ended"} /\ taskStart[q][d] \in 1 .. taskStart[q][u]
    <3>1. task[q][d] \in {"success", "ended"} /\ taskStart[q][d] \in 1 .. taskStart[q][u]
      BY <2>2 DEF JobInv, TelemetryWhateverHappened
    <3>2. u \in Task /\ d \in Task
      BY Dependencies DEF Task
    <3> QED BY <1>2, <3>1, <3>2
  <2> QED BY <1>1, <2>1, <2>2 DEF TelemetryWhateverHappened
<1>9. JobAdvances
  <2>1. triggered <= triggered /\ clock <= clock
    BY <1>3
  <2> QED BY <1>1, <1>2, <1>4, <2>1 DEF JobAdvances
<1> QED BY <1>5, <1>6, <1>7, <1>8, <1>9 DEF JobInv

\* The platform ends the run once every task of it has ended (EndRun, ResultOf).
LEMMA EndRunKeeps ==
  ASSUME JobInv, NEW r \in Run, EndRun(r)
  PROVE  JobInv' /\ JobAdvances
<1>1. ResultOf(r) \in {"SUCCESS", "SUCCESS_WITH_FAILURES", "FAILED", "TIMEDOUT"}
  BY DEF ResultOf
<1> QED BY <1>1, RunEnds DEF EndRun

\* The time out stops it whatever its tasks are at (TimeOut).
LEMMA TimeOutKeeps ==
  ASSUME JobInv, NEW r \in Run, TimeOut(r)
  PROVE  JobInv' /\ JobAdvances
BY RunEnds DEF TimeOut

\* A run is triggered when none is in flight: it is the next one, and starts later
\* than all before, with the ingests (Trigger).
LEMMA TriggerKeeps ==
  ASSUME JobInv, Trigger
  PROVE  JobInv' /\ JobAdvances
<1> DEFINE r == triggered + 1
           roots == {t \in Task : DependsOn(t) = {}}
<1>1. triggered \in Nat /\ clock \in Nat /\ r \in Run /\ \A q \in Run : q \in Nat \ {0}
  BY JobAssumption DEF JobInv, JobTypeOK, Run, Trigger
<1>2. /\ triggered' = r /\ clock' = clock + 1 /\ result' = result
      /\ runStart' = [runStart EXCEPT ![r] = clock + 1]
      /\ task' = [task EXCEPT ![r] = [t \in Task |-> IF t \in roots THEN "running" ELSE @[t]]]
      /\ taskStart' = [taskStart EXCEPT ![r] = [t \in Task |-> IF t \in roots THEN clock + 1 ELSE @[t]]]
  BY DEF Trigger
<1>3. \A q \in Run : q <= triggered => result[q] # "NONE"
  BY DEF Trigger, MayTrigger, InFlight
<1>4. /\ runStart \in [Run -> 0 .. clock]
      /\ task \in [Run -> [Task -> {"pending", "running"} \cup Terminal]]
      /\ taskStart \in [Run -> [Task -> 0 .. clock]]
  BY DEF JobInv, JobTypeOK
<1> HIDE DEF roots
<1>5. /\ runStart'[r] = clock + 1
      /\ \A t \in Task : task'[r][t] = (IF t \in roots THEN "running" ELSE task[r][t])
      /\ \A t \in Task : taskStart'[r][t] = (IF t \in roots THEN clock + 1 ELSE taskStart[r][t])
      /\ \A q \in Run : q # r => runStart'[q] = runStart[q] /\ task'[q] = task[q] /\ taskStart'[q] = taskStart[q]
  BY <1>1, <1>2, <1>4
<1>6. /\ result[r] = "NONE" /\ runStart[r] = 0
      /\ \A t \in Task : task[r][t] = "pending" /\ taskStart[r][t] = 0
  <2>1. r > triggered
    BY <1>1
  <2> QED BY <1>1, <2>1 DEF JobInv, Lifecycle
<1>7. /\ \A t \in Task : t \in roots => DependsOn(t) = {}
      /\ \A t \in roots : t \notin Dbt \cup Collectors
  BY Dependencies DEF roots
<1>8. JobTypeOK'
  <2>1. \A q \in Run : runStart[q] \in 0 .. clock + 1 /\ \A t \in Task : taskStart[q][t] \in 0 .. clock + 1
    <3> SUFFICES ASSUME NEW q \in Run, NEW t \in Task
                 PROVE  runStart[q] \in 0 .. clock + 1 /\ taskStart[q][t] \in 0 .. clock + 1
      BY DEF Task
    <3>1. runStart[q] \in 0 .. clock /\ taskStart[q][t] \in 0 .. clock
      BY <1>4
    <3> QED BY <1>1, <3>1
  <2>2. clock + 1 \in 0 .. clock + 1 /\ clock + 1 \in Nat
    BY <1>1
  <2>3. runStart' \in [Run -> 0 .. clock + 1]
    BY <1>2, <1>4, <2>1, <2>2
  <2>4. taskStart' \in [Run -> [Task -> 0 .. clock + 1]]
    <3>1. taskStart \in [Run -> [Task -> 0 .. clock + 1]]
      BY <1>4, <2>1
    <3>2. [t \in Task |-> IF t \in roots THEN clock + 1 ELSE taskStart[r][t]] \in [Task -> 0 .. clock + 1]
      BY <1>1, <2>1, <2>2
    <3>3. taskStart' = [taskStart EXCEPT ![r] = [t \in Task |-> IF t \in roots THEN clock + 1 ELSE taskStart[r][t]]]
      BY <1>2
    <3> QED BY <3>1, <3>2, <3>3
  <2>5. task' \in [Run -> [Task -> {"pending", "running"} \cup Terminal]]
    <3>1. [t \in Task |-> IF t \in roots THEN "running" ELSE task[r][t]]
            \in [Task -> {"pending", "running"} \cup Terminal]
      BY <1>1, <1>4
    <3>2. task' = [task EXCEPT ![r] = [t \in Task |-> IF t \in roots THEN "running" ELSE task[r][t]]]
      BY <1>2
    <3> QED BY <1>4, <3>1, <3>2
  <2>6. triggered' \in 0 .. MaxRuns
    BY <1>1, <1>2 DEF Run
  <2> QED BY <1>2, <2>2, <2>3, <2>4, <2>5, <2>6 DEF JobInv, JobTypeOK
<1>9. Lifecycle'
  <2> SUFFICES ASSUME NEW q \in Run
               PROVE  /\ q > triggered' => result'[q] = "NONE" /\ runStart'[q] = 0
                      /\ q < triggered' => result'[q] # "NONE"
                      /\ \A t \in Task :
                           /\ q > triggered' => task'[q][t] = "pending"
                           /\ result'[q] # "NONE" <=> task'[q][t] = "ended"
                           /\ task'[q][t] \in {"pending", "skipped"} => taskStart'[q][t] = 0
                           /\ task'[q][t] \in {"running", "success", "failed"} => taskStart'[q][t] > 0
                           /\ task'[q][t] # "pending" => \A d \in DependsOn(t) : task'[q][d] \in Terminal
                      /\ \A c \in Collectors : task'[q][c] # "skipped"
    BY DEF Lifecycle
  <2>1. CASE q = r
    <3>1. ~(r > r) /\ ~(r < r)
      BY <1>1
    <3>2. ASSUME NEW t \in Task
          PROVE  /\ task'[r][t] # "ended" /\ task'[r][t] # "skipped"
                 /\ task'[r][t] = "pending" => taskStart'[r][t] = 0
                 /\ task'[r][t] # "pending" => t \in roots /\ taskStart'[r][t] > 0
      BY <1>1, <1>5, <1>6
    <3>3. \A c \in Collectors : c \in Task
      BY DEF Task
    <3> QED BY <1>2, <1>6, <1>7, <2>1, <3>1, <3>2, <3>3
  <2>2. CASE q # r
    <3>1. (q > r => q > triggered) /\ (q < r => q <= triggered)
      BY <1>1
    <3> QED BY <1>2, <1>3, <1>5, <2>2, <3>1 DEF JobInv, Lifecycle
  <2> QED BY <2>1, <2>2
<1>10. StartsInOrder'
  <2> SUFFICES ASSUME NEW q \in Run, q <= r
               PROVE  /\ runStart'[q] > 0
                      /\ \A p \in Run : p < q => runStart'[p] < runStart'[q]
    BY <1>2 DEF StartsInOrder
  <2>1. CASE q = r
    <3>1. \A p \in Run : p < r => runStart'[p] < clock + 1
      <4> SUFFICES ASSUME NEW p \in Run, p < r PROVE runStart'[p] < clock + 1
        OBVIOUS
      <4>1. p # r /\ runStart[p] \in 0 .. clock
        BY <1>1, <1>4
      <4> QED BY <1>1, <1>5, <4>1
    <3> QED BY <1>1, <1>5, <2>1, <3>1
  <2>2. CASE q # r
    <3>1. q <= triggered /\ \A p \in Run : p < q => p # r
      BY <1>1, <2>2
    <3> QED BY <1>5, <2>2, <3>1 DEF JobInv, StartsInOrder
  <2> QED BY <2>1, <2>2
<1>11. TelemetryWhateverHappened'
  <2>1. ASSUME NEW q \in Run, result[q] \notin {"NONE", "TIMEDOUT"}, NEW c \in Collectors
        PROVE  taskStart'[q][c] > 0
    <3>1. q # r
      BY <1>6, <2>1
    <3> QED BY <1>5, <2>1, <3>1 DEF JobInv, TelemetryWhateverHappened
  <2>2. ASSUME NEW q \in Run, NEW u \in Dbt, NEW d \in DependsOn(u), taskStart'[q][u] > 0
        PROVE  task'[q][d] \in {"success", "ended"} /\ taskStart'[q][d] \in 1 .. taskStart'[q][u]
    <3>1. q # r
      <4>1. u \in Task /\ u \notin roots
        BY <1>7 DEF Task
      <4>2. taskStart'[r][u] = 0
        BY <1>5, <1>6, <4>1
      <4> QED BY <2>2, <4>2
    <3> QED BY <1>5, <2>2, <3>1 DEF JobInv, TelemetryWhateverHappened
  <2> QED BY <1>2, <2>1, <2>2 DEF TelemetryWhateverHappened
<1>12. JobAdvances
  <2>1. triggered <= r /\ clock <= clock + 1 /\ clock + 1 > clock /\ \A q \in Run : q <= triggered => q # r
    BY <1>1
  <2>2. ASSUME NEW q \in Run, NEW t \in Task
        PROVE  \/ taskStart'[q][t] = taskStart[q][t]
               \/ taskStart[q][t] = 0 /\ taskStart'[q][t] > clock
    BY <1>5, <1>6, <2>1
  <2> QED BY <1>2, <1>5, <2>1, <2>2 DEF JobAdvances
<1> QED BY <1>8, <1>9, <1>10, <1>11, <1>12 DEF JobInv

\* No step of the job, or of the collector within it, breaks the life of its runs.
LEMMA CollectorLeavesJob ==
  ASSUME JobInv, UNCHANGED jobVars
  PROVE  JobInv' /\ JobAdvances
<1>1. /\ triggered' = triggered /\ clock' = clock /\ runStart' = runStart
      /\ result' = result /\ task' = task /\ taskStart' = taskStart
  BY DEF jobVars
<1>2. triggered <= triggered /\ clock <= clock
  BY DEF JobInv, JobTypeOK
<1>3. JobAdvances
  BY <1>1, <1>2 DEF JobAdvances
<1>4. JobTypeOK' /\ StartsInOrder' /\ TelemetryWhateverHappened'
  BY <1>1 DEF JobInv, JobTypeOK, StartsInOrder, TelemetryWhateverHappened
<1>5. Lifecycle'
  BY <1>1 DEF JobInv, Lifecycle
<1> QED BY <1>3, <1>4, <1>5 DEF JobInv

-----------------------------------------------------------------------------
\* A watermark is the latest start among the rows of its table, 0 for an empty
\* one: there is one, since no start is later than the clock (Latest).
LEMMA LatestIsMark ==
  ASSUME NEW n \in Nat, NEW S \in SUBSET (0 .. n)
  PROVE  /\ Latest(S) \in S \cup {0} /\ Latest(S) \in Nat
         /\ \A m \in S : m <= Latest(S)
<1> DEFINE T == S \cup {0}
<1>1. T \in SUBSET (0 .. n) /\ T # {}
  OBVIOUS
<1>2. PICK x \in T : \A y \in T : y <= x
  <2> HIDE DEF T
  <2> QED BY <1>1, GreatestNatural
<1>3. Latest(S) \in T /\ \A m \in T : m <= Latest(S)
  BY <1>2 DEF Latest
<1>4. \A m \in T : m \in Nat
  BY <1>1
<1>5. Latest(S) \in Nat
  BY <1>3, <1>4
<1> QED BY <1>3, <1>5

\* While the collector of a run is at work, that run is the one in flight, and
\* every task that started, the collectors apart, has ended (DependsOn).
LEMMA CollectorIsBehindAll ==
  ASSUME JobInv, NEW c \in Run, Collecting(c)
  PROVE  /\ c = triggered /\ result[c] = "NONE"
         /\ \A q \in Run : \A t \in Task \ Collectors :
              q <= triggered => task[q][t] \in Terminal
<1>1. c <= triggered /\ result[c] = "NONE" /\ task[c]["collect_job_metrics"] = "running"
  BY DEF Collecting, InFlight
<1>2. triggered \in Nat /\ \A q \in Run : q \in Nat
  BY JobAssumption DEF JobInv, JobTypeOK, Run
<1>3. c = triggered
  BY <1>1, <1>2 DEF JobInv, Lifecycle
<1>4. \A t \in Task, d \in Task :
        task[c][t] # "pending" /\ d \in DependsOn(t) => task[c][d] \in Terminal
  BY DEF JobInv, Lifecycle
<1>5. \A d \in Task : task[c][d] \in Terminal => task[c][d] # "pending"
  BY DEF Terminal
<1>6. /\ "collect_job_metrics" \in Task /\ "dbt_source_freshness" \in Task /\ "dbt_test" \in Task
      /\ "dbt_run" \in Task /\ "dbt_snapshot" \in Task
      /\ "ingest_streaming" \in Task /\ "ingest_customers" \in Task
  BY DEF Task, Dbt, Collectors
<1>7. task[c]["dbt_source_freshness"] \in Terminal
  BY <1>1, <1>4, <1>6, Dependencies
<1>8. task[c]["dbt_test"] \in Terminal
  BY <1>4, <1>5, <1>6, <1>7, Dependencies
<1>9. task[c]["dbt_run"] \in Terminal
  BY <1>4, <1>5, <1>6, <1>8, Dependencies
<1>10. task[c]["dbt_snapshot"] \in Terminal
  BY <1>4, <1>5, <1>6, <1>9, Dependencies
<1>11. task[c]["ingest_streaming"] \in Terminal /\ task[c]["ingest_customers"] \in Terminal
  BY <1>4, <1>5, <1>6, <1>10, Dependencies
<1>12. \A t \in Task \ Collectors : task[c][t] \in Terminal
  BY <1>7, <1>8, <1>9, <1>10, <1>11 DEF Task, Dbt, Collectors
<1>13. ASSUME NEW q \in Run, NEW t \in Task \ Collectors, q <= triggered
       PROVE  task[q][t] \in Terminal
  <2>1. CASE q = c
    BY <1>12, <2>1
  <2>2. CASE q # c
    <3>1. q < triggered
      BY <1>2, <1>3, <1>13, <2>2
    <3>2. task[q][t] = "ended"
      BY <3>1 DEF JobInv, Lifecycle
    <3> QED BY <3>2 DEF Terminal
  <2> QED BY <2>1, <2>2
<1> QED BY <1>1, <1>3, <1>13

\* A run that ends later than a table was written is behind no row of it.
LEMMA RunsKept ==
  ASSUME NEW rows, NEW n \in Nat, NEW m \in Nat, n <= m,
         NEW E, NEW F, E \subseteq F, \A q \in F : q \in E \/ q = m,
         \A x \in rows : x.run \in Nat /\ x.collectedIn \in Nat,
         RunsInTable(rows, E, n)
  PROVE  RunsInTable(rows, F, m)
<1>1. \A x \in rows : x.run \in F /\ x.run <= m /\ x.collectedIn <= m
  BY DEF RunsInTable
<1>2. ASSUME NEW q \in F, Missed(rows, q)
      PROVE  \E x \in rows : x.run = q
  <2>1. PICK x \in rows : x.run > q
    BY <1>2 DEF Missed
  <2>2. q # m
    BY <1>1, <2>1
  <2>3. q \in E
    BY <2>2
  <2> QED BY <1>2, <2>3 DEF RunsInTable
<1> QED BY <1>1, <1>2 DEF RunsInTable

\* A collection appends the fetched runs that start after the watermark: none
\* that is in the table, and all that are behind a row it appends (NewRuns, NewSla).
LEMMA RunsAppended ==
  ASSUME JobInv, NEW c \in Run, c = triggered,
         NEW rows \in SUBSET [run : Run, collectedIn : Run],
         NEW E \in SUBSET Run, \A q \in E : q <= triggered,
         RunsInTable(rows, E, triggered),
         NEW new, new = {q \in Fetched : runStart[q] > Latest({runStart[x.run] : x \in rows}) /\ q \in E}
  PROVE  RunsInTable(rows \cup {[run |-> q, collectedIn |-> c] : q \in new}, E, triggered)
<1> DEFINE mark == Latest({runStart[x.run] : x \in rows})
           added == {[run |-> q, collectedIn |-> c] : q \in new}
<1>1. /\ triggered \in Nat /\ clock \in Nat /\ FetchLimit \in Nat
      /\ \A q \in Run : q \in Nat /\ runStart[q] \in 0 .. clock
  <2>1. triggered \in Nat /\ clock \in Nat /\ FetchLimit \in Nat
    BY JobAssumption, FetchAssumption DEF JobInv, JobTypeOK
  <2>2. \A q \in Run : q \in Nat
    BY JobAssumption DEF Run
  <2>3. \A q \in Run : runStart[q] \in 0 .. clock
    BY DEF JobInv, JobTypeOK
  <2> QED BY <2>1, <2>2, <2>3
<1>2. /\ mark \in {runStart[x.run] : x \in rows} \cup {0} /\ mark \in Nat
      /\ \A x \in rows : runStart[x.run] <= mark
  <2> DEFINE S == {runStart[x.run] : x \in rows}
  <2>1. S \in SUBSET (0 .. clock)
    BY <1>1
  <2>2. Latest(S) \in S \cup {0} /\ Latest(S) \in Nat /\ \A m \in S : m <= Latest(S)
    <3> HIDE DEF S
    <3> QED BY <1>1, <2>1, LatestIsMark
  <2> QED BY <2>2
<1>3. \A x \in rows : /\ x.run \in E /\ x.run \in Run /\ x.collectedIn \in Run
                      /\ x.run <= triggered /\ x.collectedIn <= triggered
  BY DEF RunsInTable
<1>4. \A q \in new : q \in E /\ runStart[q] > mark
  OBVIOUS
<1>5. \A x \in added : x.run \in new /\ x.collectedIn = c /\ x = [run |-> x.run, collectedIn |-> c]
  OBVIOUS
<1>6. \A q \in E : q > triggered - FetchLimit /\ runStart[q] > mark => q \in new
  BY DEF Fetched
<1>7. \A q \in new : [run |-> q, collectedIn |-> c] \in added /\ [run |-> q, collectedIn |-> c].run = q
  OBVIOUS
<1> HIDE DEF mark, added
<1>8. ASSUME NEW x \in rows \cup added
      PROVE  x.run \in E /\ x.run <= triggered /\ x.collectedIn <= triggered
  <2>1. CASE x \in rows
    BY <1>3, <2>1
  <2>2. CASE x \in added
    <3>1. x.run \in E /\ x.collectedIn = triggered
      BY <1>4, <1>5, <2>2
    <3> QED BY <1>1, <3>1
  <2> QED BY <2>1, <2>2
<1>9. ASSUME NEW x \in rows, NEW y \in added
      PROVE  x.run # y.run
  <2>1. runStart[x.run] <= mark /\ runStart[x.run] \in Nat
    BY <1>1, <1>2, <1>3
  <2>2. runStart[y.run] > mark
    BY <1>4, <1>5
  <2> QED BY <1>2, <2>1, <2>2
<1>10. ASSUME NEW x \in rows \cup added, NEW y \in rows \cup added, x.run = y.run
      PROVE  x = y
  <2>1. CASE x \in rows /\ y \in rows
    BY <1>10, <2>1 DEF RunsInTable
  <2>2. CASE x \in added /\ y \in added
    BY <1>5, <1>10, <2>2
  <2>3. CASE (x \in rows /\ y \in added) \/ (x \in added /\ y \in rows)
    BY <1>9, <1>10, <2>3
  <2> QED BY <2>1, <2>2, <2>3
<1>11. ASSUME NEW q \in E, Missed(rows \cup added, q)
       PROVE  \E x \in rows \cup added : x.run = q
  <2>0. q \in Nat /\ q <= triggered /\ q \in Run
    BY <1>1
  <2>1. CASE Missed(rows, q)
    BY <2>1 DEF RunsInTable
  <2>2. CASE ~Missed(rows, q)
    <3>1. PICK x \in added : x.run > q /\ x.collectedIn - q < FetchLimit
      BY <1>11, <2>2 DEF Missed
    <3>2. triggered - q < FetchLimit
      BY <1>5, <3>1
    <3>3. q > triggered - FetchLimit
      BY <1>1, <2>0, <3>2
    <3>4. CASE runStart[q] > mark
      <4>1. q \in new
        BY <1>6, <3>3, <3>4
      <4> QED BY <1>7, <4>1
    <3>5. CASE ~(runStart[q] > mark)
      <4>1. runStart[q] > 0 /\ runStart[q] \in Nat
        BY <1>1, <2>0 DEF JobInv, StartsInOrder
      <4>2. PICK y \in rows : mark = runStart[y.run]
        BY <1>2, <3>5, <4>1
      <4>3. y.run \in Run /\ y.run \in Nat /\ y.run <= triggered
            /\ y.collectedIn \in Nat /\ y.collectedIn <= triggered
        BY <1>1, <1>3
      <4>4. ~(y.run < q)
        <5>1. y.run < q => runStart[y.run] < runStart[q]
          BY <2>0, <4>3 DEF JobInv, StartsInOrder
        <5> QED BY <1>2, <3>5, <4>1, <4>2, <5>1
      <4>5. CASE y.run = q
        BY <4>5
      <4>6. CASE y.run > q
        <5>1. y.collectedIn - q < FetchLimit
          BY <1>1, <2>0, <3>2, <4>3
        <5> QED BY <2>2, <4>6, <5>1 DEF Missed
      <4>7. y.run = q \/ y.run > q
        BY <2>0, <4>3, <4>4
      <4> QED BY <4>5, <4>6, <4>7
    <3> QED BY <3>4, <3>5
  <2> QED BY <2>1, <2>2
<1>12. RunsInTable(rows \cup added, E, triggered)
  BY <1>8, <1>10, <1>11 DEF RunsInTable
<1> QED BY <1>12 DEF added

\* The rows of tasks stay right while the job goes on: a start that was collected
\* stays, and one that is set now is later than the start of every row.
LEMMA TasksKept ==
  ASSUME JobInv, JobInv', JobAdvances, TablesTypeOK, TasksInTable, taskRuns' = taskRuns
  PROVE  TasksInTable'
<1>1. /\ triggered \in Nat /\ triggered' \in Nat /\ clock \in Nat /\ triggered <= triggered'
      /\ \A q \in Run : q \in Nat
  BY JobAssumption DEF JobInv, JobTypeOK, JobAdvances, Run
<1>2. \A q \in Run : \A t \in Task :
        /\ taskStart[q][t] \in Nat /\ taskStart[q][t] <= clock
        /\ taskStart'[q][t] = taskStart[q][t] \/ (taskStart[q][t] = 0 /\ taskStart'[q][t] > clock)
  <2>1. \A q \in Run : \A t \in Task : taskStart[q][t] \in Nat /\ taskStart[q][t] <= clock
    BY JobFacts DEF JobInv
  <2> QED BY <2>1 DEF JobAdvances
<1>3. \A x \in taskRuns : x.run \in Run /\ x.key \in Task /\ x.collectedIn \in Run
  BY DEF TablesTypeOK
<1>4. \A x \in taskRuns : /\ taskStart'[x.run][x.key] = taskStart[x.run][x.key]
                          /\ taskStart[x.run][x.key] > 0 /\ taskStart[x.run][x.key] \in Nat
                          /\ taskStart[x.run][x.key] <= clock
  <2> SUFFICES ASSUME NEW x \in taskRuns
               PROVE  /\ taskStart'[x.run][x.key] = taskStart[x.run][x.key]
                      /\ taskStart[x.run][x.key] > 0 /\ taskStart[x.run][x.key] \in Nat
                      /\ taskStart[x.run][x.key] <= clock
    OBVIOUS
  <2>1. taskStart[x.run][x.key] > 0
    BY DEF TasksInTable
  <2> QED BY <1>2, <1>3, <2>1
<1>5. ASSUME NEW x \in taskRuns
      PROVE  taskStart'[x.run][x.key] > 0 /\ x.run <= triggered' /\ x.collectedIn <= triggered'
  <2>1. x.run <= triggered /\ x.collectedIn <= triggered
    BY DEF TasksInTable
  <2> QED BY <1>1, <1>3, <1>4, <2>1
<1>6. ASSUME NEW q \in Run, NEW t \in Task \ Collectors, NEW x \in taskRuns,
             taskStart'[q][t] > 0, taskStart'[q][t] <= taskStart'[x.run][x.key],
             x.collectedIn - q < FetchLimit
      PROVE  \E y \in taskRuns : y.run = q /\ y.key = t
  <2>1. taskStart'[q][t] <= taskStart[x.run][x.key] /\ taskStart[x.run][x.key] \in Nat /\ taskStart[x.run][x.key] <= clock
    BY <1>4, <1>6
  <2>2. taskStart'[q][t] \in Nat
    BY JobInv', JobAssumption DEF JobInv, JobTypeOK, Run
  <2>3. ~(taskStart'[q][t] > clock)
    BY <1>1, <2>1, <2>2
  <2>4. taskStart'[q][t] = taskStart[q][t]
    BY <1>2, <2>3
  <2> QED BY <1>6, <2>1, <2>4 DEF TasksInTable
<1>7. \A x, y \in taskRuns : x.run = y.run /\ x.key = y.key => x = y
  BY DEF TasksInTable
<1> QED BY <1>5, <1>6, <1>7 DEF TasksInTable

\* A collection appends the tasks that ended and start after the watermark: none
\* that is in the table, and none that started is left behind a row it appends,
\* the collectors apart, since all of them have ended (NewTasks).
LEMMA TasksAppended ==
  ASSUME JobInv, TablesTypeOK, TasksInTable, NEW c \in Run, Collecting(c), UNCHANGED jobVars,
         taskRuns' = taskRuns \cup {[run |-> k[1], key |-> k[2], collectedIn |-> c] : k \in NewTasks}
  PROVE  TasksInTable'
<1> DEFINE added == {[run |-> k[1], key |-> k[2], collectedIn |-> c] : k \in NewTasks}
           starts == {taskStart[x.run][x.key] : x \in taskRuns}
<1>1. /\ triggered \in Nat /\ clock \in Nat /\ FetchLimit \in Nat
      /\ \A q \in Run : q \in Nat
  BY JobAssumption, FetchAssumption DEF JobInv, JobTypeOK, Run
<1>2. \A q \in Run : \A t \in Task : taskStart[q][t] \in Nat /\ taskStart[q][t] <= clock
  BY JobFacts DEF JobInv
<1>3. \A x \in taskRuns : x.run \in Run /\ x.key \in Task /\ x.collectedIn \in Run
  BY DEF TablesTypeOK
<1>4. /\ TaskMark \in starts \cup {0} /\ TaskMark \in Nat
      /\ \A n \in starts : n <= TaskMark
  <2>1. starts \in SUBSET (0 .. clock)
    BY <1>1, <1>2, <1>3
  <2>2. TaskMark = Latest(starts)
    BY DEF TaskMark
  <2> HIDE DEF starts
  <2> QED BY <1>1, <2>1, <2>2, LatestIsMark
<1>5. c = triggered /\ triggered' = triggered /\ taskStart' = taskStart
  BY CollectorIsBehindAll DEF jobVars
<1>6. \A k \in NewTasks : /\ k[1] \in Run /\ k[1] <= triggered /\ k[2] \in Task
                          /\ taskStart[k[1]][k[2]] > TaskMark
  BY DEF NewTasks, Fetched
<1>7. \A x \in added : /\ x.run \in Run /\ x.run <= triggered /\ x.key \in Task
                       /\ taskStart[x.run][x.key] > TaskMark /\ x.collectedIn = c
                       /\ x = [run |-> x.run, key |-> x.key, collectedIn |-> c]
  <2> HIDE DEF NewTasks
  <2> QED BY <1>6
<1>8. \A q \in Fetched : \A t \in Task :
        taskStart[q][t] > TaskMark /\ task[q][t] \in Terminal
        => [run |-> q, key |-> t, collectedIn |-> c] \in added
  <2> SUFFICES ASSUME NEW q \in Fetched, NEW t \in Task,
                      taskStart[q][t] > TaskMark, task[q][t] \in Terminal
               PROVE  [run |-> q, key |-> t, collectedIn |-> c] \in added
    OBVIOUS
  <2>1. <<q, t>> \in NewTasks
    BY DEF NewTasks
  <2>2. [run |-> q, key |-> t, collectedIn |-> c] = [run |-> <<q, t>>[1], key |-> <<q, t>>[2], collectedIn |-> c]
    OBVIOUS
  <2> QED BY <2>1, <2>2
<1>9. \A x \in taskRuns : taskStart[x.run][x.key] <= TaskMark
  BY <1>4
<1>10. taskRuns' = taskRuns \cup added
  OBVIOUS
<1> HIDE DEF added
<1>11. ASSUME NEW x \in taskRuns \cup added
       PROVE  taskStart[x.run][x.key] > 0 /\ x.run <= triggered /\ x.collectedIn <= triggered
  <2>1. CASE x \in taskRuns
    BY <2>1 DEF TasksInTable
  <2>2. CASE x \in added
    <3>1. x.run \in Run /\ x.run <= triggered /\ x.key \in Task
          /\ taskStart[x.run][x.key] > TaskMark /\ x.collectedIn = triggered
      BY <1>5, <1>7, <2>2
    <3>2. taskStart[x.run][x.key] \in Nat
      BY <1>2, <3>1
    <3> QED BY <1>1, <1>4, <3>1, <3>2
  <2> QED BY <2>1, <2>2
<1>12. ASSUME NEW x \in taskRuns, NEW y \in added
       PROVE  ~(x.run = y.run /\ x.key = y.key)
  <2>1. taskStart[x.run][x.key] <= TaskMark /\ taskStart[x.run][x.key] \in Nat
    BY <1>2, <1>3, <1>9
  <2>2. taskStart[y.run][y.key] > TaskMark
    BY <1>7
  <2>3. taskStart[x.run][x.key] # taskStart[y.run][y.key]
    BY <1>4, <2>1, <2>2
  <2> QED BY <2>3
<1>13. ASSUME NEW x \in taskRuns \cup added, NEW y \in taskRuns \cup added, x.run = y.run, x.key = y.key
       PROVE  x = y
  <2>1. CASE x \in taskRuns /\ y \in taskRuns
    BY <1>13, <2>1 DEF TasksInTable
  <2>2. CASE x \in added /\ y \in added
    BY <1>7, <1>13, <2>2
  <2>3. CASE (x \in taskRuns /\ y \in added) \/ (x \in added /\ y \in taskRuns)
    BY <1>12, <1>13, <2>3
  <2> QED BY <2>1, <2>2, <2>3
<1>14. ASSUME NEW q \in Run, NEW t \in Task \ Collectors, NEW x \in taskRuns \cup added,
              taskStart[q][t] > 0, taskStart[q][t] <= taskStart[x.run][x.key],
              x.collectedIn - q < FetchLimit
       PROVE  \E y \in taskRuns \cup added : y.run = q /\ y.key = t
  <2>1. CASE x \in taskRuns
    BY <1>14, <2>1 DEF TasksInTable
  <2>2. CASE x \in added
    <3>1. q <= triggered
      <4>1. task[q][t] = "pending" => taskStart[q][t] = 0
        BY DEF JobInv, Lifecycle
      <4>2. task[q][t] # "pending"
        BY <1>14, <4>1
      <4>3. ~(q > triggered)
        BY <4>2 DEF JobInv, Lifecycle
      <4> QED BY <1>1, <4>3
    <3>2. triggered - q < FetchLimit
      BY <1>5, <1>7, <1>14, <2>2
    <3>3. q \in Fetched
      BY <1>1, <3>1, <3>2 DEF Fetched
    <3>4. task[q][t] \in Terminal
      BY <3>1, CollectorIsBehindAll
    <3>5. CASE taskStart[q][t] > TaskMark
      <4>1. [run |-> q, key |-> t, collectedIn |-> c] \in added
        BY <1>8, <3>3, <3>4, <3>5
      <4>2. [run |-> q, key |-> t, collectedIn |-> c].run = q /\ [run |-> q, key |-> t, collectedIn |-> c].key = t
        OBVIOUS
      <4> QED BY <4>1, <4>2
    <3>6. CASE ~(taskStart[q][t] > TaskMark)
      <4>1. taskStart[q][t] \in Nat
        BY <1>2
      <4>2. TaskMark > 0 /\ taskStart[q][t] <= TaskMark
        BY <1>4, <1>14, <3>6, <4>1
      <4>3. TaskMark \in starts
        BY <1>4, <4>2
      <4>4. PICK y \in taskRuns : TaskMark = taskStart[y.run][y.key]
        BY <4>3
      <4>5. y.collectedIn <= triggered /\ y.collectedIn \in Nat
        BY <1>1, <1>3 DEF TasksInTable
      <4>6. y.collectedIn - q < FetchLimit
        BY <1>1, <3>2, <4>5
      <4>7. \E z \in taskRuns : z.run = q /\ z.key = t
        BY <1>14, <4>2, <4>4, <4>6 DEF TasksInTable
      <4> QED BY <4>7
    <3> QED BY <3>5, <3>6
  <2> QED BY <2>1, <2>2
<1> QED BY <1>5, <1>10, <1>11, <1>13, <1>14 DEF TasksInTable

-----------------------------------------------------------------------------
\* Whatever the job does, a step that writes no table leaves the tables right:
\* of the runs, only the one in flight ends (EndRun, TimeOut).
LEMMA TablesKept ==
  ASSUME CollectInv, JobInv', JobAdvances, UNCHANGED <<jobRuns, taskRuns, sla>>, nextTable' \in 1 .. 4
  PROVE  TablesInv'
<1>1. /\ triggered \in Nat /\ triggered' \in Nat /\ triggered <= triggered'
      /\ \A q \in Run : q \in Nat
  BY JobAssumption DEF CollectInv, JobInv, JobTypeOK, JobAdvances, Run
<1>2. jobRuns' = jobRuns /\ taskRuns' = taskRuns /\ sla' = sla
  OBVIOUS
<1>3. TablesTypeOK'
  BY <1>2 DEF CollectInv, TablesInv, TablesTypeOK, JobInv
<1>4. /\ \A x \in jobRuns : x.run \in Nat /\ x.collectedIn \in Nat
      /\ \A x \in sla : x.run \in Nat /\ x.collectedIn \in Nat
  BY <1>1 DEF CollectInv, TablesInv, TablesTypeOK
<1>5. \A q \in Run : /\ result[q] # "NONE" => result'[q] = result[q]
                     /\ result[q] = "NONE" /\ result'[q] # "NONE" => q = triggered'
  BY DEF JobAdvances
<1>6. RunsInTable(jobRuns, EndedRuns', triggered')
  <2>1. EndedRuns \subseteq EndedRuns' /\ \A q \in EndedRuns' : q \in EndedRuns \/ q = triggered'
    BY <1>5 DEF EndedRuns
  <2>2. RunsInTable(jobRuns, EndedRuns, triggered)
    BY DEF CollectInv, TablesInv
  <2> QED BY <1>1, <1>4, <2>1, <2>2, RunsKept
<1>7. RunsInTable(sla, SuccessfulRuns', triggered')
  <2>1. SuccessfulRuns \subseteq SuccessfulRuns'
    BY <1>5 DEF SuccessfulRuns
  <2>2. \A q \in SuccessfulRuns' : q \in SuccessfulRuns \/ q = triggered'
    BY <1>5 DEF SuccessfulRuns
  <2>3. RunsInTable(sla, SuccessfulRuns, triggered)
    BY DEF CollectInv, TablesInv
  <2> QED BY <1>1, <1>4, <2>1, <2>2, <2>3, RunsKept
<1>8. TasksInTable'
  BY <1>2, TasksKept DEF CollectInv, TablesInv
<1> QED BY <1>2, <1>3, <1>6, <1>7, <1>8 DEF TablesInv

\* One collection of the running collector (CollectTable).
LEMMA CollectTableKeeps ==
  ASSUME CollectInv, NEW c \in Run, CollectTable(c)
  PROVE  CollectInv'
<1>1. JobInv' /\ JobAdvances
  BY CollectorLeavesJob DEF CollectInv, CollectTable
<1>2. /\ c = triggered /\ triggered' = triggered /\ result' = result
      /\ EndedRuns' = EndedRuns /\ SuccessfulRuns' = SuccessfulRuns
  BY CollectorIsBehindAll DEF CollectInv, CollectTable, jobVars, EndedRuns, SuccessfulRuns
<1>3. /\ EndedRuns \in SUBSET Run /\ \A q \in EndedRuns : q <= triggered
      /\ SuccessfulRuns \in SUBSET Run /\ \A q \in SuccessfulRuns : q <= triggered
  <2>1. ASSUME NEW q \in Run, result[q] # "NONE"
        PROVE  q <= triggered
    <3>1. ~(q > triggered)
      BY <2>1 DEF CollectInv, JobInv, Lifecycle
    <3>2. q \in Nat /\ triggered \in Nat
      BY JobAssumption DEF CollectInv, JobInv, JobTypeOK, Run
    <3> QED BY <3>1, <3>2
  <2> QED BY <2>1 DEF EndedRuns, SuccessfulRuns
<1>4. /\ jobRuns \in SUBSET [run : Run, collectedIn : Run]
      /\ taskRuns \in SUBSET [run : Run, key : Task, collectedIn : Run]
      /\ sla \in SUBSET [run : Run, collectedIn : Run]
      /\ nextTable \in 1 .. 3 /\ nextTable' \in 1 .. 4
  BY DEF CollectInv, TablesInv, TablesTypeOK, CollectTable
<1>5. RunsInTable(jobRuns', EndedRuns, triggered) /\ jobRuns' \in SUBSET [run : Run, collectedIn : Run]
  <2>1. RunsInTable(jobRuns, EndedRuns, triggered)
    BY DEF CollectInv, TablesInv
  <2>2. CASE nextTable # 1
    BY <1>4, <2>1, <2>2 DEF CollectTable
  <2>3. CASE nextTable = 1
    <3>1. jobRuns' = jobRuns \cup {[run |-> q, collectedIn |-> c] : q \in NewRuns}
      BY <2>3 DEF CollectTable
    <3>2. NewRuns = {q \in Fetched : runStart[q] > Latest({runStart[x.run] : x \in jobRuns}) /\ q \in EndedRuns}
      BY DEF NewRuns, RunMark, EndedRuns, Fetched
    <3>3. RunsInTable(jobRuns \cup {[run |-> q, collectedIn |-> c] : q \in NewRuns}, EndedRuns, triggered)
      BY <1>2, <1>3, <1>4, <2>1, <3>2, RunsAppended DEF CollectInv
    <3>4. NewRuns \subseteq Run
      BY DEF NewRuns, Fetched
    <3> QED BY <1>4, <3>1, <3>3, <3>4
  <2> QED BY <2>2, <2>3
<1>6. RunsInTable(sla', SuccessfulRuns, triggered) /\ sla' \in SUBSET [run : Run, collectedIn : Run]
  <2>1. RunsInTable(sla, SuccessfulRuns, triggered)
    BY DEF CollectInv, TablesInv
  <2>2. CASE nextTable # 3
    BY <1>4, <2>1, <2>2 DEF CollectTable
  <2>3. CASE nextTable = 3
    <3>1. sla' = sla \cup {[run |-> q, collectedIn |-> c] : q \in NewSla}
      BY <2>3 DEF CollectTable
    <3>2. NewSla = {q \in Fetched : runStart[q] > Latest({runStart[x.run] : x \in sla}) /\ q \in SuccessfulRuns}
      BY DEF NewSla, SlaMark, SuccessfulRuns, Fetched
    <3>3. RunsInTable(sla \cup {[run |-> q, collectedIn |-> c] : q \in NewSla}, SuccessfulRuns, triggered)
      BY <1>2, <1>3, <1>4, <2>1, <3>2, RunsAppended DEF CollectInv
    <3>4. NewSla \subseteq Run
      BY DEF NewSla, Fetched
    <3> QED BY <1>4, <3>1, <3>3, <3>4
  <2> QED BY <2>2, <2>3
<1>7. TasksInTable' /\ taskRuns' \in SUBSET [run : Run, key : Task, collectedIn : Run]
  <2>1. CASE nextTable # 2
    <3>1. taskRuns' = taskRuns
      BY <2>1 DEF CollectTable
    <3>2. TasksInTable'
      BY <1>1, <3>1, TasksKept DEF CollectInv, TablesInv
    <3> QED BY <1>4, <3>1, <3>2
  <2>2. CASE nextTable = 2
    <3>1. taskRuns' = taskRuns \cup {[run |-> k[1], key |-> k[2], collectedIn |-> c] : k \in NewTasks}
      BY <2>2 DEF CollectTable
    <3>2. TasksInTable'
      BY <3>1, TasksAppended DEF CollectInv, TablesInv, CollectTable
    <3>3. \A k \in NewTasks : k[1] \in Run /\ k[2] \in Task
      BY DEF NewTasks, Fetched
    <3> QED BY <1>4, <3>1, <3>2, <3>3
  <2> QED BY <2>1, <2>2
<1>8. TablesTypeOK'
  BY <1>1, <1>4, <1>5, <1>6, <1>7 DEF TablesTypeOK, JobInv
<1>9. RunsInTable(jobRuns', EndedRuns', triggered') /\ RunsInTable(sla', SuccessfulRuns', triggered')
  BY <1>2, <1>5, <1>6
<1> QED BY <1>1, <1>7, <1>8, <1>9 DEF CollectInv, TablesInv

\* The job and the collector start with nothing run and nothing collected.
LEMMA CollectInvInit == Init => CollectInv
<1> SUFFICES ASSUME Init PROVE CollectInv
  OBVIOUS
<1>1. /\ triggered = 0 /\ clock = 0
      /\ runStart = [r \in Run |-> 0]
      /\ result = [r \in Run |-> "NONE"]
      /\ task = [r \in Run |-> [t \in Task |-> "pending"]]
      /\ taskStart = [r \in Run |-> [t \in Task |-> 0]]
      /\ jobRuns = {} /\ taskRuns = {} /\ sla = {} /\ nextTable = 1
  BY DEF Init, JobInit
<1>2. \A r \in Run : r \in Nat /\ r > 0
  BY JobAssumption DEF Run
<1>3. JobTypeOK
  <2>1. triggered \in 0 .. MaxRuns /\ clock \in Nat /\ 0 \in 0 .. clock
    BY <1>1, JobAssumption
  <2> QED BY <1>1, <2>1 DEF JobTypeOK
<1>4. \A r \in Run : result[r] = "NONE" /\ runStart[r] = 0
                     /\ \A t \in Task : task[r][t] = "pending" /\ taskStart[r][t] = 0
  BY <1>1
<1>5. Lifecycle
  <2>1. \A r \in Run : ~(r < triggered)
    BY <1>1, <1>2
  <2>2. Collectors \subseteq Task
    BY DEF Task
  <2> QED BY <1>4, <2>1, <2>2 DEF Lifecycle
<1>6. StartsInOrder
  <2>1. \A q \in Run : ~(q <= triggered)
    BY <1>1, <1>2
  <2> QED BY <2>1 DEF StartsInOrder
<1>7. TelemetryWhateverHappened
  <2>1. Dbt \subseteq Task
    BY DEF Task
  <2>2. \A r \in Run : \A t \in Dbt : ~(taskStart[r][t] > 0)
    BY <1>4, <2>1
  <2> QED BY <1>4, <2>2 DEF TelemetryWhateverHappened
<1>8. EndedRuns = {} /\ SuccessfulRuns = {}
  BY <1>4 DEF EndedRuns, SuccessfulRuns
<1>9. RunsInTable(jobRuns, EndedRuns, triggered) /\ RunsInTable(sla, SuccessfulRuns, triggered)
  BY <1>1, <1>8 DEF RunsInTable
<1>10. TasksInTable /\ TablesTypeOK
  BY <1>1, <1>3 DEF TasksInTable, TablesTypeOK
<1> QED BY <1>3, <1>5, <1>6, <1>7, <1>9, <1>10 DEF CollectInv, JobInv, TablesInv

\* Every step, of the job or of the collector within it, keeps the life of the runs.
LEMMA JobStep == CollectInv /\ [Next]_vars => JobInv' /\ JobAdvances
<1> SUFFICES ASSUME CollectInv, [Next]_vars PROVE JobInv' /\ JobAdvances
  OBVIOUS
<1>1. JobInv
  BY DEF CollectInv
<1>2. CASE UNCHANGED jobVars
  BY <1>1, <1>2, CollectorLeavesJob
<1>3. CASE Trigger
  BY <1>1, <1>3, TriggerKeeps
<1>4. ASSUME NEW r \in Run, ScheduleStep(r)
      PROVE  JobInv' /\ JobAdvances
  BY <1>1, <1>4, EndRunKeeps, StartTaskKeeps, SkipTaskKeeps DEF ScheduleStep
<1>5. ASSUME NEW r \in Run, TimeOut(r)
      PROVE  JobInv' /\ JobAdvances
  BY <1>1, <1>5, TimeOutKeeps
<1>6. ASSUME NEW r \in Run, NEW t \in Task, NEW outcome \in {"success", "failed"}, EndTask(r, t, outcome)
      PROVE  JobInv' /\ JobAdvances
  BY <1>1, <1>6, EndTaskKeeps
<1>7. "collect_job_metrics" \in Task
  BY DEF Task, Collectors
<1> QED BY <1>2, <1>3, <1>4, <1>5, <1>6, <1>7
        DEF Next, vars, Schedule, StopRun, CollectTable, CollectError, EndCollector, EndOther

\* A step that collects nothing leaves the tables, and counts on from a table again.
LEMMA OtherStepsLeaveTables ==
  ASSUME [Next]_vars, nextTable \in 1 .. 4, \A r \in Run : ~CollectTable(r)
  PROVE  UNCHANGED <<jobRuns, taskRuns, sla>> /\ nextTable' \in 1 .. 4
BY DEF Next, vars, tableVars, Schedule, StopRun, CollectError, AfterError, EndCollector, EndOther

\* Every step of the job and of its collector keeps both right.
LEMMA CollectInvStep == CollectInv /\ [Next]_vars => CollectInv'
<1> SUFFICES ASSUME CollectInv, [Next]_vars PROVE CollectInv'
  OBVIOUS
<1>1. ASSUME NEW r \in Run, CollectTable(r)
      PROVE  CollectInv'
  BY <1>1, CollectTableKeeps
<1>2. CASE \A r \in Run : ~CollectTable(r)
  <2>1. nextTable \in 1 .. 4
    BY DEF CollectInv, TablesInv, TablesTypeOK
  <2>2. JobInv' /\ JobAdvances
    BY JobStep
  <2>3. TablesInv'
    BY <1>2, <2>1, <2>2, OtherStepsLeaveTables, TablesKept
  <2> QED BY <2>2, <2>3 DEF CollectInv
<1> QED BY <1>1, <1>2

LEMMA CollectInvariant == Spec => []CollectInv
BY CollectInvInit, CollectInvStep, PTL DEF Spec

-----------------------------------------------------------------------------
\* The listing of runs and the three tables have their types, the result_state and
\* the state of every task included, whatever fails or is stopped.
THEOREM TablesTyped == Spec => []TablesTypeOK
<1>1. CollectInv => TablesTypeOK
  BY DEF CollectInv, TablesInv
<1> QED BY <1>1, CollectInvariant, PTL

\* "Telemetry collection shall run whether the pipeline succeeded or failed", for
\* any tasks that fail and any number of runs: run_if ALL_DONE, and a platform that
\* starts what is due before a run ends.
THEOREM CollectorsAlwaysRun == Spec => []TelemetryWhateverHappened
<1>1. CollectInv => TelemetryWhateverHappened
  BY DEF CollectInv, JobInv
<1> QED BY <1>1, CollectInvariant, PTL

\* A run in flight has a task that runs or that is due, or is over: it ends, or its
\* tasks do, without waiting for anything outside it.
NothingStalls ==
  \A r \in Run : InFlight(r) =>
    \/ \A t \in Task : task[r][t] \in Terminal
    \/ \E t \in Task : task[r][t] = "running" \/ Ready(r, t)

\* No dependency of depends_on closes a circle, and no run_if leaves a task that is
\* neither started nor skipped: the daily job never deadlocks.
THEOREM JobNeverStalls == Spec => []NothingStalls
<1>1. JobTypeOK => NothingStalls
  <2> SUFFICES ASSUME JobTypeOK, NEW r \in Run, InFlight(r),
                      \A t \in Task : ~(task[r][t] = "running" \/ Ready(r, t))
               PROVE  \A t \in Task : task[r][t] \in Terminal
    BY DEF NothingStalls
  <2>1. ASSUME NEW t \in Task, \A d \in DependsOn(t) : task[r][d] \in Terminal
        PROVE  task[r][t] \in Terminal
    <3>1. Upstream(r, t) \subseteq Terminal
      BY <2>1 DEF Upstream
    <3>2. task[r][t] # "pending" /\ task[r][t] # "running"
      BY <3>1 DEF Ready
    <3> QED BY <3>2 DEF JobTypeOK
  <2>2. /\ "ingest_streaming" \in Task /\ "ingest_customers" \in Task /\ "collect_metrics" \in Task
        /\ "dbt_snapshot" \in Task /\ "dbt_run" \in Task /\ "dbt_test" \in Task
        /\ "dbt_source_freshness" \in Task /\ "collect_job_metrics" \in Task
    BY DEF Task, Dbt, Collectors
  <2>3. task[r]["ingest_streaming"] \in Terminal /\ task[r]["ingest_customers"] \in Terminal
    BY <2>1, <2>2 DEF DependsOn
  <2>4. task[r]["dbt_snapshot"] \in Terminal /\ task[r]["collect_metrics"] \in Terminal
    BY <2>1, <2>2, <2>3 DEF DependsOn
  <2>5. task[r]["dbt_run"] \in Terminal
    BY <2>1, <2>2, <2>4 DEF DependsOn
  <2>6. task[r]["dbt_test"] \in Terminal
    BY <2>1, <2>2, <2>5 DEF DependsOn
  <2>7. task[r]["dbt_source_freshness"] \in Terminal
    BY <2>1, <2>2, <2>6 DEF DependsOn
  <2>8. task[r]["collect_job_metrics"] \in Terminal
    BY <2>1, <2>2, <2>7 DEF DependsOn
  <2> QED BY <2>3, <2>4, <2>5, <2>6, <2>7, <2>8 DEF Task, Dbt, Collectors
<1>2. CollectInv => JobTypeOK
  BY DEF CollectInv, JobInv
<1> QED BY <1>1, <1>2, CollectInvariant, PTL

\* The past does not move under the watermarks: a start or a result once listed is
\* never changed, a new start is later than all before it, and no run but the last
\* one ends (max_concurrent_runs, one clock for the starts).
THEOREM HistoryStands == Spec => [][JobAdvances]_vars
<1>1. CollectInv /\ [Next]_vars => [JobAdvances]_vars
  BY JobStep
<1> QED BY <1>1, CollectInvariant, PTL DEF Spec

\* No run is collected twice, and none is lost behind a watermark but by the fetch
\* limit, although the table lags and an error gives up the tables that are left.
THEOREM EndedRunsCollected == Spec => []RunsCollectedOnce
<1>1. CollectInv => RunsCollectedOnce
  <2> SUFFICES ASSUME CollectInv PROVE RunsCollectedOnce
    OBVIOUS
  <2>1. /\ \A x, y \in jobRuns : x.run = y.run => x = y
        /\ \A x, y \in sla : x.run = y.run => x = y
    BY DEF CollectInv, TablesInv, RunsInTable
  <2>2. ASSUME NEW q \in Run
        PROVE  /\ result[q] # "NONE" /\ Missed(jobRuns, q) => \E x \in jobRuns : x.run = q
               /\ result[q] = "SUCCESS" /\ Missed(sla, q) => \E x \in sla : x.run = q
    BY DEF CollectInv, TablesInv, RunsInTable, EndedRuns, SuccessfulRuns
  <2> QED BY <2>1, <2>2 DEF RunsCollectedOnce
<1> QED BY <1>1, CollectInvariant, PTL

\* No task is collected twice, and none that started, the collectors apart, is lost
\* behind the watermark but by the fetch limit, although tasks are in flight, fail
\* or are stopped while a collection passes over them.
THEOREM StartedTasksCollected == Spec => []TasksCollectedOnce
<1>1. CollectInv => TasksCollectedOnce
  <2> SUFFICES ASSUME CollectInv PROVE TasksCollectedOnce
    OBVIOUS
  <2>1. \A x, y \in taskRuns : x.run = y.run /\ x.key = y.key => x = y
    BY DEF CollectInv, TablesInv, TasksInTable
  <2>2. ASSUME NEW q \in Run, NEW t \in Task \ Collectors, taskStart[q][t] > 0, TaskPassed(q, t)
        PROVE  \E x \in taskRuns : x.run = q /\ x.key = t
    <3>1. PICK x \in taskRuns : taskStart[x.run][x.key] > taskStart[q][t] /\ x.collectedIn - q < FetchLimit
      BY <2>2 DEF TaskPassed
    <3>2. x.run \in Run /\ x.key \in Task
      BY DEF CollectInv, TablesInv, TablesTypeOK
    <3>3. taskStart[q][t] \in Nat /\ taskStart[x.run][x.key] \in Nat
      BY <3>2, JobFacts DEF CollectInv, JobInv
    <3>4. taskStart[q][t] <= taskStart[x.run][x.key]
      BY <3>1, <3>3
    <3> QED BY <2>2, <3>1, <3>4 DEF CollectInv, TablesInv, TasksInTable
  <2> QED BY <2>1, <2>2 DEF TasksCollectedOnce
<1> QED BY <1>1, CollectInvariant, PTL

=============================================================================
