# FinGuard in TLA+

A TLA+ model of the FinGuard fraud-detection platform: card transactions flow
from Kafka through bronze, silver and gold Delta tables to alerts and mails. The
modules say what the streaming queries do to their tables, checkpoints and state
stores; TLC checks them on small instances, and TLAPS proves the safety invariants
the runs check for every value of the constants.

Paths below are relative to the repository.

## The system

| Component | State it keeps | Operations | What makes it correct |
|---|---|---|---|
| Producers (`src/producer/`) | none that survives | generate, validate, append to the topic | every record appended satisfies the contract |
| Kafka topic (external) | a log per partition, of which a suffix is retained | append, expire, delete and create again | |
| Bronze ingestion (`framework/readers.py`, `bronze_factory.py`, `config/sources/transactions.yaml`) | `bronze.transactions`, a checkpoint of offsets | capped micro-batch, refusal on lost offsets, reset, full refresh | no hole below the checkpoint; until the topic is recreated, every record lands, ages out, or is held up by a refusal |
| Silver transactions (`fingurad_silver.py`) | table, checkpoint, watermark, dedup state | micro-batch: late filter, dedup, drop rules; refresh | duplicates absorbed; losses explained |
| Transactions quarantine (`transactions_quarantine.py`) | table, checkpoint | micro-batch; refresh | together with silver accounts for every row |
| Silver customers, watchlist, merchants and their quarantines | tables, checkpoints; a dedup for merchants | micro-batch | the newest version wins; NULL rules reject |
| Gold alerts (`fraud_card_alert.py`, `high_value_transactions_alert.py`) | tables, checkpoints, join state and watermarks | micro-batch with the customer table of the moment | one alert per match, whatever the order |
| Gold counts (`transaciton_count_by_minute*.py`) | tables, open windows, watermark | micro-batch | a window published once, complete |
| Email notifiers (`streaming/alert/`) | checkpoint of each sink | foreachBatch call: secret, mails, commit | no alert silenced; repeats bounded |
| Snapshots, dimensions, facts (`transform/`) | SCD2 versions, incremental facts | snapshot, incremental merge, full refresh, monitor | one version in force; nothing skipped for good |
| Daily job (`resources/finguard_job.yml`) | task states of a run | start, skip, run on ALL_DONE, time out | models never run on stale input; telemetry always collected |
| Operations collectors (`src/pipelines/ops/`) | append-only tables, which are their own watermark | collect per pipeline and job | every terminal event once |
| Configuration, factory, registry (`src/pipelines/framework/`) | registry and audit tables | load, register, sync, record | one bad source does not stop the rest; registry and audit agree on the sources of an update |
| REST reader (`framework/readers.py`) | none | fetch pages with retries | the view is never emptied; a read that ends well is a snapshot, up to `max_pages` and if every page was a list |
| Operator scripts (`scripts/`), governance and monitoring SQL (`sql/`) | workspace objects | create or update | reruns change nothing |

The components interact through tables and the topic only. Each streaming query
has a checkpoint of its own and reads its input in commit order, so any two of
them are at arbitrary distances from each other; `silver.customers` is the
exception, read as a table by every micro-batch of the gold queries. The
streaming pipeline runs from a quarter-hourly cron
(`resources/finguard_pipeline.yml:28-51`), the customers pipeline and dbt from the
daily job.

What is hard: redelivery and replay against a bounded state store; late and
out-of-order event times; a broker that forgets; two streams joined in either
order of arrival; a customer table read while it changes; mails sent from a
batch that may be run again; independent refreshes; watermarks that are the
newest row of the table they guard; pages and metadata writes of which one may
fail. The list, line by line and with the property that covers each entry, is `hazards` in `PROJECT.json`.

## The modules

| Module | Models | Correspondence |
|---|---|---|
| `TransactionRows` | the payload contract and bronze rows | `DROP_RULES` is `PassesDropRules`, `FLAG_RULES` `Flagged`; a message that does not parse has only NULL fields; `commit` stands for `ingestion_timestamp` |
| `KafkaBronze` | topic, retention, ingestion query | `Ingest` is one micro-batch of `read_kafka` with `_project`; `firstRead`, `nextRead`, `started` are its checkpoint |
| `SilverTransactions` | silver and quarantine queries | `SilverBatch` composes `withWatermark`, `dropDuplicatesWithinWatermark` and `expect_or_drop` in the order of the code; `expiry` is the state store |
| `TransactionPath` | both over one bronze table, with refreshes | the composition, and the inductive invariant `PathInv` |
| `CuratedLedger` | the promise to readers of silver, abstractly | `TransactionPath` implements it with `delivered <- bronze`, `accepted <- silver` |
| `GoldSources` | the silver tables as gold reads them | `LatestTables` is the `row_number() = 1` reduction, with ties open |
| `FraudCardAlert` | the stream-stream join | `txHeld`, `entryHeld` are the join state; `joinMark` the smaller of the two watermarks |
| `HighValueAlert` | the limit comparison | one micro-batch compares each new transaction once |
| `TransactionCounts` | both windowed counts | `WindowSlide = WindowLength` is the tumbling table, less the sliding one |
| `GoldAlerts` | the three gold queries over the same sources | interleaved, each with its own checkpoint |
| `EmailSinks` | the two notifiers and the engine around them | `PlanBatch` logs the offsets, `CallSink`/`PasswordMissing`/`SendMail` are the sink, `CommitBatch` the commit log |
| `BronzeFramework` | one update of the pipeline up to its flows | `LoadSourceConfigs`, `BuildSource` (a round of `build_all`), `SyncRegistry`, `RecordRun`; `MetadataFails` is the `except` around the last two |
| `RestReader` | `read_rest_api` | an action per answer: page, transient failure, permanent failure; `view` is the materialised view |
| `PipelineUpdates` | both, in the update that runs them | the reader is called once, in the flows of an update that registered a `rest_api` source |
| `MetricsCollector` | the event log collector | `CountNew` and `AppendNew` are the two evaluations of one query; the watermark is computed from `rows`, as in the code |
| `DailyJob` | the task graph of the job | `DependsOn` and `RunIf` are the YAML; `task`, `result` and the starts are what the Jobs API lists |
| `JobMetricsCollector` | the Jobs API collector, as the task of the job it is | `CollectTable` is one of its three collections over the listing of that moment |
| `FctTransactions` | the incremental transaction fact | `WithinWindow`, `Deduplicated` and `Matches` are the filter, the ranking and the merge key |
| `MerchantsSilver` | merchants from upload to silver | `SilverBatch` is the dedup over ingestion time with its state store, then the drop rules |
| `MC*` | constants for TLC | |
| `TransactionPath_proofs`, `GoldAlerts_proofs`, `EmailSinks_proofs`, `PipelineUpdates_proofs`, `MetricsCollector_proofs`, `JobMetricsCollector_proofs`, `FctTransactions_proofs` | theorems | the component they are named for |
| `NaturalExtremes` | that sets of naturals have a least and a greatest element, and that a finite one has a bound | what `max()` and the watermarks rest on in four of the proofs |

Choices that matter for reading them:

- A micro-batch appends its output and advances checkpoint and state together,
  as Delta sinks and checkpoints of the engine guarantee. The mail sinks have no
  such guarantee, so their batch is several steps with a crash in between.
- One watermark serves the late filter and the eviction. The engine filters with
  the mark of the batch before; both read the same mark there too, which is all
  the properties use.
- A null event time is never late and counts as time zero. Silver drops such a
  row after the dedup has let it through; the watchlist keeps it.
- Which copy of an id is first within a batch, and which of two profiles with the
  same `silver_ingestion_timestamp` wins, is not determined by the code, so both
  are choices of the model.
- A checkpoint reset keeps the table's rows; a full refresh drops them.
- An answer of the REST endpoint is the page asked for, or something that is no
  list (`Stray`), which `_extract` wraps.
- An SMTP error may follow a mail that was accepted or one that was not.
- A collector keeps no state of its own: what it appended is its watermark, so a
  crash is an end of the process and nothing else, and every action that builds a
  query computes the watermark again.
- The log a collector reads grows in timestamp order; several events may carry
  one timestamp.
- The platform starts what is ready before anything else ends, judges a run by
  the tasks no other waits for, and lists a skipped task with a start of zero.
- A source file is what the framework tells apart: name, type, `managed`, and
  whether its other keys validate.
- A load of profiles is a finite, non-empty set of rows, of one
  `silver_ingestion_timestamp`.
- Silver, as the fact reads it, only grows; a copy of a transaction has a
  partition and an offset, which a build ranks by.

## The runs

| Run | Kind | What it shows |
|---|---|---|
| `MCKafkaBronze.cfg` | holds | `NoSilentGap`, and that every record lands, ages out, or is held up by a refusal |
| `MCKafkaBronzeRecreated.cfg` | fails | a recreated topic that has grown past the checkpoint is read on from the old offset: `failOnDataLoss` sees offsets out of range, not offsets of another topic |
| `MCTransactionPath.cfg` | holds | duplicates more than the delay apart, replayed copies among them, every loss explained, the invariant `PathInv` the proofs induct on, and the refinement of `CuratedLedger` |
| `MCPathReconciles.cfg` | fails | a valid row behind the watermark is in neither table, so `in = accepted + quarantined` (FR-10, DQ-06) is not an equation of the two tables |
| `MCGoldAlerts.cfg` | holds | one alert per match and per transaction, independence from order of arrival, windows published once and counted in full, and that a match is never left waiting |
| `MCRetrospective.cfg` | fails | an entry that takes effect long after a transaction alerts on it: the join has no time condition and its state no end |
| `MCEmailSinks.cfg` | holds | an alert is repeated by crashes only; a failing mail silences no other alert; every alert is reached |
| `MCPipelineUpdates.cfg` | holds | a source or a metadata write that fails costs no other source; the registry and the audit never contradict each other; a read that ends well makes the view a snapshot up to `max_pages` if its pages were lists, retries are counted per page, and the view is never emptied |
| `MCMetricsCollector.cfg` | holds | no event is collected twice although the query runs twice over a growing log; only events that share a timestamp with one collected are passed over; the others are eventually collected, whatever happens to another pipeline |
| `MCDailyJob.cfg` | holds | telemetry is collected whatever failed; ended runs, latencies and tasks are collected once, in flight or not when first seen, up to the fetch limit |
| `MCFctTransactions.cfg` | holds | a transaction a build could read is missing only behind the window; one row per transaction; the row is the copy a rebuild would choose, the last offset of the lowest partition |
| `MCMerchantsSilver.cfg` | fails | a changed merchant of the second upload is dropped as a duplicate: watermark and state moved with the first upload only |

The four failing runs state what a document or comment of the repository says;
`findings` in `PROJECT.json` quotes each.

### Where the code and its documents differ

Four disagreements have a run that shows them (above). Four more are in the
models and have none:

- **Which copy of a transaction wins.** `fct_transactions.sql:128` ("Highest
  kafka_offset wins: the most recently delivered copy") and
  `docs/engineering_challenges.md:704` say the highest offset; line 137 orders by
  `kafka_partition, kafka_offset desc`, so that of copies on two partitions the
  one on the lower partition wins, with the older and lower offset if need be.
  `LowestPartitionThenLastOffset` states what the code does, spelled out apart
  from `RanksBefore`; `RanksByOffset` is the order the comment describes, and with
  it TLC finds the property violated on `MCFctTransactions.cfg`: the two orders
  choose different rows. Copies of an id share a partition, and the two agree, as
  long as the producers key by `transaction_id` and the number of partitions of
  the topic does not change.
- **An empty configuration.** `registry.py:74` says that "the registry mirrors the
  YAML exactly" and that a stale row "would be worse than useless"; with no source
  left `sync_registry` returns before the overwrite, and the registry keeps the
  sources that were removed. `SyncRegistry` has the early return, and
  `RegistryLeadsAudit`, which compares registry and audit, holds over it.
- **Alerts that are not mailed.** `docs/interview_preparation.md:390` calls the
  sink at-least-once. A batch met without the password is printed and committed
  (`dropped`), and a mail that fails is swallowed and not tried again.
  `FailureIsContained` says that neither silences another alert, not that every
  alert is delivered.
- **What counts as a snapshot.** `read_rest_api` ends after `max_pages` pages
  whether or not the endpoint has more, and takes a node that is not a list, such
  as null or an error object, as one record, which then passes the refusal of an
  empty answer. `config/sources/merchant_risk_api.yaml.example:13` explains the
  materialised view by a pull that returns a complete snapshot. `ViewIsSnapshot`
  says what is true: if every page was a list, the view is the first `max_pages`
  pages of an endpoint that did not change.

No document speaks of a limit that changes: the high-value alert compares a
transaction with the limit known when it is read, and a profile that arrives later
is never applied. `OneHighValueAlert` says only that no transaction alerts twice.

### Bounds

- Ingestion: two partitions, two records each, one operator action and one
  recreation. A hole needs a partition to lose a record while the other goes on;
  with a cap of two and up to four records unread, the cap is divided evenly,
  unevenly, and rounded up to the one record no partition is denied.
- Path: one partition (silver reads commits, so partitions do not matter to it),
  three records, a cap of two, one operator action, a delay of one tick with
  event times 1, 2 and 4, and one message that lost its event time. So a duplicate can be inside the delay, beyond it, late,
  in the batch of its original or in another, and a replay can meet a key that is
  held or one that has expired.
- Gold: two transactions, two entries and two profiles of one customer, the join
  delay smaller than the distance of the event times, so that each row can be
  late or in time; an amount that is NULL; windows that overlap, and a published
  count that carries the rows its query had read, so that the same window
  published twice with the same count would be two rows.
- Updates: two files, of which one may not validate and the other may pull over
  REST or be managed elsewhere, a deployment between or within two updates, so
  that the registry and the audit can be of different updates; two pages of one
  record, two attempts each, and an endpoint with one record more than the pages
  hold, that changes once.
- Event log collector: two pipelines, two instants and three events, so that two
  events can tie and a third can follow; one error or kill, at any step.
- Job: three runs and a fetch limit of two, so that a run can fall out of the
  listing; `ingest_streaming` and the collector may fail, the first of which
  skips the models, and any run may time out at any of its tasks.
- Fact: two transactions, four copies on two partitions, four instants and a
  window of one, so that copies lie on both sides of it; three builds, so that
  the merge of one can move the newest event time for the next.
- Merchants: one merchant and three uploads. A batch covers one file
  (`MaxBatch`), as the uploads are days apart; the counterexample needs two.
- Mail: two alerts per table, so that a batch holds one or both, and one crash
  per sink.

Deadlock is not checked: with every bound used up and every query caught up, the
instances stop, as a pipeline with no new data, or a job with no trigger, does.

### Fairness

`WF` of each streaming query: the cron triggers an update again and again, and an
update runs every query that has input. `WF` of each sink's step: the engine plans,
calls and commits. Nothing is assumed of producers, the broker, operators, the
mail server, the secret scope or the customers pipeline, and crashes are bounded.
`WF(CollectStep)`: the job triggers its collector again and again, and a
collector that runs goes on; an event is logged, and a collection fails or is
killed, without any fairness.
`EveryRecordLands` excepts records that aged out and the time the query refuses
to run, which the code leaves to an operator.

## The proofs

Every safety property a passing run checks is a theorem; each proof has the same
shape: an invariant that is inductive, checked with TLC on the instance first, one
lemma per action, and a last step that turns it into `[]`.

### Ingestion and the transaction path

`TransactionPath_proofs` holds, for every set of payloads, partitions and ids,
every delay and cap. The theorems of `IngestSpec` are about the ingestion alone,
with the topic recreated and the checkpoint reset at any time:

| Theorem | Says |
|---|---|
| `IngestTyped` | `IngestSpec => []IngestTypeOK` |
| `BronzeHasNoSilentGap` | `[]NoSilentGap`, of `IngestSpec` and of `Spec` |
| `RetainedUntilRecreated` | `IngestSpec => [](recreations = 0 => RetainedIsReadOrUnread)` |
| `QueryNeverStalls` | `IngestSpec => [](MayRead /\ Unread => NoneStarved)` |
| `TypeCorrect` | `Spec => []TypeOK` |
| `PathInvariant` | `Spec => []PathInv` |
| `SilverHasNoCloseDuplicates` | `Spec => []DuplicatesFarApart` |
| `NoUnexplainedLoss` | `Spec => []LossExplained` |
| `PathKeepsLedger` | `Spec => KeepsLedger`, the refinement |

They rest on the named assumptions about the constants: payloads are of
`PayloadType` and NULL is neither an id nor a number; the delay and the bounds are
naturals, the cap is positive; the topic has finitely many partitions, over which
the cap is divided.

`DuplicatesFarApart` is not inductive: it says nothing of the state store, and a
store that had forgotten a key would break it in the next batch. `PathInv` adds

- `CheckpointsBehind`: no query is ahead of bronze, silver holds passing rows it
  has read, the quarantine is exactly the rejected rows it has read;
- `Remembered`: the key of a silver row is held until the watermark has reached
  the row's expiry, so that a row close to it is either seen as a duplicate or
  late;
- `KeysOwned`: a key held belongs to a row that was let through, kept or dropped;
- `LeftOut`: a passing row that silver has read and left out is late, or another
  row with its id was let through.

The step from `Remembered` to `DuplicatesFarApart` is the argument that the
delay must be the same for watermark and expiry: a new row of a forgotten id is
on time, hence later than a watermark that has passed the old row's time plus
the delay. `NoSilentGap` is inductive with the types, because a query that may
read starts where its checkpoint stopped. TLC checks `PathInv` as an invariant of
`MCTransactionPath.cfg`.

`RetainedUntilRecreated` delimits the finding of
`MCKafkaBronzeRecreated.cfg`: what that run shows can happen after a recreation
and in no other way. Its invariant, `DeliveryInv`, says that what was read since
the checkpoint began is in bronze at the offsets it still has, from one that is
not above the retained suffix. `QueryNeverStalls` is what `EveryRecordLands`
needs beside fairness: `Prorated` gives a partition what its share of the backlog is
of the cap, rounded down but never to nothing, so whenever something is unread a
batch can be planned that advances every partition with a record to read.

### The gold layer

`GoldAlerts_proofs`, for any cards, customers, amounts, profiles, delays and
windows:

| Theorem | Says |
|---|---|
| `GoldTyped` | `GoldSpec => []GoldTypeOK` |
| `MatchAlertsOnce` | `GoldSpec => []OneAlertPerMatch` |
| `MatchFoundEitherWay` | `GoldSpec => []MatchRegardlessOfOrder` |
| `HighValueAlertsOnce` | `GoldSpec => []OneHighValueAlert` |
| `WindowsPublishedOnce` | `GoldSpec => []WindowPublishedOnce` |
| `WindowCountsCorrect` | `GoldSpec => []WindowCountsExact` |

`GoldInv` has one part per query, since they share only tables that are appended
to. `JoinInv` says where a row went that the join has read: it is held, or it was
behind the joint watermark, which never passes the mark of either side; that all
held pairs have met; and that an alert is of two held rows, so a later batch,
which pairs at least one new row, cannot raise it again. `LimitInv` says that an
alert is of a transaction already read. `CountsInv` says that a published window
was published by a batch already run; a window is published when the mark
passes its end, and the mark never goes back. That the lookup of `latest_customer`
adds exactly one row to a match, ties and missing customers included, is the
lemma `EnrichedIsOne`.

### The notifiers

`EmailSinks_proofs`, for any number of alerts and crashes:

| Theorem | Says |
|---|---|
| `SinksTyped` | `SinksSpec => []SinksTypeOK` |
| `MailsRepeatOnlyByCrash` | `SinksSpec => []MailRepeatedOnlyByCrash` |
| `FailuresContained` | `SinksSpec => []FailureIsContained` |

Both properties are about committed rows, which were mailed before they were
committed. `SinksInv` follows the running call: its position is within its batch
(`CallInBatch`), a row it has not passed was mailed once per crash at most
(`MailsAccounted`), and a row it has passed was tried (`PassedRowsTried`).

### Updates, collectors, job and fact

`PipelineUpdates_proofs`, for any files, endpoint, page and retry limits:

| Theorem | Says |
|---|---|
| `PipelineTypeCorrect` | `PipelineSpec => []PipelineTypeOK` |
| `FailuresStayLocal` | `PipelineSpec => []FailureStaysLocal` |
| `RegistryNeverBehind` | `PipelineSpec => []RegistryLeadsAudit` |
| `ViewIsWholeSnapshot` | `PipelineSpec => []ViewIsSnapshot` |
| `EachPageHasItsBudget` | `PipelineSpec => []BudgetPerPage` |
| `ViewSurvivesFailures` | `PipelineSpec => ViewNeverEmptied` |

`FrameworkInv` adds what is true at each step of an update (`UpdateProgress`):
which sources have a status, that the registry is of an earlier update until
`SyncRegistry` and of this one after it, and that the audit has no row of this
update before `RecordRun`. So a failure between the two writes leaves the
registry ahead, never behind. `RestInv` adds that the records fetched are a
prefix of what the endpoint holds (`PrefixFetched`), as long as it did not
change and every page was a list, and that attempts are those of the page at hand (`AttemptsCounted`).

`MetricsCollector_proofs`, for any pipelines and logs:

| Theorem | Says |
|---|---|
| `CollectorTypeCorrect` | `Spec => []CollectorTypeOK` |
| `NoEventCollectedTwice` | `Spec => []CollectedOnce` |
| `NothingButTiesSkipped` | `Spec => []OnlyTiesAreSkipped` |

The strengthening is `LogOrdered`, the assumption on the platform as an
invariant, and `PendingMark`: between the count and the append the watermark the
query was built with is still the newest time the table holds of that pipeline.
It is why a second evaluation over a longer log is harmless.

`JobMetricsCollector_proofs`, for any number of runs, any fetch limit and any
tasks that may fail:

| Theorem | Says |
|---|---|
| `TablesTyped` | `Spec => []TablesTypeOK` |
| `CollectorsAlwaysRun` | `Spec => []TelemetryWhateverHappened` |
| `EndedRunsCollected` | `Spec => []RunsCollectedOnce` |
| `StartedTasksCollected` | `Spec => []TasksCollectedOnce` |
| `HistoryStands` | `Spec => [][JobAdvances]_vars` |
| `JobNeverStalls` | `Spec => []NothingStalls` |

`JobInv` is the life of a run (`Lifecycle`: before its trigger nothing has moved,
after its end everything is ended, in between what moved has its upstream behind
it) and the order of the starts (`StartsInOrder`). `TablesInv` strengthens the two
collection properties: rows are of runs up to the last one triggered, and a task
that shares its start with a row is collected too, because both ingests start with
the run. The argument for the watermark has three parts. A start once
listed does not change and a new one is later than all (`JobAdvances`); while the
job's collector works, every task that started, the other collector apart, has
ended (`CollectorIsBehindAll`, along `depends_on`); and a run that ends later than
a table was written is the last one, hence behind no row of it (`RunsKept`). So
what a collection passes over is beyond the fetch limit. `JobNeverStalls` says
without `ENABLED` that the graph has no deadlock: a run in flight always has a
task that runs, one that is due, or none left.

`FctTransactions_proofs`, for any ids, partitions, window and bounds:

| Theorem | Says |
|---|---|
| `FactTypeCorrect` | `Spec => []FactTypeOK` |
| `NothingLostWithinWindow` | `Spec => []LostOnlyBehindWindow` |
| `FactHasOneRowEach` | `Spec => []OneRowPerTransaction` |
| `FactKeepsTheRankedCopy` | `Spec => []LowestPartitionThenLastOffset` |

`OffsetsName` (an offset names one copy of a partition, so the ranking has no
ties) and `NewestBounds` (no row of the fact is later than the newest time it has
held) make them inductive: a copy not behind the window of the history is within
the filter of the next build, because a merge can only move the time that filter
starts from back.

### What stays with TLC

Each set of proofs rests on the named assumptions of its constants, all of which
the runs evaluate. Only model-checked are `EveryRecordLands`,
`MatchesEventuallyAlert`, `EveryAlertReached` and `EveryEventCollected`, which
hold under fairness: liveness and `ENABLED` are outside the prover's reach, and so
is what would need induction over data. The properties of the failing runs are
refuted, and nothing is proved of `MerchantsSilver`, whose only property is one of
them.

## Not modelled

- **Merchants and customers quarantine**: stateless filters, the inverted drop
  rules row by row. Nothing interleaves, and the quarantine of transactions is
  the same construction, modelled.
- **Snapshots and dimensions**: the versions are made by dbt, whose treatment of
  a key with several source rows is not in the repository, so a model of them
  would be one of a guess. With them the joins of `fct_transactions` to
  `dim_customer` and `dim_merchant` are left out.
- **`fct_alerts`, `late_arrival_monitor`, aggregates, staging views**: recomputed
  in full by each run, from the tables above.
- **The fraud scoring simulator** and the producers' validation and pacing: one
  process, one thread; a record is what the broker accepted. What the producers'
  buffer loses on exit is planned (below).
- **Operator scripts** (`scripts/`): run once by hand, one HTTP call after
  another; **governance and monitoring SQL**: declarative or read-only.
- The full refresh of silver merchants, which forgets the state store and so
  repeats what its first batch does.
- Formatting of mails, logging, table layout, and the single rules of
  `source_config._validate`, which are one predicate here.

External behaviour the models rest on: a micro-batch of the engine is atomic with
its checkpoint; it divides `maxOffsetsPerTrigger` over the partitions by what each
has unread, at least a record each, so that a batch may exceed the cap by as many
records as there are small partitions; event logs are appended in timestamp order; the Jobs API lists
runs newest first; a merge of dbt is one commit.

## Plan

1. Transaction path: `TransactionRows`, `KafkaBronze`, `SilverTransactions`,
   `TransactionPath`, `CuratedLedger` and the proofs. Built.
2. Gold layer: `GoldSources`, `FraudCardAlert`, `HighValueAlert`,
   `TransactionCounts`, `GoldAlerts`. Built.
3. Notifiers: `EmailSinks`. Built.
4. Facts: `FctTransactions`. Built, without the dimensions.
5. Collectors and the job that runs them: `MetricsCollector`, `DailyJob`,
   `JobMetricsCollector`. Built.
6. Updates: `BronzeFramework`, `RestReader`, `PipelineUpdates`. Built.
7. `MerchantsSilver`. Built.
8. Open: the producers' buffer and the fraud engine's history window.

Theorems planned: what does hold of `MerchantsSilver` (a merchant of the first
upload stays in silver unchanged), and that the collectors implement one abstract
table that is its own watermark.
