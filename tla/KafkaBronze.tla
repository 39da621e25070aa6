---------------------------- MODULE KafkaBronze ----------------------------
(***************************************************************************)
(* Ingestion of the transaction topic into finguard.bronze.transactions.   *)
(*                                                                         *)
(* The topic is a log per partition of which the broker keeps a suffix.    *)
(* The streaming query remembers, per partition, the offset it first read  *)
(* and the next one to read; without a checkpoint it starts at the         *)
(* earliest retained offset (starting_offsets: earliest).  Each micro-     *)
(* batch reads max_offsets_per_trigger records, as the engine divides them *)
(* over the partitions, and appends them as one commit, atomically with    *)
(* its checkpoint.  With fail_on_data_loss the query refuses to run when   *)
(* an offset it needs has aged out; an operator then resets the            *)
(* checkpoint, which re-reads what the broker retains.                     *)
(* The topic itself may be recreated empty under a live checkpoint, as     *)
(* docs/engineering_challenges.md section 17.4 records.                    *)
(***************************************************************************)
EXTENDS TransactionRows, FiniteSets, Sequences

CONSTANTS
  MaxOffsetsPerTrigger,   \* max_offsets_per_trigger
  MaxOffset,              \* bound: records produced per partition
  MaxOperations,          \* bound: operator actions in a behaviour
  MaxRecreations          \* bound: times the topic is recreated

ASSUME IngestAssumption ==
  /\ IsFiniteSet(Partition)
  /\ MaxOffsetsPerTrigger \in Nat \ {0}
  /\ MaxOffset \in Nat
  /\ MaxOperations \in Nat
  /\ MaxRecreations \in Nat

VARIABLES
  topic,        \* per partition, every record produced since it was created
  recreations,  \* how often the topic has been deleted and created again
  earliest,     \* per partition, the first offset the broker still holds
  firstRead,    \* per partition, the offset at which the checkpoint started
  nextRead,     \* per partition, the next offset the checkpoint will read
  started,      \* whether a checkpoint exists
  version,      \* the number of commits to bronze.transactions
  operations    \* operator actions so far, bounded by MaxOperations

kafkaVars == <<topic, earliest, recreations>>
queryVars == <<firstRead, nextRead, started, version>>
ingestVars == <<bronze, topic, earliest, recreations, firstRead, nextRead, started, version,
                operations>>

KafkaInit ==
  /\ topic = [p \in Partition |-> << >>]
  /\ earliest = [p \in Partition |-> 1]
  /\ recreations = 0

QueryInit ==
  /\ bronze = {}
  /\ firstRead = [p \in Partition |-> 1]
  /\ nextRead = [p \in Partition |-> 1]
  /\ started = FALSE
  /\ version = 0

IngestInit == KafkaInit /\ QueryInit /\ operations = 0

-----------------------------------------------------------------------------
\* A producer appends one record; the idempotent producer adds no copy itself,
\* but two transactions may carry the same id.
Produce(p, m) ==
  /\ Len(topic[p]) < MaxOffset
  /\ topic' = [topic EXCEPT ![p] = Append(@, m)]
  /\ UNCHANGED <<bronze, earliest, recreations, queryVars, operations>>

\* Retention deletes the oldest record of a partition.
Expire(p) ==
  /\ earliest[p] <= Len(topic[p])
  /\ earliest' = [earliest EXCEPT ![p] = @ + 1]
  /\ UNCHANGED <<bronze, topic, recreations, queryVars, operations>>

\* The topic is deleted and created again: offsets start over.
RecreateTopic ==
  /\ recreations < MaxRecreations
  /\ recreations' = recreations + 1
  /\ topic' = [p \in Partition |-> << >>]
  /\ earliest' = [p \in Partition |-> 1]
  /\ UNCHANGED <<bronze, queryVars, operations>>

\* Mutant: starting_offsets: latest.
LatestOffsets == [p \in Partition |-> Len(topic[p]) + 1]

\* Where the next micro-batch starts: a query with no checkpoint starts at the
\* configured starting offsets, which are earliest.
StartingOffsets == earliest

\* A fetch below the retained suffix can only be served from where it begins.
Served(from) == [p \in Partition |-> IF from[p] < earliest[p] THEN earliest[p] ELSE from[p]]
StartOf == Served(IF started THEN nextRead ELSE StartingOffsets)

\* The offsets the checkpoint asks for are gone: aged out, or beyond the end.
DataLoss ==
  started /\ \E p \in Partition : \/ nextRead[p] < earliest[p]
                                 \/ nextRead[p] > Len(topic[p]) + 1

\* Mutant: fail_on_data_loss: false.
ReadAnyway == TRUE

\* fail_on_data_loss: true
MayRead == ~DataLoss

\* Mutant: rows are stamped with the table version they were appended to.
RowsStampedBefore(from, upto) ==
  UNION { { [part |-> p, offset |-> o, commit |-> version, value |-> topic[p][o]] :
              o \in from[p] .. upto[p] - 1 } : p \in Partition }

\* The rows of one commit: the records of each partition in from[p] .. upto[p] - 1.
RowsRead(from, upto) ==
  UNION { { [part |-> p, offset |-> o, commit |-> version + 1, value |-> topic[p][o]] :
              o \in from[p] .. upto[p] - 1 } : p \in Partition }

\* The end offsets a query may know of when it plans a batch: those of the topic
\* now, or those its update found when it began.
Ends(from) ==
  { latest \in [Partition -> 1 .. MaxOffset + 1] :
      /\ \A p \in Partition : from[p] <= latest[p] /\ latest[p] <= Len(topic[p]) + 1
      /\ latest # from }

\* The records between two ends, as partition and offset.
Backlog(from, latest) ==
  {r \in Partition \X (1 .. MaxOffset) : from[r[1]] <= r[2] /\ r[2] < latest[r[1]]}

\* The engine prorates maxOffsetsPerTrigger over the partitions by what each has
\* unread, rounded down, but never below one record: "don't completely starve".
\* So several small partitions together may exceed the cap.
Share(p, from, latest) ==
  LET unread == Cardinality(Backlog(from, latest))
      due    == MaxOffsetsPerTrigger * (latest[p] - from[p])
  IN  IF due < unread THEN 1 ELSE due \div unread

\* The end offsets of the batch planned over what is known.
Prorated(from, latest) ==
  [p \in Partition |->
     LET upto == from[p] + Share(p, from, latest)
     IN  IF upto < latest[p] THEN upto ELSE latest[p]]

\* The batches max_offsets_per_trigger allows.
Plans(from) == {Prorated(from, latest) : latest \in Ends(from)}

Ingest ==
  /\ MayRead
  /\ \E upto \in Plans(StartOf) :
       /\ bronze' = bronze \cup RowsRead(StartOf, upto)
       /\ nextRead' = upto
  /\ firstRead' = IF started THEN firstRead ELSE StartOf
  /\ started' = TRUE
  /\ version' = version + 1
  /\ UNCHANGED <<kafkaVars, operations>>

\* "resetting the checkpoint deliberately": the table keeps its rows.
ResetCheckpoint ==
  /\ operations < MaxOperations
  /\ operations' = operations + 1
  /\ started
  /\ started' = FALSE
  /\ UNCHANGED <<bronze, kafkaVars, firstRead, nextRead, version>>

\* A full refresh drops the table's rows and its checkpoint.
RefreshBronze ==
  /\ operations < MaxOperations
  /\ operations' = operations + 1
  /\ bronze' = {}
  /\ started' = FALSE
  /\ version' = 0
  /\ UNCHANGED <<kafkaVars, firstRead, nextRead>>

BrokerStep ==
  \/ \E p \in Partition, m \in Payload : Produce(p, m)
  \/ \E p \in Partition : Expire(p)
  \/ RecreateTopic

IngestNext == BrokerStep \/ Ingest \/ ResetCheckpoint \/ RefreshBronze

IngestSpec == IngestInit /\ [][IngestNext]_ingestVars

\* The pipeline's cron trigger runs the query again and again.
IngestFairSpec == IngestSpec /\ WF_ingestVars(Ingest)

-----------------------------------------------------------------------------
IngestTypeOK ==
  /\ bronze \subseteq Row
  /\ topic \in [Partition -> Seq(Payload)]
  /\ earliest \in [Partition -> Nat \ {0}]
  /\ recreations \in Nat
  /\ firstRead \in [Partition -> Nat \ {0}]
  /\ nextRead \in [Partition -> Nat \ {0}]
  /\ started \in BOOLEAN
  /\ version \in Nat
  /\ operations \in Nat

\* Bronze never skips a record silently: every offset from the one the current
\* checkpoint started at up to the one it will read next is in the table, on
\* every partition, whatever the broker has deleted meanwhile.  This is what
\* fail_on_data_loss is for: with it off the query jumps over the hole.
NoSilentGap ==
  started => \A p \in Partition : \A o \in firstRead[p] .. nextRead[p] - 1 :
               \E r \in bronze : r.part = p /\ r.offset = o

Delivered(p, o) ==
  \E r \in bronze : r.part = p /\ r.offset = o /\ r.value = topic[p][o]

\* A record the broker holds is in bronze or still to be read, unless the query
\* is refusing to run: fail_on_data_loss turns every other case into an alarm
\* "rather than silently skipping ahead".
RetainedIsReadOrUnread ==
  started /\ ~DataLoss =>
    \A p \in Partition : \A o \in earliest[p] .. nextRead[p] - 1 : Delivered(p, o)

\* As long as the topic is not recreated, a record produced is eventually in
\* bronze, has aged out, or is held up by a data loss the query refuses to skip.
EveryRecordLands ==
  \A p \in Partition : \A o \in 1 .. MaxOffset :
    (o <= Len(topic[p])) ~>
      (recreations > 0 \/ o < earliest[p] \/ DataLoss \/ Delivered(p, o))
=============================================================================
