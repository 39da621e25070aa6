----------------------- MODULE TransactionPath_proofs -----------------------
(***************************************************************************)
(* Proofs about the transaction path: its type invariant, that bronze has  *)
(* no silent gap, that silver keeps duplicates far apart, and that the     *)
(* path implements CuratedLedger.                                          *)
(***************************************************************************)
EXTENDS TransactionPath, FiniteSetTheorems, TLAPS

USE PayloadAssumption, IngestAssumption, DelayAssumption

-----------------------------------------------------------------------------
\* What is unread is finite, and there is some of it on a partition that is behind
\* the end the query knows of (Backlog).
LEMMA BacklogCount ==
  ASSUME IngestTypeOK, NEW from \in [Partition -> Nat \ {0}], NEW latest \in Ends(from)
  PROVE  Cardinality(Backlog(from, latest)) \in Nat \ {0}
<1>1. /\ latest \in [Partition -> 1 .. MaxOffset + 1] /\ latest # from
      /\ \A p \in Partition : from[p] <= latest[p]
  BY DEF Ends
<1>2. IsFiniteSet(Partition \X (1 .. MaxOffset))
  <2>1. 1 \in Int /\ MaxOffset \in Int
    OBVIOUS
  <2>2. IsFiniteSet(1 .. MaxOffset)
    BY <2>1, FS_Interval
  <2> QED
    BY <2>2, FS_Product
<1>3. IsFiniteSet(Backlog(from, latest))
  BY <1>2, FS_Subset DEF Backlog
<1>4. PICK p \in Partition : from[p] # latest[p]
  BY <1>1
<1>5. from[p] \in 1 .. MaxOffset /\ from[p] < latest[p]
  BY <1>1, <1>4
<1>6. <<p, from[p]>> \in Backlog(from, latest)
  BY <1>5 DEF Backlog
<1>7. Cardinality(Backlog(from, latest)) # 0
  BY <1>3, <1>6, FS_EmptySet
<1> QED
  BY <1>3, <1>7, FS_CardinalityType

\* The share of a partition in a batch is one record at least (Share).
LEMMA ShareIsPositive ==
  ASSUME IngestTypeOK, NEW from \in [Partition -> Nat \ {0}], NEW latest \in Ends(from),
         NEW p \in Partition
  PROVE  Share(p, from, latest) \in Nat \ {0}
<1> DEFINE unread == Cardinality(Backlog(from, latest))
           due == MaxOffsetsPerTrigger * (latest[p] - from[p])
<1>1. unread \in Nat \ {0}
  BY BacklogCount
<1>2. latest[p] - from[p] \in Nat
  BY DEF Ends
<1>3. due \in Nat
  BY <1>2
<1>4. Share(p, from, latest) = IF due < unread THEN 1 ELSE due \div unread
  BY DEF Share
<1> HIDE DEF unread, due
<1>5. ~(due < unread) => due \div unread \in Nat \ {0}
  BY <1>1, <1>3
<1> QED
  BY <1>4, <1>5

\* A batch ends between where it starts and the ends it was planned over, and it
\* advances every partition that has something unread (Prorated).
LEMMA PlanAdvances ==
  ASSUME IngestTypeOK, NEW from \in [Partition -> Nat \ {0}], NEW latest \in Ends(from)
  PROVE  /\ Prorated(from, latest) \in [Partition -> 1 .. MaxOffset + 1]
         /\ \A p \in Partition :
              /\ from[p] <= Prorated(from, latest)[p]
              /\ Prorated(from, latest)[p] <= latest[p]
              /\ from[p] < latest[p] => from[p] < Prorated(from, latest)[p]
<1>1. ASSUME NEW p \in Partition
      PROVE  /\ Prorated(from, latest)[p] \in 1 .. MaxOffset + 1
             /\ from[p] <= Prorated(from, latest)[p]
             /\ Prorated(from, latest)[p] <= latest[p]
             /\ from[p] < latest[p] => from[p] < Prorated(from, latest)[p]
  <2>1. from[p] \in Nat \ {0} /\ latest[p] \in 1 .. MaxOffset + 1 /\ from[p] <= latest[p]
    BY DEF Ends
  <2>2. Share(p, from, latest) \in Nat \ {0}
    BY ShareIsPositive
  <2>3. Prorated(from, latest)[p] = IF from[p] + Share(p, from, latest) < latest[p]
                                      THEN from[p] + Share(p, from, latest) ELSE latest[p]
    BY DEF Prorated
  <2> QED
    BY <2>1, <2>2, <2>3
<1> QED
  BY <1>1 DEF Prorated

\* A planned batch ends within the topic (Plans).
LEMMA PlanWithinTopic ==
  ASSUME IngestTypeOK, NEW from \in [Partition -> Nat \ {0}], NEW upto \in Plans(from)
  PROVE  /\ upto \in [Partition -> 1 .. MaxOffset + 1]
         /\ \A p \in Partition : from[p] <= upto[p] /\ upto[p] <= Len(topic[p]) + 1
<1>1. PICK latest \in Ends(from) : upto = Prorated(from, latest)
  BY DEF Plans
<1>2. ASSUME NEW p \in Partition
      PROVE  from[p] <= upto[p] /\ upto[p] <= Len(topic[p]) + 1
  <2>1. latest[p] \in Nat /\ latest[p] <= Len(topic[p]) + 1
    BY DEF Ends
  <2>2. topic[p] \in Seq(Payload)
    BY DEF IngestTypeOK
  <2>3. Len(topic[p]) \in Nat
    BY <2>2
  <2>4. upto[p] \in 1 .. MaxOffset + 1 /\ from[p] <= upto[p] /\ upto[p] <= latest[p]
    BY <1>1, PlanAdvances
  <2> QED
    BY <2>1, <2>3, <2>4
<1> QED
  BY <1>1, <1>2, PlanAdvances

\* The rows a micro-batch of the ingestion query appends are bronze rows of the
\* next commit (RowsRead, for a planned batch).
LEMMA RowsReadAreRows ==
  ASSUME IngestTypeOK, NEW from \in [Partition -> Nat \ {0}], NEW upto \in Plans(from),
         NEW r \in RowsRead(from, upto)
  PROVE  r \in Row /\ r.commit = version + 1
<1>1. upto \in [Partition -> 1 .. MaxOffset + 1]
      /\ \A p \in Partition : upto[p] <= Len(topic[p]) + 1
  BY PlanWithinTopic
<1>2. PICK p \in Partition : \E o \in from[p] .. upto[p] - 1 :
        r = [part |-> p, offset |-> o, commit |-> version + 1, value |-> topic[p][o]]
  BY DEF RowsRead
<1>. PICK o \in from[p] .. upto[p] - 1 :
        r = [part |-> p, offset |-> o, commit |-> version + 1, value |-> topic[p][o]]
  BY <1>2
<1>3. from[p] \in Nat \ {0} /\ upto[p] \in Nat /\ upto[p] <= Len(topic[p]) + 1
  BY <1>1
<1>4. topic[p] \in Seq(Payload)
  BY DEF IngestTypeOK
<1>5. o \in 1 .. Len(topic[p])
  BY <1>3, <1>4
<1>6. topic[p][o] \in Payload
  BY <1>4, <1>5
<1> QED
  BY <1>2, <1>5, <1>6 DEF Row, IngestTypeOK

\* A batch starts at a positive offset on every partition (StartOf).
LEMMA StartIsOffset ==
  ASSUME IngestTypeOK
  PROVE  StartOf \in [Partition -> Nat \ {0}]
BY DEF IngestTypeOK, StartOf, Served, StartingOffsets

\* The event time of a row that passes the drop rules is a number (PassesDropRules).
LEMMA UsableRowTime ==
  ASSUME NEW r \in Row, PassesDropRules(r.value)
  PROVE  /\ TimeOf(r) \in Nat /\ TimeOf(r) # NULL
         /\ EventTime(r) = TimeOf(r)
         /\ Expires(r) = TimeOf(r) + DedupDelay
         /\ Expires(r) \in Nat
<1>1. r.value \in PayloadType
  BY DEF Row
<1>2. r.value.transaction_timestamp \in (Nat \ {0}) \cup {NULL}
  BY <1>1 DEF PayloadType
<1>3. r.value.transaction_timestamp # NULL
  BY DEF PassesDropRules
<1> QED
  BY <1>2, <1>3 DEF TimeOf, EventTime, Expires

\* Keys, event times and expiries of bronze rows have their types.
LEMMA RowTypes ==
  ASSUME NEW r \in Row
  PROVE  /\ IdOf(r) \in Key
         /\ EventTime(r) \in Nat
         /\ Expires(r) \in Nat
         /\ r.commit \in Nat
<1>1. r.value \in PayloadType /\ r.commit \in Nat
  BY DEF Row
<1>2. r.value.transaction_timestamp \in (Nat \ {0}) \cup {NULL}
      /\ r.value.transaction_id \in TxnId \cup {NULL}
  BY <1>1 DEF PayloadType
<1> QED
  BY <1>1, <1>2 DEF IdOf, TimeOf, EventTime, Expires, Key


-----------------------------------------------------------------------------
\* The state store after a batch maps keys to numbers (Remember).
LEMMA RememberType ==
  ASSUME CuratedTypeOK, NEW S \in SUBSET Row
  PROVE  /\ DOMAIN Remember(S) \subseteq Key
         /\ \A k \in DOMAIN Remember(S) : Remember(S)[k] \in Nat
<1> DEFINE held == {k \in DOMAIN expiry : watermark < expiry[k]}
           new  == {r \in S : watermark < Expires(r)}
<1>1. \A r \in S : IdOf(r) \in Key /\ Expires(r) \in Nat
  BY RowTypes
<1>2. Remember(S) = [k \in held \cup {IdOf(r) : r \in new} |->
         IF k \in held THEN expiry[k] ELSE Expires(CHOOSE r \in new : IdOf(r) = k)]
  BY DEF Remember
<1>3. ASSUME NEW k \in (held \cup {IdOf(r) : r \in new}) \ held
      PROVE  (CHOOSE r \in new : IdOf(r) = k) \in S
  BY <1>3
<1> QED
  BY <1>1, <1>2, <1>3 DEF CuratedTypeOK

\* The next watermark is a number, and never before the current one.
LEMMA WatermarkAdvances ==
  ASSUME CuratedTypeOK, NEW rows \in SUBSET Row, NEW w \in WatermarkCandidates(rows),
         \A c \in WatermarkCandidates(rows) : c <= w
  PROVE  w \in Nat /\ watermark <= w
<1>1. \A r \in rows : EventTime(r) - DedupDelay \in Int
  BY RowTypes
<1>2. w \in Int
  BY <1>1 DEF WatermarkCandidates, CuratedTypeOK
<1>3. watermark \in WatermarkCandidates(rows)
  BY DEF WatermarkCandidates
<1> QED
  BY <1>2, <1>3 DEF CuratedTypeOK

\* The rows a dedup lets through are rows of its input.
LEMMA FirstCopiesFromInput ==
  ASSUME NEW rows, NEW S \in FirstCopies(rows)
  PROVE  S \subseteq rows /\ ExpectOrDrop(S) \subseteq S
BY DEF FirstCopies, Unseen, OnTime, ExpectOrDrop, SelectValid

\* A query that has run no batch remembers no key (NoKeys).
LEMMA NoKeysEmpty == DOMAIN NoKeys = {}
BY DEF NoKeys

\* An empty topic and no checkpoint have the right types (IngestInit).
LEMMA IngestTypeInit == IngestInit => IngestTypeOK
<1> SUFFICES ASSUME IngestInit PROVE IngestTypeOK
  OBVIOUS
<1>1. topic = [p \in Partition |-> << >>] /\ << >> \in Seq(Payload)
  BY DEF IngestInit, KafkaInit
<1>2. topic \in [Partition -> Seq(Payload)]
  BY <1>1
<1>3. started \in BOOLEAN
  BY DEF IngestInit, QueryInit
<1> QED
  BY <1>2, <1>3 DEF IngestInit, KafkaInit, QueryInit, IngestTypeOK

\* A step of the broker, the query or an operator on bronze preserves its types.
LEMMA IngestTypeStep == IngestTypeOK /\ [IngestNext]_ingestVars => IngestTypeOK'
<1> SUFFICES ASSUME IngestTypeOK, [IngestNext]_ingestVars PROVE IngestTypeOK'
  OBVIOUS
<1>1. ASSUME NEW p \in Partition, NEW m \in Payload, Produce(p, m) PROVE IngestTypeOK'
  BY <1>1 DEF Produce, IngestTypeOK, queryVars
<1>2. ASSUME NEW p \in Partition, Expire(p) PROVE IngestTypeOK'
  BY <1>2 DEF Expire, IngestTypeOK, queryVars
<1>3. CASE RecreateTopic
  BY <1>3 DEF RecreateTopic, IngestTypeOK, queryVars
<1>4. CASE Ingest
  <2>1. PICK upto \in Plans(StartOf) :
          bronze' = bronze \cup RowsRead(StartOf, upto) /\ nextRead' = upto
    BY <1>4 DEF Ingest
  <2>2. bronze' \subseteq Row
    BY <2>1, StartIsOffset, RowsReadAreRows DEF IngestTypeOK
  <2>3. nextRead' \in [Partition -> Nat \ {0}]
    BY <2>1, StartIsOffset, PlanWithinTopic
  <2>4. firstRead' \in [Partition -> Nat \ {0}]
    BY <1>4, StartIsOffset DEF Ingest, IngestTypeOK
  <2>5. UNCHANGED <<topic, earliest, recreations, operations>>
        /\ started' = TRUE /\ version' = version + 1
    BY <1>4 DEF Ingest, kafkaVars
  <2> QED
    BY <2>2, <2>3, <2>4, <2>5 DEF IngestTypeOK
<1>5. CASE ResetCheckpoint
  <2>1. started' \in BOOLEAN
    BY <1>5 DEF ResetCheckpoint
  <2> QED
    BY <1>5, <2>1 DEF ResetCheckpoint, IngestTypeOK, kafkaVars
<1>6. CASE RefreshBronze
  <2>1. started' \in BOOLEAN
    BY <1>6 DEF RefreshBronze
  <2> QED
    BY <1>6, <2>1 DEF RefreshBronze, IngestTypeOK, kafkaVars
<1>7. CASE UNCHANGED ingestVars
  BY <1>7 DEF ingestVars, IngestTypeOK
<1> QED
  BY <1>1, <1>2, <1>3, <1>4, <1>5, <1>6, <1>7 DEF IngestNext, BrokerStep

\* The types of bronze's ingestion hold in every reachable state of it, whatever
\* the broker deletes, however the topic is recreated and the checkpoint reset.
THEOREM IngestTyped == IngestSpec => []IngestTypeOK
BY IngestTypeInit, IngestTypeStep, PTL DEF IngestSpec

\* Empty curated tables beside it have the right types too (Init).
LEMMA TypeInit == Init => TypeOK
<1>1. Init => IngestTypeOK
  BY IngestTypeInit DEF Init
<1>2. Init => CuratedTypeOK
  BY NoKeysEmpty DEF Init, CuratedInit, CuratedTypeOK
<1> QED
  BY <1>1, <1>2 DEF TypeOK

\* Every step of the path preserves the types, action by action.
LEMMA TypeStep == TypeOK /\ [Next]_vars => TypeOK'
<1> SUFFICES ASSUME TypeOK, [Next]_vars PROVE TypeOK'
  OBVIOUS
<1> USE DEF TypeOK
<1>1. CASE IngestStep
  <2>1. CuratedTypeOK'
    BY <1>1 DEF IngestStep, CuratedTypeOK, silverVars, quarVars
  <2> QED
    BY <1>1, <2>1, IngestTypeStep DEF IngestStep, IngestNext
<1>2. CASE SilverStep
  <2>1. IngestTypeOK'
    BY <1>2 DEF SilverStep, SilverBatch, IngestTypeOK, kafkaVars, queryVars
  <2>2. PICK upto \in silverRead .. version : SilverBatch(upto)
    BY <1>2 DEF SilverStep
  <2> DEFINE rows == Commits(silverRead, upto)
  <2>3. rows \in SUBSET Row
    BY DEF Commits, IngestTypeOK
  <2>4. PICK first \in FirstCopies(rows) :
          silver' = silver \cup ExpectOrDrop(first) /\ expiry' = Remember(first)
    BY <2>2 DEF SilverBatch
  <2>5. first \in SUBSET Row /\ ExpectOrDrop(first) \subseteq Row
    BY <2>3, FirstCopiesFromInput
  <2>6. DOMAIN expiry' \subseteq Key /\ \A k \in DOMAIN expiry' : expiry'[k] \in Nat
    BY <2>4, <2>5, RememberType
  <2>7. watermark' \in Nat
    BY <2>2, <2>3, WatermarkAdvances DEF SilverBatch
  <2>8. silverRead' \in Nat
    BY <2>2 DEF SilverBatch, IngestTypeOK, CuratedTypeOK
  <2>9. CuratedTypeOK'
    BY <2>2, <2>4, <2>5, <2>6, <2>7, <2>8 DEF SilverBatch, CuratedTypeOK, quarVars
  <2> QED
    BY <2>1, <2>9
<1>3. CASE QuarantineStep
  <2>1. IngestTypeOK'
    BY <1>3 DEF QuarantineStep, QuarantineBatch, IngestTypeOK, kafkaVars, queryVars
  <2>2. PICK upto \in quarRead + 1 .. version : QuarantineBatch(upto)
    BY <1>3 DEF QuarantineStep
  <2>3. SelectQuarantined(Commits(quarRead, upto)) \subseteq Row
    BY DEF SelectQuarantined, Commits, IngestTypeOK
  <2> QED
    BY <2>1, <2>2, <2>3 DEF QuarantineBatch, CuratedTypeOK, IngestTypeOK, silverVars
<1>4. CASE Rebuild
  <2>1. IngestTypeOK'
    BY <1>4 DEF Rebuild, RefreshSilver, RefreshQuarantine, IngestTypeOK, kafkaVars, queryVars
  <2>2. CuratedTypeOK'
    BY <1>4, NoKeysEmpty DEF Rebuild, RefreshSilver, RefreshQuarantine, CuratedTypeOK,
                             silverVars, quarVars
  <2> QED
    BY <2>1, <2>2
<1>5. CASE FullRefresh
  <2>1. IngestTypeOK'
    BY <1>5, IngestTypeStep DEF FullRefresh, IngestNext
  <2>2. CuratedTypeOK'
    BY <1>5, NoKeysEmpty DEF FullRefresh, CuratedTypeOK
  <2> QED
    BY <2>1, <2>2
<1>6. CASE UNCHANGED vars
  BY <1>6 DEF vars, ingestVars, silverVars, quarVars, IngestTypeOK, CuratedTypeOK
<1> QED
  BY <1>1, <1>2, <1>3, <1>4, <1>5, <1>6 DEF Next

\* The types of the transaction path hold in every reachable state.
THEOREM TypeCorrect == Spec => []TypeOK
BY TypeInit, TypeStep, PTL DEF Spec

-----------------------------------------------------------------------------
\* A micro-batch of the ingestion query continues where the last one stopped:
\* with fail_on_data_loss the offsets it starts from are those of the checkpoint.
LEMMA StartsAtCheckpoint ==
  ASSUME IngestTypeOK, started, MayRead
  PROVE  StartOf = nextRead
BY DEF IngestTypeOK, StartOf, Served, MayRead, DataLoss

\* A step never leaves a hole below the checkpoint: MayRead refuses to jump, and
\* every commit appends all the offsets it covers.
LEMMA GapStep ==
  /\ IngestTypeOK /\ NoSilentGap
  /\ [IngestNext]_ingestVars \/ UNCHANGED <<bronze, firstRead, nextRead, started>>
  => NoSilentGap'
<1> SUFFICES ASSUME IngestTypeOK, NoSilentGap,
                    [IngestNext]_ingestVars \/ UNCHANGED <<bronze, firstRead, nextRead, started>>
             PROVE  NoSilentGap'
  OBVIOUS
<1>1. CASE BrokerStep
  <2>1. UNCHANGED <<bronze, firstRead, nextRead, started>>
    <3>1. CASE \E p \in Partition, m \in Payload : Produce(p, m)
      BY <3>1 DEF Produce, queryVars
    <3>2. CASE \E p \in Partition : Expire(p)
      BY <3>2 DEF Expire, queryVars
    <3>3. CASE RecreateTopic
      BY <3>3 DEF RecreateTopic, queryVars
    <3> QED
      BY <1>1, <3>1, <3>2, <3>3 DEF BrokerStep
  <2> QED
    BY <2>1 DEF NoSilentGap
<1>2. CASE Ingest
  <2>1. PICK upto \in Plans(StartOf) :
          bronze' = bronze \cup RowsRead(StartOf, upto) /\ nextRead' = upto
    BY <1>2 DEF Ingest
  <2>2. SUFFICES ASSUME NEW p \in Partition, NEW o \in firstRead'[p] .. nextRead'[p] - 1
                 PROVE  \E r \in bronze' : r.part = p /\ r.offset = o
    BY DEF NoSilentGap
  <2>3. StartOf[p] \in Nat /\ nextRead'[p] \in Nat /\ firstRead[p] \in Nat
        /\ nextRead[p] \in Nat
    <3>1. StartOf \in [Partition -> Nat \ {0}]
      BY StartIsOffset
    <3>2. upto \in [Partition -> 1 .. MaxOffset + 1]
      BY <2>1, <3>1, PlanWithinTopic
    <3> QED
      BY <2>1, <3>1, <3>2 DEF IngestTypeOK
  <2>4. CASE StartOf[p] <= o
    <3>1. o \in StartOf[p] .. upto[p] - 1
      BY <1>2, <2>1, <2>3, <2>4, StartIsOffset DEF Ingest, IngestTypeOK
    <3> DEFINE r == [part |-> p, offset |-> o, commit |-> version + 1, value |-> topic[p][o]]
    <3>2. r \in RowsRead(StartOf, upto)
      BY <3>1 DEF RowsRead
    <3> QED
      BY <2>1, <3>2
  <2>5. CASE ~(StartOf[p] <= o)
    <3>1. started
      BY <1>2, <2>3, <2>5 DEF Ingest
    <3>2. StartOf = nextRead /\ firstRead' = firstRead
      BY <1>2, <3>1, StartsAtCheckpoint DEF Ingest
    <3>3. o \in firstRead[p] .. nextRead[p] - 1
      BY <2>3, <2>5, <3>2
    <3> QED
      BY <2>1, <3>1, <3>3 DEF NoSilentGap
  <2> QED
    BY <2>4, <2>5
<1>3. CASE ResetCheckpoint
  BY <1>3 DEF ResetCheckpoint, NoSilentGap
<1>4. CASE RefreshBronze
  <2>1. started' = FALSE
    BY <1>4 DEF RefreshBronze
  <2> QED
    BY <2>1 DEF NoSilentGap
<1>5. CASE UNCHANGED <<bronze, firstRead, nextRead, started>>
  BY <1>5 DEF NoSilentGap
<1>6. CASE UNCHANGED ingestVars
  BY <1>5, <1>6 DEF ingestVars
<1> QED
  BY <1>1, <1>2, <1>3, <1>4, <1>5, <1>6 DEF IngestNext

\* The curated tables read bronze and leave it alone: a step of the path is one of
\* the ingestion, or touches neither the table nor its checkpoint.
LEMMA PathStepOfIngest ==
  [Next]_vars => [IngestNext]_ingestVars \/ UNCHANGED <<bronze, firstRead, nextRead, started, version>>
<1> SUFFICES ASSUME [Next]_vars
             PROVE  [IngestNext]_ingestVars \/ UNCHANGED <<bronze, firstRead, nextRead, started, version>>
  OBVIOUS
<1>1. CASE IngestStep \/ FullRefresh
  BY <1>1 DEF IngestStep, FullRefresh, IngestNext
<1>2. CASE SilverStep \/ QuarantineStep
  BY <1>2 DEF SilverStep, SilverBatch, QuarantineStep, QuarantineBatch, queryVars
<1>3. CASE Rebuild
  BY <1>3 DEF Rebuild, RefreshSilver, RefreshQuarantine, queryVars
<1>4. CASE UNCHANGED vars
  BY <1>4 DEF vars, ingestVars
<1> QED
  BY <1>1, <1>2, <1>3, <1>4 DEF Next

\* Bronze never has a silent gap below its checkpoint, whatever the broker
\* deletes, however the topic is recreated and the checkpoint reset.
THEOREM BronzeHasNoSilentGap == (IngestSpec => []NoSilentGap) /\ (Spec => []NoSilentGap)
<1>1. IngestInit => NoSilentGap
  BY DEF IngestInit, QueryInit, NoSilentGap
<1>2. Init => IngestInit
  BY DEF Init
<1>3. TypeOK => IngestTypeOK
  BY DEF TypeOK
<1>4. [Next]_vars => [IngestNext]_ingestVars \/ UNCHANGED <<bronze, firstRead, nextRead, started>>
  BY PathStepOfIngest
<1>5. IngestSpec => []NoSilentGap
  BY <1>1, GapStep, IngestTyped, PTL DEF IngestSpec
<1>6. Spec => []NoSilentGap
  BY <1>1, <1>2, <1>3, <1>4, GapStep, TypeCorrect, PTL DEF Spec
<1> QED
  BY <1>5, <1>6

\* While the topic is the one the checkpoint knows, what the query has read since
\* that checkpoint began is in bronze as produced, from an offset that is not above
\* the retained suffix.
DeliveryInv ==
  recreations = 0 /\ started =>
    \A p \in Partition :
      /\ firstRead[p] <= earliest[p]
      /\ nextRead[p] <= Len(topic[p]) + 1
      /\ \A o \in firstRead[p] .. nextRead[p] - 1 : Delivered(p, o)

\* A topic that grows keeps the records at their offsets, and a batch appends each
\* record it passes over (Produce, Ingest).
LEMMA DeliveryStep == IngestTypeOK /\ DeliveryInv /\ [IngestNext]_ingestVars => DeliveryInv'
<1> SUFFICES ASSUME IngestTypeOK, DeliveryInv, [IngestNext]_ingestVars, recreations' = 0, started',
                    NEW p \in Partition
             PROVE  /\ firstRead'[p] <= earliest'[p]
                    /\ nextRead'[p] <= Len(topic'[p]) + 1
                    /\ \A o \in firstRead'[p] .. nextRead'[p] - 1 : Delivered(p, o)'
  BY DEF DeliveryInv
<1>1. /\ earliest[p] \in Nat \ {0} /\ firstRead[p] \in Nat \ {0} /\ nextRead[p] \in Nat \ {0}
      /\ topic[p] \in Seq(Payload) /\ Len(topic[p]) \in Nat /\ version \in Nat
  BY DEF IngestTypeOK
<1>2. ASSUME recreations = 0, started, UNCHANGED <<bronze, firstRead, nextRead>>,
             earliest[p] <= earliest'[p], earliest'[p] \in Nat,
             Len(topic[p]) <= Len(topic'[p]), Len(topic'[p]) \in Nat,
             \A o \in 1 .. Len(topic[p]) : topic'[p][o] = topic[p][o]
      PROVE  /\ firstRead'[p] <= earliest'[p]
             /\ nextRead'[p] <= Len(topic'[p]) + 1
             /\ \A o \in firstRead'[p] .. nextRead'[p] - 1 : Delivered(p, o)'
  <2>1. firstRead[p] <= earliest[p] /\ nextRead[p] <= Len(topic[p]) + 1
    BY <1>2 DEF DeliveryInv
  <2>2. ASSUME NEW o \in firstRead[p] .. nextRead[p] - 1
        PROVE  \E r \in bronze' : r.part = p /\ r.offset = o /\ r.value = topic'[p][o]
    <3>1. o \in 1 .. Len(topic[p])
      BY <1>1, <2>1
    <3>2. PICK r \in bronze : r.part = p /\ r.offset = o /\ r.value = topic[p][o]
      BY <1>2 DEF DeliveryInv, Delivered
    <3> QED
      BY <1>2, <3>1, <3>2
  <2>3. firstRead'[p] <= earliest'[p] /\ nextRead'[p] <= Len(topic'[p]) + 1
    BY <1>1, <1>2, <2>1
  <2> QED
    BY <1>2, <2>2, <2>3 DEF Delivered
<1>3. ASSUME NEW q \in Partition, NEW m \in Payload, Produce(q, m)
      PROVE  /\ firstRead'[p] <= earliest'[p]
             /\ nextRead'[p] <= Len(topic'[p]) + 1
             /\ \A o \in firstRead'[p] .. nextRead'[p] - 1 : Delivered(p, o)'
  <2>1. /\ UNCHANGED <<bronze, earliest, recreations, firstRead, nextRead, started>>
        /\ topic' = [topic EXCEPT ![q] = Append(@, m)]
    BY <1>3 DEF Produce, queryVars
  <2>2. topic'[p] = topic[p] \/ topic'[p] = Append(topic[p], m)
    BY <2>1 DEF IngestTypeOK
  <2>3. /\ Len(topic[p]) <= Len(topic'[p]) /\ Len(topic'[p]) \in Nat
        /\ \A o \in 1 .. Len(topic[p]) : topic'[p][o] = topic[p][o]
    BY <1>1, <2>2
  <2> QED
    BY <1>1, <1>2, <2>1, <2>3
<1>4. ASSUME NEW q \in Partition, Expire(q)
      PROVE  /\ firstRead'[p] <= earliest'[p]
             /\ nextRead'[p] <= Len(topic'[p]) + 1
             /\ \A o \in firstRead'[p] .. nextRead'[p] - 1 : Delivered(p, o)'
  <2>1. /\ UNCHANGED <<bronze, topic, recreations, firstRead, nextRead, started>>
        /\ earliest' = [earliest EXCEPT ![q] = @ + 1]
    BY <1>4 DEF Expire, queryVars
  <2>2. earliest'[p] \in Nat /\ earliest[p] <= earliest'[p]
    BY <1>1, <2>1 DEF IngestTypeOK
  <2> QED
    BY <1>1, <1>2, <2>1, <2>2
<1>5. CASE RecreateTopic
  BY <1>5 DEF RecreateTopic, IngestTypeOK
<1>6. CASE Ingest
  <2>1. PICK upto \in Plans(StartOf) :
          bronze' = bronze \cup RowsRead(StartOf, upto) /\ nextRead' = upto
    BY <1>6 DEF Ingest
  <2>2. UNCHANGED <<topic, earliest, recreations>> /\ MayRead
        /\ (started => firstRead' = firstRead) /\ (~started => firstRead' = StartOf)
    BY <1>6 DEF Ingest, kafkaVars
  <2>3. StartOf[p] \in Nat \ {0} /\ upto[p] \in Nat /\ upto[p] <= Len(topic[p]) + 1
    BY <2>1, StartIsOffset, PlanWithinTopic
  <2>4. /\ ~started => firstRead'[p] = earliest[p] /\ StartOf[p] = earliest[p]
        /\ started => firstRead'[p] = firstRead[p] /\ StartOf[p] = nextRead[p]
    <3>1. CASE started
      BY <2>2, <3>1, StartsAtCheckpoint
    <3>2. CASE ~started
      BY <2>2, <3>2 DEF StartOf, Served, StartingOffsets, IngestTypeOK
    <3> QED
      BY <3>1, <3>2
  <2>5. firstRead'[p] <= earliest[p]
    BY <1>1, <2>2, <2>4 DEF DeliveryInv
  <2>6. ASSUME NEW o \in firstRead'[p] .. nextRead'[p] - 1
        PROVE  \E r \in bronze' : r.part = p /\ r.offset = o /\ r.value = topic[p][o]
    <3>1. firstRead'[p] \in Nat /\ o \in Int
      BY <1>1, <2>4
    <3>2. CASE StartOf[p] <= o
      <4>1. o \in StartOf[p] .. upto[p] - 1
        BY <2>1, <2>3, <3>1, <3>2
      <4> DEFINE r == [part |-> p, offset |-> o, commit |-> version + 1, value |-> topic[p][o]]
      <4>2. r \in RowsRead(StartOf, upto)
        BY <4>1 DEF RowsRead
      <4> QED
        BY <2>1, <4>2
    <3>3. CASE ~(StartOf[p] <= o)
      <4>1. started
        BY <2>3, <2>4, <3>1, <3>3
      <4>2. o \in firstRead[p] .. nextRead[p] - 1
        BY <1>1, <2>4, <3>1, <3>3, <4>1
      <4>3. Delivered(p, o)
        BY <2>2, <4>1, <4>2 DEF DeliveryInv
      <4> QED
        BY <2>1, <4>3 DEF Delivered
    <3> QED
      BY <3>2, <3>3
  <2> QED
    BY <2>1, <2>2, <2>3, <2>5, <2>6 DEF Delivered
<1>7. CASE ResetCheckpoint \/ RefreshBronze
  BY <1>7 DEF ResetCheckpoint, RefreshBronze
<1>8. CASE UNCHANGED ingestVars
  <2>1. UNCHANGED <<bronze, topic, earliest, recreations, firstRead, nextRead, started>>
    BY <1>8 DEF ingestVars
  <2> QED
    BY <1>1, <1>2, <2>1
<1> QED
  BY <1>3, <1>4, <1>5, <1>6, <1>7, <1>8 DEF IngestNext, BrokerStep

\* "Rather than silently skipping ahead": until the topic is recreated, a record the
\* broker holds is in bronze, still to be read, or behind an alarm, whatever is
\* deleted and however often the checkpoint is reset.  The recreation alone breaks it.
THEOREM RetainedUntilRecreated == IngestSpec => [](recreations = 0 => RetainedIsReadOrUnread)
<1>1. IngestInit => DeliveryInv
  BY DEF IngestInit, QueryInit, DeliveryInv
<1>2. IngestTypeOK /\ DeliveryInv => (recreations = 0 => RetainedIsReadOrUnread)
  <2> SUFFICES ASSUME IngestTypeOK, DeliveryInv, recreations = 0, started,
                      NEW p \in Partition, NEW o \in earliest[p] .. nextRead[p] - 1
               PROVE  Delivered(p, o)
    BY DEF RetainedIsReadOrUnread
  <2>1. firstRead[p] <= earliest[p] /\ firstRead[p] \in Nat /\ earliest[p] \in Nat /\ nextRead[p] \in Nat
    BY DEF DeliveryInv, IngestTypeOK
  <2>2. o \in firstRead[p] .. nextRead[p] - 1
    BY <2>1
  <2> QED
    BY <2>2 DEF DeliveryInv
<1> QED
  BY <1>1, <1>2, DeliveryStep, IngestTyped, PTL DEF IngestSpec

\* What the broker retains begins at the end of the log at the latest, and no log
\* is longer than the bound.
BrokerInv ==
  \A p \in Partition : Len(topic[p]) <= MaxOffset /\ earliest[p] <= Len(topic[p]) + 1

\* Retention stops at the end of the log, and a new topic starts both over.
LEMMA BrokerStepKeeps == IngestTypeOK /\ BrokerInv /\ [IngestNext]_ingestVars => BrokerInv'
<1> SUFFICES ASSUME IngestTypeOK, BrokerInv, [IngestNext]_ingestVars, NEW p \in Partition
             PROVE  Len(topic'[p]) <= MaxOffset /\ earliest'[p] <= Len(topic'[p]) + 1
  BY DEF BrokerInv
<1>1. /\ earliest[p] \in Nat \ {0} /\ topic[p] \in Seq(Payload) /\ Len(topic[p]) \in Nat
      /\ Len(topic[p]) <= MaxOffset /\ earliest[p] <= Len(topic[p]) + 1
  BY DEF IngestTypeOK, BrokerInv
<1>2. ASSUME NEW q \in Partition, NEW m \in Payload, Produce(q, m)
      PROVE  Len(topic'[p]) <= MaxOffset /\ earliest'[p] <= Len(topic'[p]) + 1
  <2>1. \/ topic'[p] = topic[p]
        \/ Len(topic[p]) < MaxOffset /\ topic'[p] = Append(topic[p], m)
    BY <1>2 DEF Produce, IngestTypeOK
  <2>2. earliest' = earliest
    BY <1>2 DEF Produce
  <2> QED
    BY <1>1, <2>1, <2>2
<1>3. ASSUME NEW q \in Partition, Expire(q)
      PROVE  Len(topic'[p]) <= MaxOffset /\ earliest'[p] <= Len(topic'[p]) + 1
  <2>1. \/ earliest'[p] = earliest[p]
        \/ earliest[p] <= Len(topic[p]) /\ earliest'[p] = earliest[p] + 1
    BY <1>3 DEF Expire, IngestTypeOK
  <2>2. topic' = topic
    BY <1>3 DEF Expire
  <2> QED
    BY <1>1, <2>1, <2>2
<1>4. CASE RecreateTopic
  <2>1. topic'[p] = << >> /\ earliest'[p] = 1
    BY <1>4 DEF RecreateTopic
  <2> QED
    BY <2>1
<1>5. CASE Ingest \/ ResetCheckpoint \/ RefreshBronze
  <2>1. topic' = topic /\ earliest' = earliest
    BY <1>5 DEF Ingest, ResetCheckpoint, RefreshBronze, kafkaVars
  <2> QED
    BY <1>1, <2>1
<1>6. CASE UNCHANGED ingestVars
  BY <1>1, <1>6 DEF ingestVars
<1> QED
  BY <1>2, <1>3, <1>4, <1>5, <1>6 DEF IngestNext, BrokerStep

\* A record is waiting that the query has not read.
Unread == \E p \in Partition : StartOf[p] <= Len(topic[p])

\* A batch that knows all of the topic starves no partition that has a record unread.
NoneStarved ==
  \E upto \in Plans(StartOf) : \A p \in Partition :
    StartOf[p] <= Len(topic[p]) => StartOf[p] < upto[p]

\* A query that may read starts no later than the end of the topic (StartOf).
LEMMA StartsWithinTopic ==
  ASSUME IngestTypeOK, BrokerInv, MayRead, NEW q \in Partition
  PROVE  /\ StartOf[q] \in Nat \ {0} /\ Len(topic[q]) \in Nat
         /\ Len(topic[q]) <= MaxOffset /\ StartOf[q] <= Len(topic[q]) + 1
<1>1. StartOf[q] \in Nat \ {0} /\ Len(topic[q]) \in Nat /\ Len(topic[q]) <= MaxOffset
  BY StartIsOffset DEF IngestTypeOK, BrokerInv
<1>2. CASE started
  <2>1. StartOf = nextRead
    BY <1>2, StartsAtCheckpoint
  <2>2. ~(nextRead[q] > Len(topic[q]) + 1)
    BY <1>2 DEF MayRead, DataLoss
  <2> QED
    BY <1>1, <2>1, <2>2
<1>3. CASE ~started
  <2>1. StartOf[q] = earliest[q]
    BY <1>3 DEF StartOf, Served, StartingOffsets, IngestTypeOK
  <2> QED
    BY <1>1, <2>1 DEF BrokerInv
<1> QED
  BY <1>2, <1>3

\* The batch planned over the whole topic takes a record of every partition that
\* has one unread (Prorated).
LEMMA WholeTopicPlanned ==
  ASSUME IngestTypeOK, BrokerInv, MayRead, Unread
  PROVE  NoneStarved
<1> DEFINE latest == [q \in Partition |-> Len(topic[q]) + 1]
<1>1. PICK p \in Partition : StartOf[p] <= Len(topic[p])
  BY DEF Unread
<1>2. \A q \in Partition : /\ StartOf[q] \in Nat \ {0} /\ Len(topic[q]) \in Nat
                          /\ Len(topic[q]) <= MaxOffset /\ StartOf[q] <= Len(topic[q]) + 1
  BY StartsWithinTopic
<1>3. latest \in Ends(StartOf)
  <2>1. \A q \in Partition : latest[q] \in 1 .. MaxOffset + 1
    BY <1>2
  <2>2. latest[p] # StartOf[p]
    BY <1>1, <1>2
  <2>3. latest \in [Partition -> 1 .. MaxOffset + 1] /\ latest # StartOf
    BY <2>1, <2>2
  <2>4. \A q \in Partition : StartOf[q] <= latest[q] /\ latest[q] <= Len(topic[q]) + 1
    BY <1>2
  <2> QED
    BY <2>3, <2>4 DEF Ends
<1>4. Prorated(StartOf, latest) \in Plans(StartOf)
  BY <1>3 DEF Plans
<1>5. ASSUME NEW q \in Partition, StartOf[q] <= Len(topic[q])
      PROVE  StartOf[q] < Prorated(StartOf, latest)[q]
  <2>1. StartOf[q] < latest[q]
    BY <1>2, <1>5
  <2> HIDE DEF latest
  <2> QED
    BY <1>3, <2>1, StartIsOffset, PlanAdvances
<1> QED
  BY <1>4, <1>5 DEF NoneStarved

\* The safety half of EveryRecordLands: the query never waits with a record unread
\* but behind the alarm of fail_on_data_loss; otherwise there is a batch to take,
\* and however large one partition is, dividing the cap starves no other.
THEOREM QueryNeverStalls == IngestSpec => [](MayRead /\ Unread => NoneStarved)
<1>1. IngestInit => BrokerInv
  <2> SUFFICES ASSUME IngestInit, NEW p \in Partition
               PROVE  Len(topic[p]) <= MaxOffset /\ earliest[p] <= Len(topic[p]) + 1
    BY DEF BrokerInv
  <2>1. topic[p] = << >> /\ earliest[p] = 1
    BY DEF IngestInit, KafkaInit
  <2> QED
    BY <2>1
<1>2. IngestTypeOK /\ BrokerInv => (MayRead /\ Unread => NoneStarved)
  BY WholeTopicPlanned
<1> QED
  BY <1>1, <1>2, BrokerStepKeeps, IngestTyped, PTL DEF IngestSpec

-----------------------------------------------------------------------------
\* The dedup lets exactly one row of every new key through.
LEMMA FirstCopiesUnique ==
  ASSUME NEW rows, NEW S \in FirstCopies(rows)
  PROVE  /\ S \subseteq Unseen(rows)
         /\ \A r, s \in S : IdOf(r) = IdOf(s) => r = s
         /\ \A r \in Unseen(rows) : \E s \in S : IdOf(s) = IdOf(r)
<1>1. S \subseteq Unseen(rows)
  BY DEF FirstCopies
<1>2. ASSUME NEW r \in Unseen(rows)
      PROVE  \E s \in S : S \cap {t \in Unseen(rows) : IdOf(t) = IdOf(r)} = {s}
  BY DEF FirstCopies
<1>3. ASSUME NEW r \in S, NEW s \in S, IdOf(r) = IdOf(s) PROVE r = s
  <2>1. PICK u \in S : S \cap {t \in Unseen(rows) : IdOf(t) = IdOf(r)} = {u}
    BY <1>1, <1>2
  <2>2. r \in {u} /\ s \in {u}
    BY <1>1, <1>3, <2>1
  <2> QED
    BY <2>2
<1> QED
  BY <1>1, <1>2, <1>3

\* A key whose expiry the watermark has not reached is kept unchanged.
LEMMA RememberOld ==
  ASSUME NEW S, NEW k \in DOMAIN expiry, watermark < expiry[k]
  PROVE  k \in DOMAIN Remember(S) /\ Remember(S)[k] = expiry[k]
BY DEF Remember

\* A new key is stored with the expiry of the row that was let through.
LEMMA RememberNew ==
  ASSUME NEW S, \A r, s \in S : IdOf(r) = IdOf(s) => r = s,
         NEW r \in S, IdOf(r) \notin DOMAIN expiry, watermark < Expires(r)
  PROVE  IdOf(r) \in DOMAIN Remember(S) /\ Remember(S)[IdOf(r)] = Expires(r)
<1> DEFINE new == {t \in S : watermark < Expires(t)}
<1>1. r \in new
  OBVIOUS
<1>2. (CHOOSE t \in new : IdOf(t) = IdOf(r)) = r
  BY <1>1
<1> HIDE DEF new
<1> QED
  BY <1>1, <1>2 DEF Remember, new

\* Every key stored was stored before or belongs to a row let through now.
LEMMA RememberOwner ==
  ASSUME NEW S, NEW k \in DOMAIN Remember(S)
  PROVE  k \in DOMAIN expiry \/ \E r \in S : IdOf(r) = k
BY DEF Remember

-----------------------------------------------------------------------------
\* Steps that leave the curated layer, bronze and its version alone.
LEMMA QuietStep ==
  ASSUME PathInv, TypeOK', UNCHANGED <<bronze, version, silverVars, quarVars>>
  PROVE  PathInv'
<1>1. CheckpointsBehind' /\ Remembered'
  BY DEF PathInv, CheckpointsBehind, Remembered, Commits, SelectQuarantined, silverVars, quarVars
<1>2. DuplicatesFarApart' /\ KeysOwned'
  BY DEF PathInv, DuplicatesFarApart, KeysOwned, Emitted, silverVars, quarVars
<1>3. LeftOut'
  BY DEF PathInv, LeftOut, Late, Emitted, Commits, SelectValid, silverVars, quarVars
<1> QED
  BY <1>1, <1>2, <1>3 DEF PathInv

\* Commits that a checkpoint has passed do not change when bronze is appended to.
LEMMA AppendKeepsCommits ==
  ASSUME CheckpointsBehind, TypeOK, NEW new \in SUBSET Row,
         \A r \in new : r.commit = version + 1,
         bronze' = bronze \cup new, NEW upto \in Nat, upto <= version, NEW from \in Nat
  PROVE  Commits(from, upto)' = Commits(from, upto)
BY DEF Commits, TypeOK, IngestTypeOK

\* A new bronze commit is beyond every checkpoint, so it disturbs neither silver
\* nor the quarantine (Ingest).
LEMMA IngestKeepsPathInv ==
  ASSUME PathInv, TypeOK', Ingest, UNCHANGED <<silverVars, quarVars>>
  PROVE  PathInv'
<1>0. TypeOK /\ IngestTypeOK /\ CuratedTypeOK /\ CheckpointsBehind
  BY DEF PathInv, TypeOK
<1>1. PICK upto \in Plans(StartOf) : bronze' = bronze \cup RowsRead(StartOf, upto)
  BY DEF Ingest
<1> DEFINE new == RowsRead(StartOf, upto)
<1>2. new \in SUBSET Row /\ \A r \in new : r.commit = version + 1
  BY <1>0, StartIsOffset, RowsReadAreRows
<1>3. version' = version + 1 /\ version \in Nat
  BY <1>0 DEF Ingest, IngestTypeOK
<1>4. silverRead \in Nat /\ quarRead \in Nat /\ silverRead <= version /\ quarRead <= version
  BY <1>0 DEF CheckpointsBehind, CuratedTypeOK
<1>5. /\ Commits(0, silverRead)' = Commits(0, silverRead)
      /\ Commits(0, quarRead)' = Commits(0, quarRead)
  BY <1>0, <1>1, <1>2, <1>4, AppendKeepsCommits DEF silverVars, quarVars
<1>6. UNCHANGED <<silver, silverRead, watermark, expiry, quarantine, quarRead>>
  BY DEF silverVars, quarVars
<1> HIDE DEF new
<1>7. CheckpointsBehind'
  <2>1. \A r \in bronze' : r.commit <= version'
    BY <1>0, <1>1, <1>2, <1>3 DEF CheckpointsBehind, IngestTypeOK, Row, new
  <2>2. silverRead' <= version' /\ quarRead' <= version'
    BY <1>3, <1>4, <1>6
  <2>3. quarantine' = SelectQuarantined(Commits(0, quarRead))'
    BY <1>0, <1>5, <1>6 DEF CheckpointsBehind, SelectQuarantined
  <2> QED
    BY <1>0, <1>1, <1>6, <2>1, <2>2, <2>3 DEF CheckpointsBehind
<1>8. Remembered' /\ DuplicatesFarApart'
  BY <1>6 DEF PathInv, Remembered, DuplicatesFarApart
<1>9. \A s \in bronze : Emitted(s) => s \in bronze' /\ Emitted(s)'
  BY <1>1, <1>6 DEF Emitted
<1>10. KeysOwned'
  BY <1>6, <1>9 DEF PathInv, KeysOwned
<1>11. LeftOut'
  <2>1. SelectValid(Commits(0, silverRead))' = SelectValid(Commits(0, silverRead))
    BY <1>5 DEF SelectValid
  <2> QED
    BY <1>6, <1>9, <2>1 DEF PathInv, LeftOut, Late
<1> QED
  BY <1>7, <1>8, <1>10, <1>11 DEF PathInv

-----------------------------------------------------------------------------
\* A micro-batch of silver keeps the invariant.  The state store is what links a
\* row let through now to the rows of silver: its key is not held, so the
\* watermark has passed the expiry of every silver row with its id.
LEMMA SilverKeepsPathInv ==
  ASSUME PathInv, TypeOK', SilverStep
  PROVE  PathInv'
<1>0. TypeOK /\ IngestTypeOK /\ CuratedTypeOK /\ CheckpointsBehind
  BY DEF PathInv, TypeOK
<1>1. PICK upto \in silverRead .. version : SilverBatch(upto)
  BY DEF SilverStep
<1> DEFINE rows == Commits(silverRead, upto)
<1>2. PICK first \in FirstCopies(rows) :
        silver' = silver \cup ExpectOrDrop(first) /\ expiry' = Remember(first)
  BY <1>1 DEF SilverBatch
<1>3. UNCHANGED <<bronze, version, quarantine, quarRead>> /\ silverRead' = upto
  BY <1>1 DEF SilverStep, SilverBatch, quarVars, queryVars
<1>4. upto \in Nat /\ silverRead \in Nat /\ silverRead <= upto /\ upto <= version
      /\ version \in Nat /\ watermark \in Nat /\ watermark' \in Nat
  BY <1>0, <1>1 DEF IngestTypeOK, CuratedTypeOK, TypeOK
<1>5. rows \subseteq bronze /\ rows \subseteq Row
      /\ \A r \in rows : silverRead < r.commit /\ r.commit <= upto
  BY <1>0 DEF Commits, IngestTypeOK
<1>6. watermark <= watermark'
  BY <1>0, <1>1, <1>5, WatermarkAdvances DEF SilverBatch
<1> HIDE DEF rows
<1>7. /\ first \subseteq Unseen(rows)
      /\ \A r, s \in first : IdOf(r) = IdOf(s) => r = s
      /\ \A r \in Unseen(rows) : \E s \in first : IdOf(s) = IdOf(r)
  BY <1>2, FirstCopiesUnique
<1>8. first \subseteq rows
  BY <1>7 DEF Unseen, OnTime
<1>9. \A r \in first : IdOf(r) \notin DOMAIN expiry
  BY <1>7 DEF Unseen
<1>10. \A r \in silver : r \in Row /\ r \in bronze /\ r.commit <= silverRead /\ PassesDropRules(r.value)
  BY <1>0 DEF CheckpointsBehind, CuratedTypeOK
<1>11. \A r \in ExpectOrDrop(first) :
         /\ r \in first /\ r \in Row /\ PassesDropRules(r.value)
         /\ TimeOf(r) \in Nat /\ Expires(r) = TimeOf(r) + DedupDelay
         /\ watermark < TimeOf(r)
  <2> SUFFICES ASSUME NEW r \in ExpectOrDrop(first)
               PROVE  /\ r \in first /\ r \in Row /\ PassesDropRules(r.value)
                      /\ TimeOf(r) \in Nat /\ Expires(r) = TimeOf(r) + DedupDelay
                      /\ watermark < TimeOf(r)
    OBVIOUS
  <2>1. r \in first /\ PassesDropRules(r.value)
    BY DEF ExpectOrDrop, SelectValid
  <2>2. r \in Row
    BY <1>5, <1>8, <2>1
  <2>3. TimeOf(r) # NULL /\ TimeOf(r) \in Nat /\ Expires(r) = TimeOf(r) + DedupDelay
    BY <2>1, <2>2, UsableRowTime
  <2>4. r \in OnTime(rows)
    BY <1>7, <2>1 DEF Unseen
  <2> QED
    BY <2>1, <2>2, <2>3, <2>4 DEF OnTime
<1>12. \A r \in silver : TimeOf(r) \in Nat /\ Expires(r) = TimeOf(r) + DedupDelay
  BY <1>10, UsableRowTime
<1>13. CheckpointsBehind'
  <2>1. \A r \in silver' : r \in bronze' /\ r.commit <= silverRead' /\ PassesDropRules(r.value)
    BY <1>2, <1>3, <1>4, <1>5, <1>8, <1>10, <1>11 DEF Row
  <2>2. quarantine' = SelectQuarantined(Commits(0, quarRead))'
    BY <1>0, <1>3 DEF CheckpointsBehind, SelectQuarantined, Commits
  <2> QED
    BY <1>0, <1>3, <1>4, <2>1, <2>2 DEF CheckpointsBehind
<1>14. Remembered'
  <2> SUFFICES ASSUME NEW r \in silver'
               PROVE  \/ IdOf(r) \in DOMAIN expiry' /\ Expires(r) <= expiry'[IdOf(r)]
                      \/ Expires(r) <= watermark'
    BY DEF Remembered
  <2>1. CASE r \in silver
    <3>1. Expires(r) \in Nat
      BY <1>12, <2>1
    <3>2. CASE IdOf(r) \in DOMAIN expiry /\ Expires(r) <= expiry[IdOf(r)]
      <4>1. expiry[IdOf(r)] \in Nat
        BY <1>0, <3>2 DEF CuratedTypeOK
      <4>2. CASE watermark < expiry[IdOf(r)]
        BY <1>2, <3>2, <4>2, RememberOld
      <4>3. CASE ~(watermark < expiry[IdOf(r)])
        BY <1>4, <1>6, <3>1, <3>2, <4>1, <4>3
      <4> QED
        BY <4>2, <4>3
    <3>3. CASE Expires(r) <= watermark
      BY <1>4, <1>6, <3>1, <3>3
    <3> QED
      BY <2>1, <3>2, <3>3 DEF PathInv, Remembered
  <2>2. CASE r \in ExpectOrDrop(first)
    <3>1. watermark < Expires(r) /\ Expires(r) \in Nat /\ r \in first
      BY <1>4, <1>11, <2>2
    <3>2. IdOf(r) \in DOMAIN Remember(first) /\ Remember(first)[IdOf(r)] = Expires(r)
      BY <1>7, <1>9, <3>1, RememberNew
    <3> QED
      BY <1>2, <3>1, <3>2
  <2> QED
    BY <1>2, <2>1, <2>2
<1>15. DuplicatesFarApart'
  <2>1. ASSUME NEW r \in ExpectOrDrop(first), NEW s \in silver, IdOf(r) = IdOf(s)
        PROVE  TimeOf(r) > TimeOf(s) + DedupDelay
    <3>1. IdOf(s) \notin DOMAIN expiry
      BY <1>9, <1>11, <2>1
    <3>2. Expires(s) <= watermark
      BY <3>1 DEF PathInv, Remembered
    <3> QED
      BY <1>4, <1>11, <1>12, <3>2
  <2>2. \A r, s \in ExpectOrDrop(first) : IdOf(r) = IdOf(s) => r = s
    BY <1>7, <1>11
  <2> SUFFICES ASSUME NEW r \in silver', NEW s \in silver', r # s, IdOf(r) = IdOf(s)
               PROVE  TimeOf(r) > TimeOf(s) + DedupDelay \/ TimeOf(s) > TimeOf(r) + DedupDelay
    BY DEF DuplicatesFarApart
  <2>3. CASE r \in silver /\ s \in silver
    BY <2>3 DEF PathInv, DuplicatesFarApart
  <2> QED
    BY <1>2, <2>1, <2>2, <2>3
<1>16. \A s \in bronze : Emitted(s) => Emitted(s)'
  BY <1>2, <1>3, <1>4, <1>0 DEF Emitted, IngestTypeOK, Row
<1>17. \A s \in first : s \in bronze /\ Emitted(s)'
  BY <1>2, <1>3, <1>5, <1>8 DEF Emitted, ExpectOrDrop, SelectValid
<1>18. KeysOwned'
  BY <1>2, <1>3, <1>16, <1>17, RememberOwner DEF PathInv, KeysOwned
<1>19. LeftOut'
  <2> SUFFICES ASSUME NEW r \in bronze, PassesDropRules(r.value), r.commit <= upto, r \notin silver'
               PROVE  Late(r)' \/ \E s \in bronze : s # r /\ Emitted(s)' /\ IdOf(s) = IdOf(r)
    BY <1>3 DEF LeftOut, SelectValid, Commits
  <2>1. r \in Row /\ r.commit \in Nat \ {0}
    BY <1>0 DEF IngestTypeOK, Row
  <2>2. TimeOf(r) \in Nat /\ TimeOf(r) # NULL
    BY <2>1, UsableRowTime
  <2>3. TimeOf(r) <= watermark => Late(r)'
    BY <1>4, <1>6, <2>2 DEF Late, TimeOf
  <2>4. CASE r.commit <= silverRead
    <3>1. r \in SelectValid(Commits(0, silverRead)) \ silver
      BY <1>2, <2>1, <2>4 DEF SelectValid, Commits
    <3>2. Late(r) \/ \E s \in bronze : s # r /\ Emitted(s) /\ IdOf(s) = IdOf(r)
      BY <3>1 DEF PathInv, LeftOut
    <3> QED
      BY <1>16, <2>3, <3>2 DEF Late
  <2>5. CASE ~(r.commit <= silverRead)
    <3>1. r \in rows
      BY <1>4, <2>1, <2>5 DEF rows, Commits
    <3>2. CASE TimeOf(r) <= watermark
      BY <2>3, <3>2
    <3>3. CASE ~(TimeOf(r) <= watermark) /\ IdOf(r) \in DOMAIN expiry
      <4>1. PICK s \in bronze : Emitted(s) /\ IdOf(s) = IdOf(r)
        BY <3>3 DEF PathInv, KeysOwned
      <4>2. s # r
        BY <2>5, <4>1 DEF Emitted
      <4> QED
        BY <1>16, <4>1, <4>2
    <3>4. CASE ~(TimeOf(r) <= watermark) /\ IdOf(r) \notin DOMAIN expiry
      <4>1. r \in Unseen(rows)
        BY <1>4, <2>2, <3>1, <3>4 DEF Unseen, OnTime
      <4>2. PICK s \in first : IdOf(s) = IdOf(r)
        BY <1>7, <4>1
      <4>3. s # r
        BY <1>2 DEF ExpectOrDrop, SelectValid
      <4> QED
        BY <1>17, <4>2, <4>3
    <3> QED
      BY <3>2, <3>3, <3>4
  <2> QED
    BY <2>4, <2>5
<1> QED
  BY <1>13, <1>14, <1>15, <1>18, <1>19 DEF PathInv

-----------------------------------------------------------------------------
\* A quarantine batch adds the rejected rows of the commits it passes and leaves
\* silver alone (QuarantineBatch).
LEMMA QuarantineKeepsPathInv ==
  ASSUME PathInv, TypeOK', QuarantineStep
  PROVE  PathInv'
<1>0. TypeOK /\ IngestTypeOK /\ CuratedTypeOK /\ CheckpointsBehind
  BY DEF PathInv, TypeOK
<1>1. PICK upto \in quarRead + 1 .. version : QuarantineBatch(upto)
  BY DEF QuarantineStep
<1>2. UNCHANGED <<bronze, version, silver, silverRead, watermark, expiry>> /\ quarRead' = upto
  BY <1>1 DEF QuarantineStep, QuarantineBatch, silverVars, queryVars
<1>3. quarantine' = SelectQuarantined(Commits(0, quarRead))'
  <2>1. quarantine' = SelectQuarantined(Commits(0, quarRead))
                      \cup SelectQuarantined(Commits(quarRead, upto))
    BY <1>0, <1>1 DEF QuarantineBatch, CheckpointsBehind
  <2>2. \A r \in bronze : r.commit \in Nat \ {0}
    BY <1>0 DEF IngestTypeOK, Row
  <2>3. Commits(0, quarRead) \cup Commits(quarRead, upto) = Commits(0, upto)
    BY <1>0, <1>1, <2>2 DEF Commits, CuratedTypeOK, IngestTypeOK
  <2>4. Commits(0, quarRead)' = Commits(0, upto)
    BY <1>2 DEF Commits
  <2> QED
    BY <2>1, <2>3, <2>4 DEF SelectQuarantined
<1>4. CheckpointsBehind'
  BY <1>0, <1>1, <1>2, <1>3 DEF CheckpointsBehind, IngestTypeOK, CuratedTypeOK
<1>5. Remembered' /\ DuplicatesFarApart'
  BY <1>2 DEF PathInv, Remembered, DuplicatesFarApart
<1>6. KeysOwned'
  BY <1>2 DEF PathInv, KeysOwned, Emitted
<1>7. LeftOut'
  BY <1>2 DEF PathInv, LeftOut, Late, Emitted, Commits, SelectValid
<1> QED
  BY <1>4, <1>5, <1>6, <1>7 DEF PathInv

\* An empty silver table with a fresh checkpoint satisfies every part about it.
LEMMA FreshSilver ==
  ASSUME TypeOK, silver = {}, silverRead = 0, expiry = NoKeys
  PROVE  Remembered /\ DuplicatesFarApart /\ KeysOwned /\ LeftOut
<1>1. SelectValid(Commits(0, silverRead)) = {}
  BY DEF TypeOK, IngestTypeOK, Commits, SelectValid, Row
<1> QED
  BY <1>1, NoKeysEmpty DEF Remembered, DuplicatesFarApart, KeysOwned, LeftOut

\* An empty quarantine with a fresh checkpoint agrees with bronze.
LEMMA FreshQuarantine ==
  ASSUME TypeOK, quarantine = {}, quarRead = 0
  PROVE  quarantine = SelectQuarantined(Commits(0, quarRead))
BY DEF TypeOK, IngestTypeOK, Commits, SelectQuarantined, Row

\* Refreshing one curated table starts it over without disturbing the other
\* (RefreshSilver, RefreshQuarantine).
LEMMA RebuildKeepsPathInv ==
  ASSUME PathInv, TypeOK', Rebuild
  PROVE  PathInv'
<1>0. CheckpointsBehind /\ TypeOK /\ CuratedTypeOK /\ IngestTypeOK
  BY DEF PathInv, TypeOK
<1>1. CASE RefreshSilver
  <2>1. /\ UNCHANGED <<bronze, version, quarantine, quarRead>>
        /\ silver' = {} /\ silverRead' = 0 /\ expiry' = NoKeys
    BY <1>1 DEF Rebuild, RefreshSilver, queryVars, quarVars
  <2>2. CheckpointsBehind'
    BY <1>0, <2>1 DEF CheckpointsBehind, SelectQuarantined, Commits, IngestTypeOK
  <2>3. (TypeOK /\ silver = {} /\ silverRead = 0 /\ expiry = NoKeys)'
    BY <2>1 DEF NoKeys
  <2>4. (Remembered /\ DuplicatesFarApart /\ KeysOwned /\ LeftOut)'
    BY <2>3, FreshSilver, PTL
  <2> QED
    BY <2>2, <2>4 DEF PathInv
<1>2. CASE RefreshQuarantine
  <2>1. /\ UNCHANGED <<bronze, version, silver, silverRead, watermark, expiry>>
        /\ quarantine' = {} /\ quarRead' = 0
    BY <1>2 DEF Rebuild, RefreshQuarantine, queryVars, silverVars
  <2>2. (quarantine = SelectQuarantined(Commits(0, quarRead)))'
    <3>1. (TypeOK /\ quarantine = {} /\ quarRead = 0)'
      BY <2>1
    <3> QED
      BY <3>1, FreshQuarantine, PTL
  <2>3. CheckpointsBehind'
    BY <1>0, <2>1, <2>2 DEF CheckpointsBehind, IngestTypeOK
  <2>4. Remembered' /\ DuplicatesFarApart' /\ KeysOwned'
    BY <2>1 DEF PathInv, Remembered, DuplicatesFarApart, KeysOwned, Emitted
  <2>5. LeftOut'
    BY <2>1 DEF PathInv, LeftOut, Late, Emitted, Commits, SelectValid
  <2> QED
    BY <2>3, <2>4, <2>5 DEF PathInv
<1> QED
  BY <1>1, <1>2 DEF Rebuild

\* Empty tables satisfy the invariant: the initial state, and the state after a
\* full refresh.
LEMMA EmptyPathInv ==
  ASSUME TypeOK, bronze = {}, silver = {}, silverRead = 0, expiry = NoKeys,
         quarantine = {}, quarRead = 0
  PROVE  PathInv
<1>1. CheckpointsBehind
  BY DEF CheckpointsBehind, TypeOK, IngestTypeOK, SelectQuarantined, Commits
<1> QED
  BY <1>1, FreshSilver DEF PathInv

\* The inductive step, action by action.
LEMMA PathInvStep == PathInv /\ TypeOK' /\ [Next]_vars => PathInv'
<1> SUFFICES ASSUME PathInv, TypeOK', [Next]_vars PROVE PathInv'
  OBVIOUS
<1>1. CASE IngestStep
  <2>1. CASE Ingest
    BY <1>1, <2>1, IngestKeepsPathInv DEF IngestStep
  <2>2. CASE BrokerStep \/ ResetCheckpoint
    <3>1. UNCHANGED <<bronze, version>>
      BY <2>2 DEF BrokerStep, Produce, Expire, RecreateTopic, ResetCheckpoint, queryVars
    <3> QED
      BY <1>1, <3>1, QuietStep DEF IngestStep
  <2> QED
    BY <1>1, <2>1, <2>2 DEF IngestStep
<1>2. CASE SilverStep
  BY <1>2, SilverKeepsPathInv
<1>3. CASE QuarantineStep
  BY <1>3, QuarantineKeepsPathInv
<1>4. CASE Rebuild
  BY <1>4, RebuildKeepsPathInv
<1>5. CASE FullRefresh
  <2>1. (/\ bronze = {} /\ silver = {} /\ silverRead = 0 /\ expiry = NoKeys
         /\ quarantine = {} /\ quarRead = 0)'
    BY <1>5 DEF FullRefresh, RefreshBronze
  <2> QED
    BY <2>1, EmptyPathInv, PTL
<1>6. CASE UNCHANGED vars
  BY <1>6, QuietStep DEF vars, ingestVars, silverVars, quarVars
<1> QED
  BY <1>1, <1>2, <1>3, <1>4, <1>5, <1>6 DEF Next

\* The inductive invariant of the transaction path.
THEOREM PathInvariant == Spec => []PathInv
<1>1. Init => PathInv
  BY TypeInit, EmptyPathInv DEF Init, IngestInit, QueryInit, CuratedInit
<1> QED
  BY <1>1, PathInvStep, TypeCorrect, PTL DEF Spec

\* FR-11: two silver rows with one transaction id are more than the dedup delay
\* apart in event time, for every topic, batching, replay and refresh.
THEOREM SilverHasNoCloseDuplicates == Spec => []DuplicatesFarApart
<1>1. PathInv => DuplicatesFarApart
  BY DEF PathInv
<1> QED
  BY <1>1, PathInvariant, PTL

\* No row vanishes without one of the reasons LossExplained names.
THEOREM NoUnexplainedLoss == Spec => []LossExplained
<1>1. PathInv => LossExplained
  <2> SUFFICES ASSUME PathInv, NEW r \in bronze, Read(r), r \notin silver, r \notin quarantine
               PROVE  Late(r) \/ \E s \in bronze : /\ s # r /\ IdOf(s) = IdOf(r)
                                                  /\ (s \in silver \/ ~PassesDropRules(s.value))
    BY DEF LossExplained
  <2>1. r.commit \in Nat \ {0}
    BY DEF PathInv, TypeOK, IngestTypeOK, Row
  <2>2. PassesDropRules(r.value)
    BY <2>1 DEF PathInv, CheckpointsBehind, SelectQuarantined, Commits, Read
  <2>3. r \in SelectValid(Commits(0, silverRead)) \ silver
    BY <2>1, <2>2 DEF SelectValid, Commits, Read
  <2> QED
    BY <2>3 DEF PathInv, LeftOut, Emitted
<1> QED
  BY <1>1, PathInvariant, PTL

-----------------------------------------------------------------------------
\* Every step of the path is a step of the ledger, or leaves it alone.
LEMMA LedgerStep ==
  PathInv /\ PathInv' /\ [Next]_vars => [Ledger!Next]_<<bronze, silver>>
<1> SUFFICES ASSUME PathInv, PathInv', [Next]_vars PROVE [Ledger!Next]_<<bronze, silver>>
  OBVIOUS
<1>1. CASE IngestStep
  <2>1. bronze \subseteq bronze' /\ UNCHANGED silver
    BY <1>1 DEF IngestStep, BrokerStep, Produce, Expire, RecreateTopic, Ingest, ResetCheckpoint,
                silverVars
  <2> QED
    BY <2>1 DEF Ledger!Next, Ledger!Deliver
<1>2. CASE SilverStep
  <2>1. silver \subseteq silver' /\ UNCHANGED bronze
    BY <1>2 DEF SilverStep, SilverBatch
  <2>2. silver' \subseteq bronze /\ \A r \in silver' : UsableRow(r)
    BY <2>1 DEF PathInv, CheckpointsBehind, UsableRow
  <2>3. Ledger!Spaced(silver')
    BY DEF PathInv, DuplicatesFarApart, Ledger!Spaced, IdOf, TimeOf
  <2> QED
    BY <2>1, <2>2, <2>3 DEF Ledger!Next, Ledger!Accept
<1>3. CASE QuarantineStep
  BY <1>3 DEF QuarantineStep, QuarantineBatch, silverVars
<1>4. CASE Rebuild
  BY <1>4 DEF Rebuild, RefreshSilver, RefreshQuarantine, silverVars, Ledger!Next, Ledger!Rebuild
<1>5. CASE FullRefresh
  BY <1>5 DEF FullRefresh, RefreshBronze, Ledger!Next, Ledger!Reload
<1>6. CASE UNCHANGED vars
  BY <1>6 DEF vars, ingestVars, silverVars
<1> QED
  BY <1>1, <1>2, <1>3, <1>4, <1>5, <1>6 DEF Next

\* The transaction path implements the promise of the curated layer: bronze is
\* what was delivered, silver what was accepted.
THEOREM PathKeepsLedger == Spec => KeepsLedger
<1>1. Init => Ledger!Init
  BY DEF Init, IngestInit, QueryInit, CuratedInit, Ledger!Init
<1> QED
  BY <1>1, LedgerStep, PathInvariant, PTL DEF Spec, KeepsLedger, Ledger!Spec

=============================================================================
