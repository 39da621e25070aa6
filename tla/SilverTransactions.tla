------------------------- MODULE SilverTransactions -------------------------
(***************************************************************************)
(* The two streaming tables that read finguard.bronze.transactions:        *)
(*                                                                         *)
(*   silver.transactions             deduplicated within the watermark,    *)
(*                                   then the drop rules are applied;      *)
(*   silver.transactions_quarantine  every row that breaks a drop rule.    *)
(*                                                                         *)
(* Each has its own checkpoint and reads the commits of bronze in order,   *)
(* one or more per micro-batch.  A micro-batch appends its output and      *)
(* advances its checkpoint and state store in one step.                    *)
(*                                                                         *)
(* The operators are Spark's: withWatermark discards a row whose event     *)
(* time is not above the watermark, and dropDuplicatesWithinWatermark      *)
(* lets the first row of a key through and remembers the key until the     *)
(* watermark has passed that row's event time plus the delay.  Which copy  *)
(* in a micro-batch is the first is not specified.  A null event time is   *)
(* never late and counts as time zero.                                     *)
(***************************************************************************)
EXTENDS TransactionRows, FiniteSets

CONSTANT
  DedupDelay    \* DEDUP_WATERMARK, in ticks of event time

ASSUME DelayAssumption == DedupDelay \in Nat

VARIABLES
  silver,        \* the rows of silver.transactions
  quarantine,    \* the rows of silver.transactions_quarantine
  silverRead,    \* commits of bronze the silver checkpoint has consumed
  quarRead,      \* commits of bronze the quarantine checkpoint has consumed
  watermark,     \* event-time watermark of the dedup, kept in its checkpoint
  expiry         \* dedup state store: the keys held, each with its expiry

silverVars == <<silver, silverRead, watermark, expiry>>
quarVars == <<quarantine, quarRead>>

Key == TxnId \cup {NULL}

\* The state store of a query that has run no batch.
NoKeys == [k \in {} |-> 0]

\* Rows of the commits after the first `from` and up to the `upto`th.
Commits(from, upto) == {r \in bronze : from < r.commit /\ r.commit <= upto}

CuratedInit ==
  /\ silver = {} /\ silverRead = 0
  /\ watermark = 0 /\ expiry = NoKeys
  /\ quarantine = {} /\ quarRead = 0

-----------------------------------------------------------------------------
EventTime(r) == IF TimeOf(r) = NULL THEN 0 ELSE TimeOf(r)

\* Mutant: the late filter is dropped.
AllRows(rows) == rows

\* withWatermark: late rows are discarded before they reach the dedup.
OnTime(rows) == {r \in rows : TimeOf(r) = NULL \/ watermark < TimeOf(r)}

\* Mutant: dropDuplicates(["transaction_id"]) without the state store.
NewWithinBatch(rows) == OnTime(rows)

\* Rows whose key the state store does not hold.
Unseen(rows) == {r \in OnTime(rows) : IdOf(r) \notin DOMAIN expiry}

\* The possible outputs of the dedup: exactly one row of every new key.
FirstCopies(rows) ==
  { S \in SUBSET Unseen(rows) :
      \A r \in Unseen(rows) : \E s \in S : S \cap {t \in Unseen(rows) : IdOf(t) = IdOf(r)} = {s} }

Expires(r) == EventTime(r) + DedupDelay

\* The state store after a batch that let S through: new keys are added, then
\* the keys whose expiry the batch's watermark has reached are evicted.
Remember(S) ==
  LET held == {k \in DOMAIN expiry : watermark < expiry[k]}
      new  == {r \in S : watermark < Expires(r)}
  IN  [k \in held \cup {IdOf(r) : r \in new} |->
         IF k \in held THEN expiry[k] ELSE Expires(CHOOSE r \in new : IdOf(r) = k)]

\* The watermark a batch leaves for the next one: DedupDelay behind the latest
\* event time read, and never back.
WatermarkCandidates(rows) == {watermark} \cup {EventTime(r) - DedupDelay : r \in rows}

\* Mutant: a FLAG rule is declared with expect_or_drop.
KeepsUnflagged(rows) == {r \in SelectValid(rows) : ~Flagged(r.value)}

\* expect_or_drop sees the output of the dedup.
ExpectOrDrop(rows) == SelectValid(rows)

\* One micro-batch of silver over the next commits of bronze, up to the latest
\* published one.  A batch without data still evicts state.
SilverBatch(upto) ==
  LET rows == Commits(silverRead, upto)
  IN  /\ silverRead <= upto
      /\ \E first \in FirstCopies(rows) :
           /\ silver' = silver \cup ExpectOrDrop(first)
           /\ expiry' = Remember(first)
      /\ watermark' \in WatermarkCandidates(rows)
      /\ \A w \in WatermarkCandidates(rows) : w <= watermark'
      /\ silverRead' = upto
      /\ UNCHANGED <<bronze, quarVars>>

\* One micro-batch of the quarantine, which deduplicates nothing and is never late.
QuarantineBatch(upto) ==
  /\ quarRead < upto
  /\ quarantine' = quarantine \cup SelectQuarantined(Commits(quarRead, upto))
  /\ quarRead' = upto
  /\ UNCHANGED <<bronze, silverVars>>

\* Mutant: the rows are deleted and the checkpoint is left where it is.
DeleteSilverRows ==
  /\ silver' = {}
  /\ UNCHANGED <<bronze, silverRead, watermark, expiry, quarVars>>

\* A full refresh empties the table and its checkpoint, state store included.
RefreshSilver ==
  /\ silver' = {} /\ silverRead' = 0
  /\ watermark' = 0 /\ expiry' = NoKeys
  /\ UNCHANGED <<bronze, quarVars>>

RefreshQuarantine ==
  /\ quarantine' = {} /\ quarRead' = 0
  /\ UNCHANGED <<bronze, silverVars>>

-----------------------------------------------------------------------------
CuratedTypeOK ==
  /\ silver \subseteq Row
  /\ quarantine \subseteq Row
  /\ silverRead \in Nat
  /\ quarRead \in Nat
  /\ watermark \in Nat
  /\ DOMAIN expiry \subseteq Key
  /\ \A k \in DOMAIN expiry : expiry[k] \in Nat

\* FR-11, in the strength a bounded state store can give it: two rows of silver
\* with the same transaction id are more than the dedup delay apart in event
\* time, whatever the order, the batching and the number of deliveries.
DuplicatesFarApart ==
  \A r, s \in silver :
    r # s /\ IdOf(r) = IdOf(s) =>
      TimeOf(r) > TimeOf(s) + DedupDelay \/ TimeOf(s) > TimeOf(r) + DedupDelay

\* No row vanishes without a reason: a row both tables have read and neither holds
\* is behind the watermark, or another copy of its id is in silver, or one that
\* breaks a drop rule was delivered, which the dedup may have let through instead.
Read(r) == r.commit <= silverRead /\ r.commit <= quarRead
Late(r) == TimeOf(r) # NULL /\ TimeOf(r) <= watermark
LossExplained ==
  \A r \in {b \in bronze : Read(b)} \ (silver \cup quarantine) :
    \/ Late(r)
    \/ \E s \in bronze : /\ s # r /\ IdOf(s) = IdOf(r)
                        /\ (s \in silver \/ ~PassesDropRules(s.value))

\* The claim of DQ-06, "if that does not hold, rows have gone somewhere neither
\* table records": when both tables have read all of bronze, every row is in one
\* of them, unless it repeats the id of one that is.
Reconciles ==
  (\A r \in bronze : Read(r)) =>
    \A r \in bronze : \E s \in silver \cup quarantine :
      s = r \/ (PassesDropRules(r.value) /\ IdOf(s) = IdOf(r))
=============================================================================
