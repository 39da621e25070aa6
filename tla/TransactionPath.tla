-------------------------- MODULE TransactionPath ---------------------------
(***************************************************************************)
(* The transaction path from Kafka to the curated layer: KafkaBronze and   *)
(* SilverTransactions over the same bronze table.  The three streaming     *)
(* tables advance independently: each has its own checkpoint.              *)
(***************************************************************************)
EXTENDS KafkaBronze, SilverTransactions

vars == <<ingestVars, silverVars, quarVars>>

Init == IngestInit /\ CuratedInit

\* Everything silver and the quarantine have not touched.
IngestStep == /\ BrokerStep \/ Ingest \/ ResetCheckpoint
              /\ UNCHANGED <<silverVars, quarVars>>

SilverStep ==
  /\ \E upto \in silverRead .. version : SilverBatch(upto)
  /\ UNCHANGED <<kafkaVars, queryVars, operations>>

QuarantineStep ==
  /\ \E upto \in quarRead + 1 .. version : QuarantineBatch(upto)
  /\ UNCHANGED <<kafkaVars, queryVars, operations>>

\* "Fix the code, rebuild silver" (docs/interview_preparation.md): the curated
\* tables may be refreshed one by one.
Rebuild ==
  /\ operations < MaxOperations
  /\ operations' = operations + 1
  /\ RefreshSilver \/ RefreshQuarantine
  /\ UNCHANGED <<kafkaVars, queryVars>>

\* full_refresh: true on the update refreshes every table of the pipeline.
FullRefresh ==
  /\ RefreshBronze
  /\ silver' = {} /\ silverRead' = 0
  /\ watermark' = 0 /\ expiry' = NoKeys
  /\ quarantine' = {} /\ quarRead' = 0

Next == IngestStep \/ SilverStep \/ QuarantineStep \/ Rebuild \/ FullRefresh

Spec == Init /\ [][Next]_vars

-----------------------------------------------------------------------------
UsableRow(r) == PassesDropRules(r.value)

TypeOK == IngestTypeOK /\ CuratedTypeOK

\* The checkpoints of silver and the quarantine never run ahead of bronze, and
\* both tables hold rows of bronze their checkpoints have passed.
CheckpointsBehind ==
  /\ \A r \in bronze : r.commit <= version
  /\ silverRead <= version /\ quarRead <= version
  /\ \A r \in silver : r \in bronze /\ r.commit <= silverRead /\ PassesDropRules(r.value)
  /\ quarantine = SelectQuarantined(Commits(0, quarRead))

\* A row of silver is remembered by the state store, for as long as a duplicate
\* of it would not be late.
Remembered ==
  \A r \in silver :
    \/ IdOf(r) \in DOMAIN expiry /\ Expires(r) <= expiry[IdOf(r)]
    \/ Expires(r) <= watermark

\* A key the state store holds was let through from a row silver has read.
Emitted(s) == s \in bronze /\ s.commit <= silverRead /\ (s \in silver \/ ~PassesDropRules(s.value))
KeysOwned == \A k \in DOMAIN expiry : \E s \in bronze : Emitted(s) /\ IdOf(s) = k

\* What silver has read and left out although no drop rule asks for it.
LeftOut ==
  \A r \in SelectValid(Commits(0, silverRead)) \ silver :
    Late(r) \/ \E s \in bronze : s # r /\ Emitted(s) /\ IdOf(s) = IdOf(r)

\* The inductive invariant behind DuplicatesFarApart and LossExplained.
PathInv ==
  /\ TypeOK
  /\ CheckpointsBehind
  /\ Remembered
  /\ DuplicatesFarApart
  /\ KeysOwned
  /\ LeftOut

\* The curated layer keeps the promise of CuratedLedger: bronze is what was
\* delivered, silver what was accepted.
Ledger == INSTANCE CuratedLedger WITH
  Spacing <- DedupDelay, Usable <- UsableRow, Id <- IdOf, At <- TimeOf,
  delivered <- bronze, accepted <- silver

KeepsLedger == Ledger!Spec
=============================================================================
