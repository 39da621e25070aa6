-------------------------- MODULE TransactionRows --------------------------
(***************************************************************************)
(* The payload contract shared by the bronze, silver and quarantine        *)
(* transaction tables: what a Kafka record looks like once parsed, which   *)
(* rules remove it from silver, and the rows of finguard.bronze.-          *)
(* transactions that every reader of the transaction path shares.          *)
(*                                                                         *)
(* A payload keeps the fields the path decides on.  identified stands for  *)
(* "customer_id, card_number and merchant_id are all present", flagged for *)
(* "breaks a rule that is counted but does not remove the row".  A message *)
(* from_json cannot parse is the payload whose fields are all null.        *)
(***************************************************************************)
EXTENDS Integers

CONSTANTS
  TxnId,        \* the transaction ids the producers draw
  NULL,         \* SQL NULL
  Payload,      \* the payloads that may be delivered, a subset of PayloadType
  Partition     \* the partitions of the Kafka topic

PayloadType ==
  [ transaction_id        : TxnId \cup {NULL},
    transaction_timestamp : (Nat \ {0}) \cup {NULL},
    identified            : BOOLEAN,
    flagged               : BOOLEAN ]

\* Event time is a positive number of ticks, so NULL is not one of them.
ASSUME PayloadAssumption ==
  /\ Payload \subseteq PayloadType
  /\ NULL \notin TxnId
  /\ NULL \notin Nat

VARIABLE
  bronze        \* the set of rows of finguard.bronze.transactions

(***************************************************************************)
(* A bronze row is a payload with its Kafka coordinates and the commit     *)
(* (table version) that appended it, which stands for ingestion_timestamp. *)
(* A record read twice gives two rows that differ in their commit only.    *)
(***************************************************************************)
Row == [ part : Partition, offset : Nat \ {0}, commit : Nat \ {0}, value : Payload ]

IdOf(r)   == r.value.transaction_id
TimeOf(r) == r.value.transaction_timestamp

\* DROP_RULES: five IS NOT NULL checks, so the conjunction is never NULL.
PassesDropRules(m) ==
  /\ m.transaction_id # NULL
  /\ m.transaction_timestamp # NULL
  /\ m.identified

\* FLAG_RULES are counted, they never remove a row.
Flagged(m) == m.flagged

\* select_valid and select_quarantined: the two halves of one partition.
SelectValid(rows)       == {r \in rows : PassesDropRules(r.value)}
SelectQuarantined(rows) == {r \in rows : ~PassesDropRules(r.value)}
=============================================================================
