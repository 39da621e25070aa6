--------------------------- MODULE MCKafkaBronze ---------------------------
(***************************************************************************)
(* Small instances of KafkaBronze: two partitions and records that only    *)
(* need to be told apart.                                                  *)
(***************************************************************************)
EXTENDS KafkaBronze

MCPayload ==
  { [transaction_id |-> i, transaction_timestamp |-> 1, identified |-> TRUE, flagged |-> FALSE]
      : i \in TxnId }

=============================================================================
