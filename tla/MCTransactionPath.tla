------------------------- MODULE MCTransactionPath --------------------------
(***************************************************************************)
(* Small instances of TransactionPath.  The payloads are chosen so that    *)
(* every outcome occurs: an id whose first message lost its event time and *)
(* is sent again corrected, an id drawn twice, far apart in event time, a  *)
(* row between them that breaks a flag rule, and late rows of both ids.    *)
(***************************************************************************)
EXTENDS TransactionPath

CONSTANTS a, b

Valid(i, t, f) == [transaction_id |-> i, transaction_timestamp |-> t,
                   identified |-> TRUE, flagged |-> f]

Unidentified(i, t) == [transaction_id |-> i, transaction_timestamp |-> t,
                       identified |-> FALSE, flagged |-> FALSE]

MCPayload ==
  { Valid(a, 1, FALSE), Unidentified(a, NULL), Valid(a, 4, FALSE), Valid(b, 2, TRUE) }

\* A transaction that lost its customer, and the corrected message.
MCCorrected == { Unidentified(a, 1), Valid(a, 1, FALSE) }
=============================================================================
