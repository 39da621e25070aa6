--------------------------- MODULE HighValueAlert ---------------------------
(***************************************************************************)
(* finguard.gold.high_value_transactions_alert: each transaction is        *)
(* compared once, in the micro-batch that reads it, with the limit its     *)
(* customer has in silver.customers at that moment.                        *)
(***************************************************************************)
EXTENDS GoldSources

VARIABLES
  limitRead,        \* rows of transactions the checkpoint has consumed
  highValueAlerts   \* the rows of gold.high_value_transactions_alert

limitVars == <<limitRead, highValueAlerts>>

LimitInit == limitRead = 0 /\ highValueAlerts = {}

\* Mutant: a customer with no row has no limit to stay under.
ExceedsUnknown(i, r) ==
  \/ r = NULL
  \/ transactions[i].amount # NULL /\ r.limit # NULL /\ transactions[i].amount > r.limit

\* amount > transaction_limit, which is not true when either is NULL.
Exceeds(i, r) ==
  /\ r # NULL
  /\ transactions[i].amount # NULL /\ r.limit # NULL
  /\ transactions[i].amount > r.limit

\* Mutant: transactions are read as a table, not as a stream.
EveryTransaction(upto) == 1 .. upto

\* The transactions a micro-batch reads.
NewTransactions(upto) == limitRead + 1 .. upto

HighValueBatch(upto) ==
  /\ limitRead < upto
  /\ \E latest \in LatestTables :
       highValueAlerts' = highValueAlerts \cup
         UNION { {[tx |-> i, profile |-> r] : r \in {p \in Enriched(i, latest) : Exceeds(i, p)}} :
                   i \in NewTransactions(upto) }
  /\ limitRead' = upto

HighValueStep ==
  /\ \E upto \in limitRead + 1 .. Len(transactions) : HighValueBatch(upto)
  /\ UNCHANGED sourceVars

-----------------------------------------------------------------------------
LimitTypeOK ==
  /\ limitRead \in 0 .. Len(transactions)
  /\ highValueAlerts \subseteq [tx : Tick, profile : Profile]

\* "Each transaction would produce one alert per recorded version of that
\* customer": it produces at most one, for all the versions recorded when it is
\* read, those with the same timestamp included, and those recorded later.
OneHighValueAlert == \A a, b \in highValueAlerts : a.tx = b.tx => a = b
=============================================================================
