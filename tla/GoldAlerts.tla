----------------------------- MODULE GoldAlerts -----------------------------
(***************************************************************************)
(* The gold queries over the same silver tables, each with a checkpoint of *)
(* its own: they read the transactions independently of one another.       *)
(***************************************************************************)
EXTENDS FraudCardAlert, HighValueAlert, TransactionCounts

goldVars == <<sourceVars, joinVars, limitVars, countVars>>

GoldInit == SourcesInit /\ JoinInit /\ LimitInit /\ CountsInit

Arrival == SourcesNext /\ UNCHANGED <<joinVars, limitVars, countVars>>

FraudQuery == FraudStep /\ UNCHANGED <<limitVars, countVars>>

HighValueQuery == HighValueStep /\ UNCHANGED <<joinVars, countVars>>

CountQuery == CountStep /\ UNCHANGED <<joinVars, limitVars>>

GoldNext == Arrival \/ FraudQuery \/ HighValueQuery \/ CountQuery

GoldSpec == GoldInit /\ [][GoldNext]_goldVars

\* The cron trigger of the pipeline runs every query again and again.
GoldFairSpec ==
  /\ GoldSpec
  /\ WF_goldVars(FraudQuery) /\ WF_goldVars(HighValueQuery) /\ WF_goldVars(CountQuery)

-----------------------------------------------------------------------------
GoldTypeOK == SourcesTypeOK /\ JoinTypeOK /\ LimitTypeOK /\ CountsTypeOK

\* Two matching rows that have raised no alert, neither of which is late.
AwaitsAlert(i, j) ==
  /\ i <= Len(transactions) /\ j <= Len(watchlist)
  /\ transactions[i].card = watchlist[j].entity
  /\ ~Alerted(i, j)
  /\ joinMark < transactions[i].at
  /\ watchlist[j].from = NULL \/ joinMark < watchlist[j].from

\* FR-12 with its condition: two matching rows always end in an alert, or
\* behind the watermark of both sides, whichever of them arrives first and
\* however long the other stream has been idle.
MatchesEventuallyAlert ==
  \A i \in 1 .. MaxTransactions, j \in 1 .. MaxEntries :
    AwaitsAlert(i, j) ~> ~AwaitsAlert(i, j)
=============================================================================
