--------------------------- MODULE FraudCardAlert ---------------------------
(***************************************************************************)
(* finguard.gold.fraud_card_alert: the inner join of the transaction       *)
(* stream with the watchlist stream on the card number, enriched with the  *)
(* customer row of the moment.                                             *)
(*                                                                         *)
(* Each side has its own watermark, and the query's watermark is the       *)
(* smaller of the two.  A row at or behind it is discarded before the      *)
(* join.  The join condition says nothing about time, so the operator      *)
(* keeps every other row for ever, and a row of either side meets the      *)
(* rows of the other side that came before it and with it.                 *)
(***************************************************************************)
EXTENDS GoldSources

CONSTANT
  JoinDelay       \* the 5 minutes of both withWatermark calls, in ticks

ASSUME JoinAssumption == JoinDelay \in Nat

VARIABLES
  txRead,         \* rows of transactions the checkpoint has consumed
  entryRead,      \* rows of watchlist the checkpoint has consumed
  txMark,         \* the watermark of the transaction side
  entryMark,      \* the watermark of the watchlist side
  joinMark,       \* the watermark of the query
  txHeld,         \* join state: the transactions kept, by position
  entryHeld,      \* join state: the watchlist rows kept, by position
  fraudAlerts     \* the rows of gold.fraud_card_alert

joinVars == <<txRead, entryRead, txMark, entryMark, joinMark, txHeld, entryHeld, fraudAlerts>>

JoinInit ==
  /\ txRead = 0 /\ entryRead = 0
  /\ txMark = 0 /\ entryMark = 0 /\ joinMark = 0
  /\ txHeld = {} /\ entryHeld = {}
  /\ fraudAlerts = {}

\* What a side's watermark may become: the delay behind a row it has just read.
Marks(mark, times) == {mark} \cup {(IF t = NULL THEN 0 ELSE t) - JoinDelay : t \in times}

Greatest(S) == CHOOSE x \in S : \A y \in S : y <= x

\* Mutant: the query follows the side that is ahead.
LargerMark(m, n) == IF m < n THEN n ELSE m

\* The policy for several watermarks: the smaller one.
QueryMark(m, n) == IF m < n THEN m ELSE n

OnTimeTx(upto) == {i \in txRead + 1 .. upto : joinMark < transactions[i].at}

OnTimeEntries(upto) ==
  {j \in entryRead + 1 .. upto : watchlist[j].from = NULL \/ joinMark < watchlist[j].from}

\* Mutant: a watchlist row meets only the transactions of its own batch.
MatchesOfTransactions(newTx, newEntries) ==
  {m \in newTx \X (entryHeld \cup newEntries) : transactions[m[1]].card = watchlist[m[2]].entity}

\* New rows of either side against the held and the new rows of the other.
Matches(newTx, newEntries) ==
  {m \in (newTx \X (entryHeld \cup newEntries)) \cup (txHeld \X newEntries) :
     transactions[m[1]].card = watchlist[m[2]].entity}

FraudBatch(upto, uptoEntry) ==
  LET newTx      == OnTimeTx(upto)
      newEntries == OnTimeEntries(uptoEntry)
  IN  /\ txRead + entryRead < upto + uptoEntry
      /\ \E latest \in LatestTables :
           fraudAlerts' = fraudAlerts \cup
             UNION { {[tx |-> m[1], entry |-> m[2], profile |-> r] : r \in Enriched(m[1], latest)} :
                       m \in Matches(newTx, newEntries) }
      /\ txHeld' = txHeld \cup newTx
      /\ entryHeld' = entryHeld \cup newEntries
      /\ txRead' = upto
      /\ entryRead' = uptoEntry
      /\ txMark' = Greatest(Marks(txMark, {transactions[i].at : i \in txRead + 1 .. upto}))
      /\ entryMark' = Greatest(Marks(entryMark, {watchlist[j].from : j \in entryRead + 1 .. uptoEntry}))
      /\ joinMark' = QueryMark(txMark', entryMark')

FraudStep ==
  /\ \E upto \in txRead .. Len(transactions), uptoEntry \in entryRead .. Len(watchlist) :
       FraudBatch(upto, uptoEntry)
  /\ UNCHANGED sourceVars

-----------------------------------------------------------------------------
JoinTypeOK ==
  /\ txRead \in 0 .. Len(transactions) /\ entryRead \in 0 .. Len(watchlist)
  /\ txMark \in Nat /\ entryMark \in Nat /\ joinMark \in Nat
  /\ txHeld \subseteq 1 .. txRead /\ entryHeld \subseteq 1 .. entryRead
  /\ fraudAlerts \subseteq [tx : Tick, entry : Tick, profile : Profile \cup {NULL}]

Alerted(i, j) == \E a \in fraudAlerts : a.tx = i /\ a.entry = j

\* "Joining it directly fans out -- a customer with three recorded changes
\* multiplies their transactions by three": a transaction that matches a
\* watchlist row raises one alert, however many profiles its customer has.
OneAlertPerMatch ==
  \A a, b \in fraudAlerts : a.tx = b.tx /\ a.entry = b.entry => a = b

\* The alert does not depend on which of the two rows came first, nor on how
\* the streams were cut into batches: two matching rows the query has read have
\* raised an alert unless one of them was behind the watermark of both sides.
MatchRegardlessOfOrder ==
  \A i \in 1 .. txRead, j \in 1 .. entryRead :
    transactions[i].card = watchlist[j].entity =>
      \/ Alerted(i, j)
      \/ transactions[i].at <= txMark /\ transactions[i].at <= entryMark
      \/ watchlist[j].from # NULL /\ watchlist[j].from <= txMark /\ watchlist[j].from <= entryMark

\* The consequence section 5.3 of the requirements accepts: "a watchlist entry
\* added more than 5 minutes after a transaction will not retrospectively alert
\* on it".
NoRetrospectiveAlert ==
  \A a \in fraudAlerts :
    watchlist[a.entry].from # NULL =>
      watchlist[a.entry].from <= transactions[a.tx].at + JoinDelay
=============================================================================
