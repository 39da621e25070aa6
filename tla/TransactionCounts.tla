------------------------- MODULE TransactionCounts -------------------------
(***************************************************************************)
(* The windowed transaction counts of the gold layer:                      *)
(* transaciton_count_by_minute (tumbling, WindowSlide = WindowLength) and  *)
(* transaciton_count_by_minute_sliding_window (every transaction falls in  *)
(* several windows).  A streaming table is append-only, so a window is     *)
(* published once, when the watermark has passed its end; until then its   *)
(* count is state, and a row that falls in a window already passed is      *)
(* discarded for that window.                                              *)
(***************************************************************************)
EXTENDS GoldSources

CONSTANTS
  WindowLength,     \* the length of a window, in ticks
  WindowSlide,      \* the distance of the starts of consecutive windows
  CountDelay        \* the 5 minutes of withWatermark, in ticks

ASSUME CountsAssumption ==
  /\ WindowLength \in Tick /\ WindowSlide \in Tick /\ CountDelay \in Nat
  /\ WindowSlide <= WindowLength

VARIABLES
  countRead,        \* rows of transactions the checkpoint has consumed
  countMark,        \* the watermark of the query
  openCounts,       \* state: the windows not yet published, with their counts
  counts            \* the gold table: [start, count, read], read being the
                    \* countRead of the batch that appended the row

countVars == <<countRead, countMark, openCounts, counts>>

CountsInit ==
  /\ countRead = 0 /\ countMark = 0
  /\ openCounts = [w \in {} |-> 0]
  /\ counts = {}

\* The starts of the windows a time falls in.
WindowsOf(t) ==
  {s \in (t - WindowLength + 1) .. t : s % WindowSlide = 0}

EndOf(s) == s + WindowLength

\* Mutant: the late filter is on the start of the window.
StillOpenFromStart(s) == countMark < s

\* The late filter of the aggregation is on the end of the window.
StillOpen(s) == countMark < EndOf(s)

\* Mutant: update mode, a window is published as soon as it has a row.
ClosedAtOnce(s) == TRUE

\* A window is published and dropped from the state once the watermark has
\* reached its end.
Closed(s) == EndOf(s) <= countMark

CountBatch(upto) ==
  LET new == countRead + 1 .. upto
      hit == {s \in UNION {WindowsOf(transactions[i].at) : i \in new} : StillOpen(s)}
      all == [s \in hit \cup DOMAIN openCounts |->
                (IF s \in DOMAIN openCounts THEN openCounts[s] ELSE 0) +
                  Cardinality({i \in new : s \in WindowsOf(transactions[i].at)})]
      done == {s \in DOMAIN all : Closed(s)}
      marks == {countMark} \cup {transactions[i].at - CountDelay : i \in new}
  IN  /\ counts' = counts \cup {[start |-> s, count |-> all[s], read |-> upto] : s \in done}
      /\ openCounts' = [s \in DOMAIN all \ done |-> all[s]]
      /\ countMark' \in marks /\ \A m \in marks : m <= countMark'
      /\ countRead' = upto

CountStep ==
  /\ \E upto \in countRead .. Len(transactions) : CountBatch(upto)
  /\ UNCHANGED sourceVars

-----------------------------------------------------------------------------
CountsTypeOK ==
  /\ countRead \in 0 .. Len(transactions)
  /\ countMark \in Nat
  /\ \A s \in DOMAIN openCounts : s \in Int /\ openCounts[s] \in Tick
  /\ counts \subseteq [start : Int, count : Tick, read : Nat]

\* A window is published at most once, and never while it can still grow.
WindowPublishedOnce ==
  /\ \A p, q \in counts : p.start = q.start => p = q
  /\ \A p \in counts : p.start \notin DOMAIN openCounts

\* No transaction is lost from a window before the watermark has reached the
\* window's end.  The count of an open window is the number of transactions
\* read that fall in it, that of a published window the number read when it was
\* published; a transaction in neither came after its window's end was passed.
InWindow(s, upto) == Cardinality({i \in 1 .. upto : s \in WindowsOf(transactions[i].at)})
WindowCountsExact ==
  /\ \A s \in DOMAIN openCounts : openCounts[s] = InWindow(s, countRead)
  /\ \A p \in counts : EndOf(p.start) <= countMark /\ p.count = InWindow(p.start, p.read)
  /\ \A i \in 1 .. countRead : \A s \in WindowsOf(transactions[i].at) :
       s \in DOMAIN openCounts \/ EndOf(s) <= countMark
=============================================================================
