--------------------------- MODULE CuratedLedger ----------------------------
(***************************************************************************)
(* What the curated layer promises its readers, without saying how: it     *)
(* holds rows that were delivered, each of them usable, and never two rows *)
(* of the same transaction that are close in event time.  Rows are only    *)
(* ever added, except that the curated table may be rebuilt from what was  *)
(* delivered, or everything may be loaded again.                           *)
(***************************************************************************)
EXTENDS Integers

CONSTANTS
  Spacing,        \* two rows of one transaction are further apart than this
  Usable(_),      \* the rows a reader can work with
  Id(_),          \* the transaction of a row
  At(_)           \* the event time of a row

VARIABLES
  delivered,      \* the rows delivered so far
  accepted        \* the rows of the curated table

Spaced(rows) ==
  \A r, s \in rows : r # s /\ Id(r) = Id(s) => At(r) > At(s) + Spacing \/ At(s) > At(r) + Spacing

Init == delivered = {} /\ accepted = {}

Deliver ==
  /\ delivered \subseteq delivered'
  /\ UNCHANGED accepted

Accept ==
  /\ accepted \subseteq accepted'
  /\ accepted' \subseteq delivered
  /\ \A r \in accepted' : Usable(r)
  /\ Spaced(accepted')
  /\ UNCHANGED delivered

Rebuild == accepted' = {} /\ UNCHANGED delivered

Reload == accepted' = {} /\ delivered' = {}

Next == Deliver \/ Accept \/ Rebuild \/ Reload

Spec == Init /\ [][Next]_<<delivered, accepted>>
=============================================================================
