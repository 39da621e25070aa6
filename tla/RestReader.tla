----------------------------- MODULE RestReader -----------------------------
(***************************************************************************)
(* read_rest_api: a reference data set is pulled page by page into a       *)
(* materialised view.  Every page has a budget of attempts of its own for  *)
(* transient failures (429, 5xx, no connection); another 4xx, or a time    *)
(* out while the body is read, raises at once.  A page that is empty or    *)
(* short ends the read, and so does the last page allowed, whether or not  *)
(* the endpoint has more.  The view is replaced when the read has ended,   *)
(* and never by nothing.                                                   *)
(***************************************************************************)
EXTENDS Integers, Sequences

CONSTANTS
  PageSize,         \* page_size, which the endpoint honours
  MaxPages,         \* max_pages
  MaxRetries,       \* max_retries: attempts per page
  MaxRecords,       \* bound: records the endpoint can hold, numbered
  MaxChanges        \* bound: changes of the endpoint's data

ASSUME RestAssumption ==
  {PageSize, MaxPages, MaxRetries} \subseteq Nat \ {0} /\ {MaxRecords, MaxChanges} \subseteq Nat

Record == 1 .. MaxRecords

\* What stands at records_path and is no list: null, or the object of an error.
Stray == 0
Item == Record \cup {Stray}

VARIABLES
  server,           \* the records of the endpoint, in the order it pages them
  changes,          \* how often they have changed
  seenChanges,      \* changes when the current read began
  phase,            \* of the read: "off", "fetching", "done" or "raised"
  page,             \* the page to fetch
  attempt,          \* attempts made for it that failed
  records,          \* the records fetched so far
  view,             \* the materialised view
  failedHere,       \* history: transient failures of this page
  cause             \* history: what the read raised for

restVars == <<server, changes, seenChanges, phase, page, attempt, records, view, failedHere, cause>>
readVars == <<seenChanges, phase, page, attempt, records, view, failedHere, cause>>

RestInit ==
  /\ server \in {[i \in 1 .. n |-> i] : n \in 0 .. MaxRecords}
  /\ changes = 0 /\ seenChanges = 0
  /\ phase = "off" /\ page = 1 /\ attempt = 0
  /\ records = << >> /\ view = << >> /\ failedHere = 0 /\ cause = "none"

Holds(r) == \E i \in DOMAIN server : server[i] = r
WithoutPosition(i) == SubSeq(server, 1, i - 1) \o SubSeq(server, i + 1, Len(server))

\* A record is deleted, or added in front, at any time.
ServerChanges ==
  /\ changes < MaxChanges
  /\ changes' = changes + 1
  /\ \/ \E i \in DOMAIN server : server' = WithoutPosition(i)
     \/ \E r \in Record : ~Holds(r) /\ server' = <<r>> \o server
  /\ UNCHANGED readVars

StartRead ==
  /\ phase = "off"
  /\ phase' = "fetching" /\ seenChanges' = changes
  /\ UNCHANGED <<server, changes, page, attempt, records, view, failedHere, cause>>

\* What the endpoint answers for page n.
PageOf(n) ==
  SubSeq(server, (n - 1) * PageSize + 1, IF n * PageSize < Len(server) THEN n * PageSize ELSE Len(server))

\* `node if isinstance(node, list) else [node]`: whatever is no list becomes one record.
Answers(n) == {PageOf(n), <<Stray>>}

\* Mutant: `range(1, max_pages)`, so that the last page allowed is not fetched.
LastPageEarly(batch) == Len(batch) < PageSize \/ page = MaxPages - 1

\* Mutant: `while True` until a short page.
NoPageLimit(batch) == Len(batch) < PageSize

\* A short page means the last page; `range` ends at max_pages.
LastPage(batch) == Len(batch) < PageSize \/ page = MaxPages

\* Mutant: attempts are counted over the whole read.
AttemptCarried == attempt

\* `for attempt in range(max_retries)` starts anew for each page.
FirstAttempt == 0

\* Mutant: an empty answer replaces the view.
AnyRecords(all) == TRUE

\* "refusing to materialise an empty table over existing data"
HasRecords(all) == all # << >>

Raise(why) == phase' = "raised" /\ cause' = why

PageFetched ==
  /\ phase = "fetching"
  /\ \E batch \in Answers(page) :
       LET all == records \o batch
       IN  /\ records' = all
           /\ \/ /\ ~LastPage(batch)
                 /\ page' = page + 1 /\ attempt' = FirstAttempt /\ failedHere' = 0
                 /\ UNCHANGED <<phase, view, cause>>
              \/ /\ LastPage(batch) /\ HasRecords(all)
                 /\ phase' = "done" /\ view' = all
                 /\ UNCHANGED <<page, attempt, failedHere, cause>>
              \/ /\ LastPage(batch) /\ ~HasRecords(all)
                 /\ Raise("empty") /\ UNCHANGED <<page, attempt, failedHere, view>>
  /\ UNCHANGED <<server, changes, seenChanges>>

\* HTTP 429 or 5xx, or URLError: tried again after a pause, but for the last time.
TransientFailure ==
  /\ phase = "fetching"
  /\ attempt' = attempt + 1 /\ failedHere' = failedHere + 1
  /\ IF attempt = MaxRetries - 1 THEN Raise("transient") ELSE UNCHANGED <<phase, cause>>
  /\ UNCHANGED <<server, changes, seenChanges, page, records, view>>

\* Another 4xx, an answer without the records path, or a time out in read().
PermanentFailure ==
  /\ phase = "fetching"
  /\ Raise("permanent")
  /\ UNCHANGED <<server, changes, seenChanges, page, attempt, records, view, failedHere>>

RestStep == PageFetched \/ TransientFailure \/ PermanentFailure

\* The update that ran the reader has ended, and with it what the call held.
EndRead ==
  /\ phase' = "off" /\ page' = 1 /\ attempt' = 0 /\ records' = << >>
  /\ failedHere' = 0 /\ cause' = "none"
  /\ UNCHANGED <<server, changes, seenChanges, view>>

-----------------------------------------------------------------------------
RestTypeOK ==
  /\ server \in Seq(Record) /\ {records, view} \subseteq Seq(Item)
  /\ changes \in 0 .. MaxChanges /\ seenChanges \in 0 .. changes
  /\ phase \in {"off", "fetching", "done", "raised"}
  /\ page \in 1 .. MaxPages /\ attempt \in 0 .. MaxRetries

OnlyRecords(s) == \A i \in DOMAIN s : s[i] # Stray

\* A read that ends well replaces the view by a snapshot: if every page was a list
\* and the endpoint did not change under the read, the view is what it holds, up
\* to the pages max_pages allows and no record less, however many attempts the
\* pages took.
ViewIsSnapshot ==
  phase = "done" /\ changes = seenChanges /\ OnlyRecords(view) =>
    view = SubSeq(server, 1,
                  IF Len(server) < MaxPages * PageSize THEN Len(server) ELSE MaxPages * PageSize)

\* A failed read leaves the view as it was, and an endpoint that answers with
\* nothing never empties a view that had records.
ViewNeverEmptied ==
  [][view' # view => view' # << >> /\ phase' = "done"]_restVars

\* Transient failures are absorbed per page: a read raises for them only after
\* max_retries attempts on one page, whatever earlier pages have used up.
BudgetPerPage ==
  /\ phase = "fetching" => failedHere < MaxRetries
  /\ phase = "raised" /\ cause = "transient" => failedHere = MaxRetries
=============================================================================
