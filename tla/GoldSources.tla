---------------------------- MODULE GoldSources ----------------------------
(***************************************************************************)
(* The silver tables the gold layer reads.  silver.transactions and        *)
(* silver.fraud_watchlist are read as streams: append-only logs, in commit *)
(* order.  silver.customers is read as a table: it gains one row per       *)
(* recorded change of a customer, and every micro-batch of a gold query    *)
(* joins what the table holds at that moment.                              *)
(*                                                                         *)
(* The tables are written by pipelines of their own, so they grow in any   *)
(* order relative to each other: customers follow the daily job, the       *)
(* watchlist follows file uploads, transactions the quarter-hour cron.     *)
(***************************************************************************)
EXTENDS Integers, FiniteSets, Sequences

CONSTANTS
  Customer,         \* customer ids
  Limit,            \* the values of transaction_limit
  NULL,             \* SQL NULL
  Transaction,      \* silver rows: [card, customer, at, amount]
  Entry,            \* watchlist rows: [entity, from]
  MaxTransactions,  \* bound: rows of silver.transactions
  MaxEntries,       \* bound: rows of silver.fraud_watchlist
  MaxProfiles       \* bound: rows of silver.customers

Tick == Nat \ {0}

\* silver.transactions has no row without its event time; amount may be NULL,
\* a flag rule only counts it.  An effective_from that does not parse is NULL.
ASSUME GoldSourcesAssumption ==
  /\ NULL \notin Nat /\ NULL \notin [customer : Customer, limit : Limit \cup {NULL}, ingested : Tick]
  /\ Limit \subseteq Nat
  /\ \A t \in Transaction : /\ t.at \in Tick
                            /\ t.customer \in Customer
                            /\ t.amount \in Nat \cup {NULL}
  /\ \A e \in Entry : e.from \in Tick \cup {NULL}
  /\ MaxTransactions \in Nat /\ MaxEntries \in Nat /\ MaxProfiles \in Nat

VARIABLES
  transactions,     \* silver.transactions, in commit order
  watchlist,        \* silver.fraud_watchlist, in commit order
  customers         \* silver.customers, a set of profiles

sourceVars == <<transactions, watchlist, customers>>

\* A row of silver.customers; ingested stands for silver_ingestion_timestamp.
Profile == [customer : Customer, limit : Limit \cup {NULL}, ingested : Tick]

SourcesInit == transactions = << >> /\ watchlist = << >> /\ customers = {}

TransactionArrives(t) ==
  /\ Len(transactions) < MaxTransactions
  /\ transactions' = Append(transactions, t)
  /\ UNCHANGED <<watchlist, customers>>

EntryArrives(e) ==
  /\ Len(watchlist) < MaxEntries
  /\ watchlist' = Append(watchlist, e)
  /\ UNCHANGED <<transactions, customers>>

\* One batch of the customers pipeline.  current_timestamp() is the same for
\* all its rows, two changes of one customer included.
LoadProfiles(rows) ==
  /\ rows # {} /\ IsFiniteSet(rows)
  /\ Cardinality(customers \cup rows) <= MaxProfiles
  /\ \A r \in rows : r.ingested = Cardinality(customers) + 1
  /\ customers' = customers \cup rows
  /\ UNCHANGED <<transactions, watchlist>>

NextProfiles ==
  [customer : Customer, limit : Limit \cup {NULL}, ingested : {Cardinality(customers) + 1}]

SourcesNext ==
  \/ \E t \in Transaction : TransactionArrives(t)
  \/ \E e \in Entry : EntryArrives(e)
  \/ \E rows \in SUBSET NextProfiles : LoadProfiles(rows)

-----------------------------------------------------------------------------
\* Mutant: the customers table is joined as it is.
AllProfiles == {customers}

Newest(c) ==
  {r \in customers : r.customer = c /\ \A s \in customers : s.customer = c => s.ingested <= r.ingested}

\* latest_customer: row_number() over silver_ingestion_timestamp desc keeps one
\* row per customer, and picks any of those that share the newest timestamp.
LatestTables ==
  { latest \in SUBSET customers :
      \A c \in Customer : \/ Newest(c) = {} /\ ~\E r \in latest : r.customer = c
                          \/ \E r \in Newest(c) : {s \in latest : s.customer = c} = {r} }

\* The left join of a transaction with the customer rows of one batch.
Enriched(i, latest) ==
  LET found == {r \in latest : r.customer = transactions[i].customer}
  IN  IF found = {} THEN {NULL} ELSE found

SourcesTypeOK ==
  /\ transactions \in Seq(Transaction)
  /\ watchlist \in Seq(Entry)
  /\ customers \subseteq Profile
=============================================================================
