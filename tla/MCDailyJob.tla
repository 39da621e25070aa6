----------------------------- MODULE MCDailyJob -----------------------------
(***************************************************************************)
(* A small instance of JobMetricsCollector: one run more than is fetched,  *)
(* an ingest that may fail, which skips the models, and a collector whose  *)
(* process may die.                                                        *)
(***************************************************************************)
EXTENDS JobMetricsCollector
=============================================================================
