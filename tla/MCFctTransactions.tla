------------------------- MODULE MCFctTransactions -------------------------
(***************************************************************************)
(* A small instance of FctTransactions: two transactions, event times on   *)
(* both sides of the window, and a second copy on another partition.       *)
(***************************************************************************)
EXTENDS FctTransactions
=============================================================================
