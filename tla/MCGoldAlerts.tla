---------------------------- MODULE MCGoldAlerts ----------------------------
(***************************************************************************)
(* Small instances of GoldAlerts: one card and one customer, event times   *)
(* far enough apart for a row to be late, an amount above the limit and    *)
(* one that is missing.                                                    *)
(***************************************************************************)
EXTENDS GoldAlerts

CONSTANTS card, customer

MCTransaction ==
  { [card |-> card, customer |-> customer, at |-> 1, amount |-> 5],
    [card |-> card, customer |-> customer, at |-> 4, amount |-> NULL] }

MCEntry == { [entity |-> card, from |-> 1], [entity |-> card, from |-> 4] }
=============================================================================
