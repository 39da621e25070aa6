---------------------------- MODULE MCEmailSinks ----------------------------
(***************************************************************************)
(* Small instances of EmailSinks: two alerts per table, so that a batch    *)
(* can hold both or one, and one crash per sink.                           *)
(***************************************************************************)
EXTENDS EmailSinks
=============================================================================
