------------------------- MODULE MCPipelineUpdates -------------------------
(***************************************************************************)
(* Small instances of PipelineUpdates: a streamed source that may come     *)
(* with a broken file, and a source pulled over REST that may become one   *)
(* managed elsewhere.                                                      *)
(***************************************************************************)
EXTENDS PipelineUpdates

CONSTANTS merchants, risk

Streamed(ok) == [name |-> merchants, type |-> "autoloader", managed |-> FALSE, wellFormed |-> ok]
Other(type, elsewhere) == [name |-> risk, type |-> type, managed |-> elsewhere, wellFormed |-> TRUE]

MCConfig ==
  {Streamed(TRUE), Streamed(FALSE), Other("rest_api", FALSE), Other("managed_cdc", TRUE)}
=============================================================================
