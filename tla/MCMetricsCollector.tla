------------------------- MODULE MCMetricsCollector -------------------------
(***************************************************************************)
(* A small instance of MetricsCollector: the two pipelines the job passes, *)
(* in the order of its parameters, of which any may be unreadable.         *)
(***************************************************************************)
EXTENDS MetricsCollector

CONSTANTS streaming, customers

MCPipelines == <<streaming, customers>>
=============================================================================
