-------------------------- MODULE PipelineUpdates --------------------------
(***************************************************************************)
(* Updates of the streaming pipeline: the bronze framework prepares the    *)
(* datasets, and the flow of a rest_api source, if one was registered,     *)
(* reads its endpoint while the update runs.                               *)
(***************************************************************************)
EXTENDS BronzeFramework, RestReader

pipelineVars == <<updateVars, restVars>>

PipelineInit == FrameworkInit /\ RestInit

\* Datasets of BATCH_TYPES are materialised views, computed by their reader.
RestRegistered ==
  \E f \in Present(configs) : configs[f].type = "rest_api" /\ results[f] = "REGISTERED"

Prepare == PrepareStep /\ UNCHANGED restVars

Read ==
  /\ step = "running" /\ RestRegistered
  /\ StartRead \/ RestStep
  /\ UNCHANGED updateVars

\* The other flows may fail too; without the rest_api source its view is not run.
Finish ==
  /\ phase \in {"off", "done", "raised"}
  /\ RestRegistered => phase # "off"
  /\ \E ok \in BOOLEAN : (ok => phase # "raised") /\ FlowsDone(ok)
  /\ EndRead

Stop == Cancel /\ EndRead

Outside ==
  \/ (\E f \in File, c \in Config \cup {Absent} : Deploy(f, c)) /\ UNCHANGED restVars
  \/ ServerChanges /\ UNCHANGED updateVars

PipelineNext == Prepare \/ Read \/ Finish \/ Stop \/ Outside

PipelineSpec == PipelineInit /\ [][PipelineNext]_pipelineVars

-----------------------------------------------------------------------------
PipelineTypeOK == FrameworkTypeOK /\ RestTypeOK
=============================================================================
