-------------------------- MODULE BronzeFramework --------------------------
(***************************************************************************)
(* One pipeline update as the bronze framework takes it through: the       *)
(* source files are loaded and validated, each source is registered, the   *)
(* registry and the audit table are written, and only then do the flows    *)
(* run.  A file that does not validate aborts the update; a source that    *)
(* does not register is recorded and passed over; a metadata write that    *)
(* fails is printed and passed over.  Files may be deployed at any time.   *)
(***************************************************************************)
EXTENDS Integers

CONSTANTS
  Name,             \* source names
  Config,           \* what a source file may hold, see ConfigType
  NumFiles,         \* files of config/sources, numbered in the order of their paths
  MaxUpdates,       \* bound: pipeline updates
  MaxDeploys,       \* bound: changes to the files
  Absent            \* a path without a file

GENERATED_TYPES == {"kafka", "autoloader", "rest_api"}

\* A type outside GENERATED_TYPES is accepted by _validate whatever it is.
ConfigType ==
  [name : Name, type : GENERATED_TYPES \cup {"managed_cdc", "unknown"},
   managed : BOOLEAN, wellFormed : BOOLEAN]

ASSUME FrameworkAssumption ==
  /\ Config \subseteq ConfigType /\ Absent \notin ConfigType
  /\ {NumFiles, MaxUpdates, MaxDeploys} \subseteq Nat

File == 1 .. NumFiles

VARIABLES
  files,            \* the directory config/sources
  deploys,          \* changes to the files so far
  update,           \* the number of the last update begun
  step,             \* where it is: "idle", "building", "syncing", "recording", "running"
  configs,          \* the files as load_source_configs read them
  nextFile,         \* the next file build_all looks at
  results,          \* the status build_all has given to each file
  registry,         \* source_registry: the configs, and the update that wrote them
  audit,            \* ingestion_audit: [update, name, status]
  outcome           \* how the last update ended: a terminal state and its cause

updateVars == <<files, deploys, update, step, configs, nextFile, results, registry, audit, outcome>>

NoFiles == [f \in File |-> Absent]
NoResults == [f \in File |-> "NONE"]

FrameworkInit ==
  /\ files \in [File -> Config \cup {Absent}]
  /\ deploys = 0 /\ update = 0 /\ step = "idle"
  /\ configs = NoFiles /\ nextFile = 1 /\ results = NoResults
  /\ registry = [sources |-> {}, registeredAt |-> 0]
  /\ audit = {}
  /\ outcome = [state |-> "NONE", cause |-> "none"]

Deploy(f, c) ==
  /\ deploys < MaxDeploys
  /\ files' = [files EXCEPT ![f] = c] /\ files' # files
  /\ deploys' = deploys + 1
  /\ UNCHANGED <<update, step, configs, nextFile, results, registry, audit, outcome>>

Present(d) == {f \in File : d[f] # Absent}

\* _validate on every file, and no name twice.
Loads(d) ==
  /\ \A f \in Present(d) : d[f].wellFormed
  /\ \A f, g \in Present(d) : d[f].name = d[g].name => f = g

IsGenerated(c) == ~c.managed /\ c.type \in GENERATED_TYPES

\* The update ends in a terminal state of the event log.
End(state, cause) ==
  /\ step' = "idle"
  /\ outcome' = [state |-> state, cause |-> cause]

\* bronze_ingestion.py starts: nothing is written before every file validates.
LoadSourceConfigs ==
  /\ step = "idle" /\ update < MaxUpdates
  /\ update' = update + 1
  /\ nextFile' = 1 /\ results' = NoResults
  /\ \/ /\ Loads(files)
        /\ configs' = files /\ step' = "building"
        /\ outcome' = [state |-> "NONE", cause |-> "none"]
     \/ /\ ~Loads(files)
        /\ configs' = NoFiles /\ End("FAILED", "config")
  /\ UNCHANGED <<files, deploys, registry, audit>>

\* Mutant: the loop over the sources ends at the first that fails.
StopAtFailure(status) == IF status = "FAILED" THEN NumFiles + 1 ELSE nextFile + 1

\* The loop goes on whatever happened to this source.
FileAfter(status) == nextFile + 1

\* One round of build_all: dp.table may raise for a source to be generated.
BuildSource ==
  /\ step = "building" /\ nextFile <= NumFiles
  /\ LET c == configs[nextFile]
     IN  \E status \in (IF c = Absent THEN {"NONE"}
                        ELSE IF IsGenerated(c) THEN {"REGISTERED", "FAILED"} ELSE {"SKIPPED"}) :
           /\ results' = [results EXCEPT ![nextFile] = status]
           /\ nextFile' = FileAfter(status)
  /\ UNCHANGED <<files, deploys, update, step, configs, registry, audit, outcome>>

BuildDone ==
  /\ step = "building" /\ nextFile > NumFiles
  /\ step' = "syncing"
  /\ UNCHANGED <<files, deploys, update, configs, nextFile, results, registry, audit, outcome>>

\* Mutant: the rows are merged into the registry.
MergedSources == registry.sources \cup {configs[f] : f \in Present(configs)}

\* The rows of the full replace.
SyncedSources == {configs[f] : f \in Present(configs)}

\* sync_registry overwrites the registry, and returns early without a source.
SyncRegistry ==
  /\ step = "syncing"
  /\ step' = "recording"
  /\ registry' = IF Present(configs) = {} THEN registry
                 ELSE [sources |-> SyncedSources, registeredAt |-> update]
  /\ UNCHANGED <<files, deploys, update, configs, nextFile, results, audit, outcome>>

AuditRows ==
  {[update |-> update, name |-> configs[f].name, status |-> results[f]] :
     f \in {f \in Present(configs) : results[f] # "NONE"}}

RecordRun ==
  /\ step = "recording"
  /\ step' = "running"
  /\ audit' = audit \cup AuditRows
  /\ UNCHANGED <<files, deploys, update, configs, nextFile, results, registry, outcome>>

\* Mutant: the exception leaves bronze_ingestion.py.
Reraise == End("FAILED", "metadata")

\* The except clause around both metadata writes.
SwallowMetadataError == step' = "running" /\ UNCHANGED outcome

\* A metadata write raises: both are given up, the flows run.
MetadataFails ==
  /\ step \in {"syncing", "recording"}
  /\ SwallowMetadataError
  /\ UNCHANGED <<files, deploys, update, configs, nextFile, results, registry, audit>>

\* The flows have run, or one has failed.
FlowsDone(ok) ==
  /\ step = "running"
  /\ IF ok THEN End("COMPLETED", "none") ELSE End("FAILED", "flow")
  /\ UNCHANGED <<files, deploys, update, configs, nextFile, results, registry, audit>>

\* An update is stopped from outside.
Cancel ==
  /\ step # "idle"
  /\ End("CANCELED", "operator")
  /\ UNCHANGED <<files, deploys, update, configs, nextFile, results, registry, audit>>

PrepareStep ==
  LoadSourceConfigs \/ BuildSource \/ BuildDone \/ SyncRegistry \/ RecordRun \/ MetadataFails

-----------------------------------------------------------------------------
Status == {"REGISTERED", "SKIPPED", "FAILED"}

FrameworkTypeOK ==
  /\ files \in [File -> Config \cup {Absent}] /\ configs \in [File -> Config \cup {Absent}]
  /\ deploys \in 0 .. MaxDeploys /\ update \in 0 .. MaxUpdates
  /\ step \in {"idle", "building", "syncing", "recording", "running"}
  /\ nextFile \in 1 .. NumFiles + 1
  /\ results \in [File -> Status \cup {"NONE"}]
  /\ registry.sources \subseteq Config /\ registry.registeredAt \in 0 .. update
  /\ audit \subseteq [update : 1 .. update, name : Name, status : Status]
  /\ outcome.state \in {"NONE", "COMPLETED", "FAILED", "CANCELED"}

\* Containment.  One failing source never costs another its table or its row:
\* once the loop is over every source of the configuration has a status, and
\* those to be generated were all tried.  And bookkeeping never fails ingestion:
\* an update that FAILED had files that do not load, or a flow that failed.
FailureStaysLocal ==
  /\ step \in {"syncing", "recording", "running"} =>
       \A f \in Present(configs) :
         /\ results[f] # "NONE"
         /\ IsGenerated(configs[f]) <=> results[f] \in {"REGISTERED", "FAILED"}
  /\ outcome.state = "FAILED" => outcome.cause \in {"config", "flow"}

\* The two metadata tables never contradict each other, although they are two
\* writes of which either may fail, over files that change: no update is audited
\* later than the one the registry shows, the registry holds one configuration
\* that validated as a whole, and the rows of that update name its sources.
RegistryLeadsAudit ==
  LET names == {c.name : c \in registry.sources}
  IN  /\ \A a \in audit : a.update <= registry.registeredAt
      /\ \A c, d \in registry.sources : c.wellFormed /\ (c.name = d.name => c = d)
      /\ LET rows == {a \in audit : a.update = registry.registeredAt}
         IN  rows # {} => {a.name : a \in rows} = names
=============================================================================
