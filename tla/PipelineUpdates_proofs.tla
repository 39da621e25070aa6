----------------------- MODULE PipelineUpdates_proofs -----------------------
(***************************************************************************)
(* Proofs about updates of the pipeline: a failing source or metadata      *)
(* write stays local, the registry and the audit never contradict each     *)
(* other, and what the REST reader materialises is a whole snapshot, for   *)
(* any set of files, any endpoint, and any page and retry limits.          *)
(***************************************************************************)
EXTENDS PipelineUpdates, SequenceTheorems, TLAPS

USE FrameworkAssumption, RestAssumption

-----------------------------------------------------------------------------
\* The invariant of an update.  Its progress, step by step: what has a status,
\* what the registry holds, and that the audit has nothing of this update yet.
Tried(f) ==
  /\ results[f] # "NONE"
  /\ IsGenerated(configs[f]) <=> results[f] \in {"REGISTERED", "FAILED"}

UpdateProgress ==
  /\ step # "idle" => update >= 1 /\ Loads(configs)
  /\ step = "building" => \A f \in Present(configs) : f < nextFile => Tried(f)
  /\ step \in {"building", "syncing"} => registry.registeredAt < update
  /\ step = "recording" =>
       IF Present(configs) = {} THEN registry.registeredAt < update
       ELSE registry = [sources |-> SyncedSources, registeredAt |-> update]
  /\ step \in {"building", "syncing", "recording"} => \A a \in audit : a.update < update

FrameworkInv == FrameworkTypeOK /\ UpdateProgress /\ FailureStaysLocal /\ RegistryLeadsAudit

\* Before the first update nothing is registered or audited (FrameworkInit).
LEMMA FrameworkStart == FrameworkInit => FrameworkInv
<1>. SUFFICES ASSUME FrameworkInit
              PROVE  FrameworkInv
  OBVIOUS
<1>1. FrameworkTypeOK
  BY DEF FrameworkInit, FrameworkTypeOK, NoFiles, NoResults, File
<1>2. UpdateProgress
  BY DEF FrameworkInit, UpdateProgress
<1>3. FailureStaysLocal /\ RegistryLeadsAudit
  BY DEF FrameworkInit, FailureStaysLocal, RegistryLeadsAudit
<1> QED
  BY <1>1, <1>2, <1>3 DEF FrameworkInv

\* A file that is there holds a configuration (Present).
LEMMA PresentIsConfig ==
  ASSUME NEW d \in [File -> Config \cup {Absent}], NEW f \in Present(d)
  PROVE  f \in File /\ d[f] \in Config /\ d[f].name \in Name
BY DEF Present, ConfigType

\* Steps that leave what an update has read and written alone.
LEMMA OnlyFilesChange ==
  ASSUME FrameworkInv, files' \in [File -> Config \cup {Absent}], deploys' \in 0 .. MaxDeploys,
         UNCHANGED <<update, step, configs, nextFile, results, registry, audit, outcome>>
  PROVE  FrameworkInv'
<1>1. FrameworkTypeOK'
  BY DEF FrameworkInv, FrameworkTypeOK
<1>2. UpdateProgress'
  BY DEF FrameworkInv, UpdateProgress, Tried, SyncedSources
<1>3. FailureStaysLocal' /\ RegistryLeadsAudit'
  BY DEF FrameworkInv, FailureStaysLocal, RegistryLeadsAudit
<1> QED
  BY <1>1, <1>2, <1>3 DEF FrameworkInv

\* Steps that end an update, or give up its bookkeeping: to idle or running.
LEMMA OnlyStepChanges ==
  ASSUME FrameworkInv,
         UNCHANGED <<files, deploys, update, configs, nextFile, results, registry, audit>>,
         \/ step' = "running" /\ step \in {"syncing", "recording"} /\ outcome' = outcome
         \/ /\ step' = "idle" /\ outcome'.state \in {"COMPLETED", "FAILED", "CANCELED"}
            /\ outcome'.state = "FAILED" => outcome'.cause \in {"config", "flow"}
  PROVE  FrameworkInv'
<1>1. FrameworkTypeOK'
  BY DEF FrameworkInv, FrameworkTypeOK
<1>2. UpdateProgress'
  BY DEF FrameworkInv, UpdateProgress
<1>3. FailureStaysLocal'
  BY DEF FrameworkInv, FailureStaysLocal
<1>4. RegistryLeadsAudit'
  BY DEF FrameworkInv, RegistryLeadsAudit
<1> QED
  BY <1>1, <1>2, <1>3, <1>4 DEF FrameworkInv

-----------------------------------------------------------------------------
\* load_source_configs validates the files as a whole, before anything is written.
LEMMA LoadKeeps ==
  ASSUME FrameworkInv, LoadSourceConfigs
  PROVE  FrameworkInv'
<1>1. /\ update' = update + 1 /\ update \in Nat /\ update < MaxUpdates
      /\ nextFile' = 1 /\ results' = NoResults
      /\ UNCHANGED <<files, deploys, registry, audit>>
  BY DEF LoadSourceConfigs, FrameworkInv, FrameworkTypeOK
<1>2. /\ configs' \in [File -> Config \cup {Absent}]
      /\ step' \in {"building", "idle"}
      /\ step' = "building" => Loads(configs')
      /\ outcome'.state \in {"NONE", "FAILED"}
      /\ outcome'.state = "FAILED" => outcome'.cause = "config"
  BY DEF LoadSourceConfigs, FrameworkInv, FrameworkTypeOK, NoFiles, End
<1>3. FrameworkTypeOK'
  <2>1. audit \subseteq [update : 1 .. update', name : Name, status : Status]
    BY <1>1 DEF FrameworkInv, FrameworkTypeOK
  <2>2. registry.registeredAt \in 0 .. update'
    BY <1>1 DEF FrameworkInv, FrameworkTypeOK
  <2>3. results' \in [File -> Status \cup {"NONE"}]
    BY <1>1 DEF NoResults
  <2>4. update' \in 0 .. MaxUpdates /\ nextFile' \in 1 .. NumFiles + 1
    BY <1>1
  <2> QED
    BY <1>1, <1>2, <2>1, <2>2, <2>3, <2>4 DEF FrameworkInv, FrameworkTypeOK
<1>4. \A a \in audit : a.update \in 1 .. update
  BY DEF FrameworkInv, FrameworkTypeOK
<1>5. registry.registeredAt \in 0 .. update
  BY DEF FrameworkInv, FrameworkTypeOK
<1>6. UpdateProgress'
  <2>1. update' >= 1 /\ registry'.registeredAt < update' /\ \A a \in audit' : a.update < update'
    BY <1>1, <1>4, <1>5
  <2>2. \A f \in File : ~(f < nextFile')
    BY <1>1 DEF File
  <2>3. \A f \in Present(configs') : f \in File
    BY DEF Present
  <2> QED
    BY <1>2, <2>1, <2>2, <2>3 DEF UpdateProgress
<1>7. FailureStaysLocal'
  BY <1>2 DEF FailureStaysLocal
<1>8. RegistryLeadsAudit'
  BY <1>1 DEF FrameworkInv, RegistryLeadsAudit
<1> QED
  BY <1>3, <1>6, <1>7, <1>8 DEF FrameworkInv

\* A round of build_all gives one more source its status.
LEMMA BuildSourceKeeps ==
  ASSUME FrameworkInv, BuildSource
  PROVE  FrameworkInv'
<1>1. PICK status \in Status \cup {"NONE"} :
        /\ results' = [results EXCEPT ![nextFile] = status]
        /\ configs[nextFile] # Absent => status # "NONE"
        /\ configs[nextFile] # Absent =>
             (IsGenerated(configs[nextFile]) <=> status \in {"REGISTERED", "FAILED"})
  BY DEF BuildSource, Status
<1>2. /\ step = "building" /\ nextFile' = nextFile + 1 /\ nextFile \in File
      /\ UNCHANGED <<files, deploys, update, step, configs, registry, audit, outcome>>
  BY DEF BuildSource, FileAfter, FrameworkInv, FrameworkTypeOK, File
<1>3. results \in [File -> Status \cup {"NONE"}]
  BY DEF FrameworkInv, FrameworkTypeOK
<1>4. FrameworkTypeOK'
  <2>1. results' \in [File -> Status \cup {"NONE"}] /\ nextFile' \in 1 .. NumFiles + 1
    BY <1>1, <1>2, <1>3 DEF File
  <2> QED
    BY <1>2, <2>1 DEF FrameworkInv, FrameworkTypeOK
<1>5. \A f \in Present(configs) : f < nextFile' => Tried(f)'
  <2>. SUFFICES ASSUME NEW f \in Present(configs), f < nextFile'
                PROVE  Tried(f)'
    OBVIOUS
  <2>1. f \in File /\ configs[f] # Absent
    BY DEF Present
  <2>2. CASE f = nextFile
    BY <1>1, <1>2, <1>3, <2>1, <2>2 DEF Tried, IsGenerated
  <2>3. CASE f # nextFile
    <3>1. f < nextFile
      BY <1>2, <2>1, <2>3 DEF File
    <3>2. Tried(f)
      BY <1>2, <3>1 DEF FrameworkInv, UpdateProgress
    <3> QED
      BY <1>1, <1>2, <1>3, <2>1, <2>3, <3>2 DEF Tried, IsGenerated
  <2> QED
    BY <2>2, <2>3
<1>6. UpdateProgress'
  BY <1>2, <1>5 DEF FrameworkInv, UpdateProgress
<1>7. FailureStaysLocal' /\ RegistryLeadsAudit'
  BY <1>2 DEF FrameworkInv, FailureStaysLocal, RegistryLeadsAudit
<1> QED
  BY <1>4, <1>6, <1>7 DEF FrameworkInv

\* When the loop is over every source has been tried.
LEMMA BuildDoneKeeps ==
  ASSUME FrameworkInv, BuildDone
  PROVE  FrameworkInv'
<1>1. /\ step = "building" /\ step' = "syncing" /\ nextFile > NumFiles
      /\ UNCHANGED <<files, deploys, update, configs, nextFile, results, registry, audit, outcome>>
  BY DEF BuildDone
<1>2. FrameworkTypeOK'
  BY <1>1 DEF FrameworkInv, FrameworkTypeOK
<1>3. UpdateProgress'
  BY <1>1 DEF FrameworkInv, UpdateProgress
<1>4. \A f \in Present(configs) : f < nextFile
  BY <1>1 DEF Present, File, FrameworkInv, FrameworkTypeOK
<1>5. FailureStaysLocal'
  BY <1>1, <1>4 DEF FrameworkInv, FailureStaysLocal, UpdateProgress, Tried
<1>6. RegistryLeadsAudit'
  BY <1>1 DEF FrameworkInv, RegistryLeadsAudit
<1> QED
  BY <1>2, <1>3, <1>5, <1>6 DEF FrameworkInv

\* The registry moves to this update before the audit does (sync_registry).
LEMMA SyncRegistryKeeps ==
  ASSUME FrameworkInv, SyncRegistry
  PROVE  FrameworkInv'
<1>1. /\ step = "syncing" /\ step' = "recording"
      /\ registry' = IF Present(configs) = {} THEN registry
                     ELSE [sources |-> SyncedSources, registeredAt |-> update]
      /\ UNCHANGED <<files, deploys, update, configs, nextFile, results, audit, outcome>>
  BY DEF SyncRegistry
<1>2. SyncedSources \subseteq Config
  BY PresentIsConfig DEF SyncedSources, FrameworkInv, FrameworkTypeOK
<1>3. FrameworkTypeOK'
  BY <1>1, <1>2 DEF FrameworkInv, FrameworkTypeOK
<1>4. UpdateProgress'
  BY <1>1 DEF FrameworkInv, UpdateProgress, SyncedSources
<1>5. FailureStaysLocal'
  BY <1>1 DEF FrameworkInv, FailureStaysLocal
<1>6. RegistryLeadsAudit'
  <2>1. CASE Present(configs) = {}
    BY <1>1, <2>1 DEF FrameworkInv, RegistryLeadsAudit
  <2>2. CASE Present(configs) # {}
    <3>1. registry'.sources = SyncedSources /\ registry'.registeredAt = update
      BY <1>1, <2>2
    <3>2. \A a \in audit : a.update < update /\ a.update \in Nat
      BY <1>1 DEF FrameworkInv, UpdateProgress, FrameworkTypeOK
    <3>3. update \in Nat
      BY DEF FrameworkInv, FrameworkTypeOK
    <3>4. \A c, d \in SyncedSources : c.wellFormed /\ (c.name = d.name => c = d)
      BY <1>1 DEF FrameworkInv, UpdateProgress, Loads, SyncedSources
    <3>5. \A a \in audit' : a.update <= registry'.registeredAt
      BY <1>1, <3>1, <3>2, <3>3
    <3>6. {a \in audit' : a.update = registry'.registeredAt} = {}
      BY <1>1, <3>1, <3>2, <3>3
    <3> QED
      BY <3>1, <3>4, <3>5, <3>6 DEF RegistryLeadsAudit
  <2> QED
    BY <2>1, <2>2
<1> QED
  BY <1>3, <1>4, <1>5, <1>6 DEF FrameworkInv

\* The audit rows of this update name the sources just registered (record_run).
LEMMA RecordRunKeeps ==
  ASSUME FrameworkInv, RecordRun
  PROVE  FrameworkInv'
<1>1. /\ step = "recording" /\ step' = "running" /\ audit' = audit \cup AuditRows
      /\ UNCHANGED <<files, deploys, update, configs, nextFile, results, registry, outcome>>
  BY DEF RecordRun
<1>2. update \in Nat /\ update >= 1
  BY <1>1 DEF FrameworkInv, FrameworkTypeOK, UpdateProgress
<1>3. AuditRows \subseteq [update : 1 .. update, name : Name, status : Status]
  BY <1>2, PresentIsConfig DEF AuditRows, FrameworkInv, FrameworkTypeOK
<1>4. FrameworkTypeOK'
  BY <1>1, <1>3 DEF FrameworkInv, FrameworkTypeOK
<1>5. UpdateProgress'
  BY <1>1 DEF FrameworkInv, UpdateProgress
<1>6. FailureStaysLocal'
  BY <1>1 DEF FrameworkInv, FailureStaysLocal
<1>7. RegistryLeadsAudit'
  <2>1. CASE Present(configs) = {}
    <3>1. AuditRows = {}
      BY <2>1 DEF AuditRows
    <3> QED
      BY <1>1, <3>1 DEF FrameworkInv, RegistryLeadsAudit
  <2>2. CASE Present(configs) # {}
    <3>1. registry.sources = SyncedSources /\ registry.registeredAt = update
      BY <1>1, <2>2 DEF FrameworkInv, UpdateProgress
    <3>2. \A a \in audit : a.update < update /\ a.update \in Nat
      BY <1>1 DEF FrameworkInv, UpdateProgress, FrameworkTypeOK
    <3>3. \A a \in AuditRows : a.update = update
      BY DEF AuditRows
    <3>4. \A f \in Present(configs) : results[f] # "NONE"
      BY <1>1 DEF FrameworkInv, FailureStaysLocal
    <3>5. {a \in audit' : a.update = registry'.registeredAt} = AuditRows
      BY <1>1, <1>2, <3>1, <3>2, <3>3
    <3>6. {a.name : a \in AuditRows} = {c.name : c \in SyncedSources}
      <4>1. \A f \in Present(configs) :
              /\ [update |-> update, name |-> configs[f].name, status |-> results[f]] \in AuditRows
              /\ configs[f] \in SyncedSources
        BY <3>4 DEF AuditRows, SyncedSources
      <4>2. \A a \in AuditRows : \E f \in Present(configs) : a.name = configs[f].name
        BY DEF AuditRows
      <4>3. \A c \in SyncedSources : \E f \in Present(configs) : c = configs[f]
        BY DEF SyncedSources
      <4>4. \A a \in AuditRows : a.name \in {c.name : c \in SyncedSources}
        BY <4>1, <4>2
      <4>5. ASSUME NEW c \in SyncedSources
            PROVE  c.name \in {a.name : a \in AuditRows}
        <5>1. PICK f \in Present(configs) : c = configs[f]
          BY <4>3
        <5>2. [update |-> update, name |-> c.name, status |-> results[f]] \in AuditRows
          BY <4>1, <5>1
        <5> QED
          BY <5>2
      <4> QED
        BY <4>4, <4>5
    <3>7. \A a \in audit' : a.update <= registry'.registeredAt
      BY <1>1, <1>2, <3>1, <3>2, <3>3
    <3>8. \A c, d \in registry'.sources : c.wellFormed /\ (c.name = d.name => c = d)
      BY <1>1 DEF FrameworkInv, RegistryLeadsAudit
    <3>9. {c.name : c \in registry'.sources} = {c.name : c \in SyncedSources}
      BY <1>1, <3>1
    <3> QED
      BY <3>5, <3>6, <3>7, <3>8, <3>9 DEF RegistryLeadsAudit
  <2> QED
    BY <2>1, <2>2
<1> QED
  BY <1>4, <1>5, <1>6, <1>7 DEF FrameworkInv

\* Any step towards the flows.
LEMMA PrepareKeeps ==
  ASSUME FrameworkInv, PrepareStep
  PROVE  FrameworkInv'
<1>1. CASE LoadSourceConfigs
  BY <1>1, LoadKeeps
<1>2. CASE BuildSource
  BY <1>2, BuildSourceKeeps
<1>3. CASE BuildDone
  BY <1>3, BuildDoneKeeps
<1>4. CASE SyncRegistry
  BY <1>4, SyncRegistryKeeps
<1>5. CASE RecordRun
  BY <1>5, RecordRunKeeps
<1>6. CASE MetadataFails
  BY <1>6, OnlyStepChanges DEF MetadataFails, SwallowMetadataError
<1> QED
  BY <1>1, <1>2, <1>3, <1>4, <1>5, <1>6 DEF PrepareStep

-----------------------------------------------------------------------------
\* The invariant of a read: attempts are those of the page at hand, and what has
\* been fetched is a prefix of what the endpoint holds, unless that changed or a page
\* was no list.
AttemptsCounted ==
  /\ phase = "off" => page = 1 /\ attempt = 0 /\ failedHere = 0 /\ records = << >>
  /\ phase = "fetching" => attempt = failedHere /\ attempt < MaxRetries

PrefixFetched ==
  phase = "fetching" /\ changes = seenChanges /\ OnlyRecords(records) =>
    /\ (page - 1) * PageSize <= Len(server)
    /\ records = SubSeq(server, 1, (page - 1) * PageSize)

RestInv == RestTypeOK /\ AttemptsCounted /\ BudgetPerPage /\ PrefixFetched /\ ViewIsSnapshot

\* The limits are positive, and where pages begin and end are numbers (PageOf).
LEMMA PageBounds ==
  ASSUME NEW n \in Nat \ {0}
  PROVE  /\ (n - 1) * PageSize \in Nat /\ n * PageSize \in Nat
         /\ n * PageSize = (n - 1) * PageSize + PageSize
         /\ PageSize \in Nat \ {0}
<1>1. PageSize \in Nat \ {0}
  OBVIOUS
<1>2. PICK k \in Nat : n = k + 1
  <2>1. n - 1 \in Nat /\ n = (n - 1) + 1
    OBVIOUS
  <2> QED
    BY <2>1
<1>3. k * PageSize \in Nat /\ (k + 1) * PageSize = k * PageSize + PageSize
  BY <1>1
<1>4. n - 1 = k
  BY <1>2
<1> QED
  BY <1>1, <1>2, <1>3, <1>4

\* The pages before the last one allowed end within max_pages (range in read_rest_api).
LEMMA PagesInLimit ==
  ASSUME NEW n \in 1 .. MaxPages
  PROVE  n * PageSize <= MaxPages * PageSize /\ MaxPages * PageSize \in Nat
<1>1. PICK k \in Nat : MaxPages = n + k
  <2>1. MaxPages - n \in Nat /\ MaxPages = n + (MaxPages - n)
    OBVIOUS
  <2> QED
    BY <2>1
<1>2. n \in Nat /\ PageSize \in Nat
  OBVIOUS
<1>3. (n + k) * PageSize = n * PageSize + k * PageSize
  BY <1>2
<1>4. n * PageSize \in Nat /\ k * PageSize \in Nat
  BY <1>2
<1> QED
  BY <1>1, <1>3, <1>4

\* A part of a sequence is a sequence (PageOf, WithoutPosition).
LEMMA PartIsSeq ==
  ASSUME NEW S, NEW s \in Seq(S), NEW m \in Nat \ {0}, NEW n \in Int, n <= Len(s)
  PROVE  /\ SubSeq(s, m, n) \in Seq(S)
         /\ Len(SubSeq(s, m, n)) = IF m <= n THEN n - m + 1 ELSE 0
<1>1. \A i \in m .. n : i \in 1 .. Len(s)
  BY LenProperties
<1>2. \A i \in m .. n : s[i] \in S
  BY <1>1, ElementOfSeq
<1> QED
  BY <1>2, SubSeqProperties

\* Page n follows the first n - 1 pages in the endpoint's order, and is full
\* unless the records end in it (PageOf).
LEMMA PageExtendsPrefix ==
  ASSUME server \in Seq(Record), NEW n \in Nat \ {0},
         (n - 1) * PageSize <= Len(server)
  PROVE  LET end == IF n * PageSize < Len(server) THEN n * PageSize ELSE Len(server)
         IN  /\ PageOf(n) \in Seq(Record)
             /\ SubSeq(server, 1, (n - 1) * PageSize) \o PageOf(n) = SubSeq(server, 1, end)
             /\ Len(PageOf(n)) < PageSize => end = Len(server)
             /\ Len(PageOf(n)) >= PageSize => end = n * PageSize
<1>. DEFINE a == (n - 1) * PageSize
            b == n * PageSize
            end == IF b < Len(server) THEN b ELSE Len(server)
<1>1. a \in Nat /\ b \in Nat /\ b = a + PageSize /\ PageSize \in Nat \ {0}
  BY PageBounds
<1>2. Len(server) \in Nat
  BY LenProperties
<1>. HIDE DEF a, b
<1>3. end \in Nat /\ a <= end /\ end <= Len(server)
  BY <1>1, <1>2 DEF a
<1>4. PageOf(n) = SubSeq(server, a + 1, end)
  BY DEF PageOf, a, b
<1>5. /\ PageOf(n) \in Seq(Record)
      /\ Len(PageOf(n)) = IF a + 1 <= end THEN end - (a + 1) + 1 ELSE 0
  BY <1>1, <1>2, <1>3, <1>4, PartIsSeq
<1>6. SubSeq(server, 1, a) \o SubSeq(server, a + 1, end) = SubSeq(server, 1, end)
  <2>1. 1 \in 1 .. Len(server) + 1 /\ a \in 1 - 1 .. Len(server) /\ end \in a .. Len(server)
    BY <1>1, <1>2, <1>3
  <2> QED
    BY <2>1, ConcatAdjacentSubSeq
<1>7. /\ Len(PageOf(n)) < PageSize => end = Len(server)
      /\ Len(PageOf(n)) >= PageSize => end = b
  <2>1. CASE b < Len(server)
    <3>1. end = a + PageSize /\ end = b
      BY <1>1, <2>1
    <3>2. Len(PageOf(n)) = PageSize
      BY <1>1, <1>5, <3>1
    <3> QED
      BY <1>1, <3>1, <3>2
  <2>2. CASE ~(b < Len(server))
    <3>1. end = Len(server) /\ end <= a + PageSize
      BY <1>1, <1>2, <2>2
    <3>2. Len(PageOf(n)) = end - a
      BY <1>1, <1>3, <1>5
    <3>. HIDE DEF end
    <3> QED
      BY <1>1, <1>2, <1>3, <3>1, <3>2
  <2> QED
    BY <2>1, <2>2
<1> QED
  BY <1>4, <1>5, <1>6, <1>7 DEF a, b

\* Records are among the items a page may hold (_extract).
LEMMA RecordsAreItems == Seq(Record) \subseteq Seq(Item)
<1>. SUFFICES ASSUME NEW s \in Seq(Record)
              PROVE  s \in Seq(Item)
  OBVIOUS
<1>1. s \in [1 .. Len(s) -> Record] /\ Len(s) \in Nat
  BY LenProperties, SeqDef
<1>2. s \in [1 .. Len(s) -> Item]
  BY <1>1 DEF Item
<1> QED
  BY <1>1, <1>2, SeqDef

\* What is appended to the records fetched leaves them as they were (records.extend):
\* all were lists if the records before and the page were.
LEMMA OnlyRecordsSplit ==
  ASSUME NEW s \in Seq(Item), NEW t \in Seq(Item), OnlyRecords(s \o t)
  PROVE  OnlyRecords(s) /\ OnlyRecords(t)
<1>1. /\ DOMAIN s = 1 .. Len(s) /\ Len(s) \in Nat
      /\ DOMAIN t = 1 .. Len(t) /\ Len(t) \in Nat
      /\ s \o t \in Seq(Item)
  BY LenProperties, ConcatProperties
<1>2. Len(s \o t) = Len(s) + Len(t) /\ DOMAIN (s \o t) = 1 .. Len(s \o t)
  BY <1>1, LenProperties, ConcatProperties
<1>3. ASSUME NEW i \in DOMAIN s
      PROVE  s[i] # Stray
  <2>1. (s \o t)[i] = s[i] /\ i \in DOMAIN (s \o t)
    BY <1>1, <1>2, ConcatProperties
  <2> QED
    BY <2>1 DEF OnlyRecords
<1>4. ASSUME NEW i \in DOMAIN t
      PROVE  t[i] # Stray
  <2>1. /\ Len(s) + i \in Nat /\ Len(s) + i > Len(s) /\ Len(s) + i <= Len(s) + Len(t)
        /\ (Len(s) + i) - Len(s) = i
    BY <1>1
  <2>2. (s \o t)[Len(s) + i] = t[i] /\ Len(s) + i \in DOMAIN (s \o t)
    BY <1>1, <1>2, <2>1, ConcatProperties
  <2> QED
    BY <2>2 DEF OnlyRecords
<1> QED
  BY <1>3, <1>4 DEF OnlyRecords

\* The read begins with a view that is empty and no request made (RestInit).
LEMMA RestStart == RestInit => RestInv
<1>. SUFFICES ASSUME RestInit
              PROVE  RestInv
  OBVIOUS
<1>1. PICK n \in 0 .. MaxRecords : server = [i \in 1 .. n |-> i]
  BY DEF RestInit
<1>2. server \in [1 .. n -> Record]
  BY <1>1 DEF Record
<1>3. server \in Seq(Record)
  BY <1>2, SeqDef
<1>4. << >> \in Seq(Item)
  BY EmptySeq
<1>5. RestTypeOK
  BY <1>3, <1>4 DEF RestInit, RestTypeOK
<1> QED
  BY <1>5 DEF RestInit, RestInv, AttemptsCounted, BudgetPerPage, PrefixFetched, ViewIsSnapshot

\* The endpoint changes: a read that is under way no longer counts as a snapshot.
LEMMA ServerChangesKeeps ==
  ASSUME RestInv, ServerChanges
  PROVE  RestInv'
<1>1. /\ changes < MaxChanges /\ changes' = changes + 1
      /\ UNCHANGED readVars
  BY DEF ServerChanges
<1>2. server \in Seq(Record) /\ Len(server) \in Nat /\ DOMAIN server = 1 .. Len(server)
  BY LenProperties DEF RestInv, RestTypeOK
<1>3. server' \in Seq(Record)
  <2>1. ASSUME NEW i \in DOMAIN server
        PROVE  WithoutPosition(i) \in Seq(Record)
    <3>1. SubSeq(server, 1, i - 1) \in Seq(Record)
      BY <1>2, PartIsSeq
    <3>2. SubSeq(server, i + 1, Len(server)) \in Seq(Record)
      BY <1>2, PartIsSeq
    <3> QED
      BY <3>1, <3>2, ConcatProperties DEF WithoutPosition
  <2>2. ASSUME NEW r \in Record
        PROVE  <<r>> \o server \in Seq(Record)
    <3>1. <<r>> \in Seq(Record)
      OBVIOUS
    <3> QED
      BY <1>2, <3>1, ConcatProperties
  <2> QED
    BY <2>1, <2>2 DEF ServerChanges
<1>4. changes \in Nat /\ seenChanges \in 0 .. changes
  BY DEF RestInv, RestTypeOK
<1>5. RestTypeOK'
  BY <1>1, <1>3, <1>4 DEF RestInv, RestTypeOK, readVars
<1>6. changes' # seenChanges'
  BY <1>1, <1>4 DEF readVars
<1>7. AttemptsCounted' /\ BudgetPerPage'
  BY <1>1 DEF RestInv, AttemptsCounted, BudgetPerPage, readVars
<1> QED
  BY <1>5, <1>6, <1>7 DEF RestInv, PrefixFetched, ViewIsSnapshot

\* A read begins with the first page and nothing fetched (StartRead).
LEMMA StartReadKeeps ==
  ASSUME RestInv, StartRead
  PROVE  RestInv'
<1>1. /\ phase = "off" /\ phase' = "fetching" /\ seenChanges' = changes
      /\ page = 1 /\ attempt = 0 /\ failedHere = 0 /\ records = << >>
      /\ UNCHANGED <<server, changes, page, attempt, records, view, failedHere, cause>>
  BY DEF StartRead, RestInv, AttemptsCounted
<1>2. RestTypeOK'
  BY <1>1 DEF RestInv, RestTypeOK
<1>3. AttemptsCounted' /\ BudgetPerPage'
  BY <1>1 DEF AttemptsCounted, BudgetPerPage
<1>4. PrefixFetched'
  <2>1. (1 - 1) * PageSize = 0
    BY PageBounds
  <2>2. SubSeq(server, 1, 0) = << >> /\ 0 <= Len(server)
    BY SubSeqEmpty, LenProperties DEF RestInv, RestTypeOK
  <2> QED
    BY <1>1, <2>1, <2>2 DEF PrefixFetched
<1>5. ViewIsSnapshot'
  BY <1>1 DEF ViewIsSnapshot
<1> QED
  BY <1>2, <1>3, <1>4, <1>5 DEF RestInv

\* A page extends the prefix; the last one completes it (PageFetched).
LEMMA PageFetchedKeeps ==
  ASSUME RestInv, PageFetched
  PROVE  RestInv'
<1>0. PICK batch \in Answers(page) :
        LET all == records \o batch
        IN  /\ records' = all
            /\ \/ /\ ~LastPage(batch)
                  /\ page' = page + 1 /\ attempt' = FirstAttempt /\ failedHere' = 0
                  /\ UNCHANGED <<phase, view, cause>>
               \/ /\ LastPage(batch) /\ HasRecords(all)
                  /\ phase' = "done" /\ view' = all
                  /\ UNCHANGED <<page, attempt, failedHere, cause>>
               \/ /\ LastPage(batch) /\ ~HasRecords(all)
                  /\ Raise("empty") /\ UNCHANGED <<page, attempt, failedHere, view>>
  BY DEF PageFetched
<1>. DEFINE all == records \o batch
            last == LastPage(batch)
<1>1. /\ phase = "fetching" /\ records' = all
      /\ UNCHANGED <<server, changes, seenChanges>>
  BY <1>0 DEF PageFetched
<1>2. \/ /\ ~last /\ page' = page + 1 /\ attempt' = 0 /\ failedHere' = 0
         /\ UNCHANGED <<phase, view, cause>>
      \/ /\ last /\ all # << >> /\ phase' = "done" /\ view' = all
         /\ UNCHANGED <<page, attempt, failedHere, cause>>
      \/ /\ last /\ phase' = "raised" /\ cause' = "empty"
         /\ UNCHANGED <<page, attempt, failedHere, view>>
  BY <1>0 DEF FirstAttempt, HasRecords, Raise
<1>3. /\ server \in Seq(Record) /\ records \in Seq(Item) /\ view \in Seq(Item)
      /\ page \in 1 .. MaxPages /\ page \in Nat \ {0} /\ attempt \in 0 .. MaxRetries
      /\ Len(server) \in Nat
  BY LenProperties DEF RestInv, RestTypeOK
<1>4. last <=> Len(batch) < PageSize \/ page = MaxPages
  BY DEF LastPage
<1>. DEFINE a == (page - 1) * PageSize
            b == page * PageSize
            end == IF b < Len(server) THEN b ELSE Len(server)
<1>5. a \in Nat /\ b \in Nat /\ b = a + PageSize /\ PageSize \in Nat \ {0}
  BY <1>3, PageBounds
<1>6. PageOf(page) \in Seq(Record) /\ Len(PageOf(page)) \in Nat
  <2>1. PageOf(page) = SubSeq(server, a + 1, end)
    BY DEF PageOf
  <2>. HIDE DEF a, b
  <2>2. a + 1 \in Nat \ {0} /\ end \in Int /\ end <= Len(server)
    BY <1>3, <1>5
  <2>3. PageOf(page) \in Seq(Record)
    BY <1>3, <2>1, <2>2, PartIsSeq
  <2> QED
    BY <2>3, LenProperties
<1>7. batch \in Seq(Item) /\ all \in Seq(Item)
  <2>1. <<Stray>> \in Seq(Item)
    BY DEF Item
  <2>2. batch \in Seq(Item)
    BY <1>6, <2>1, RecordsAreItems DEF Answers
  <2> QED
    BY <1>3, <2>2, ConcatProperties
<1>8. RestTypeOK'
  <2>1. page' \in 1 .. MaxPages
    BY <1>2, <1>3, <1>4
  <2>2. attempt' \in 0 .. MaxRetries
    BY <1>2, <1>3
  <2>3. view' \in Seq(Item) /\ phase' \in {"off", "fetching", "done", "raised"}
    BY <1>1, <1>2, <1>3, <1>7
  <2> QED
    BY <1>1, <1>7, <2>1, <2>2, <2>3 DEF RestInv, RestTypeOK
<1>9. AttemptsCounted' /\ BudgetPerPage'
  BY <1>1, <1>2 DEF RestInv, AttemptsCounted, BudgetPerPage
<1>10. ASSUME changes = seenChanges, OnlyRecords(all)
       PROVE  /\ all = SubSeq(server, 1, end)
              /\ Len(batch) \in Nat
              /\ Len(batch) < PageSize => end = Len(server)
              /\ Len(batch) >= PageSize => end = b
  <2>1. OnlyRecords(records) /\ OnlyRecords(batch)
    BY <1>3, <1>7, <1>10, OnlyRecordsSplit
  <2>2. a <= Len(server) /\ records = SubSeq(server, 1, a)
    BY <1>1, <1>10, <2>1 DEF RestInv, PrefixFetched
  <2>3. batch # <<Stray>>
    BY <2>1 DEF OnlyRecords
  <2>4. batch = PageOf(page)
    BY <2>3 DEF Answers
  <2> QED
    BY <1>3, <1>6, <2>2, <2>4, PageExtendsPrefix
<1>11. PrefixFetched'
  <2>. SUFFICES ASSUME phase' = "fetching", changes = seenChanges, OnlyRecords(all)
                PROVE  /\ (page' - 1) * PageSize <= Len(server)
                       /\ all = SubSeq(server, 1, (page' - 1) * PageSize)
    BY <1>1 DEF PrefixFetched
  <2>1. ~last /\ page' = page + 1
    BY <1>2
  <2>2. (page' - 1) * PageSize = b
    BY <1>3, <2>1
  <2>3. end = b
    BY <1>4, <1>5, <1>6, <1>10, <2>1
  <2>. HIDE DEF b
  <2>4. b <= Len(server)
    BY <1>3, <1>5, <2>3
  <2> QED
    BY <1>10, <2>2, <2>3, <2>4
<1>12. ViewIsSnapshot'
  <2>. DEFINE limit == MaxPages * PageSize
              whole == IF Len(server) < limit THEN Len(server) ELSE limit
  <2>. SUFFICES ASSUME phase' = "done", changes = seenChanges, OnlyRecords(view')
                PROVE  view' = SubSeq(server, 1, whole)
    BY <1>1 DEF ViewIsSnapshot
  <2>1. last /\ view' = all
    BY <1>1, <1>2
  <2>2. end = whole
    <3>1. CASE page = MaxPages
      BY <3>1
    <3>2. CASE page # MaxPages
      <4>1. end = Len(server) /\ Len(server) <= b
        <5>1. end = Len(server)
          BY <1>4, <1>10, <2>1, <3>2
        <5>. HIDE DEF b
        <5> QED
          BY <1>3, <1>5, <5>1
      <4>2. b <= limit /\ limit \in Nat
        BY <1>3, <3>2, PagesInLimit
      <4>. HIDE DEF b, limit, end
      <4> QED
        BY <1>3, <1>5, <4>1, <4>2
    <3> QED
      BY <3>1, <3>2
  <2> QED
    BY <1>10, <2>1, <2>2
<1> QED
  BY <1>8, <1>9, <1>11, <1>12 DEF RestInv

\* A failure counts against the page at hand, or raises (TransientFailure,
\* PermanentFailure).
LEMMA FailureKeeps ==
  ASSUME RestInv, TransientFailure \/ PermanentFailure
  PROVE  RestInv'
<1>1. /\ phase = "fetching" /\ phase' \in {"fetching", "raised"}
      /\ UNCHANGED <<server, changes, seenChanges, page, records, view>>
  BY DEF TransientFailure, PermanentFailure, Raise
<1>2. attempt = failedHere /\ attempt < MaxRetries /\ attempt \in Nat /\ MaxRetries \in Nat
  BY <1>1 DEF RestInv, AttemptsCounted, RestTypeOK
<1>3. attempt' \in 0 .. MaxRetries /\ AttemptsCounted' /\ BudgetPerPage'
  <2>1. CASE TransientFailure
    BY <1>1, <1>2, <2>1 DEF TransientFailure, Raise, AttemptsCounted, BudgetPerPage
  <2>2. CASE PermanentFailure
    BY <1>1, <1>2, <2>2 DEF PermanentFailure, Raise, AttemptsCounted, BudgetPerPage
  <2> QED
    BY <2>1, <2>2
<1>4. RestTypeOK'
  BY <1>1, <1>3 DEF RestInv, RestTypeOK
<1>5. PrefixFetched' /\ ViewIsSnapshot'
  BY <1>1 DEF RestInv, PrefixFetched, ViewIsSnapshot
<1> QED
  BY <1>3, <1>4, <1>5 DEF RestInv

\* The update ends and the call with it (EndRead).
LEMMA EndReadKeeps ==
  ASSUME RestInv, EndRead
  PROVE  RestInv'
<1>1. RestTypeOK'
  BY EmptySeq DEF RestInv, RestTypeOK, EndRead
<1> QED
  BY <1>1 DEF RestInv, EndRead, AttemptsCounted, BudgetPerPage, PrefixFetched, ViewIsSnapshot

-----------------------------------------------------------------------------
\* The framework and the reader keep their invariants under every step of an
\* update and of what surrounds it.
THEOREM UpdateInvariant == PipelineSpec => [](FrameworkInv /\ RestInv)
<1>1. PipelineInit => FrameworkInv /\ RestInv
  BY FrameworkStart, RestStart DEF PipelineInit
<1>2. FrameworkInv /\ RestInv /\ [PipelineNext]_pipelineVars => (FrameworkInv /\ RestInv)'
  <2>. SUFFICES ASSUME FrameworkInv, RestInv, [PipelineNext]_pipelineVars
                PROVE  FrameworkInv' /\ RestInv'
    OBVIOUS
  <2>1. UNCHANGED updateVars => FrameworkInv'
    <3>. SUFFICES ASSUME UNCHANGED updateVars
                  PROVE  FrameworkInv'
      OBVIOUS
    <3>1. files' \in [File -> Config \cup {Absent}] /\ deploys' \in 0 .. MaxDeploys
      BY DEF updateVars, FrameworkInv, FrameworkTypeOK
    <3> QED
      BY <3>1, OnlyFilesChange DEF updateVars
  <2>2. UNCHANGED restVars => RestInv'
    BY DEF restVars, RestInv, RestTypeOK, AttemptsCounted, BudgetPerPage, PrefixFetched, ViewIsSnapshot
  <2>3. CASE Prepare
    BY <2>2, <2>3, PrepareKeeps DEF Prepare
  <2>4. CASE Read
    BY <2>1, <2>4, StartReadKeeps, PageFetchedKeeps, FailureKeeps DEF Read, RestStep
  <2>5. CASE Finish
    <3>1. RestInv'
      BY <2>5, EndReadKeeps DEF Finish
    <3>2. PICK ok \in BOOLEAN : FlowsDone(ok)
      BY <2>5 DEF Finish
    <3>3. FrameworkInv'
      BY <3>2, OnlyStepChanges DEF FlowsDone, End
    <3> QED
      BY <3>1, <3>3
  <2>6. CASE Stop
    BY <2>6, EndReadKeeps, OnlyStepChanges DEF Stop, Cancel, End
  <2>7. CASE Outside
    <3>1. ASSUME NEW f \in File, NEW c \in Config \cup {Absent}, Deploy(f, c)
          PROVE  FrameworkInv'
      <4>1. files' \in [File -> Config \cup {Absent}] /\ deploys' \in 0 .. MaxDeploys
        BY <3>1 DEF Deploy, FrameworkInv, FrameworkTypeOK
      <4> QED
        BY <3>1, <4>1, OnlyFilesChange DEF Deploy
    <3> QED
      BY <2>1, <2>2, <2>7, <3>1, ServerChangesKeeps DEF Outside
  <2>8. CASE UNCHANGED pipelineVars
    BY <2>1, <2>2, <2>8 DEF pipelineVars
  <2> QED
    BY <2>3, <2>4, <2>5, <2>6, <2>7, <2>8 DEF PipelineNext
<1> QED
  BY <1>1, <1>2, PTL DEF PipelineSpec

\* Every reachable state of an update is well-typed.
THEOREM PipelineTypeCorrect == PipelineSpec => []PipelineTypeOK
<1>1. FrameworkInv /\ RestInv => PipelineTypeOK
  BY DEF FrameworkInv, RestInv, PipelineTypeOK
<1> QED
  BY <1>1, UpdateInvariant, PTL

\* One failing source, or metadata write, costs no other source (build_all,
\* bronze_ingestion.py).
THEOREM FailuresStayLocal == PipelineSpec => []FailureStaysLocal
BY UpdateInvariant, PTL DEF FrameworkInv

\* The registry is never behind the audit and holds what it names (sync_registry,
\* record_run).
THEOREM RegistryNeverBehind == PipelineSpec => []RegistryLeadsAudit
BY UpdateInvariant, PTL DEF FrameworkInv

\* A read of lists that ends well has fetched the endpoint up to max_pages
\* (read_rest_api).
THEOREM ViewIsWholeSnapshot == PipelineSpec => []ViewIsSnapshot
BY UpdateInvariant, PTL DEF RestInv

\* Each page has its own budget of attempts (read_rest_api).
THEOREM EachPageHasItsBudget == PipelineSpec => []BudgetPerPage
BY UpdateInvariant, PTL DEF RestInv

\* No update empties the view, and only a read that ended well replaces it.
THEOREM ViewSurvivesFailures == PipelineSpec => ViewNeverEmptied
<1>1. [PipelineNext]_pipelineVars => [view' # view => view' # << >> /\ phase' = "done"]_restVars
  <2>. SUFFICES ASSUME [PipelineNext]_pipelineVars, view' # view
                PROVE  view' # << >> /\ phase' = "done"
    OBVIOUS
  <2>1. CASE Read
    BY <2>1 DEF Read, StartRead, RestStep, PageFetched, TransientFailure, PermanentFailure,
       HasRecords
  <2>2. ~Read => view' = view
    BY DEF PipelineNext, Prepare, Finish, Stop, Outside, EndRead, ServerChanges, pipelineVars,
       restVars, readVars
  <2> QED
    BY <2>1, <2>2
<1> QED
  BY <1>1, PTL DEF PipelineSpec, ViewNeverEmptied
=============================================================================
