------------------------ MODULE FilterLifecycleProofs ------------------------
(***************************************************************************)
(* Proofs about FilterLifecycle, for any filters, groups, tasks, bounds,   *)
(* operations and faults.                                                  *)
(***************************************************************************)
EXTENDS FilterLifecycle, TLAPS

-----------------------------------------------------------------------------
(* Types of the operators that build task states.                          *)

\* The smallest versions are versions.
LEMMA ZeroOne == 0 \in Versions /\ 1 \in Versions
  BY BoundAssumption DEF Versions

LEMMA IdleTaskType == IdleTask \in TaskState /\ NoJob \in Jobs
  BY ZeroOne DEF IdleTask, TaskState, TaskRecord, NoJob, Jobs, AllOps

LEMMA FetchType ==
  ASSUME NEW v \in Versions, NEW b \in BOOLEAN
  PROVE  Fetch(v, b) \in Jobs
  BY DEF Fetch, Jobs

\* The packaged metadata are metadata.
LEMMA BundleType == Bundle \in Metadata
  BY BoundAssumption, BundleAssumption DEF Bundle, Metadata

LEMMA RetryType ==
  ASSUME NEW r \in TaskState, NEW f \in Filters
  PROVE  Retry(r, f) \in TaskState
  <1>1. NoJob \in Jobs /\ Fetch(1, TRUE) \in Jobs
    BY IdleTaskType, FetchType, ZeroOne
  <1> QED BY <1>1 DEF Retry, TaskState, TaskRecord

LEMMA StartJobsType ==
  ASSUME NEW r \in TaskState, backend \in Metadata
  PROVE  StartJobs(r) \in TaskState
  <1>1. ASSUME NEW f \in Filters PROVE Fetch(backend.ver[f], FALSE) \in Jobs
    <2>1. backend.ver[f] \in Versions
      BY DEF Metadata, Versions
    <2> QED BY <2>1, FetchType
  <1>2. NoJob \in Jobs
    BY IdleTaskType
  <1> QED BY <1>1, <1>2 DEF StartJobs, TaskState, TaskRecord

LEMMA CheckTaskType ==
  ASSUME NEW r \in TaskState, NEW stage \in {"check", "update"},
         NEW S \in SUBSET Filters
  PROVE  CheckTask(r, stage, S) \in TaskState
  BY ZenonT(40) DEF CheckTask, TaskState, TaskRecord

LEMMA LoadTaskType ==
  ASSUME NEW op \in AllOps, NEW S \in SUBSET Filters,
         NEW g \in Groups \union {NoGroup}, op = "group" => g \in Groups,
         loaded \in SUBSET Filters
  PROVE  LoadTask(op, S, g) \in TaskState
  BY IdleTaskType DEF LoadTask, IdleTask, TaskState, TaskRecord

\* Applying metadata to well-typed settings gives well-typed settings.
LEMMA ReconcileType ==
  ASSUME NEW t \in Tasks, NEW s \in SettingsBlob, NEW m \in Metadata,
         s.loaded \subseteq s.known, s.enabled \subseteq s.known,
         NEW q \in [Filters -> Seq(Transaction)],
         Reconcile(t, s, m, q)
  PROVE  /\ known' \in SUBSET Filters
         /\ loaded' \in SUBSET known'
         /\ enabled' \in SUBSET known'
         /\ version' \in [Filters -> Versions]
         /\ groupOn' \in SUBSET Groups
         /\ touched' \in SUBSET Groups
         /\ metadata' \in Metadata
         /\ writes' \in [Filters -> Seq(Transaction)]
  <1>1. /\ known' \in SUBSET Filters
        /\ loaded' \in SUBSET known'
        /\ enabled' \in SUBSET known'
        /\ groupOn' \in SUBSET Groups
        /\ touched' \in SUBSET Groups
        /\ metadata' \in Metadata
    BY DEF Reconcile, Obsolete, SettingsBlob, Metadata
  <1>2. version' \in [Filters -> Versions]
    BY ZeroOne DEF Reconcile, SettingsBlob, Metadata, Versions
  <1>3. [task |-> t, v |-> 0] \in Transaction
    BY ZeroOne DEF Transaction
  <1>4. writes' \in [Filters -> Seq(Transaction)]
    BY <1>3 DEF Reconcile
  <1> QED BY <1>1, <1>2, <1>4

-----------------------------------------------------------------------------
(* Type correctness.                                                       *)

LEMMA SettingsTyped ==
  ASSUME TypeOK
  PROVE  Settings \in SettingsBlob /\ disk \in SettingsBlob
  BY DEF TypeOK, Settings, SettingsBlob

LEMMA InitType == Init => TypeOK
  <1> SUFFICES ASSUME Init PROVE TypeOK
    OBVIOUS
  <1>1. Bundle \in Metadata /\ IdleTask \in TaskState /\ 0 \in Versions /\ 1 \in Versions
    BY BundleType, IdleTaskType, ZeroOne
  <1>2. backend \in Metadata
    BY BoundAssumption DEF Init, Metadata
  <1>3. writes \in [Filters -> Seq(Transaction)]
    BY DEF Init
  <1>4. disk \in SettingsBlob
    BY <1>1, BundleAssumption DEF Init, Settings, SettingsBlob
  <1>5. /\ known \in SUBSET Filters /\ loaded \in SUBSET known
        /\ enabled \in SUBSET known
        /\ version \in [Filters -> Versions]
    BY <1>1, BundleAssumption DEF Init
  <1>6. disk.loaded \subseteq disk.known /\ disk.enabled \subseteq disk.known
    BY DEF Init, Settings
  <1>7. /\ content \in [Filters -> Versions] /\ applied \in [Filters -> Versions]
        /\ task \in [Tasks -> TaskState]
    BY <1>1 DEF Init
  <1>9. engineRuns \in Seq(Run) /\ engineBehind \in BOOLEAN
    <2>1. engineRuns = <<>> /\ engineBehind = FALSE
      BY DEF Init
    <2>2. <<>> \in Seq(Run)
      OBVIOUS
    <2> QED BY <2>1, <2>2
  <1>8. /\ groupOn \in SUBSET Groups /\ touched \in SUBSET Groups
        /\ metadata \in Metadata /\ moved \in SUBSET Filters
        /\ engineTimer \in BOOLEAN
    BY <1>1 DEF Init
  <1> QED
    BY <1>2, <1>3, <1>4, <1>5, <1>6, <1>7, <1>8, <1>9 DEF TypeOK

\* An engine update that begins.
LEMMA NewRunType ==
  ASSUME TypeOK
  PROVE  NewRun \in Run
  <1>1. EnabledFilters \in SUBSET Filters
    BY DEF EnabledFilters, TypeOK
  <1> QED BY <1>1, ZeroOne DEF NewRun, Run

\* Each step of a task.
LEMMA TaskStepType ==
  ASSUME TypeOK, NEW t \in Tasks, TaskStep(t)
  PROVE  TypeOK'
  <1> USE DEF settings, store, engine, running
  <1>0. task[t] \in TaskState /\ task[t] \in TaskRecord
    BY DEF TypeOK, TaskState
  <1>1. CASE UpdateMetadata(t)
    <2>1. PICK m \in {backend, Bundle, metadata} : Reconcile(t, Settings, m, writes)
      BY <1>1 DEF UpdateMetadata, FallbackMetadata
    <2>2. m \in Metadata
      BY BundleType DEF TypeOK
    <2>3. writes \in [Filters -> Seq(Transaction)]
      BY DEF TypeOK
    <2>4. Settings.loaded \subseteq Settings.known /\ Settings.enabled \subseteq Settings.known
      BY DEF TypeOK, Settings
    <2>5. task' \in [Tasks -> TaskState]
      <3>1. [task[t] EXCEPT !.pc = "obsolete"] \in TaskState
        BY <1>0 DEF TaskState, TaskRecord
      <3> QED BY <1>1, <3>1 DEF UpdateMetadata, TypeOK
    <2>6. /\ known' \in SUBSET Filters
          /\ loaded' \in SUBSET known'
          /\ enabled' \in SUBSET known'
          /\ version' \in [Filters -> Versions]
          /\ groupOn' \in SUBSET Groups
          /\ touched' \in SUBSET Groups
          /\ metadata' \in Metadata
          /\ writes' \in [Filters -> Seq(Transaction)]
      BY <2>1, <2>2, <2>3, <2>4, SettingsTyped, ReconcileType
    <2> QED BY <1>1, <2>5, <2>6 DEF UpdateMetadata, TypeOK
  <1>2. CASE MigrateDeprecatedFilters(t)
    <2>1. task' \in [Tasks -> TaskState]
      <3> DEFINE out == loaded \intersect metadata.deprecated
                          \intersect metadata.listed \intersect EnabledFilters
      <3>1. out \in SUBSET Filters
        BY DEF TypeOK
      <3>2. [task[t] EXCEPT !.pc = "migrate", !.moving = out] \in TaskState
        BY <1>0, <3>1 DEF TaskState, TaskRecord
      <3>3. task' = [task EXCEPT ![t] =
                       [task[t] EXCEPT !.pc = "migrate", !.moving = out]]
        BY <1>2 DEF MigrateDeprecatedFilters
      <3> QED BY <3>2, <3>3 DEF TypeOK
    <2>2. version' \in [Filters -> Versions]
      BY <1>2, ZeroOne DEF MigrateDeprecatedFilters, TypeOK
    <2>3. [task |-> t, v |-> 0] \in Transaction
      BY ZeroOne DEF Transaction
    <2>4. writes' \in [Filters -> Seq(Transaction)]
      BY <1>2, <2>3 DEF MigrateDeprecatedFilters, TypeOK
    <2>5. /\ known' \in SUBSET Filters
          /\ loaded' \in SUBSET known'
          /\ enabled' \in SUBSET known'
      BY <1>2 DEF MigrateDeprecatedFilters, TypeOK
    <2> QED BY <1>2, <2>1, <2>2, <2>4, <2>5
            DEF MigrateDeprecatedFilters, TypeOK
  <1>3. CASE StartLoads(t)
    <2>1. StartJobs(task[t]) \in TaskState
      BY StartJobsType DEF TypeOK
    <2> QED BY <1>3, <2>1 DEF StartLoads, TypeOK
  <1>4. CASE StartEngine(t)
    <2>1. NewRun \in Run
      BY NewRunType
    <2>2. engineRuns' \in Seq(Run) /\ task' \in [Tasks -> TaskState]
      BY <1>4, <2>1, IdleTaskType DEF StartEngine, TypeOK
    <2> QED BY <1>4, <2>2 DEF StartEngine, TypeOK
  <1>5. CASE AfterLoad(t)
    <2> DEFINE got == Obtained(task[t])
    <2>1. got \in SUBSET Filters
      BY <1>0 DEF Obtained, TaskRecord
    <2>2. enabled' \in SUBSET known'
      BY <1>5, <2>1 DEF AfterLoad, TypeOK
    <2>3. task' \in [Tasks -> TaskState]
      <3>1. CASE task[t].op = "reload"
        BY <1>5, <3>1, IdleTaskType DEF AfterLoad, TypeOK
      <3>2. CASE task[t].op # "reload"
        <4>1. PICK S \in SUBSET task[t].ready :
                task' = [task EXCEPT ![t] =
                           [CheckTask(task[t], "check", S) EXCEPT !.ready = got]]
          BY <1>5, <3>2 DEF AfterLoad
        <4>2. S \in SUBSET Filters /\ task[t] \in TaskState
          BY DEF TypeOK, TaskState, TaskRecord
        <4>3. CheckTask(task[t], "check", S) \in TaskState
          BY <4>2, CheckTaskType
        <4>4. [CheckTask(task[t], "check", S) EXCEPT !.ready = got] \in TaskState
          BY <4>3, <2>1 DEF TaskState, TaskRecord
        <4> QED BY <4>1, <4>4 DEF TypeOK
      <3> QED BY <3>1, <3>2
    <2>4. engineTimer' \in BOOLEAN
      BY <1>5 DEF AfterLoad, TypeOK
    <2> QED BY <1>5, <2>2, <2>3, <2>4 DEF AfterLoad, TypeOK
  <1>6. CASE EnableUntouchedGroups(t)
    <2>1. UntouchedGroups(task[t].ready \intersect metadata.listed) \in SUBSET Groups
      BY GroupOfAssumption DEF UntouchedGroups, TypeOK, TaskState, TaskRecord
    <2> QED BY <1>6, <2>1, IdleTaskType DEF EnableUntouchedGroups, TypeOK
  <1>7. CASE CheckGroup(t)
    <2>1. PICK S \in SUBSET Filters :
            task' = [task EXCEPT ![t] = CheckTask(task[t], "update", S)]
      BY <1>7 DEF CheckGroup, TypeOK
    <2>2. CheckTask(task[t], "update", S) \in TaskState
      BY CheckTaskType DEF TypeOK
    <2> QED BY <1>7, <2>1, <2>2 DEF CheckGroup, TypeOK
  <1>8. CASE FinishGroup(t)
    <2>1. task[t].group \in Groups
      BY <1>0, <1>8 DEF FinishGroup, TaskState
    <2> QED BY <1>8, <2>1, IdleTaskType DEF FinishGroup, TypeOK
  <1>9. CASE FinishUpdate(t)
    BY <1>9, IdleTaskType DEF FinishUpdate, TypeOK, AnyUpdated
  <1>10. ASSUME NEW f \in Filters, CreateCustom(t, f)
         PROVE  TypeOK'
    <2>1. [task[t] EXCEPT !.moving = task[t].moving \ {f}] \in TaskState
      BY <1>0 DEF TaskState, TaskRecord
    <2>2. task' \in [Tasks -> TaskState]
      BY <1>10, <2>1 DEF CreateCustom, TypeOK
    <2> QED BY <1>10, <2>2 DEF CreateCustom, TypeOK
  <1>11. ASSUME NEW f \in Filters, Receive(t, f)
         PROVE  TypeOK'
    <2>1. Retry(task[t], f) \in TaskState
      BY RetryType DEF TypeOK
    <2>2. CASE f \in metadata.listed \ metadata.deprecated
      <3>1. PICK v \in {1} \union task[t].job[f].v..backend.ver[f] :
              /\ version' = [version EXCEPT ![f] = v]
              /\ writes' = [writes EXCEPT ![f] = Append(@, [task |-> t, v |-> v])]
              /\ task' = [task EXCEPT ![t].job[f] =
                            [st |-> "write", v |-> v, local |-> task[t].job[f].local]]
        BY <1>11, <2>2 DEF Receive, RecordedVersion
      <3>2. v \in Versions
        BY ZeroOne, BoundAssumption DEF TypeOK, TaskState, TaskRecord, Jobs, Metadata, Versions
      <3>3. [task |-> t, v |-> v] \in Transaction
        BY <3>2 DEF Transaction
      <3>4. [st |-> "write", v |-> v, local |-> task[t].job[f].local] \in Jobs
        BY <1>0, <3>2 DEF Jobs, TaskRecord
      <3>5. writes' \in [Filters -> Seq(Transaction)]
        BY <3>1, <3>3 DEF TypeOK
      <3>6. task' \in [Tasks -> TaskState]
        <4>1. [task[t] EXCEPT !.job[f] = [st |-> "write", v |-> v,
                                          local |-> task[t].job[f].local]]
                \in TaskState
          BY <1>0, <3>4 DEF TaskState, TaskRecord
        <4> QED BY <3>1, <4>1 DEF TypeOK
      <3> QED BY <1>11, <3>1, <3>2, <3>5, <3>6 DEF Receive, TypeOK
    <2>3. CASE f \notin metadata.listed \ metadata.deprecated
      <3>1. task' \in [Tasks -> TaskState]
        BY <1>11, <2>1, <2>3 DEF Receive, TypeOK
      <3> QED BY <1>11, <2>3, <3>1 DEF Receive, TypeOK
    <2> QED BY <2>2, <2>3
  <1>12. ASSUME NEW f \in Filters, FetchFails(t, f)
         PROVE  TypeOK'
    <2>1. Retry(task[t], f) \in TaskState
      BY RetryType DEF TypeOK
    <2> QED BY <1>12, <2>1 DEF FetchFails, TypeOK
  <1>13. ASSUME NEW f \in Filters, WriteRaw(t, f)
         PROVE  TypeOK'
    <2>1. Retry(task[t], f) \in TaskState
      BY RetryType DEF TypeOK
    <2>2. [task[t] EXCEPT !.job[f] = NoJob, !.done = @ \union {f}] \in TaskState
      BY IdleTaskType, ZenonT(40) DEF TypeOK, TaskState, TaskRecord
    <2>3. task' \in [Tasks -> TaskState]
      BY <1>13, <2>1, <2>2 DEF WriteRaw, TypeOK
    <2> QED BY <1>13, <2>3 DEF WriteRaw, TypeOK
  <1> QED
    BY <1>1, <1>2, <1>3, <1>4, <1>5, <1>6, <1>7, <1>8, <1>9, <1>10, <1>11,
       <1>12, <1>13, TaskStep(t) DEF TaskStep

\* Each message from the pages that starts a task.
LEMMA StartTaskType ==
  ASSUME TypeOK, NEW t \in Tasks,
         \/ AutoUpdateFilters(t) \/ ReloadEnabledFilters(t)
         \/ \E f \in Filters : EnableFilter(t, f)
         \/ \E g \in Groups : EnableGroup(t, g)
  PROVE  TypeOK'
  <1> USE DEF settings, store, engine, running
  <1>0. EnabledFilters \in SUBSET Filters /\ loaded \in SUBSET Filters
    BY DEF EnabledFilters, TypeOK
  <1>1. CASE AutoUpdateFilters(t)
    <2>1. PICK S \in SUBSET Filters, full \in SUBSET Filters :
            LET r == [IdleTask EXCEPT !.op = "update", !.stage = "update",
                                      !.want = S, !.full = full, !.pc = "metadata"]
            IN task' = [task EXCEPT ![t] = IF full = {} THEN StartJobs(r) ELSE r]
      BY <1>0, <1>1 DEF AutoUpdateFilters
    <2> DEFINE r == [IdleTask EXCEPT !.op = "update", !.stage = "update",
                                     !.want = S, !.full = full, !.pc = "metadata"]
    <2>2. r \in TaskState
      BY IdleTaskType DEF TaskState, TaskRecord, AllOps
    <2>3. StartJobs(r) \in TaskState
      BY <2>2, StartJobsType DEF TypeOK
    <2>4. task' \in [Tasks -> TaskState]
      BY <2>1, <2>2, <2>3 DEF TypeOK
    <2> QED BY <1>1, <2>4 DEF AutoUpdateFilters, TypeOK
  <1>2. CASE ReloadEnabledFilters(t)
    <2> DEFINE r == [IdleTask EXCEPT !.op = "reload", !.want = EnabledFilters,
                                     !.pc = IF EnabledFilters = {}
                                            THEN "jobs" ELSE "metadata"]
    <2>1. r \in TaskState
      BY <1>0, IdleTaskType, ZenonT(40) DEF TaskState, TaskRecord, AllOps
    <2>2. task' \in [Tasks -> TaskState]
      BY <1>2, <2>1 DEF ReloadEnabledFilters, TypeOK
    <2> QED BY <1>2, <2>2 DEF ReloadEnabledFilters, TypeOK
  <1>3. ASSUME NEW f \in Filters, EnableFilter(t, f)
        PROVE  TypeOK'
    <2>1. LoadTask("enable", {f}, NoGroup) \in TaskState
      BY <1>0, LoadTaskType DEF AllOps
    <2>2. task' \in [Tasks -> TaskState] /\ engineTimer' \in BOOLEAN
      BY <1>3, <2>1 DEF EnableFilter, TypeOK
    <2> QED BY <1>3, <2>2 DEF EnableFilter, TypeOK
  <1>4. ASSUME NEW g \in Groups, EnableGroup(t, g)
        PROVE  TypeOK'
    <2>1. PICK S \in SUBSET Filters :
            task' = [task EXCEPT ![t] = LoadTask("group", S, g)]
      BY <1>4, BundleAssumption DEF EnableGroup
    <2>2. LoadTask("group", S, g) \in TaskState
      BY <1>0, LoadTaskType DEF AllOps
    <2>3. task' \in [Tasks -> TaskState]
      BY <2>1, <2>2 DEF TypeOK
    <2> QED BY <1>4, <2>3 DEF EnableGroup, TypeOK
  <1> QED BY <1>1, <1>2, <1>3, <1>4

\* A restart: the saved settings are reconciled with the saved metadata.
LEMMA RestartType ==
  ASSUME TypeOK, NEW t \in Tasks, Restart(t)
  PROVE  TypeOK'
  <1> DEFINE none == [f \in Filters |-> <<>>]
  <1>1. none \in [Filters -> Seq(Transaction)]
    OBVIOUS
  <1>2. /\ disk \in SettingsBlob /\ disk.metadata \in Metadata
        /\ disk.loaded \subseteq disk.known /\ disk.enabled \subseteq disk.known
    BY DEF TypeOK, SettingsBlob
  <1>3. Reconcile(t, disk, disk.metadata, none)
    BY DEF Restart
  <1> HIDE DEF none
  <1>4. /\ known' \in SUBSET Filters
        /\ loaded' \in SUBSET known'
        /\ enabled' \in SUBSET known'
        /\ version' \in [Filters -> Versions]
        /\ groupOn' \in SUBSET Groups
        /\ touched' \in SUBSET Groups
        /\ metadata' \in Metadata
        /\ writes' \in [Filters -> Seq(Transaction)]
    BY <1>1, <1>2, <1>3, ReconcileType
  <1>5. [IdleTask EXCEPT !.op = "start", !.pc = "obsolete"] \in TaskState
    BY IdleTaskType DEF TaskState, TaskRecord
  <1>6. task' \in [Tasks -> TaskState]
    BY <1>5, IdleTaskType DEF Restart
  <1>7. /\ applied' \in [Filters -> Versions] /\ engineTimer' \in BOOLEAN
        /\ engineRuns' \in Seq(Run) /\ engineBehind' \in BOOLEAN
    <2>1. /\ applied' = [f \in Filters |-> 0] /\ engineTimer' = FALSE
          /\ engineRuns' = <<>> /\ engineBehind' = FALSE
      BY DEF Restart
    <2>2. applied' \in [Filters -> Versions]
      BY <2>1, ZeroOne
    <2>3. <<>> \in Seq(Run)
      OBVIOUS
    <2> QED BY <2>1, <2>2, <2>3
  <1>8. UNCHANGED <<disk, content, moved, backend>>
    BY DEF Restart
  <1> QED BY <1>4, <1>6, <1>7, <1>8 DEF TypeOK

\* The steps of an engine update change the updates and the engine only.
LEMMA RunsFrame ==
  ASSUME RunUpdates
  PROVE  /\ UNCHANGED <<known, loaded, enabled, version, groupOn, touched, metadata>>
         /\ UNCHANGED <<content, writes, disk, moved, task, engineTimer, backend>>
  BY DEF RunUpdates, EngineStep, Configure, UpdateFails, ReadRules, settings, store

\* The updates that are left when one ends.
LEMMA RunsAfterType ==
  ASSUME engineRuns \in Seq(Run), NEW i \in DOMAIN engineRuns
  PROVE  RunsAfter(i) \in Seq(Run)
  <1> DEFINE n == Len(engineRuns) - 1
             run(k) == IF k < i THEN [engineRuns[k] EXCEPT !.behind = TRUE]
                       ELSE engineRuns[k + 1]
  <1>1. n \in Nat /\ i \in 1..Len(engineRuns)
    OBVIOUS
  <1>2. ASSUME NEW k \in 1..n
        PROVE  run(k) \in Run
    <2>1. engineRuns[k] \in Run /\ engineRuns[k + 1] \in Run
      BY <1>1
    <2>2. [engineRuns[k] EXCEPT !.behind = TRUE] \in Run
      BY <2>1 DEF Run
    <2> QED BY <2>1, <2>2
  <1>3. RunsAfter(i) = [k \in 1..n |-> run(k)]
    BY DEF RunsAfter
  <1> HIDE DEF run, n
  <1>4. [k \in 1..n |-> run(k)] \in [1..n -> Run]
    BY <1>2
  <1> QED BY <1>1, <1>3, <1>4

LEMMA RunUpdatesType ==
  ASSUME TypeOK, RunUpdates
  PROVE  TypeOK'
  <1>0. PICK i \in DOMAIN engineRuns : EngineStep(i)
    BY DEF RunUpdates
  <1>1. engineRuns \in Seq(Run) /\ engineRuns[i] \in Run
    BY DEF TypeOK
  <1>2. /\ engineRuns' \in Seq(Run) /\ applied' \in [Filters -> Versions]
        /\ engineBehind' \in BOOLEAN
    <2>1. CASE Configure(i) \/ UpdateFails(i)
      <3>1. engineRuns' \in Seq(Run)
        BY <2>1, <1>1, RunsAfterType DEF Configure, UpdateFails
      <3>2. applied' \in [Filters -> Versions] /\ engineBehind' \in BOOLEAN
        BY <2>1, <1>1 DEF Configure, UpdateFails, Run, TypeOK
      <3> QED BY <3>1, <3>2
    <2>2. ASSUME NEW f \in Filters, ReadRules(i, f)
          PROVE  /\ engineRuns' \in Seq(Run) /\ applied' \in [Filters -> Versions]
                 /\ engineBehind' \in BOOLEAN
      <3>1. PICK v \in {content[f]} \union IF "storage" \in Faults THEN {0} ELSE {} :
              engineRuns' = [engineRuns EXCEPT ![i].unread = @ \ {f}, ![i].rules[f] = v]
        BY <2>2 DEF ReadRules
      <3>2. v \in Versions
        BY <3>1, ZeroOne DEF TypeOK
      <3> DEFINE run == [engineRuns[i] EXCEPT !.unread = @ \ {f}, !.rules[f] = v]
      <3>3. run \in Run
        BY <1>1, <3>2 DEF Run
      <3>4. engineRuns' = [engineRuns EXCEPT ![i] = run]
        BY <3>1, <1>1
      <3> HIDE DEF run
      <3>5. engineRuns' \in Seq(Run)
        BY <3>3, <3>4, <1>1
      <3> QED BY <2>2, <3>5 DEF ReadRules, TypeOK
    <2> QED BY <1>0, <2>1, <2>2 DEF EngineStep
  <1> QED BY <1>2, RunsFrame DEF TypeOK

\* The stores, the engine, the server and the switches of the user.
LEMMA OtherStepType ==
  ASSUME TypeOK,
         \/ \E f \in Filters : \/ CommitWrite(f) \/ AbortWrite(f) \/ DisableFilter(f)
                               \/ Publish(f) \/ Retire(f)
         \/ \E g \in Groups : DisableGroup(g)
         \/ UpdateEngine \/ RunUpdates \/ SaveSettings
  PROVE  TypeOK'
  <1> USE DEF settings, store, engine, running
  <1>1. ASSUME NEW f \in Filters, writes[f] # <<>>
        PROVE  /\ Head(writes[f]) \in Transaction
               /\ [writes EXCEPT ![f] = Tail(@)] \in [Filters -> Seq(Transaction)]
    <2>1. writes \in [Filters -> Seq(Transaction)]
      BY DEF TypeOK
    <2>2. Head(writes[f]) \in Transaction /\ Tail(writes[f]) \in Seq(Transaction)
      BY <1>1, <2>1
    <2> QED BY <2>1, <2>2
  <1>2. ASSUME NEW f \in Filters, CommitWrite(f)
        PROVE  TypeOK'
    <2> DEFINE w == Head(writes[f])
    <2>1. /\ w.task \in Tasks /\ w.v \in Versions
          /\ writes' \in [Filters -> Seq(Transaction)]
      BY <1>1, <1>2 DEF CommitWrite, Transaction
    <2>2. task[w.task] \in TaskState
      BY <2>1 DEF TypeOK
    <2>3. [task[w.task] EXCEPT !.job[f].st = "raw"] \in TaskState
      <3>1. [task[w.task].job[f] EXCEPT !.st = "raw"] \in Jobs
        <4> DEFINE j == task[w.task].job[f]
        <4>1. j \in Jobs
          BY <2>2 DEF TaskState, TaskRecord
        <4> HIDE DEF j
        <4>2. [j EXCEPT !.st = "raw"] \in Jobs
          BY <4>1 DEF Jobs
        <4> QED BY <4>2 DEF j
      <3> QED BY <2>2, <3>1 DEF TaskState, TaskRecord
    <2>4. task' = IF w.v = 0 THEN task
                  ELSE [task EXCEPT ![w.task] = [task[w.task] EXCEPT !.job[f].st = "raw"]]
      BY <1>2 DEF CommitWrite
    <2>5. task' \in [Tasks -> TaskState]
      BY <2>1, <2>3, <2>4 DEF TypeOK
    <2>6. content' \in [Filters -> Versions]
      BY <1>2, <2>1 DEF CommitWrite, TypeOK
    <2> QED BY <1>2, <2>1, <2>5, <2>6 DEF CommitWrite, TypeOK
  <1>3. ASSUME NEW f \in Filters, AbortWrite(f)
        PROVE  TypeOK'
    <2> DEFINE w == Head(writes[f])
    <2>1. /\ w.task \in Tasks
          /\ writes' \in [Filters -> Seq(Transaction)]
      BY <1>1, <1>3 DEF AbortWrite, Transaction
    <2>2. task[w.task] \in TaskState
      BY <2>1 DEF TypeOK
    <2>3. Rejected(w, f) \subseteq TaskState
      <3>1. [task[w.task] EXCEPT !.moving = @ \ {f}] \in TaskState
        BY <2>2 DEF TaskState, TaskRecord
      <3>2. Retry(task[w.task], f) \in TaskState
        BY <2>2, RetryType
      <3> QED BY <2>2, <3>1, <3>2 DEF Rejected
    <2>4. task' \in [Tasks -> TaskState]
      BY <1>3, <2>1, <2>3 DEF AbortWrite, TypeOK
    <2> QED BY <1>3, <2>1, <2>4 DEF AbortWrite, TypeOK
  <1>4. ASSUME NEW f \in Filters, DisableFilter(f)
        PROVE  TypeOK'
    <2>1. engineTimer' \in BOOLEAN /\ enabled' \in SUBSET known
      BY <1>4 DEF DisableFilter, TypeOK
    <2> QED BY <1>4, <2>1 DEF DisableFilter, TypeOK
  <1>5. ASSUME NEW f \in Filters, Publish(f) \/ Retire(f)
        PROVE  TypeOK'
    <2>1. backend.ver \in [Filters -> 1..MaxVersion] /\ backend \in Metadata
      BY DEF TypeOK, Metadata
    <2>2. CASE Publish(f)
      <3>1. backend.ver[f] + 1 \in 1..MaxVersion
        BY <2>1, <2>2, BoundAssumption DEF Publish
      <3> QED BY <2>1, <2>2, <3>1 DEF Publish, TypeOK, Metadata
    <2>3. CASE Retire(f)
      <3>1. backend' \in Metadata
        BY <2>1, <2>3 DEF Retire, Metadata
      <3> QED BY <2>3, <3>1 DEF Retire, TypeOK
    <2> QED BY <1>5, <2>2, <2>3
  <1>6. ASSUME NEW g \in Groups, DisableGroup(g)
        PROVE  TypeOK'
    BY <1>6 DEF DisableGroup, TypeOK
  <1>7. CASE UpdateEngine
    <2>1. Append(engineRuns, NewRun) \in Seq(Run)
      BY NewRunType DEF TypeOK
    <2> QED BY <1>7, <2>1 DEF UpdateEngine, TypeOK
  <1>8. CASE RunUpdates
    BY <1>8, RunUpdatesType
  <1>9. CASE SaveSettings
    <2>1. Settings \in SettingsBlob
      BY SettingsTyped
    <2>2. Settings.loaded \subseteq Settings.known /\ Settings.enabled \subseteq Settings.known
      BY DEF TypeOK, Settings
    <2>3. disk' = Settings
      BY <1>9, <2>1, <2>2 DEF SaveSettings, SavedSettings
    <2> QED BY <1>9, <2>1, <2>2, <2>3 DEF SaveSettings, TypeOK
  <1> QED BY <1>2, <1>3, <1>4, <1>5, <1>6, <1>7, <1>8, <1>9

LEMMA NextType == TypeOK /\ [Next]_vars => TypeOK'
  <1> SUFFICES ASSUME TypeOK, [Next]_vars PROVE TypeOK'
    OBVIOUS
  <1>1. CASE Next
    BY <1>1, TaskStepType, StartTaskType, RestartType, OtherStepType DEF Next
  <1>2. CASE UNCHANGED vars
    BY <1>2 DEF vars, TypeOK
  <1> QED BY <1>1, <1>2

\* Every variable keeps its type, and a filter marked as loaded or enabled has
\* an entry, in memory as on disk: what each handler of the background page
\* leaves behind, for any filters, operations and faults.
THEOREM TypeCorrect == Spec => []TypeOK
  <1>1. Init => TypeOK
    BY InitType
  <1>2. TypeOK /\ [Next]_vars => TypeOK'
    BY NextType
  <1> QED BY <1>1, <1>2, PTL DEF Spec

-----------------------------------------------------------------------------
(* Enabled filters are loaded.  Every filter that is enabled, or that some *)
(* running operation may still enable, is claimed.                         *)

\* The filters that an operation in state r has obtained, or is about to have.
Held(r) == r.ready \union r.done
             \union {f \in Filters : r.job[f].st \in {"write", "raw"}}

\* Filters with rules on their way to the store.
Promised == {f \in Filters : \E i \in DOMAIN writes[f] : writes[f][i].v # 0}

Claimed == {f \in Filters : \/ f \in enabled
                            \/ f \in Promised
                            \/ \E t \in Tasks : f \in Held(task[t])}

\* No metadata the extension may act on drops or deprecates a filter that lasts.
MetadataKeepsLasting ==
    /\ Lasting \subseteq metadata.listed \ metadata.deprecated
    /\ Lasting \subseteq disk.metadata.listed \ disk.metadata.deprecated

\* The inductive invariant.
LoadedInv ==
    /\ MetadataKeepsLasting
    /\ disk.enabled \intersect Lasting \subseteq disk.loaded
    /\ Claimed \intersect Lasting \subseteq loaded

-----------------------------------------------------------------------------
(* What the operators that build task states claim.                        *)

LEMMA IdleHeld == Held(IdleTask) = {}
  BY DEF Held, IdleTask, NoJob

LEMMA LoadHeld ==
  ASSUME NEW op, NEW S, NEW g
  PROVE  Held(LoadTask(op, S, g)) \subseteq loaded
  BY DEF Held, LoadTask, IdleTask, NoJob

LEMMA RetryHeld ==
  ASSUME NEW r \in TaskState, NEW f \in Filters
  PROVE  Held(Retry(r, f)) \subseteq Held(r)
  BY DEF Held, Retry, TaskState, TaskRecord, NoJob, Fetch

LEMMA StartJobsHeld ==
  ASSUME NEW r \in TaskState
  PROVE  Held(StartJobs(r)) \subseteq Held(r)
  BY DEF Held, StartJobs, TaskState, TaskRecord, NoJob, Fetch

LEMMA CheckTaskHeld ==
  ASSUME NEW r \in TaskState, NEW stage, NEW S
  PROVE  Held(CheckTask(r, stage, S)) \subseteq Held(r)
  BY DEF Held, CheckTask, TaskState, TaskRecord

LEMMA HeldType ==
  ASSUME NEW r \in TaskState
  PROVE  Held(r) \subseteq Filters
  BY DEF Held, TaskState, TaskRecord

\* A step that claims nothing but filters already claimed or loaded, and drops
\* the loaded mark of no filter that lasts.
ClaimsNothingNew ==
    /\ Lasting' \subseteq Lasting
    /\ Lasting' \subseteq metadata'.listed \ metadata'.deprecated
    /\ disk' = disk
    /\ loaded \intersect Lasting' \subseteq loaded'
    /\ enabled' \subseteq Claimed \union loaded'
    /\ Promised' \subseteq Claimed \union loaded'
    /\ \A u \in Tasks : Held(task'[u]) \subseteq Claimed \union loaded'

LEMMA NothingNew == LoadedInv /\ ClaimsNothingNew => LoadedInv'
  <1> SUFFICES ASSUME LoadedInv, ClaimsNothingNew PROVE LoadedInv'
    OBVIOUS
  <1>1. MetadataKeepsLasting'
    BY DEF LoadedInv, MetadataKeepsLasting, ClaimsNothingNew
  <1>2. (disk.enabled \intersect Lasting \subseteq disk.loaded)'
    BY DEF LoadedInv, ClaimsNothingNew
  <1>3. Claimed' \subseteq Claimed \union loaded'
    BY DEF ClaimsNothingNew, Claimed
  <1>4. (Claimed \intersect Lasting \subseteq loaded)'
    BY <1>3 DEF LoadedInv, ClaimsNothingNew
  <1> QED BY <1>1, <1>2, <1>4 DEF LoadedInv

\* What is enabled, promised or held is claimed.
LEMMA ClaimedParts ==
  ASSUME TypeOK
  PROVE  /\ enabled \subseteq Claimed
         /\ Promised \subseteq Claimed
         /\ \A u \in Tasks : Held(task[u]) \subseteq Claimed
  <1>1. \A u \in Tasks : Held(task[u]) \subseteq Filters
    BY HeldType DEF TypeOK
  <1> QED BY <1>1 DEF Claimed, Promised, TypeOK

\* If one task goes to state r, the tasks claim what r claims at most.
LEMMA OneTaskClaims ==
  ASSUME NEW t \in Tasks, NEW r, TypeOK,
         task' = [task EXCEPT ![t] = r],
         Held(r) \subseteq Claimed \union loaded'
  PROVE  \A u \in Tasks : Held(task'[u]) \subseteq Claimed \union loaded'
  BY ClaimedParts DEF TypeOK

\* Appending a removal promises no rules.
LEMMA RemovalPromises ==
  ASSUME NEW q \in Seq(Transaction), NEW t \in Tasks,
         NEW q2, q2 = Append(q, [task |-> t, v |-> 0]),
         \E i \in DOMAIN q2 : q2[i].v # 0
  PROVE  \E i \in DOMAIN q : q[i].v # 0
  <1>1. PICK i \in DOMAIN q2 : q2[i].v # 0
    OBVIOUS
  <1>2. i \in 1..Len(q) /\ q2[i] = q[i]
    BY <1>1
  <1> QED BY <1>1, <1>2

\* Metadata that list the filters that last keep their entries and marks.
LEMMA ReconcileKeeps ==
  ASSUME TypeOK, NEW t \in Tasks, NEW m \in Metadata,
         Reconcile(t, Settings, m, writes)
  PROVE  /\ enabled' \subseteq enabled
         /\ loaded \intersect m.listed \subseteq loaded'
         /\ Promised' \subseteq Promised
  <1>1. /\ enabled' \subseteq enabled
        /\ loaded \intersect m.listed \subseteq loaded'
    BY DEF Reconcile, Settings, Obsolete
  <1>2. ASSUME NEW f \in Filters, \E i \in DOMAIN writes'[f] : writes'[f][i].v # 0
        PROVE  \E i \in DOMAIN writes[f] : writes[f][i].v # 0
    <2>1. writes[f] \in Seq(Transaction)
      BY DEF TypeOK
    <2>2. \/ writes'[f] = writes[f]
          \/ writes'[f] = Append(writes[f], [task |-> t, v |-> 0])
      BY DEF Reconcile
    <2> QED BY <1>2, <2>1, <2>2, RemovalPromises
  <1> QED BY <1>1, <1>2 DEF Promised

-----------------------------------------------------------------------------
(* Each step preserves the invariant.                                      *)

LEMMA TaskStepLoaded ==
  ASSUME TypeOK, LoadedInv, NEW t \in Tasks, TaskStep(t)
  PROVE  LoadedInv'
  <1> USE DEF settings, store, engine, running
  <1>0. task[t] \in TaskState /\ Held(task[t]) \subseteq Claimed
    BY ClaimedParts DEF TypeOK
  <1>a. SUFFICES ClaimsNothingNew
    BY NothingNew
  \* A task step leaves the server and the disk alone, and most of them all
  \* settings but the enabled filters and the groups too.
  <1>b. ASSUME UNCHANGED <<loaded, metadata, backend, disk, writes>>,
               enabled' \subseteq Claimed,
               NEW r, task' = [task EXCEPT ![t] = r],
               Held(r) \subseteq Claimed \union loaded
        PROVE  ClaimsNothingNew
    <2>1. Lasting' = Lasting /\ Promised' = Promised
      BY <1>b DEF Lasting, Promised
    <2>2. \A u \in Tasks : Held(task'[u]) \subseteq Claimed \union loaded'
      BY <1>b, OneTaskClaims
    <2> QED BY <1>b, <2>1, <2>2, ClaimedParts
            DEF ClaimsNothingNew, LoadedInv, MetadataKeepsLasting
  <1>1. CASE UpdateMetadata(t)
    <2>1. PICK m \in {backend, Bundle, metadata} : Reconcile(t, Settings, m, writes)
      BY <1>1 DEF UpdateMetadata, FallbackMetadata
    <2>2. m \in Metadata
      BY <2>1, BundleType DEF TypeOK
    <2>3. Lasting' = Lasting /\ disk' = disk
      BY <1>1 DEF UpdateMetadata, Lasting
    <2>4. metadata' = m /\ Lasting \subseteq m.listed \ m.deprecated
      <3>1. Lasting \subseteq backend.listed \ backend.deprecated
        BY DEF Lasting
      <3>2. Lasting \subseteq Bundle.listed \ Bundle.deprecated
        BY DEF Lasting, Bundle
      <3>3. metadata' = m
        BY <2>1 DEF Reconcile
      <3> QED BY <2>1, <3>1, <3>2, <3>3 DEF LoadedInv, MetadataKeepsLasting
    <2>5. Held([task[t] EXCEPT !.pc = "obsolete"]) \subseteq Claimed \union loaded'
      BY <1>0 DEF Held, TaskState, TaskRecord
    <2>6. \A u \in Tasks : Held(task'[u]) \subseteq Claimed \union loaded'
      BY <1>1, <2>5, OneTaskClaims DEF UpdateMetadata
    <2> QED BY <2>1, <2>2, <2>3, <2>4, <2>6, ReconcileKeeps, ClaimedParts
            DEF ClaimsNothingNew
  <1>2. CASE MigrateDeprecatedFilters(t)
    <2> DEFINE gone == loaded \intersect metadata.deprecated \intersect metadata.listed
               r == [task[t] EXCEPT !.pc = "migrate",
                                    !.moving = gone \intersect EnabledFilters]
    <2>1. Lasting' = Lasting /\ disk' = disk /\ metadata' = metadata
      BY <1>2 DEF MigrateDeprecatedFilters, Lasting
    <2>2. loaded \intersect Lasting \subseteq loaded' /\ enabled' \subseteq enabled
      BY <1>2 DEF MigrateDeprecatedFilters, LoadedInv, MetadataKeepsLasting
    <2>3. Promised' \subseteq Promised
      <3>1. ASSUME NEW f \in Filters, \E i \in DOMAIN writes'[f] : writes'[f][i].v # 0
            PROVE  \E i \in DOMAIN writes[f] : writes[f][i].v # 0
        <4>1. writes[f] \in Seq(Transaction)
          BY DEF TypeOK
        <4>2. \/ writes'[f] = writes[f]
              \/ writes'[f] = Append(writes[f], [task |-> t, v |-> 0])
          BY <1>2 DEF MigrateDeprecatedFilters
        <4> QED BY <3>1, <4>1, <4>2, RemovalPromises
      <3> QED BY <3>1 DEF Promised
    <2>4. task' = [task EXCEPT ![t] = r]
      BY <1>2 DEF MigrateDeprecatedFilters
    <2>5. Held(r) \subseteq Claimed \union loaded'
      BY <1>0 DEF Held, TaskState, TaskRecord
    <2>6. \A u \in Tasks : Held(task'[u]) \subseteq Claimed \union loaded'
      BY <2>4, <2>5, OneTaskClaims
    <2> QED BY <2>1, <2>2, <2>3, <2>6, ClaimedParts
            DEF ClaimsNothingNew, LoadedInv, MetadataKeepsLasting
  <1>3. CASE StartLoads(t)
    <2>1. Held(StartJobs(task[t])) \subseteq Claimed
      BY <1>0, StartJobsHeld
    <2> QED BY <1>3, <2>1, <1>b, ClaimedParts DEF StartLoads
  <1>4. CASE StartEngine(t)
    BY <1>4, <1>b, IdleHeld, ClaimedParts DEF StartEngine
  <1>5. CASE AfterLoad(t)
    <2>1. Obtained(task[t]) \subseteq Claimed
      BY <1>0 DEF Obtained, Held
    <2>2. enabled' \subseteq Claimed
      BY <1>5, <2>1, ClaimedParts DEF AfterLoad
    <2>3. CASE task[t].op = "reload"
      BY <1>5, <2>2, <2>3, <1>b, IdleHeld DEF AfterLoad
    <2>4. CASE task[t].op # "reload"
      <3>1. PICK S : task' = [task EXCEPT ![t] =
                        [CheckTask(task[t], "check", S) EXCEPT !.ready = Obtained(task[t])]]
        BY <1>5, <2>4 DEF AfterLoad
      <3>2. Held([CheckTask(task[t], "check", S) EXCEPT !.ready = Obtained(task[t])])
              \subseteq Claimed
        BY <1>0, <2>1 DEF Held, CheckTask, TaskState, TaskRecord
      <3> QED BY <1>5, <2>2, <3>1, <3>2, <1>b DEF AfterLoad
    <2> QED BY <2>3, <2>4
  <1>6. CASE EnableUntouchedGroups(t)
    BY <1>6, <1>b, IdleHeld, ClaimedParts DEF EnableUntouchedGroups
  <1>7. CASE CheckGroup(t)
    <2>1. PICK S : task' = [task EXCEPT ![t] = CheckTask(task[t], "update", S)]
      BY <1>7 DEF CheckGroup
    <2>2. Held(CheckTask(task[t], "update", S)) \subseteq Claimed
      BY <1>0, CheckTaskHeld
    <2> QED BY <1>7, <2>1, <2>2, <1>b, ClaimedParts DEF CheckGroup
  <1>8. CASE FinishGroup(t)
    BY <1>8, <1>b, IdleHeld, ClaimedParts DEF FinishGroup
  <1>9. CASE FinishUpdate(t)
    BY <1>9, <1>b, IdleHeld, ClaimedParts DEF FinishUpdate
  <1>10. ASSUME NEW f \in Filters, CreateCustom(t, f)
         PROVE  ClaimsNothingNew
    <2>1. Held([task[t] EXCEPT !.moving = @ \ {f}]) \subseteq Claimed
      BY <1>0 DEF Held, TaskState, TaskRecord
    <2>2. task' = [task EXCEPT ![t] = [task[t] EXCEPT !.moving = @ \ {f}]]
      BY <1>10 DEF CreateCustom
    <2> QED BY <1>10, <2>1, <2>2, <1>b, ClaimedParts DEF CreateCustom
  <1>11. ASSUME NEW f \in Filters, Receive(t, f)
         PROVE  ClaimsNothingNew
    <2>1. /\ Lasting' = Lasting /\ disk' = disk /\ metadata' = metadata
          /\ enabled' = enabled /\ loaded' = loaded \union {f}
      BY <1>11 DEF Receive, Lasting
    <2>2. /\ Promised' \subseteq Promised \union {f}
          /\ \E r : /\ task' = [task EXCEPT ![t] = r]
                    /\ Held(r) \subseteq Held(task[t]) \union {f}
      <3>1. CASE f \in metadata.listed \ metadata.deprecated
        <4>1. PICK v : /\ writes' = [writes EXCEPT ![f] = Append(@, [task |-> t, v |-> v])]
                       /\ task' = [task EXCEPT ![t].job[f] =
                                     [st |-> "write", v |-> v,
                                      local |-> task[t].job[f].local]]
          BY <1>11, <3>1 DEF Receive
        <4>2. Promised' \subseteq Promised \union {f}
          BY <4>1 DEF Promised, TypeOK
        <4> DEFINE r == [task[t] EXCEPT !.job[f] = [st |-> "write", v |-> v,
                                                    local |-> task[t].job[f].local]]
        <4>3. task' = [task EXCEPT ![t] = r]
          BY <4>1
        <4>4. Held(r) \subseteq Held(task[t]) \union {f}
          BY <1>0 DEF Held, TaskState, TaskRecord
        <4> QED BY <4>2, <4>3, <4>4
      <3>2. CASE f \notin metadata.listed \ metadata.deprecated
        <4>1. task' = [task EXCEPT ![t] = Retry(task[t], f)] /\ writes' = writes
          BY <1>11, <3>2 DEF Receive
        <4> QED BY <1>0, <4>1, RetryHeld DEF Promised
      <3> QED BY <3>1, <3>2
    <2>3. \A u \in Tasks : Held(task'[u]) \subseteq Claimed \union loaded'
      BY <1>0, <2>1, <2>2, OneTaskClaims
    <2> QED BY <2>1, <2>2, <2>3, ClaimedParts
            DEF ClaimsNothingNew, LoadedInv, MetadataKeepsLasting
  <1>12. ASSUME NEW f \in Filters, FetchFails(t, f)
         PROVE  ClaimsNothingNew
    <2>1. Held(Retry(task[t], f)) \subseteq Claimed
      BY <1>0, RetryHeld
    <2> QED BY <1>12, <2>1, <1>b, ClaimedParts DEF FetchFails
  <1>13. ASSUME NEW f \in Filters, WriteRaw(t, f)
         PROVE  ClaimsNothingNew
    <2> DEFINE r == [task[t] EXCEPT !.job[f] = NoJob, !.done = @ \union {f}]
    <2>1. task' = [task EXCEPT ![t] = r] \/ task' = [task EXCEPT ![t] = Retry(task[t], f)]
      BY <1>13 DEF WriteRaw
    <2>2. f \in Held(task[t])
      BY <1>13 DEF WriteRaw, Held
    <2>3. Held(r) \subseteq Claimed
      BY <1>0, <2>2 DEF Held, TaskState, TaskRecord, NoJob
    <2>4. Held(Retry(task[t], f)) \subseteq Claimed
      BY <1>0, RetryHeld
    <2> QED BY <1>13, <2>1, <2>3, <2>4, <1>b, ClaimedParts DEF WriteRaw
  <1> QED
    BY <1>1, <1>2, <1>3, <1>4, <1>5, <1>6, <1>7, <1>8, <1>9, <1>10, <1>11,
       <1>12, <1>13, TaskStep(t) DEF TaskStep

\* A new operation holds filters that are loaded, or none.
LEMMA StartTaskLoaded ==
  ASSUME TypeOK, LoadedInv, NEW t \in Tasks,
         \/ AutoUpdateFilters(t) \/ ReloadEnabledFilters(t)
         \/ \E f \in Filters : EnableFilter(t, f)
         \/ \E g \in Groups : EnableGroup(t, g)
  PROVE  LoadedInv'
  <1> USE DEF settings, store, engine, running
  <1>1. /\ UNCHANGED <<settings, store, disk, backend>>
        /\ \E r : task' = [task EXCEPT ![t] = r] /\ Held(r) \subseteq loaded
    <2>1. CASE AutoUpdateFilters(t)
      <3>1. PICK S \in SUBSET EnabledFilters, full \in SUBSET Filters :
              LET r == [IdleTask EXCEPT !.op = "update", !.stage = "update",
                                        !.want = S, !.full = full, !.pc = "metadata"]
              IN task' = [task EXCEPT ![t] = IF full = {} THEN StartJobs(r) ELSE r]
        BY <2>1 DEF AutoUpdateFilters, TypeOK, EnabledFilters
      <3> DEFINE r == [IdleTask EXCEPT !.op = "update", !.stage = "update",
                                       !.want = S, !.full = full, !.pc = "metadata"]
      <3>2. S \in SUBSET Filters
        BY DEF TypeOK, EnabledFilters
      <3>3. r \in TaskState
        BY <3>2, IdleTaskType DEF TaskState, TaskRecord, AllOps
      <3>4. Held(r) = {}
        BY DEF Held, IdleTask, NoJob
      <3>5. Held(StartJobs(r)) = {}
        BY <3>3, <3>4, StartJobsHeld
      <3> QED BY <2>1, <3>1, <3>4, <3>5 DEF AutoUpdateFilters
    <2>2. CASE ReloadEnabledFilters(t)
      <3> DEFINE r == [IdleTask EXCEPT !.op = "reload", !.want = EnabledFilters,
                                       !.pc = IF EnabledFilters = {}
                                              THEN "jobs" ELSE "metadata"]
      <3>1. Held(r) = {}
        BY DEF Held, IdleTask, NoJob
      <3> QED BY <2>2, <3>1 DEF ReloadEnabledFilters
    <2>3. CASE \E f \in Filters : EnableFilter(t, f)
      BY <2>3, LoadHeld DEF EnableFilter
    <2>4. CASE \E g \in Groups : EnableGroup(t, g)
      BY <2>4, LoadHeld DEF EnableGroup
    <2> QED BY <2>1, <2>2, <2>3, <2>4
  <1>2. \A u \in Tasks : Held(task'[u]) \subseteq Claimed \union loaded'
    BY <1>1, OneTaskClaims
  <1>3. Lasting' = Lasting /\ Promised' = Promised
    BY <1>1 DEF Lasting, Promised
  <1> QED BY <1>1, <1>2, <1>3, NothingNew, ClaimedParts
          DEF ClaimsNothingNew, LoadedInv, MetadataKeepsLasting

\* The restarted extension claims what the saved settings enable.
LEMMA RestartLoaded ==
  ASSUME TypeOK, LoadedInv, NEW t \in Tasks, Restart(t)
  PROVE  LoadedInv'
  <1> DEFINE none == [f \in Filters |-> <<>>]
  <1>1. Lasting' = Lasting /\ disk' = disk /\ metadata' = disk.metadata
    BY DEF Restart, Reconcile, Lasting
  <1>2. MetadataKeepsLasting' /\ (disk.enabled \intersect Lasting \subseteq disk.loaded)'
    BY <1>1 DEF LoadedInv, MetadataKeepsLasting
  <1>3. enabled' \subseteq disk.enabled /\ disk.loaded \intersect Lasting \subseteq loaded'
    BY DEF Restart, Reconcile, Obsolete, LoadedInv, MetadataKeepsLasting
  <1>4. Promised' = {}
    <2>1. ASSUME NEW f \in Filters, NEW i \in DOMAIN writes'[f]
          PROVE  writes'[f][i].v = 0
      <3>1. writes'[f] = <<>> \/ writes'[f] = Append(<<>>, [task |-> t, v |-> 0])
        BY DEF Restart, Reconcile
      <3> QED BY <3>1
    <2> QED BY <2>1 DEF Promised
  <1>5. \A u \in Tasks : Held(task'[u]) = {}
    <2>1. Held([IdleTask EXCEPT !.op = "start", !.pc = "obsolete"]) = {}
      BY DEF Held, IdleTask, NoJob
    <2> QED BY <2>1, IdleHeld DEF Restart
  <1>6. Claimed' \subseteq enabled'
    BY <1>4, <1>5 DEF Claimed
  <1> QED BY <1>1, <1>2, <1>3, <1>6 DEF LoadedInv

\* The stores, the engine, the server and the switches of the user.
LEMMA OtherStepLoaded ==
  ASSUME TypeOK, LoadedInv,
         \/ \E f \in Filters : \/ CommitWrite(f) \/ AbortWrite(f) \/ DisableFilter(f)
                               \/ Publish(f) \/ Retire(f)
         \/ \E g \in Groups : DisableGroup(g)
         \/ UpdateEngine \/ RunUpdates \/ SaveSettings
  PROVE  LoadedInv'
  <1> USE DEF settings, store, engine, running
  <1>1. ASSUME NEW f \in Filters, writes[f] # <<>>,
               writes' = [writes EXCEPT ![f] = Tail(@)]
        PROVE  /\ Head(writes[f]) \in Transaction
               /\ Head(writes[f]).v # 0 => f \in Claimed
               /\ Promised' \subseteq Promised
    <2>1. writes \in [Filters -> Seq(Transaction)]
      BY DEF TypeOK
    <2>2. Head(writes[f]) \in Transaction /\ Head(writes[f]) = writes[f][1]
          /\ 1 \in DOMAIN writes[f]
      BY <1>1, <2>1
    <2>3. Head(writes[f]).v # 0 => f \in Claimed
      BY <2>2, ClaimedParts DEF Promised
    <2>4. ASSUME NEW h \in Filters, \E i \in DOMAIN writes'[h] : writes'[h][i].v # 0
          PROVE  \E i \in DOMAIN writes[h] : writes[h][i].v # 0
      <3>1. CASE h = f
        <4>1. PICK i \in DOMAIN writes'[f] : writes'[f][i].v # 0
          BY <2>4, <3>1
        <4>2. writes'[f] = Tail(writes[f])
          BY <1>1, <2>1
        <4>3. i + 1 \in DOMAIN writes[f] /\ writes'[f][i] = writes[f][i + 1]
          BY <1>1, <2>1, <4>1, <4>2
        <4> QED BY <3>1, <4>1, <4>3
      <3>2. CASE h # f
        BY <1>1, <2>1, <2>4, <3>2
      <3> QED BY <3>1, <3>2
    <2> QED BY <2>2, <2>3, <2>4 DEF Promised
  <1>2. ASSUME NEW f \in Filters, CommitWrite(f)
        PROVE  LoadedInv'
    <2> DEFINE w == Head(writes[f])
               r == [task[w.task] EXCEPT !.job[f].st = "raw"]
    <2>1. /\ w \in Transaction /\ w.task \in Tasks
          /\ w.v # 0 => f \in Claimed
          /\ Promised' \subseteq Promised
      BY <1>1, <1>2 DEF CommitWrite, Transaction
    <2>2. task[w.task] \in TaskState /\ Held(task[w.task]) \subseteq Claimed
      BY <2>1, ClaimedParts DEF TypeOK
    <2>3. task' = IF w.v = 0 THEN task ELSE [task EXCEPT ![w.task] = r]
      BY <1>2 DEF CommitWrite
    <2>4. ASSUME w.v # 0 PROVE Held(r) \subseteq Claimed
      <3>1. Held(r) \subseteq Held(task[w.task]) \union {f}
        BY <2>2 DEF Held, TaskState, TaskRecord, Jobs
      <3> QED BY <2>1, <2>2, <2>4, <3>1
    <2>5. \A u \in Tasks : Held(task'[u]) \subseteq Claimed \union loaded'
      <3>1. CASE w.v = 0
        BY <2>3, <3>1, ClaimedParts
      <3>2. CASE w.v # 0
        BY <2>1, <2>3, <2>4, <3>2, OneTaskClaims
      <3> QED BY <3>1, <3>2
    <2>6. Lasting' = Lasting
      BY <1>2 DEF CommitWrite, Lasting
    <2> QED BY <1>2, <2>1, <2>5, <2>6, NothingNew, ClaimedParts
            DEF CommitWrite, ClaimsNothingNew, LoadedInv, MetadataKeepsLasting
  <1>3. ASSUME NEW f \in Filters, AbortWrite(f)
        PROVE  LoadedInv'
    <2> DEFINE w == Head(writes[f])
    <2>1. /\ w.task \in Tasks /\ Promised' \subseteq Promised
      BY <1>1, <1>3 DEF AbortWrite, Transaction
    <2> PICK r \in Rejected(w, f) : task' = [task EXCEPT ![w.task] = r]
      BY <1>3 DEF AbortWrite
    <2>2. task[w.task] \in TaskState /\ Held(task[w.task]) \subseteq Claimed
      BY <2>1, ClaimedParts DEF TypeOK
    <2>3. Held(r) \subseteq Claimed
      <3>1. Held([task[w.task] EXCEPT !.moving = @ \ {f}]) \subseteq Claimed
        BY <2>2 DEF Held, TaskState, TaskRecord
      <3>2. Held(Retry(task[w.task], f)) \subseteq Claimed
        BY <2>2, RetryHeld
      <3> QED BY <2>2, <3>1, <3>2 DEF Rejected
    <2>4. \A u \in Tasks : Held(task'[u]) \subseteq Claimed \union loaded'
      BY <2>1, <2>3, OneTaskClaims
    <2>5. Lasting' = Lasting
      BY <1>3 DEF AbortWrite, Lasting
    <2> QED BY <1>3, <2>1, <2>4, <2>5, NothingNew, ClaimedParts
            DEF AbortWrite, ClaimsNothingNew, LoadedInv, MetadataKeepsLasting
  <1>4. ASSUME UNCHANGED <<known, loaded, metadata, writes, disk, task>>,
               enabled' \subseteq enabled, Lasting' \subseteq Lasting
        PROVE  LoadedInv'
    <2>1. Promised' = Promised
      BY <1>4 DEF Promised
    <2> QED BY <1>4, <2>1, NothingNew, ClaimedParts
            DEF ClaimsNothingNew, LoadedInv, MetadataKeepsLasting
  <1>5. ASSUME NEW f \in Filters, DisableFilter(f)
        PROVE  LoadedInv'
    BY <1>4, <1>5 DEF DisableFilter, Lasting
  <1>6. ASSUME NEW f \in Filters, Publish(f) \/ Retire(f)
        PROVE  LoadedInv'
    <2>1. backend \in Metadata
      BY DEF TypeOK
    <2>2. Lasting' \subseteq Lasting
      BY <1>6, <2>1 DEF Publish, Retire, Lasting, Metadata
    <2> QED BY <1>4, <1>6, <2>2 DEF Publish, Retire
  <1>7. ASSUME NEW g \in Groups, DisableGroup(g)
        PROVE  LoadedInv'
    BY <1>4, <1>7 DEF DisableGroup, Lasting
  <1>8. CASE UpdateEngine \/ RunUpdates
    BY RunsFrame, <1>4, <1>8 DEF UpdateEngine, Lasting
  <1>9. CASE SaveSettings
    <2>1. disk' = Settings /\ UNCHANGED <<settings, writes, task, backend>>
      BY <1>9 DEF SaveSettings, SavedSettings
    <2>2. Lasting' = Lasting /\ Claimed' = Claimed
      BY <2>1 DEF Lasting, Claimed, Promised
    <2>3. enabled \intersect Lasting \subseteq loaded
      BY ClaimedParts DEF LoadedInv
    <2> QED BY <2>1, <2>2, <2>3 DEF LoadedInv, MetadataKeepsLasting, Settings
  <1> QED BY <1>2, <1>3, <1>5, <1>6, <1>7, <1>8, <1>9

LEMMA InitLoaded == Init => LoadedInv
  <1> SUFFICES ASSUME Init PROVE LoadedInv
    OBVIOUS
  <1>1. Lasting \subseteq Bundle.listed \ Bundle.deprecated
    BY DEF Lasting, Bundle
  <1>2. MetadataKeepsLasting /\ disk.enabled = {}
    BY <1>1 DEF Init, MetadataKeepsLasting, Settings
  <1>3. Promised = {}
    BY DEF Init, Promised
  <1>4. \A t \in Tasks : Held(task[t]) = {}
    BY IdleHeld DEF Init
  <1>5. Claimed = {}
    BY <1>3, <1>4 DEF Init, Claimed
  <1> QED BY <1>2, <1>5 DEF LoadedInv

\* The inductive invariant: a filter that lasts and is enabled, on its way to
\* the store, or held by a running operation, has its loaded mark.
THEOREM LoadedInvariant == Spec => [](TypeOK /\ LoadedInv)
  <1>1. Init => TypeOK /\ LoadedInv
    BY InitType, InitLoaded
  <1>2. TypeOK /\ LoadedInv /\ [Next]_vars => (TypeOK /\ LoadedInv)'
    <2> SUFFICES ASSUME TypeOK, LoadedInv, [Next]_vars PROVE TypeOK' /\ LoadedInv'
      OBVIOUS
    <2>1. CASE Next
      BY <2>1, NextType, TaskStepLoaded, StartTaskLoaded, RestartLoaded,
         OtherStepLoaded DEF Next
    <2>2. CASE UNCHANGED vars
      BY <2>2, NextType DEF vars, LoadedInv, MetadataKeepsLasting, Lasting,
         Claimed, Promised
    <2> QED BY <2>1, <2>2
  <1> QED BY <1>1, <1>2, PTL DEF Spec

\* No handler, whatever happened during its awaits, enables a filter that
\* lasts without its rules having been obtained (loadAndEnableFilters,
\* reloadEnabledFilters, the start on saved settings).
THEOREM EnabledLoaded == Spec => []EnabledIsLoaded
  <1>1. TypeOK /\ LoadedInv => EnabledIsLoaded
    BY ClaimedParts DEF LoadedInv, EnabledIsLoaded
  <1> QED BY <1>1, LoadedInvariant, PTL

-----------------------------------------------------------------------------
(* What a step may never do.                                               *)

LEMMA ReconcileKeepsEntries ==
  ASSUME NEW t, NEW s, NEW m, NEW q, Reconcile(t, s, m, q)
  PROVE  m.listed \subseteq known'
  BY DEF Reconcile, Obsolete

LEMMA StepKeepsEntries ==
  ASSUME TypeOK, LoadedInv, [Next]_vars
  PROVE  \A f \in known \intersect Lasting : f \in known'
  <1> USE DEF settings, store, engine, running
  <1>0. /\ Lasting \subseteq backend.listed /\ Lasting \subseteq Bundle.listed
        /\ Lasting \subseteq metadata.listed \ metadata.deprecated
        /\ Lasting \subseteq disk.metadata.listed
    BY DEF Lasting, Bundle, LoadedInv, MetadataKeepsLasting
  <1>1. ASSUME NEW t \in Tasks, UpdateMetadata(t)
        PROVE  Lasting \subseteq known'
    <2>1. PICK m \in {backend, Bundle, metadata} : Reconcile(t, Settings, m, writes)
      BY <1>1 DEF UpdateMetadata, FallbackMetadata
    <2> QED BY <1>0, <2>1, ReconcileKeepsEntries
  <1>2. ASSUME NEW t \in Tasks, MigrateDeprecatedFilters(t)
        PROVE  known \intersect Lasting \subseteq known'
    BY <1>0, <1>2 DEF MigrateDeprecatedFilters
  <1>3. ASSUME NEW t \in Tasks, Restart(t)
        PROVE  Lasting \subseteq known'
    BY <1>0, <1>3, ReconcileKeepsEntries DEF Restart
  <1>4. ASSUME NEW t \in Tasks, NEW f \in Filters, Receive(t, f)
        PROVE  known \subseteq known'
    BY <1>4 DEF Receive
  <1>5. ASSUME NEW t \in Tasks,
               \/ StartLoads(t) \/ StartEngine(t) \/ AfterLoad(t)
               \/ EnableUntouchedGroups(t) \/ CheckGroup(t) \/ FinishGroup(t)
               \/ FinishUpdate(t) \/ AutoUpdateFilters(t) \/ ReloadEnabledFilters(t)
               \/ \E f \in Filters : \/ CreateCustom(t, f) \/ FetchFails(t, f)
                                     \/ WriteRaw(t, f) \/ EnableFilter(t, f)
               \/ \E g \in Groups : EnableGroup(t, g)
        PROVE  known' = known
    BY <1>5 DEF StartLoads, StartEngine, AfterLoad, EnableUntouchedGroups, CheckGroup,
         FinishGroup, FinishUpdate, AutoUpdateFilters, ReloadEnabledFilters,
         CreateCustom, FetchFails, WriteRaw, EnableFilter, EnableGroup
  <1>6. ASSUME \/ \E f \in Filters : \/ CommitWrite(f) \/ AbortWrite(f)
                                     \/ DisableFilter(f) \/ Publish(f) \/ Retire(f)
               \/ \E g \in Groups : DisableGroup(g)
               \/ UpdateEngine \/ RunUpdates \/ SaveSettings
        PROVE  known' = known
    BY RunsFrame, <1>6 DEF CommitWrite, AbortWrite, DisableFilter, Publish, Retire, DisableGroup,
         UpdateEngine, SaveSettings
  <1>7. UNCHANGED vars => known' = known
    BY DEF vars
  <1> QED BY <1>1, <1>2, <1>3, <1>4, <1>5, <1>6, <1>7 DEF Next, TaskStep

\* No step drops the entry of a filter that lasts: neither the removal of
\* obsolete filters, whatever metadata it acts on, nor the migration of
\* deprecated ones, nor a restart.
THEOREM LastingKept == Spec => LastingIsKept
  <1>1. TypeOK /\ LoadedInv /\ [Next]_vars
          => [\A f \in known \intersect Lasting : f \in known']_vars
    BY StepKeepsEntries
  <1> QED BY <1>1, LoadedInvariant, PTL DEF Spec, LastingIsKept

\* Unless a crash undoes it, a switch of a group that the user turned off is
\* not turned on by a filter that finishes loading (enableGroupsWereNotTouched).
THEOREM UserOff ==
  ASSUME "crash" \notin Faults
  PROVE  Spec => UserOffStays
  <1> USE DEF settings, store, engine, running
  <1> DEFINE Stays == \A g \in touched \ groupOn :
                        g \in groupOn' => \E t \in Tasks : /\ task[t].op = "group"
                                                          /\ task[t].group = g
  <1>1. ASSUME [Next]_vars
        PROVE  Stays
    <2>1. ASSUME NEW t \in Tasks, EnableUntouchedGroups(t)
          PROVE  groupOn' \intersect touched \subseteq groupOn
      BY <2>1 DEF EnableUntouchedGroups, UntouchedGroups
    <2>2. ASSUME NEW t \in Tasks, FinishGroup(t)
          PROVE  Stays
      BY <2>2 DEF FinishGroup
    <2>3. ASSUME NEW t \in Tasks, UpdateMetadata(t)
          PROVE  groupOn' = groupOn
      BY <2>3 DEF UpdateMetadata, Reconcile, Settings
    <2>4. ASSUME NEW t \in Tasks,
                 \/ StartLoads(t) \/ StartEngine(t) \/ AfterLoad(t)
                 \/ MigrateDeprecatedFilters(t) \/ CheckGroup(t)
                 \/ FinishUpdate(t) \/ AutoUpdateFilters(t) \/ ReloadEnabledFilters(t)
                 \/ \E f \in Filters : \/ CreateCustom(t, f) \/ FetchFails(t, f)
                                       \/ WriteRaw(t, f) \/ EnableFilter(t, f)
                                       \/ Receive(t, f)
                 \/ \E g \in Groups : EnableGroup(t, g)
          PROVE  groupOn' = groupOn
      BY <2>4 DEF StartLoads, StartEngine, AfterLoad, MigrateDeprecatedFilters, CheckGroup,
           FinishUpdate, AutoUpdateFilters, ReloadEnabledFilters, CreateCustom,
           FetchFails, WriteRaw, EnableFilter, Receive, EnableGroup
    <2>5. ASSUME \/ \E f \in Filters : \/ CommitWrite(f) \/ AbortWrite(f)
                                       \/ DisableFilter(f) \/ Publish(f) \/ Retire(f)
                 \/ \E g \in Groups : DisableGroup(g)
                 \/ UpdateEngine \/ RunUpdates \/ SaveSettings
          PROVE  groupOn' \subseteq groupOn
      BY RunsFrame, <2>5 DEF CommitWrite, AbortWrite, DisableFilter, Publish, Retire, DisableGroup,
           UpdateEngine, SaveSettings
    <2>6. UNCHANGED vars => groupOn' = groupOn
      BY DEF vars
    <2>7. \A t \in Tasks : ~Restart(t)
      BY DEF Restart
    <2> QED BY <1>1, <2>1, <2>2, <2>3, <2>4, <2>5, <2>6, <2>7 DEF Next, TaskStep
  <1>2. [Next]_vars
          => [\A g \in touched \ groupOn :
                g \in groupOn' => \E t \in Tasks :
                                     task[t].op = "group" /\ task[t].group = g]_vars
    BY <1>1
  <1> QED BY <1>2, PTL DEF Spec, UserOffStays

-----------------------------------------------------------------------------
(* The engine follows the switches.  Every filter that lasts and is off has *)
(* an engine update on its way that leaves it out, or is not applied.      *)

LastOf(s) == s[Len(s)]

\* The newest engine update has not ended.
Fresh == engineRuns # <<>> /\ ~LastOf(engineRuns).behind

\* The updates that are behind are the oldest.
BehindFirst ==
    \A i, j \in DOMAIN engineRuns :
        i < j /\ engineRuns[j].behind => engineRuns[i].behind

\* What the engine is to run of a filter that is off, once the newest update
\* has ended.
Leaving(f) ==
    \/ engineTimer
    \/ Fresh /\ f \notin LastOf(engineRuns).unread /\ LastOf(engineRuns).rules[f] = 0
    \/ ~Fresh /\ (engineBehind \/ applied[f] = 0)

DisabledLeaves == \A f \in Lasting \ EnabledFilters : Leaving(f)

LEMMA AppendLast ==
  ASSUME NEW S, NEW q \in Seq(S), NEW e \in S
  PROVE  Append(q, e) # <<>> /\ LastOf(Append(q, e)) = e
  BY DEF LastOf

\* A new update is the newest.
LEMMA RunBegins ==
  ASSUME TypeOK, BehindFirst, engineRuns' = Append(engineRuns, NewRun)
  PROVE  BehindFirst' /\ Fresh' /\ LastOf(engineRuns') = NewRun
  <1>1. engineRuns \in Seq(Run) /\ NewRun \in Run /\ ~NewRun.behind
    BY NewRunType DEF TypeOK, NewRun
  <1>2. engineRuns' # <<>> /\ LastOf(engineRuns') = NewRun
    BY <1>1, AppendLast
  <1>3. /\ DOMAIN engineRuns' = 1..(Len(engineRuns) + 1) /\ Len(engineRuns) \in Nat
        /\ \A k \in 1..Len(engineRuns) : engineRuns'[k] = engineRuns[k]
        /\ engineRuns'[Len(engineRuns) + 1] = NewRun
    BY <1>1
  <1>4. BehindFirst'
    <2> SUFFICES ASSUME NEW i \in DOMAIN engineRuns', NEW j \in DOMAIN engineRuns',
                        i < j, engineRuns'[j].behind
                 PROVE  engineRuns'[i].behind
      BY DEF BehindFirst
    <2>1. i \in DOMAIN engineRuns /\ j \in DOMAIN engineRuns
      BY <1>1, <1>3
    <2> QED BY <1>3, <2>1 DEF BehindFirst
  <1> QED BY <1>1, <1>2, <1>4 DEF Fresh, LastOf

\* When an update ends, the newest is still on its way, or the engine is behind,
\* or nothing changed for the engine, or it was the newest that ended.
LEMMA RunEnds ==
  ASSUME TypeOK, BehindFirst, NEW i \in DOMAIN engineRuns, Configure(i) \/ UpdateFails(i)
  PROVE  /\ BehindFirst'
         /\ \/ Fresh /\ Fresh' /\ LastOf(engineRuns') = LastOf(engineRuns)
            \/ ~Fresh' /\ engineBehind'
            \/ ~Fresh /\ ~Fresh' /\ UNCHANGED <<applied, engineBehind>>
            \/ /\ Fresh /\ ~Fresh' /\ LastOf(engineRuns).unread = {}
               /\ applied' = LastOf(engineRuns).rules
  <1> DEFINE n == Len(engineRuns)
             run(k) == IF k < i THEN [engineRuns[k] EXCEPT !.behind = TRUE]
                       ELSE engineRuns[k + 1]
  <1>1. /\ engineRuns \in Seq(Run) /\ n \in Nat /\ i \in 1..n
        /\ engineBehind \in BOOLEAN
    BY DEF TypeOK
  <1>2. engineRuns' = [k \in 1..(n - 1) |-> run(k)] /\ engineRuns' \in Seq(Run)
    BY <1>1, RunsAfterType DEF Configure, UpdateFails, RunsAfter
  <1>3. /\ Len(engineRuns') = n - 1 /\ DOMAIN engineRuns' = 1..(n - 1)
        /\ \A k \in 1..(n - 1) : engineRuns'[k] = run(k)
    BY <1>1, <1>2
  <1>4. ASSUME NEW r \in Run
        PROVE  r.behind \in BOOLEAN /\ [r EXCEPT !.behind = TRUE].behind
    BY DEF Run
  <1>5. ASSUME NEW k \in 1..(n - 1)
        PROVE  run(k).behind <=> (k < i \/ engineRuns[k + 1].behind)
    <2>1. engineRuns[k] \in Run
      BY <1>1
    <2>2. CASE k < i
      <3>1. run(k) = [engineRuns[k] EXCEPT !.behind = TRUE]
        BY <2>2
      <3> QED BY <1>4, <2>1, <2>2, <3>1
    <2>3. CASE ~(k < i)
      BY <2>3
    <2> QED BY <2>2, <2>3
  <1> HIDE DEF run
  <1>6. BehindFirst'
    <2> SUFFICES ASSUME NEW k \in 1..(n - 1), NEW m \in 1..(n - 1), k < m,
                        engineRuns'[m].behind
                 PROVE  engineRuns'[k].behind
      BY <1>3 DEF BehindFirst
    <2>1. CASE k < i
      BY <1>3, <1>5, <2>1
    <2>2. CASE ~(k < i)
      <3>1. /\ ~(m < i) /\ k + 1 \in DOMAIN engineRuns /\ m + 1 \in DOMAIN engineRuns
            /\ k + 1 < m + 1
        BY <1>1, <2>2
      <3>2. engineRuns[m + 1].behind
        BY <1>3, <1>5, <3>1
      <3> QED BY <1>3, <1>5, <3>1, <3>2 DEF BehindFirst
    <2> QED BY <2>1, <2>2
  <1>7. n - 1 = 0 <=> engineRuns' = <<>>
    <2>1. \A s \in Seq(Run) : s = <<>> <=> Len(s) = 0
      OBVIOUS
    <2> QED BY <1>2, <1>3, <2>1
  <1>8. CASE i < n
    <2>1. engineRuns'[n - 1] = engineRuns[n] /\ n - 1 \in 1..(n - 1)
      <3>1. n - 1 \in 1..(n - 1) /\ ~(n - 1 < i) /\ (n - 1) + 1 = n
        BY <1>1, <1>8
      <3>2. run(n - 1) = engineRuns[n]
        BY <3>1 DEF run
      <3> QED BY <1>3, <3>1, <3>2
    <2>2. LastOf(engineRuns') = LastOf(engineRuns) /\ engineRuns' # <<>> /\ engineRuns # <<>>
      BY <1>1, <1>3, <1>7, <2>1 DEF LastOf
    <2>3. Fresh' <=> Fresh
      BY <2>2 DEF Fresh, LastOf
    <2>4. CASE ~Fresh
      <3>1. engineRuns[i].behind
        BY <1>1, <1>8, <2>2, <2>4 DEF Fresh, LastOf, BehindFirst
      <3>2. engineBehind' \/ UNCHANGED <<applied, engineBehind>>
        BY <1>1, <3>1 DEF Configure, UpdateFails
      <3> QED BY <1>6, <2>3, <2>4, <3>2
    <2> QED BY <1>6, <2>2, <2>3, <2>4
  <1>9. CASE i = n
    <2>1. \A k \in 1..(n - 1) : engineRuns'[k].behind
      <3>1. \A k \in 1..(n - 1) : k < i
        BY <1>1, <1>9
      <3> QED BY <1>3, <1>5, <3>1
    <2>2. ~Fresh'
      BY <1>1, <1>3, <1>7, <2>1 DEF Fresh, LastOf
    <2>3. engineRuns[i] = LastOf(engineRuns) /\ engineRuns # <<>>
      BY <1>1, <1>9 DEF LastOf
    <2>4. CASE Fresh
      BY <1>6, <2>2, <2>3, <2>4 DEF Fresh, Configure, UpdateFails
    <2>5. CASE ~Fresh
      <3>1. engineRuns[i].behind
        BY <2>3, <2>5 DEF Fresh
      <3>2. engineBehind' \/ UNCHANGED <<applied, engineBehind>>
        BY <1>1, <3>1 DEF Configure, UpdateFails
      <3> QED BY <1>6, <2>2, <2>5, <3>2
    <2> QED BY <2>4, <2>5
  <1> QED BY <1>1, <1>8, <1>9

\* Reading the rules of a filter changes what the newest update has of that
\* filter only.
LEMMA RunReads ==
  ASSUME TypeOK, BehindFirst, NEW i \in DOMAIN engineRuns, NEW h \in Filters,
         ReadRules(i, h)
  PROVE  /\ BehindFirst' /\ (Fresh' <=> Fresh)
         /\ UNCHANGED <<applied, engineBehind, content>>
         /\ Fresh => LET r == LastOf(engineRuns) IN \A f \in Filters :
               \/ /\ LastOf(engineRuns').rules[f] = r.rules[f]
                  /\ f \in LastOf(engineRuns').unread <=> f \in r.unread
               \/ /\ f \in r.unread
                  /\ "storage" \notin Faults => LastOf(engineRuns').rules[f] = content[f]
  <1> DEFINE n == Len(engineRuns)
  <1>1. /\ engineRuns \in Seq(Run) /\ n \in Nat /\ i \in 1..n /\ DOMAIN engineRuns = 1..n
        /\ UNCHANGED <<applied, engineBehind, content>>
    BY DEF TypeOK, ReadRules, store
  <1>2. PICK v \in {content[h]} \union IF "storage" \in Faults THEN {0} ELSE {} :
          engineRuns' = [engineRuns EXCEPT ![i].unread = @ \ {h}, ![i].rules[h] = v]
    BY DEF ReadRules
  <1> DEFINE run == [engineRuns[i] EXCEPT !.unread = @ \ {h}, !.rules[h] = v]
  <1>3. engineRuns' = [engineRuns EXCEPT ![i] = run] /\ engineRuns[i] \in Run
    <2>1. engineRuns' = [engineRuns EXCEPT ![i] = run]
      BY <1>2
    <2> QED BY <1>1, <2>1
  <1>4. /\ run.behind = engineRuns[i].behind /\ run.unread = engineRuns[i].unread \ {h}
        /\ run.rules = [engineRuns[i].rules EXCEPT ![h] = v]
        /\ engineRuns[i].rules \in [Filters -> Versions]
    BY <1>3 DEF Run
  <1> HIDE DEF run
  <1>5. /\ Len(engineRuns') = n /\ DOMAIN engineRuns' = 1..n
        /\ \A k \in 1..n : engineRuns'[k] = IF k = i THEN run ELSE engineRuns[k]
    BY <1>1, <1>3
  <1>6. \A k \in 1..n : engineRuns'[k].behind = engineRuns[k].behind
    BY <1>4, <1>5
  <1>7. BehindFirst'
    BY <1>1, <1>5, <1>6 DEF BehindFirst
  <1>8. engineRuns # <<>> /\ engineRuns' # <<>> /\ n \in 1..n
    BY <1>1, <1>5
  <1>9. Fresh' <=> Fresh
    BY <1>5, <1>6, <1>8 DEF Fresh, LastOf
  <1>10. LastOf(engineRuns') = IF n = i THEN run ELSE LastOf(engineRuns)
    BY <1>5, <1>8 DEF LastOf
  <1>11. ASSUME NEW f \in Filters
         PROVE  LET r == LastOf(engineRuns) IN
                \/ /\ LastOf(engineRuns').rules[f] = r.rules[f]
                   /\ f \in LastOf(engineRuns').unread <=> f \in r.unread
                \/ /\ f \in r.unread
                   /\ "storage" \notin Faults => LastOf(engineRuns').rules[f] = content[f]
    <2>1. CASE n # i
      BY <1>10, <2>1
    <2>2. CASE n = i
      <3>1. LastOf(engineRuns) = engineRuns[i] /\ LastOf(engineRuns') = run
        BY <1>10, <2>2 DEF LastOf
      <3>2. h \in engineRuns[i].unread
        BY DEF ReadRules
      <3>3. "storage" \notin Faults => v = content[h]
        BY <1>2
      <3>4. CASE f = h
        BY <1>4, <3>1, <3>2, <3>3, <3>4
      <3>5. CASE f # h
        BY <1>4, <3>1, <3>5
      <3> QED BY <3>4, <3>5
    <2> QED BY <2>1, <2>2
  <1> QED BY <1>1, <1>7, <1>9, <1>11

\* What the server publishes may stop to last, never start to.
LEMMA LastingShrinks ==
  ASSUME TypeOK, [Next]_vars
  PROVE  Lasting' \subseteq Lasting
  <1> USE DEF settings, store, engine, running
  <1>1. backend \in Metadata
    BY DEF TypeOK
  <1>2. ASSUME NEW f \in Filters, Publish(f) \/ Retire(f)
        PROVE  Lasting' \subseteq Lasting
    BY <1>1, <1>2 DEF Publish, Retire, Lasting, Metadata
  <1>3. ASSUME NEW t \in Tasks,
               \/ TaskStep(t) \/ Restart(t) \/ AutoUpdateFilters(t)
               \/ ReloadEnabledFilters(t)
               \/ \E f \in Filters : EnableFilter(t, f)
               \/ \E g \in Groups : EnableGroup(t, g)
        PROVE  backend' = backend
    BY <1>3 DEF TaskStep, StartLoads, StartEngine, AfterLoad, MigrateDeprecatedFilters,
         UpdateMetadata, EnableUntouchedGroups, CheckGroup, FinishGroup, FinishUpdate,
         CreateCustom, FetchFails, WriteRaw, Receive, Restart, AutoUpdateFilters,
         ReloadEnabledFilters, EnableFilter, EnableGroup
  <1>4. ASSUME \/ \E f \in Filters : CommitWrite(f) \/ AbortWrite(f) \/ DisableFilter(f)
               \/ \E g \in Groups : DisableGroup(g)
               \/ UpdateEngine \/ RunUpdates \/ SaveSettings \/ UNCHANGED vars
        PROVE  backend' = backend
    BY RunsFrame, <1>4 DEF CommitWrite, AbortWrite, DisableFilter, DisableGroup, UpdateEngine,
         SaveSettings, vars
  <1>5. backend' = backend => Lasting' = Lasting
    BY DEF Lasting
  <1> QED BY <1>2, <1>3, <1>4, <1>5 DEF Next

\* Steps that leave alone what is applied and the updates in progress, and do
\* not clear the timer.
EngineWaits ==
    UNCHANGED running /\ (engineTimer => engineTimer')

LEMMA EngineSteps ==
  ASSUME [Next]_vars
  PROVE  \/ EngineWaits
         \/ UpdateEngine \/ RunUpdates
         \/ \E t \in Tasks : StartEngine(t) \/ Restart(t)
  <1> USE DEF settings, store, engine, running
  <1>1. ASSUME UNCHANGED running,
               \/ engineTimer' = engineTimer \/ engineTimer' = TRUE
               \/ \E b \in BOOLEAN : engineTimer' = (engineTimer \/ b)
        PROVE  EngineWaits
    <2>1. ASSUME engineTimer PROVE engineTimer'
      <3>1. CASE engineTimer' = engineTimer \/ engineTimer' = TRUE
        BY <2>1, <3>1
      <3>2. CASE \E b \in BOOLEAN : engineTimer' = (engineTimer \/ b)
        BY <2>1, <3>2, Zenon
      <3> QED BY <1>1, <3>1, <3>2
    <2> QED BY <1>1, <2>1 DEF EngineWaits
  <1>2. ASSUME NEW t \in Tasks,
               \/ StartLoads(t) \/ MigrateDeprecatedFilters(t) \/ UpdateMetadata(t)
               \/ EnableUntouchedGroups(t) \/ CheckGroup(t)
               \/ AutoUpdateFilters(t) \/ ReloadEnabledFilters(t)
               \/ \E f \in Filters : \/ CreateCustom(t, f) \/ FetchFails(t, f)
                                     \/ WriteRaw(t, f) \/ Receive(t, f)
               \/ \E g \in Groups : EnableGroup(t, g)
        PROVE  UNCHANGED engine
    BY <1>2 DEF StartLoads, MigrateDeprecatedFilters, UpdateMetadata,
         EnableUntouchedGroups, CheckGroup, AutoUpdateFilters, ReloadEnabledFilters,
         CreateCustom, FetchFails, WriteRaw, Receive, EnableGroup
  <1>3. ASSUME \/ \E f \in Filters : \/ CommitWrite(f) \/ AbortWrite(f)
                                     \/ Publish(f) \/ Retire(f)
               \/ SaveSettings \/ UNCHANGED vars
        PROVE  UNCHANGED engine
    BY <1>3 DEF CommitWrite, AbortWrite, Publish, Retire, SaveSettings, vars
  <1>4. ASSUME NEW t \in Tasks, AfterLoad(t) \/ FinishGroup(t)
        PROVE  EngineWaits
    BY <1>1, <1>4 DEF AfterLoad, FinishGroup
  <1>5. ASSUME NEW g \in Groups, DisableGroup(g)
        PROVE  EngineWaits
    BY <1>1, <1>5 DEF DisableGroup
  <1>6. ASSUME NEW t \in Tasks, FinishUpdate(t)
        PROVE  EngineWaits
    <2>1. engineTimer' = (engineTimer \/ AnyUpdated(task[t]))
      BY <1>6 DEF FinishUpdate
    <2>2. AnyUpdated(task[t]) \in BOOLEAN
      BY DEF AnyUpdated
    <2> QED BY <1>1, <1>6, <2>1, <2>2 DEF FinishUpdate
  <1>7. ASSUME NEW f \in Filters, DisableFilter(f)
        PROVE  EngineWaits
    <2>1. engineTimer' = (engineTimer \/ InEnabledGroup(f))
      BY <1>7 DEF DisableFilter
    <2>2. InEnabledGroup(f) \in BOOLEAN
      BY DEF InEnabledGroup
    <2> QED BY <1>1, <1>7, <2>1, <2>2 DEF DisableFilter
  <1>8. ASSUME NEW t \in Tasks, NEW f \in Filters, EnableFilter(t, f)
        PROVE  EngineWaits
    <2> DEFINE b == GroupOf[f] \in touched \intersect groupOn
    <2>1. engineTimer' = (engineTimer \/ b)
      BY <1>8 DEF EnableFilter
    <2>2. b \in BOOLEAN
      OBVIOUS
    <2> QED BY <1>1, <1>8, <2>1, <2>2 DEF EnableFilter
  <1> QED BY <1>1, <1>2, <1>3, <1>4, <1>5, <1>6, <1>7, <1>8 DEF Next, TaskStep

\* A filter that lasts leaves the set the engine is given only by a switch of
\* the user, with which an engine update is due, or with a restart.
LEMMA StaysEnabled ==
  ASSUME TypeOK, LoadedInv, [Next]_vars,
         ~ \E t \in Tasks : Restart(t)
  PROVE  \/ engineTimer'
         \/ EnabledFilters \intersect Lasting' \subseteq EnabledFilters'
  <1> USE DEF settings, store, engine, running
  <1> DEFINE Kept == EnabledFilters \intersect Lasting' \subseteq EnabledFilters'
  <1>0. /\ Lasting' \subseteq metadata'.listed
        /\ Lasting' \subseteq Lasting
        /\ Lasting \subseteq Bundle.listed /\ Lasting \subseteq backend.listed
        /\ Lasting \subseteq metadata.listed \ metadata.deprecated
    <2>1. (TypeOK /\ LoadedInv)'
      <3>1. CASE Next
        BY <3>1, NextType, TaskStepLoaded, StartTaskLoaded, RestartLoaded,
           OtherStepLoaded DEF Next
      <3>2. CASE UNCHANGED vars
        BY <3>2, NextType DEF vars, LoadedInv, MetadataKeepsLasting, Lasting,
           Claimed, Promised
      <3> QED BY <3>1, <3>2
    <2>2. Lasting' \subseteq Lasting
      BY LastingShrinks
    <2> QED BY <2>1, <2>2 DEF LoadedInv, MetadataKeepsLasting, Lasting, Bundle
  <1>1. ASSUME NEW t \in Tasks, UpdateMetadata(t)
        PROVE  Kept
    <2>1. PICK m \in {backend, Bundle, metadata} : Reconcile(t, Settings, m, writes)
      BY <1>1 DEF UpdateMetadata, FallbackMetadata
    <2> QED BY <1>0, <2>1 DEF Reconcile, Settings, Obsolete, EnabledFilters
  <1>2. ASSUME NEW t \in Tasks, MigrateDeprecatedFilters(t)
        PROVE  Kept
    BY <1>0, <1>2 DEF MigrateDeprecatedFilters, EnabledFilters
  <1>3. ASSUME UNCHANGED metadata, enabled \subseteq enabled', groupOn \subseteq groupOn'
        PROVE  Kept
    BY <1>3 DEF EnabledFilters
  <1>4. ASSUME NEW t \in Tasks,
               \/ StartLoads(t) \/ StartEngine(t) \/ AfterLoad(t)
               \/ EnableUntouchedGroups(t) \/ CheckGroup(t) \/ FinishGroup(t)
               \/ FinishUpdate(t) \/ AutoUpdateFilters(t) \/ ReloadEnabledFilters(t)
        PROVE  Kept
    BY <1>3, <1>4 DEF StartLoads, StartEngine, AfterLoad, EnableUntouchedGroups,
         CheckGroup, FinishGroup, FinishUpdate, AutoUpdateFilters, ReloadEnabledFilters
  <1>5. ASSUME NEW t \in Tasks,
               \/ \E f \in Filters : \/ CreateCustom(t, f) \/ FetchFails(t, f)
                                     \/ WriteRaw(t, f) \/ EnableFilter(t, f)
                                     \/ Receive(t, f)
               \/ \E g \in Groups : EnableGroup(t, g)
        PROVE  Kept
    BY <1>3, <1>5 DEF CreateCustom, FetchFails, WriteRaw, EnableFilter, Receive, EnableGroup
  <1>6. ASSUME \/ \E f \in Filters : \/ CommitWrite(f) \/ AbortWrite(f)
                                     \/ Publish(f) \/ Retire(f)
               \/ UpdateEngine \/ RunUpdates \/ SaveSettings \/ UNCHANGED vars
        PROVE  Kept
    BY RunsFrame, <1>3, <1>6 DEF CommitWrite, AbortWrite, Publish, Retire, UpdateEngine,
         SaveSettings, vars
  <1>7. ASSUME NEW f \in Filters, DisableFilter(f)
        PROVE  engineTimer' \/ Kept
    BY <1>7 DEF DisableFilter, InEnabledGroup, EnabledFilters
  <1>8. ASSUME NEW g \in Groups, DisableGroup(g)
        PROVE  engineTimer'
    BY <1>8 DEF DisableGroup
  <1> QED BY <1>1, <1>2, <1>4, <1>5, <1>6, <1>7, <1>8 DEF Next, TaskStep

LEMMA StepDisabledLeaves ==
  ASSUME TypeOK, LoadedInv, BehindFirst, DisabledLeaves, [Next]_vars
  PROVE  DisabledLeaves'
  <1> USE DEF settings, store, engine, running
  <1>0. /\ engineRuns \in Seq(Run) /\ EnabledFilters \in SUBSET Filters
        /\ Lasting' \subseteq Lasting /\ Lasting \subseteq Filters
    BY LastingShrinks, BundleAssumption DEF TypeOK, EnabledFilters, Lasting
  <1>1. SUFFICES ASSUME NEW f \in Lasting' \ EnabledFilters'
                 PROVE  Leaving(f)'
    BY DEF DisabledLeaves
  <1>2. CASE \E t \in Tasks : Restart(t)
    BY <1>0, <1>2 DEF Restart, Leaving, Fresh
  <1>3. CASE (~ \E t \in Tasks : Restart(t)) /\ ~engineTimer'
    <2>1. f \in Lasting \ EnabledFilters /\ Leaving(f)
      BY <1>0, <1>3, StaysEnabled DEF DisabledLeaves
    <2>2. CASE EngineWaits
      BY <1>3, <2>1, <2>2 DEF EngineWaits, Leaving, Fresh, LastOf
    <2>3. CASE UpdateEngine \/ \E t \in Tasks : StartEngine(t)
      <3>1. engineRuns' = Append(engineRuns, NewRun)
        BY <2>3 DEF UpdateEngine, StartEngine
      <3>2. Fresh' /\ LastOf(engineRuns') = NewRun
        BY <3>1, RunBegins
      <3>3. f \notin NewRun.unread /\ NewRun.rules[f] = 0
        BY <1>0, <2>1 DEF NewRun
      <3> QED BY <3>2, <3>3 DEF Leaving, LastOf
    <2>4. CASE RunUpdates
      <3>0. ~engineTimer
        BY <1>3, <2>4, RunsFrame
      <3>1. PICK i \in DOMAIN engineRuns : EngineStep(i)
        BY <2>4 DEF RunUpdates
      <3>2. CASE Configure(i) \/ UpdateFails(i)
        BY <2>1, <3>0, <3>2, RunEnds DEF Leaving, Fresh, LastOf
      <3>3. CASE \E h \in Filters : ReadRules(i, h)
        <4>1. PICK h \in Filters : ReadRules(i, h)
          BY <3>3
        <4> QED BY <1>0, <2>1, <3>0, <4>1, RunReads DEF Leaving, LastOf
      <3> QED BY <3>1, <3>2, <3>3 DEF EngineStep
    <2> QED BY <1>3, <2>2, <2>3, <2>4, EngineSteps
  <1> QED BY <1>2, <1>3 DEF Leaving

\* Whichever update ends, those left are as they are in the order they began.
LEMMA StepBehindFirst ==
  ASSUME TypeOK, BehindFirst, [Next]_vars
  PROVE  BehindFirst'
  <1>1. CASE EngineWaits
    BY <1>1 DEF EngineWaits, BehindFirst, running
  <1>2. CASE UpdateEngine \/ \E t \in Tasks : StartEngine(t)
    BY <1>2, RunBegins DEF UpdateEngine, StartEngine
  <1>3. CASE \E t \in Tasks : Restart(t)
    BY <1>3 DEF Restart, BehindFirst
  <1>4. CASE RunUpdates
    BY <1>4, RunEnds, RunReads DEF RunUpdates, EngineStep
  <1> QED BY <1>1, <1>2, <1>3, <1>4, EngineSteps

\* Whatever was loaded, updated or restarted meanwhile, once all is quiet no
\* filter that the user has switched off, itself or with its group, still has
\* rules in the engine (disableFilters, disableGroup, Engine.debounceUpdate),
\* in whatever order overlapping updates of the engine read the rules and end,
\* unless the engine is left with an update older than one that has ended.
THEOREM DisabledLeft == Spec => []DisabledIsNotApplied
  <1>1. Init => BehindFirst /\ DisabledLeaves
    BY BundleAssumption DEF Init, BehindFirst, DisabledLeaves, Leaving, Lasting, Fresh
  <1>2. /\ TypeOK /\ LoadedInv /\ BehindFirst /\ DisabledLeaves /\ [Next]_vars
           => BehindFirst' /\ DisabledLeaves'
    BY StepBehindFirst, StepDisabledLeaves
  <1>3. DisabledLeaves => DisabledIsNotApplied
    BY DEF DisabledLeaves, Leaving, Fresh, DisabledIsNotApplied, Quiescent
  <1> QED BY <1>1, <1>2, <1>3, LoadedInvariant, PTL DEF Spec

-----------------------------------------------------------------------------
(* Operations and the writes they wait for: a transaction that stores      *)
(* rules belongs to a job that waits for it, and an operation has jobs     *)
(* only while its stage runs.                                              *)

\* What the program counter and the stage of an operation say of it.
TaskShape(r) ==
    /\ r.op \in Ops \union {"none", "start"}
    /\ r.op = "none" => r.pc = "idle"
    /\ r.op = "start" => r.pc # "jobs"
    /\ r.op = "update" => r.stage = "update"
    /\ \A f \in Filters : /\ r.job[f].st # "none" => r.pc = "jobs"
                          /\ r.job[f].st = "fetch" => r.job[f].v # 0

\* The jobs for f, as its queue of transactions sees them.
Stages(f) == [t \in Tasks |-> task[t].job[f].st]

\* Each job that waits has one transaction in queue q at most.
Consistent(q, st) ==
    /\ \A i \in DOMAIN q : q[i].v # 0 => st[q[i].task] = "write"
    /\ \A i, j \in DOMAIN q : q[i].v # 0 /\ q[j].v # 0 /\ q[i].task = q[j].task
                                => i = j

TasksInv ==
    /\ \A t \in Tasks : TaskShape(task[t])
    /\ \A f \in Filters : Consistent(writes[f], Stages(f))

StageNames == {"none", "fetch", "write", "raw"}

LEMMA RemovalConsistent ==
  ASSUME NEW q \in Seq(Transaction), NEW st \in [Tasks -> StageNames],
         NEW t \in Tasks, Consistent(q, st)
  PROVE  Consistent(Append(q, [task |-> t, v |-> 0]), st)
  <1> DEFINE e == [task |-> t, v |-> 0]
             q2 == Append(q, e)
  <1>1. \A i \in DOMAIN q2 : q2[i].v # 0 => i \in DOMAIN q /\ q2[i] = q[i]
    <2>1. SUFFICES ASSUME NEW i \in DOMAIN q2, q2[i].v # 0
                   PROVE  i \in DOMAIN q /\ q2[i] = q[i]
      OBVIOUS
    <2>2. e.v = 0
      OBVIOUS
    <2>3. /\ DOMAIN q = 1..Len(q) /\ i \in 1..Len(q) + 1 /\ Len(q) \in Nat
          /\ i \in 1..Len(q) => q2[i] = q[i]
          /\ i = Len(q) + 1 => q2[i] = e
      OBVIOUS
    <2> HIDE DEF q2, e
    <2> QED BY <2>1, <2>2, <2>3
  <1> HIDE DEF q2
  <1>2. Consistent(q2, st)
    BY <1>1 DEF Consistent
  <1> QED BY <1>2 DEF q2

LEMMA WriteConsistent ==
  ASSUME NEW q \in Seq(Transaction), NEW st \in [Tasks -> StageNames],
         NEW t \in Tasks, NEW v \in Versions, st[t] # "write",
         Consistent(q, st)
  PROVE  Consistent(Append(q, [task |-> t, v |-> v]), [st EXCEPT ![t] = "write"])
  <1> DEFINE e == [task |-> t, v |-> v]
             q2 == Append(q, e)
             st2 == [st EXCEPT ![t] = "write"]
  <1>1. /\ DOMAIN q = 1..Len(q) /\ DOMAIN q2 = 1..Len(q) + 1 /\ Len(q) \in Nat
        /\ \A i \in 1..Len(q) : q2[i] = q[i] /\ q[i].task \in Tasks
        /\ q2[Len(q) + 1] = e /\ e.task = t
    <2>1. \A i \in 1..Len(q) : q[i] \in Transaction
      OBVIOUS
    <2>2. \A i \in 1..Len(q) : q[i].task \in Tasks
      BY <2>1 DEF Transaction
    <2> QED BY <2>2
  <1>2. /\ \A i \in 1..Len(q) : q[i].v # 0 => st[q[i].task] = "write" /\ q[i].task # t
        /\ st2[t] = "write" /\ \A u \in Tasks \ {t} : st2[u] = st[u]
    BY <1>1 DEF Consistent
  <1> HIDE DEF q2, e, st2
  <1>3. \A i \in DOMAIN q2 : q2[i].v # 0 => st2[q2[i].task] = "write"
    BY <1>1, <1>2
  <1>4. ASSUME NEW i \in DOMAIN q2, NEW j \in DOMAIN q2,
               q2[i].v # 0, q2[j].v # 0, q2[i].task = q2[j].task
        PROVE  i = j
    <2>1. CASE i = Len(q) + 1 \/ j = Len(q) + 1
      BY <1>1, <1>2, <1>4, <2>1
    <2>2. CASE i \in 1..Len(q) /\ j \in 1..Len(q)
      BY <1>1, <1>4, <2>2 DEF Consistent
    <2> QED BY <1>1, <2>1, <2>2
  <1>5. Consistent(q2, st2)
    BY <1>3, <1>4 DEF Consistent
  <1> QED BY <1>5 DEF q2, st2, e

LEMMA CommitConsistent ==
  ASSUME NEW q \in Seq(Transaction), NEW st \in [Tasks -> StageNames],
         q # <<>>, Consistent(q, st),
         NEW st2 \in [Tasks -> StageNames],
         \A u \in Tasks : \/ st2[u] = st[u]
                          \/ Head(q).v # 0 /\ u = Head(q).task
  PROVE  Consistent(Tail(q), st2)
  <1> DEFINE p == Tail(q)
  <1>1. /\ DOMAIN q = 1..Len(q) /\ Len(q) \in Nat \ {0} /\ DOMAIN p = 1..Len(q) - 1
        /\ \A i \in 1..Len(q) - 1 : p[i] = q[i + 1] /\ q[i + 1].task \in Tasks
        /\ Head(q) = q[1]
    <2>1. \A i \in 1..Len(q) : q[i] \in Transaction
      OBVIOUS
    <2>2. \A i \in 1..Len(q) : q[i].task \in Tasks
      BY <2>1 DEF Transaction
    <2> QED BY <2>2
  <1> HIDE DEF p
  <1>2. ASSUME NEW i \in DOMAIN p, p[i].v # 0
        PROVE  st2[p[i].task] = "write"
    <2>1. i + 1 \in DOMAIN q /\ i + 1 # 1 /\ p[i] = q[i + 1] /\ 1 \in DOMAIN q
      BY <1>1
    <2>2. st[p[i].task] = "write" /\ p[i].task \in Tasks
      BY <1>1, <1>2, <2>1 DEF Consistent
    <2>3. q[1].v # 0 => p[i].task # q[1].task
      BY <1>2, <2>1 DEF Consistent
    <2> QED BY <1>1, <2>2, <2>3
  <1>3. ASSUME NEW i \in DOMAIN p, NEW j \in DOMAIN p,
               p[i].v # 0, p[j].v # 0, p[i].task = p[j].task
        PROVE  i = j
    <2>1. /\ i + 1 \in DOMAIN q /\ p[i] = q[i + 1]
          /\ j + 1 \in DOMAIN q /\ p[j] = q[j + 1]
      BY <1>1
    <2>2. i + 1 = j + 1
      BY <1>3, <2>1 DEF Consistent
    <2> QED BY <1>1, <2>2
  <1>4. Consistent(p, st2)
    BY <1>2, <1>3 DEF Consistent
  <1> QED BY <1>4 DEF p

LEMMA SameConsistent ==
  ASSUME NEW q \in Seq(Transaction), NEW st, NEW st2, Consistent(q, st),
         \A u \in Tasks : st[u] = "write" => st2[u] = "write"
  PROVE  Consistent(q, st2)
  <1>1. \A i \in DOMAIN q : q[i].task \in Tasks
    <2>1. \A i \in DOMAIN q : q[i] \in Transaction
      OBVIOUS
    <2> QED BY <2>1 DEF Transaction
  <1> QED BY <1>1 DEF Consistent

-----------------------------------------------------------------------------
(* The shape of the states that the operators build.                       *)

LEMMA IdleShape == TaskShape(IdleTask)
  BY DEF TaskShape, IdleTask, NoJob

LEMMA LoadShape ==
  ASSUME NEW op \in Ops, op \in {"enable", "group"}, NEW S, NEW g
  PROVE  TaskShape(LoadTask(op, S, g))
  BY DEF TaskShape, LoadTask, IdleTask, NoJob

LEMMA RetryShape ==
  ASSUME NEW r \in TaskState, NEW f \in Filters, TaskShape(r), r.pc = "jobs"
  PROVE  TaskShape(Retry(r, f))
  <1>1. /\ NoJob.st = "none" /\ Fetch(1, TRUE).st = "fetch" /\ Fetch(1, TRUE).v = 1
    BY DEF NoJob, Fetch
  <1>2. PICK j \in {NoJob, Fetch(1, TRUE)} : Retry(r, f) = [r EXCEPT !.job[f] = j]
    BY DEF Retry
  <1> DEFINE r2 == [r EXCEPT !.job[f] = j]
  <1>3. /\ r2.op = r.op /\ r2.pc = r.pc /\ r2.stage = r.stage
        /\ \A h \in Filters : r2.job[h] = IF h = f THEN j ELSE r.job[h]
    BY DEF TaskState, TaskRecord
  <1> HIDE DEF r2
  <1>4. \A h \in Filters : r2.job[h].st = "fetch" => r2.job[h].v # 0
    <2>1. j.st = "fetch" => j.v # 0
      BY <1>2 DEF NoJob, Fetch
    <2>2. \A h \in Filters : r.job[h].st = "fetch" => r.job[h].v # 0
      BY DEF TaskShape
    <2> QED BY <1>3, <2>1, <2>2
  <1>5. TaskShape(r2)
    BY <1>3, <1>4 DEF TaskShape
  <1> QED BY <1>2, <1>5 DEF r2

LEMMA StartJobsShape ==
  ASSUME NEW r \in TaskState, r.op \in Ops, TypeOK, r.op = "update" => r.stage = "update"
  PROVE  TaskShape(StartJobs(r))
  <1>1. /\ StartJobs(r).op = r.op /\ StartJobs(r).pc = "jobs"
        /\ StartJobs(r).stage = r.stage
        /\ \A f \in Filters : StartJobs(r).job[f] \in {NoJob, Fetch(backend.ver[f], FALSE)}
    BY DEF StartJobs, TaskState, TaskRecord
  <1>2. \A f \in Filters : backend.ver[f] # 0
    BY BoundAssumption DEF TypeOK, Metadata
  <1>3. r.op \notin {"none", "start"}
    BY OpsAssumption DEF AllOps
  <1> QED BY <1>1, <1>2, <1>3 DEF TaskShape, NoJob, Fetch

LEMMA CheckTaskShape ==
  ASSUME NEW r \in TaskState, NEW stage, NEW S, TaskShape(r),
         r.op \notin {"none", "start"}, r.op = "update" => stage = "update",
         \A f \in Filters : r.job[f].st = "none"
  PROVE  TaskShape(CheckTask(r, stage, S))
  BY DEF TaskShape, CheckTask, TaskState, TaskRecord

-----------------------------------------------------------------------------
(* Each step keeps operations and writes together.                         *)

LEMMA StagesType ==
  ASSUME TypeOK, NEW f \in Filters
  PROVE  /\ Stages(f) \in [Tasks -> StageNames]
         /\ writes[f] \in Seq(Transaction)
  BY DEF TypeOK, Stages, StageNames, TaskState, TaskRecord, Jobs

\* One task changes, no job of it stops waiting, and rules are at most removed.
LEMMA OneTaskMoves ==
  ASSUME TypeOK, TypeOK', TasksInv, NEW t \in Tasks, NEW r,
         task' = [task EXCEPT ![t] = r], TaskShape(r),
         \A f \in Filters : \/ writes'[f] = writes[f]
                            \/ writes'[f] = Append(writes[f], [task |-> t, v |-> 0]),
         \A f \in Filters : task[t].job[f].st = "write" => r.job[f].st = "write"
  PROVE  TasksInv'
  <1>1. \A u \in Tasks : task'[u] = IF u = t THEN r ELSE task[u]
    BY DEF TypeOK
  <1>2. \A u \in Tasks : TaskShape(task'[u])
    BY <1>1 DEF TasksInv
  <1>3. ASSUME NEW f \in Filters
        PROVE  Consistent(writes'[f], Stages(f)')
    <2>1. /\ Stages(f) \in [Tasks -> StageNames] /\ writes[f] \in Seq(Transaction)
          /\ writes'[f] \in Seq(Transaction)
      BY StagesType DEF TypeOK
    <2>2. Consistent(writes'[f], Stages(f))
      BY <2>1, RemovalConsistent DEF TasksInv
    <2>3. \A u \in Tasks : Stages(f)[u] = "write" => Stages(f)'[u] = "write"
      BY <1>1 DEF Stages
    <2> QED BY <2>1, <2>2, <2>3, SameConsistent
  <1>4. \A u \in Tasks : TaskShape(task[u])'
    BY <1>2 DEF TaskShape
  <1>5. \A f \in Filters : Consistent(writes[f], Stages(f))'
    BY <1>3 DEF Consistent
  <1> QED BY <1>4, <1>5 DEF TasksInv

\* A settled operation waits for no write.
LEMMA NothingWaits ==
  ASSUME TypeOK, TasksInv, NEW t \in Tasks, Active(t) = {} \/ task[t].pc # "jobs" \/ Idle(t)
  PROVE  \A f \in Filters : task[t].job[f].st = "none"
  BY DEF TasksInv, TaskShape, Active, Idle

LEMMA TaskStepMoves ==
  ASSUME TypeOK, TypeOK', TasksInv, NEW t \in Tasks, TaskStep(t)
  PROVE  TasksInv'
  <1> USE DEF settings, store, engine, running
  <1>0. task[t] \in TaskState /\ TaskShape(task[t])
    BY DEF TypeOK, TasksInv
  \* A step that ends an operation, or starts its next stage.
  <1>a. ASSUME NEW r, task' = [task EXCEPT ![t] = r], TaskShape(r), writes' = writes,
               Active(t) = {} \/ task[t].pc # "jobs" \/ Idle(t)
        PROVE  TasksInv'
    BY <1>a, NothingWaits, OneTaskMoves
  <1>1. CASE UpdateMetadata(t)
    <2>1. PICK m : Reconcile(t, Settings, m, writes)
      BY <1>1 DEF UpdateMetadata
    <2> DEFINE r == [task[t] EXCEPT !.pc = "obsolete"]
    <2>2. task' = [task EXCEPT ![t] = r]
      BY <1>1 DEF UpdateMetadata
    <2>3. \A f \in Filters : task[t].job[f].st = "none"
      BY <1>1, NothingWaits DEF UpdateMetadata
    <2>4. TaskShape(r) /\ r.job = task[t].job
      <3>1. task[t].op # "none"
        BY <1>0, <1>1 DEF UpdateMetadata, TaskShape
      <3>2. /\ r.op = task[t].op /\ r.pc = "obsolete" /\ r.stage = task[t].stage
            /\ r.job = task[t].job
        BY <1>0 DEF TaskState, TaskRecord
      <3> HIDE DEF r
      <3> QED BY <1>0, <2>3, <3>1, <3>2 DEF TaskShape
    <2>5. \A f \in Filters : \/ writes'[f] = writes[f]
                             \/ writes'[f] = Append(writes[f], [task |-> t, v |-> 0])
      BY <2>1 DEF Reconcile
    <2> HIDE DEF r
    <2> QED BY <2>2, <2>4, <2>5, OneTaskMoves
  <1>2. CASE MigrateDeprecatedFilters(t)
    <2> DEFINE gone == loaded \intersect metadata.deprecated \intersect metadata.listed
               r == [task[t] EXCEPT !.pc = "migrate",
                                    !.moving = gone \intersect EnabledFilters]
    <2>1. task' = [task EXCEPT ![t] = r]
      BY <1>2 DEF MigrateDeprecatedFilters
    <2>2. \A f \in Filters : task[t].job[f].st = "none"
      BY <1>2, NothingWaits DEF MigrateDeprecatedFilters
    <2>3. TaskShape(r) /\ r.job = task[t].job
      <3>1. task[t].op # "none"
        BY <1>0, <1>2 DEF MigrateDeprecatedFilters, TaskShape
      <3>2. /\ r.op = task[t].op /\ r.pc = "migrate" /\ r.stage = task[t].stage
            /\ r.job = task[t].job
        BY <1>0 DEF TaskState, TaskRecord
      <3> HIDE DEF r
      <3> QED BY <1>0, <2>2, <3>1, <3>2 DEF TaskShape
    <2>4. \A f \in Filters : \/ writes'[f] = writes[f]
                             \/ writes'[f] = Append(writes[f], [task |-> t, v |-> 0])
      BY <1>2 DEF MigrateDeprecatedFilters
    <2> HIDE DEF r
    <2> QED BY <2>1, <2>3, <2>4, OneTaskMoves
  <1>3. CASE StartLoads(t)
    <2>1. task[t].op \in Ops /\ task[t].pc # "jobs"
      <3>1. task[t].pc = "migrate" /\ task[t].op # "start"
        BY <1>3 DEF StartLoads
      <3> QED BY <1>0, <3>1 DEF TaskShape
    <2>2. TaskShape(StartJobs(task[t]))
      BY <1>0, <2>1, StartJobsShape DEF TaskShape
    <2> QED BY <1>3, <1>a, <2>1, <2>2 DEF StartLoads
  <1>4. CASE StartEngine(t)
    BY <1>4, <1>a, IdleShape DEF StartEngine
  <1>5. CASE AfterLoad(t)
    <2>1. CASE task[t].op = "reload"
      BY <1>5, <2>1, <1>a, IdleShape DEF AfterLoad, Settled
    <2>2. CASE task[t].op # "reload"
      <3>1. PICK S : task' = [task EXCEPT ![t] =
                        [CheckTask(task[t], "check", S) EXCEPT !.ready = Obtained(task[t])]]
        BY <1>5, <2>2 DEF AfterLoad
      <3> DEFINE r == CheckTask(task[t], "check", S)
                 r2 == [r EXCEPT !.ready = Obtained(task[t])]
      <3>2. task[t].op \notin {"none", "start", "update"}
        BY <1>0, <1>5 DEF AfterLoad, Settled, TaskShape
      <3>3. TaskShape(r)
        BY <1>0, <1>5, <3>2, NothingWaits, CheckTaskShape DEF AfterLoad, Settled
      <3>4. /\ r2.op = r.op /\ r2.pc = r.pc /\ r2.stage = r.stage /\ r2.job = r.job
        BY <1>0 DEF CheckTask, TaskState, TaskRecord
      <3>5. task' = [task EXCEPT ![t] = r2]
        BY <3>1
      <3> HIDE DEF r, r2
      <3>6. TaskShape(r2)
        BY <3>3, <3>4 DEF TaskShape
      <3> QED BY <1>5, <3>5, <3>6, <1>a DEF AfterLoad, Settled
    <2> QED BY <2>1, <2>2
  <1>6. CASE EnableUntouchedGroups(t)
    BY <1>6, <1>a, IdleShape DEF EnableUntouchedGroups, Settled
  <1>7. CASE CheckGroup(t)
    <2>1. PICK S : task' = [task EXCEPT ![t] = CheckTask(task[t], "update", S)]
      BY <1>7 DEF CheckGroup
    <2>2. TaskShape(CheckTask(task[t], "update", S))
      BY <1>0, <1>7, NothingWaits, CheckTaskShape DEF CheckGroup, Settled
    <2> QED BY <1>7, <2>1, <2>2, <1>a DEF CheckGroup, Settled
  <1>8. CASE FinishGroup(t)
    BY <1>8, <1>a, IdleShape DEF FinishGroup, Settled
  <1>9. CASE FinishUpdate(t)
    BY <1>9, <1>a, IdleShape DEF FinishUpdate, Settled
  <1>10. ASSUME NEW f \in Filters, CreateCustom(t, f)
         PROVE  TasksInv'
    <2> DEFINE r == [task[t] EXCEPT !.moving = task[t].moving \ {f}]
    <2>1. task' = [task EXCEPT ![t] = r] /\ task[t].pc = "migrate" /\ writes' = writes
      BY <1>10 DEF CreateCustom
    <2>2. r.op = task[t].op /\ r.pc = task[t].pc /\ r.stage = task[t].stage
          /\ r.job = task[t].job
      BY <1>0 DEF TaskState, TaskRecord
    <2> HIDE DEF r
    <2>3. TaskShape(r)
      BY <1>0, <2>2 DEF TaskShape
    <2> QED BY <2>1, <2>3, <1>a
  \* A job that waits for no write goes on to j.
  <1>b. ASSUME NEW f \in Filters, task[t].job[f].st \in {"fetch", "raw"}, writes' = writes,
               task' = [task EXCEPT ![t] = Retry(task[t], f)]
        PROVE  TasksInv'
    <2>1. task[t].pc = "jobs"
      BY <1>0, <1>b DEF TaskShape
    <2>2. TaskShape(Retry(task[t], f))
      BY <1>0, <2>1, RetryShape
    <2>3. \A h \in Filters : task[t].job[h].st = "write"
                               => Retry(task[t], f).job[h].st = "write"
      BY <1>0, <1>b DEF Retry, TaskState, TaskRecord
    <2> QED BY <1>b, <2>2, <2>3, OneTaskMoves
  <1>11. ASSUME NEW f \in Filters, Receive(t, f)
         PROVE  TasksInv'
    <2>1. CASE f \in metadata.listed \ metadata.deprecated
      <3>1. PICK v :
              /\ writes' = [writes EXCEPT ![f] = Append(@, [task |-> t, v |-> v])]
              /\ task' = [task EXCEPT ![t].job[f] =
                            [st |-> "write", v |-> v, local |-> task[t].job[f].local]]
        BY <1>11, <2>1 DEF Receive
      <3> DEFINE j == [st |-> "write", v |-> v, local |-> task[t].job[f].local]
                 r == [task[t] EXCEPT !.job[f] = j]
      <3>2. task' = [task EXCEPT ![t] = r] /\ task[t].job[f].st = "fetch"
        BY <1>11, <3>1 DEF Receive
      <3>3. /\ r.op = task[t].op /\ r.pc = task[t].pc /\ r.stage = task[t].stage
            /\ \A h \in Filters : r.job[h] = IF h = f THEN j ELSE task[t].job[h]
        BY <1>0 DEF TaskState, TaskRecord
      <3>4. \A u \in Tasks : task'[u] = IF u = t THEN r ELSE task[u]
        BY <3>2 DEF TypeOK
      <3>5. v \in Versions
        <4>1. task'[t].job[f] = j /\ j.v = v
          BY <3>3, <3>4
        <4>2. task'[t].job[f] \in Jobs
          BY DEF TypeOK, TaskState, TaskRecord
        <4> QED BY <4>1, <4>2 DEF Jobs
      <3>6. j.st = "write"
        OBVIOUS
      <3> HIDE DEF j, r
      <3>7. TaskShape(r)
        BY <1>0, <3>2, <3>3, <3>6 DEF TaskShape
      <3>8. \A u \in Tasks : TaskShape(task'[u])
        BY <3>4, <3>7 DEF TasksInv
      <3>9. ASSUME NEW h \in Filters
            PROVE  Consistent(writes'[h], Stages(h)')
        <4>1. /\ Stages(h) \in [Tasks -> StageNames] /\ writes[h] \in Seq(Transaction)
              /\ Consistent(writes[h], Stages(h))
          BY StagesType DEF TasksInv
        <4>2. CASE h = f
          <5>1. writes'[h] = Append(writes[h], [task |-> t, v |-> v])
            BY <3>1, <4>2 DEF TypeOK
          <5>2. Stages(h)[t] # "write"
            BY <3>2, <4>2 DEF Stages
          <5>3. Stages(h)' = [Stages(h) EXCEPT ![t] = "write"]
            <6>1. \A u \in Tasks : task'[u].job[h].st
                                   = IF u = t THEN "write" ELSE task[u].job[h].st
              BY <3>3, <3>4, <3>6, <4>2
            <6>2. Stages(h)' = [u \in Tasks |-> IF u = t THEN "write"
                                                ELSE task[u].job[h].st]
              BY <6>1 DEF Stages
            <6>3. [Stages(h) EXCEPT ![t] = "write"]
                    = [u \in Tasks |-> IF u = t THEN "write" ELSE task[u].job[h].st]
              BY DEF Stages
            <6> QED BY <6>2, <6>3
          <5>4. Consistent(Append(writes[h], [task |-> t, v |-> v]),
                           [Stages(h) EXCEPT ![t] = "write"])
            BY <3>5, <4>1, <5>2, WriteConsistent
          <5> QED BY <5>1, <5>3, <5>4
        <4>3. CASE h # f
          <5>1. writes'[h] = writes[h] /\ Stages(h)' = Stages(h)
            BY <3>1, <3>3, <3>4, <4>3 DEF TypeOK, Stages
          <5> QED BY <4>1, <5>1
        <4> QED BY <4>2, <4>3
      <3>10. \A u \in Tasks : TaskShape(task[u])'
        BY <3>8 DEF TaskShape
      <3>11. \A h \in Filters : Consistent(writes[h], Stages(h))'
        BY <3>9 DEF Consistent
      <3> QED BY <3>10, <3>11 DEF TasksInv
    <2>2. CASE f \notin metadata.listed \ metadata.deprecated
      BY <1>11, <1>b, <2>2 DEF Receive
    <2> QED BY <2>1, <2>2
  <1>12. ASSUME NEW f \in Filters, FetchFails(t, f)
         PROVE  TasksInv'
    BY <1>12, <1>b DEF FetchFails
  <1>13. ASSUME NEW f \in Filters, WriteRaw(t, f)
         PROVE  TasksInv'
    <2> DEFINE r == [task[t] EXCEPT !.job[f] = NoJob, !.done = task[t].done \union {f}]
    <2>1. /\ task[t].job[f].st = "raw" /\ writes' = writes
          /\ \/ task' = [task EXCEPT ![t] = r]
             \/ task' = [task EXCEPT ![t] = Retry(task[t], f)]
      BY <1>13 DEF WriteRaw
    <2>2. /\ r.op = task[t].op /\ r.pc = task[t].pc /\ r.stage = task[t].stage
          /\ \A h \in Filters : r.job[h] = IF h = f THEN NoJob ELSE task[t].job[h]
      BY <1>0 DEF TaskState, TaskRecord
    <2> HIDE DEF r
    <2>3. TaskShape(r)
      BY <1>0, <2>2 DEF TaskShape, NoJob
    <2>4. \A h \in Filters : task[t].job[h].st = "write" => r.job[h].st = "write"
      BY <2>1, <2>2
    <2> QED BY <2>1, <2>3, <2>4, <1>b, OneTaskMoves
  <1> QED
    BY <1>1, <1>2, <1>3, <1>4, <1>5, <1>6, <1>7, <1>8, <1>9, <1>10, <1>11,
       <1>12, <1>13, TaskStep(t) DEF TaskStep

LEMMA StartTaskMoves ==
  ASSUME TypeOK, TypeOK', TasksInv, NEW t \in Tasks,
         \/ AutoUpdateFilters(t) \/ ReloadEnabledFilters(t)
         \/ \E f \in Filters : EnableFilter(t, f)
         \/ \E g \in Groups : EnableGroup(t, g)
  PROVE  TasksInv'
  <1> USE DEF settings, store, engine, running
  <1>1. Idle(t) /\ writes' = writes
    BY DEF AutoUpdateFilters, ReloadEnabledFilters, EnableFilter, EnableGroup
  <1>2. SUFFICES \E r : task' = [task EXCEPT ![t] = r] /\ TaskShape(r)
    BY <1>1, NothingWaits, OneTaskMoves
  <1>3. CASE AutoUpdateFilters(t)
    <2>1. /\ "update" \in Ops
          /\ \E S \in SUBSET Filters, full \in SUBSET Filters :
               LET r == [IdleTask EXCEPT !.op = "update", !.stage = "update",
                                         !.want = S, !.full = full, !.pc = "metadata"]
               IN task' = [task EXCEPT ![t] = IF full = {} THEN StartJobs(r) ELSE r]
      BY <1>3 DEF AutoUpdateFilters, EnabledFilters, TypeOK
    <2>2. PICK S \in SUBSET Filters, full \in SUBSET Filters :
               LET r == [IdleTask EXCEPT !.op = "update", !.stage = "update",
                                         !.want = S, !.full = full, !.pc = "metadata"]
               IN task' = [task EXCEPT ![t] = IF full = {} THEN StartJobs(r) ELSE r]
      BY <2>1
    <2> DEFINE r == [IdleTask EXCEPT !.op = "update", !.stage = "update",
                                     !.want = S, !.full = full, !.pc = "metadata"]
    <2>3. r \in TaskState /\ r.op = "update" /\ r.stage = "update"
      BY IdleTaskType DEF TaskState, TaskRecord, AllOps
    <2>4. TaskShape(r)
      BY <2>1 DEF TaskShape, IdleTask, NoJob
    <2>5. task' = [task EXCEPT ![t] = IF full = {} THEN StartJobs(r) ELSE r]
      BY <2>2
    <2> HIDE DEF r
    <2>6. TaskShape(StartJobs(r))
      BY <2>1, <2>3, StartJobsShape
    <2> QED BY <2>4, <2>5, <2>6
  <1>4. CASE ReloadEnabledFilters(t)
    <2> DEFINE r == [IdleTask EXCEPT !.op = "reload", !.want = EnabledFilters,
                                     !.pc = IF EnabledFilters = {}
                                            THEN "jobs" ELSE "metadata"]
    <2>1. task' = [task EXCEPT ![t] = r] /\ "reload" \in Ops
      BY <1>4 DEF ReloadEnabledFilters
    <2>2. TaskShape(r)
      BY <2>1 DEF TaskShape, IdleTask, NoJob
    <2> QED BY <2>1, <2>2
  <1>5. CASE \E f \in Filters : EnableFilter(t, f)
    BY <1>5, LoadShape DEF EnableFilter
  <1>6. CASE \E g \in Groups : EnableGroup(t, g)
    BY <1>6, LoadShape DEF EnableGroup
  <1> QED BY <1>3, <1>4, <1>5, <1>6

LEMMA RestartMoves ==
  ASSUME TypeOK, TypeOK', NEW t \in Tasks, Restart(t)
  PROVE  TasksInv'
  <1>1. \A u \in Tasks : TaskShape(task'[u])
    <2>1. TaskShape([IdleTask EXCEPT !.op = "start", !.pc = "obsolete"])
      BY DEF TaskShape, IdleTask, NoJob
    <2> QED BY <2>1, IdleShape DEF Restart
  <1>2. ASSUME NEW f \in Filters
        PROVE  \A i \in DOMAIN writes'[f] : writes'[f][i].v = 0
    <2>1. writes'[f] = <<>> \/ writes'[f] = Append(<<>>, [task |-> t, v |-> 0])
      BY DEF Restart, Reconcile
    <2> QED BY <2>1
  <1>3. \A f \in Filters : Consistent(writes'[f], Stages(f)')
    BY <1>2 DEF Consistent
  <1>4. \A u \in Tasks : TaskShape(task[u])'
    BY <1>1 DEF TaskShape
  <1>5. \A f \in Filters : Consistent(writes[f], Stages(f))'
    BY <1>3 DEF Consistent
  <1> QED BY <1>4, <1>5 DEF TasksInv

LEMMA CommitMoves ==
  ASSUME TypeOK, TypeOK', TasksInv, NEW f \in Filters, CommitWrite(f)
  PROVE  TasksInv'
  <1> DEFINE w == Head(writes[f])
             r == [task[w.task] EXCEPT !.job[f].st = "raw"]
  <1>1. /\ writes[f] \in Seq(Transaction) /\ writes[f] # <<>>
        /\ w \in Transaction /\ w = writes[f][1] /\ 1 \in DOMAIN writes[f]
        /\ \A h \in Filters : writes'[h] = IF h = f THEN Tail(writes[f]) ELSE writes[h]
    BY DEF CommitWrite, TypeOK
  <1>2. w.task \in Tasks /\ task[w.task] \in TaskState /\ TaskShape(task[w.task])
    BY <1>1 DEF Transaction, TypeOK, TasksInv
  <1>3. /\ task' = IF w.v = 0 THEN task ELSE [task EXCEPT ![w.task] = r]
        /\ w.v # 0 => task[w.task].job[f].st = "write"
    <2>1. w.v # 0 => Stages(f)[w.task] = "write"
      BY <1>1 DEF TasksInv, Consistent
    <2> QED BY <1>2, <2>1 DEF CommitWrite, Stages
  <1>4. /\ r.op = task[w.task].op /\ r.pc = task[w.task].pc
        /\ r.stage = task[w.task].stage
        /\ r.job[f].st = "raw"
        /\ \A h \in Filters \ {f} : r.job[h] = task[w.task].job[h]
    BY <1>2 DEF TaskState, TaskRecord, Jobs
  <1> HIDE DEF r, w
  <1>5. w.v # 0 => TaskShape(r)
    BY <1>2, <1>3, <1>4 DEF TaskShape
  <1>6. \A u \in Tasks : task'[u] = IF w.v # 0 /\ u = w.task THEN r ELSE task[u]
    BY <1>2, <1>3 DEF TypeOK
  <1>7. \A u \in Tasks : TaskShape(task'[u])
    BY <1>5, <1>6 DEF TasksInv
  <1>8. ASSUME NEW h \in Filters
        PROVE  Consistent(writes'[h], Stages(h)')
    <2>1. /\ Stages(h) \in [Tasks -> StageNames] /\ writes[h] \in Seq(Transaction)
          /\ Consistent(writes[h], Stages(h))
      BY StagesType DEF TasksInv
    <2> DEFINE st2 == [u \in Tasks |-> task'[u].job[h].st]
    <2>2. st2 \in [Tasks -> StageNames] /\ Stages(h)' = st2
      BY DEF TypeOK, Stages, StageNames, TaskState, TaskRecord, Jobs
    <2>3. CASE h = f
      <3>1. \A u \in Tasks : st2[u] = Stages(h)[u] \/ (w.v # 0 /\ u = w.task)
        BY <1>6 DEF Stages
      <3> HIDE DEF st2
      <3>2. Consistent(Tail(writes[h]), st2)
        BY <1>1, <2>1, <2>2, <2>3, <3>1, CommitConsistent DEF w
      <3> QED BY <1>1, <2>2, <2>3, <3>2
    <2>4. CASE h # f
      <3>1. \A u \in Tasks : Stages(h)[u] = "write" => st2[u] = "write"
        BY <1>4, <1>6, <2>4 DEF Stages
      <3> HIDE DEF st2
      <3>2. Consistent(writes[h], st2)
        BY <2>1, <3>1, SameConsistent
      <3> QED BY <1>1, <2>2, <2>4, <3>2
    <2> QED BY <2>3, <2>4
  <1>9. \A u \in Tasks : TaskShape(task[u])'
    BY <1>7 DEF TaskShape
  <1>10. \A h \in Filters : Consistent(writes[h], Stages(h))'
    BY <1>8 DEF Consistent
  <1> QED BY <1>9, <1>10 DEF TasksInv

LEMMA AbortMoves ==
  ASSUME TypeOK, TypeOK', TasksInv, NEW f \in Filters, AbortWrite(f)
  PROVE  TasksInv'
  <1> DEFINE w == Head(writes[f])
  <1>1. /\ writes[f] \in Seq(Transaction) /\ writes[f] # <<>>
        /\ w \in Transaction /\ w = writes[f][1] /\ 1 \in DOMAIN writes[f]
        /\ \A h \in Filters : writes'[h] = IF h = f THEN Tail(writes[f]) ELSE writes[h]
    BY DEF AbortWrite, TypeOK
  <1>2. w.task \in Tasks /\ task[w.task] \in TaskState /\ TaskShape(task[w.task])
    BY <1>1 DEF Transaction, TypeOK, TasksInv
  <1>3. PICK r \in Rejected(w, f) : task' = [task EXCEPT ![w.task] = r]
    BY DEF AbortWrite
  <1>4. /\ TaskShape(r)
        /\ w.v = 0 => r.job = task[w.task].job
        /\ \A h \in Filters \ {f} : r.job[h] = task[w.task].job[h]
    <2>1. CASE w.v = 0
      <3> DEFINE r2 == [task[w.task] EXCEPT !.moving = task[w.task].moving \ {f}]
      <3>1. /\ r2.op = task[w.task].op /\ r2.pc = task[w.task].pc
            /\ r2.stage = task[w.task].stage /\ r2.job = task[w.task].job
        BY <1>2 DEF TaskState, TaskRecord
      <3>2. r = task[w.task] \/ r = r2
        BY <1>3, <2>1 DEF Rejected
      <3> HIDE DEF r2, w
      <3> QED BY <1>2, <3>1, <3>2 DEF TaskShape
    <2>2. CASE w.v # 0
      <3>1. task[w.task].job[f].st = "write"
        <4>1. Stages(f)[w.task] = "write"
          BY <1>1, <2>2 DEF TasksInv, Consistent
        <4> QED BY <1>2, <4>1 DEF Stages
      <3>2. task[w.task].pc = "jobs"
        BY <1>2, <3>1 DEF TaskShape
      <3>3. r = Retry(task[w.task], f)
        BY <1>3, <2>2 DEF Rejected
      <3> HIDE DEF w
      <3>4. \A h \in Filters \ {f} : Retry(task[w.task], f).job[h] = task[w.task].job[h]
        BY <1>2 DEF Retry, TaskState, TaskRecord
      <3> QED BY <1>2, <2>2, <3>2, <3>3, <3>4, RetryShape
    <2> QED BY <2>1, <2>2
  <1> HIDE DEF w
  <1>5. \A u \in Tasks : task'[u] = IF u = w.task THEN r ELSE task[u]
    BY <1>2, <1>3 DEF TypeOK
  <1>6. \A u \in Tasks : TaskShape(task'[u])
    BY <1>4, <1>5 DEF TasksInv
  <1>7. ASSUME NEW h \in Filters
        PROVE  Consistent(writes'[h], Stages(h)')
    <2>1. /\ Stages(h) \in [Tasks -> StageNames] /\ writes[h] \in Seq(Transaction)
          /\ Consistent(writes[h], Stages(h))
      BY StagesType DEF TasksInv
    <2> DEFINE st2 == [u \in Tasks |-> task'[u].job[h].st]
    <2>2. st2 \in [Tasks -> StageNames] /\ Stages(h)' = st2
      BY DEF TypeOK, Stages, StageNames, TaskState, TaskRecord, Jobs
    <2>3. CASE h = f
      <3>1. \A u \in Tasks : st2[u] = Stages(h)[u] \/ (w.v # 0 /\ u = w.task)
        BY <1>4, <1>5, <2>3 DEF Stages
      <3> HIDE DEF st2
      <3>2. Consistent(Tail(writes[h]), st2)
        BY <1>1, <2>1, <2>2, <2>3, <3>1, CommitConsistent DEF w
      <3> QED BY <1>1, <2>2, <2>3, <3>2
    <2>4. CASE h # f
      <3>1. \A u \in Tasks : Stages(h)[u] = "write" => st2[u] = "write"
        BY <1>4, <1>5, <2>4 DEF Stages
      <3> HIDE DEF st2
      <3>2. Consistent(writes[h], st2)
        BY <2>1, <3>1, SameConsistent
      <3> QED BY <1>1, <2>2, <2>4, <3>2
    <2> QED BY <2>3, <2>4
  <1>8. \A u \in Tasks : TaskShape(task[u])'
    BY <1>6 DEF TaskShape
  <1>9. \A h \in Filters : Consistent(writes[h], Stages(h))'
    BY <1>7 DEF Consistent
  <1> QED BY <1>8, <1>9 DEF TasksInv

LEMMA StepTasks ==
  ASSUME TypeOK, TasksInv, [Next]_vars
  PROVE  TasksInv'
  <1> USE DEF settings, store, engine, running
  <1>1. TypeOK'
    BY NextType
  <1>2. ASSUME UNCHANGED <<task, writes>>
        PROVE  TasksInv'
    BY <1>2 DEF TasksInv, TaskShape, Consistent, Stages
  <1>3. ASSUME \/ \E f \in Filters : DisableFilter(f) \/ Publish(f) \/ Retire(f)
               \/ \E g \in Groups : DisableGroup(g)
               \/ UpdateEngine \/ RunUpdates \/ SaveSettings \/ UNCHANGED vars
        PROVE  UNCHANGED <<task, writes>>
    BY RunsFrame, <1>3 DEF DisableFilter, Publish, Retire, DisableGroup, UpdateEngine,
         SaveSettings, vars
  <1> QED BY <1>1, <1>2, <1>3, TaskStepMoves, StartTaskMoves, RestartMoves,
             CommitMoves, AbortMoves DEF Next

LEMMA InitTasks == Init => TasksInv
  BY IdleShape DEF Init, TasksInv, Consistent

\* Whatever the network, the store and the browser do, each write of rules in
\* progress belongs to one job of a running operation, and that job waits for it
\* (FiltersStorage.set).
THEOREM WritesAreAwaited == Spec => []TasksInv
  <1>1. TypeOK /\ TasksInv /\ [Next]_vars => TasksInv'
    BY StepTasks
  <1> QED BY <1>1, InitTasks, TypeCorrect, PTL DEF Spec

LEMMA TailLast ==
  ASSUME NEW S, NEW q \in Seq(S), q # <<>>
  PROVE  /\ Tail(q) = <<>> => LastOf(q) = Head(q)
         /\ Tail(q) # <<>> => LastOf(Tail(q)) = LastOf(q)
  <1>1. /\ Len(q) \in Nat \ {0} /\ Len(Tail(q)) = Len(q) - 1
        /\ Head(q) = q[1]
        /\ \A i \in 1..Len(q) - 1 : Tail(q)[i] = q[i + 1]
    OBVIOUS
  <1>2. Tail(q) = <<>> <=> Len(q) = 1
    <2>1. Tail(q) \in Seq(S)
      OBVIOUS
    <2>2. \A s \in Seq(S) : s = <<>> <=> Len(s) = 0
      OBVIOUS
    <2> QED BY <1>1, <2>1, <2>2
  <1>3. CASE Len(q) = 1
    BY <1>1, <1>2, <1>3 DEF LastOf
  <1>4. CASE Len(q) # 1
    <2>1. Len(q) - 1 \in 1..Len(q) - 1 /\ (Len(q) - 1) + 1 = Len(q)
      BY <1>1, <1>4
    <2>2. Tail(q)[Len(q) - 1] = q[Len(q)]
      BY <1>1, <2>1
    <2> QED BY <1>1, <1>2, <1>4, <2>2 DEF LastOf
  <1> QED BY <1>3, <1>4

-----------------------------------------------------------------------------
(* The version of a filter is that of the rules stored last.               *)

\* The rules f will have when the writes in progress have been committed.
Latest(f) == IF writes[f] = <<>> THEN content[f] ELSE LastOf(writes[f]).v

VersionInv ==
    \A f \in loaded \intersect Lasting : version[f] # 0 /\ version[f] = Latest(f)

\* What a step does to the rules of a filter that lasts.
RulesAlone(f) ==
    /\ writes'[f] = writes[f] /\ content'[f] = content[f]
    /\ f \in loaded' => f \in loaded
    /\ version[f] # 0 => version'[f] = version[f]

LEMMA RulesSteps ==
  ASSUME TypeOK, LoadedInv, "storage" \notin Faults, [Next]_vars,
         NEW f \in Lasting
  PROVE  \/ RulesAlone(f)
         \/ CommitWrite(f)
         \/ \E t \in Tasks : Receive(t, f) \/ Restart(t)
  <1> USE DEF settings, store, engine, running, RulesAlone
  <1>0. /\ f \in Filters /\ f \in backend.listed /\ f \in Bundle.listed
        /\ f \in metadata.listed \ metadata.deprecated
    BY BundleAssumption DEF Lasting, Bundle, LoadedInv, MetadataKeepsLasting
  <1>1. ASSUME NEW t \in Tasks, UpdateMetadata(t)
        PROVE  RulesAlone(f)
    <2>1. PICK m \in {backend, Bundle, metadata} : Reconcile(t, Settings, m, writes)
      BY <1>1 DEF UpdateMetadata, FallbackMetadata
    <2>2. f \in m.listed
      BY <1>0, <2>1
    <2>3. f \notin Obsolete(Settings, m)
      BY <2>2 DEF Obsolete
    <2>4. /\ writes'[f] = writes[f]
          /\ f \in loaded' => f \in loaded
          /\ version[f] # 0 => version'[f] = version[f]
      BY <1>0, <2>1, <2>3 DEF Reconcile, Settings
    <2> QED BY <1>1, <2>4 DEF UpdateMetadata
  <1>2. ASSUME NEW t \in Tasks, MigrateDeprecatedFilters(t)
        PROVE  RulesAlone(f)
    BY <1>0, <1>2 DEF MigrateDeprecatedFilters
  <1>3. ASSUME NEW t \in Tasks, NEW h \in Filters, Receive(t, h), h # f
        PROVE  RulesAlone(f)
    BY <1>0, <1>3 DEF Receive, TypeOK
  <1>4. ASSUME NEW t \in Tasks,
               \/ StartLoads(t) \/ StartEngine(t) \/ AfterLoad(t)
               \/ EnableUntouchedGroups(t) \/ CheckGroup(t) \/ FinishGroup(t)
               \/ FinishUpdate(t) \/ AutoUpdateFilters(t) \/ ReloadEnabledFilters(t)
        PROVE  RulesAlone(f)
    BY <1>4 DEF StartLoads, StartEngine, AfterLoad, EnableUntouchedGroups,
         CheckGroup, FinishGroup, FinishUpdate, AutoUpdateFilters, ReloadEnabledFilters
  <1>5. ASSUME NEW t \in Tasks,
               \/ \E h \in Filters : \/ CreateCustom(t, h) \/ FetchFails(t, h)
                                     \/ WriteRaw(t, h) \/ EnableFilter(t, h)
               \/ \E g \in Groups : EnableGroup(t, g)
        PROVE  RulesAlone(f)
    BY <1>5 DEF CreateCustom, FetchFails, WriteRaw, EnableFilter, EnableGroup
  <1>6. ASSUME NEW h \in Filters, CommitWrite(h), h # f
        PROVE  RulesAlone(f)
    BY <1>0, <1>6 DEF CommitWrite, TypeOK
  <1>7. ASSUME \/ \E h \in Filters : DisableFilter(h) \/ Publish(h) \/ Retire(h)
               \/ \E g \in Groups : DisableGroup(g)
               \/ UpdateEngine \/ RunUpdates \/ SaveSettings \/ UNCHANGED vars
        PROVE  RulesAlone(f)
    BY RunsFrame, <1>7 DEF DisableFilter, Publish, Retire, DisableGroup, UpdateEngine,
         SaveSettings, vars
  <1>8. \A h \in Filters : ~AbortWrite(h)
    BY DEF AbortWrite
  <1> HIDE DEF RulesAlone
  <1> QED BY <1>1, <1>2, <1>3, <1>4, <1>5, <1>6, <1>7, <1>8 DEF Next, TaskStep

\* Operation t has received version v of the rules of f.
Received(t, f, v) ==
    /\ version' = [version EXCEPT ![f] = v]
    /\ writes' = [writes EXCEPT ![f] = Append(@, [task |-> t, v |-> v])]
    /\ task' = [task EXCEPT ![t].job[f] =
                  [st |-> "write", v |-> v, local |-> task[t].job[f].local]]

\* The rules received are those of some published version.
LEMMA ReceivesRules ==
  ASSUME TypeOK, TasksInv, NEW t \in Tasks, NEW f \in Filters, Receive(t, f),
         f \in metadata.listed \ metadata.deprecated
  PROVE  \E v \in Versions : v # 0 /\ Received(t, f, v)
  <1>1. /\ task[t].job[f].st = "fetch"
        /\ \E v \in IF task[t].job[f].local THEN {1}
                    ELSE task[t].job[f].v..backend.ver[f] : Received(t, f, v)
    BY DEF Receive, RecordedVersion, Received
  <1>2. /\ task[t].job[f].v \in Versions /\ backend.ver[f] \in Versions
        /\ task[t].job[f].v # 0
    <2>1. task[t] \in TaskState /\ TaskShape(task[t])
      BY DEF TypeOK, TasksInv
    <2> QED BY <1>1, <2>1 DEF TypeOK, TaskShape, TaskState, TaskRecord, Jobs,
                Metadata, Versions
  <1>3. PICK v \in {1} \union task[t].job[f].v..backend.ver[f] : Received(t, f, v)
    BY <1>1
  <1>4. v \in Versions /\ v # 0
    BY <1>2, BoundAssumption DEF Versions
  <1> QED BY <1>3, <1>4

\* Committing the oldest write does not change what comes of the newest.
LEMMA CommitLatest ==
  ASSUME TypeOK, NEW f \in Filters, CommitWrite(f)
  PROVE  Latest(f)' = Latest(f)
  <1>1. /\ writes[f] \in Seq(Transaction) /\ writes[f] # <<>>
        /\ writes'[f] = Tail(writes[f]) /\ content'[f] = Head(writes[f]).v
    BY DEF CommitWrite, TypeOK
  <1>2. CASE Tail(writes[f]) = <<>>
    BY <1>1, <1>2, TailLast DEF Latest
  <1>3. CASE Tail(writes[f]) # <<>>
    <2>1. LastOf(Tail(writes[f])) = LastOf(writes[f])
      BY <1>1, <1>3, TailLast
    <2> QED BY <1>1, <1>3, <2>1 DEF Latest, LastOf
  <1> QED BY <1>2, <1>3

LEMMA StepVersion ==
  ASSUME TypeOK, LoadedInv, TasksInv, VersionInv,
         "storage" \notin Faults, "crash" \notin Faults, [Next]_vars
  PROVE  VersionInv'
  <1>1. SUFFICES ASSUME NEW f \in Lasting', f \in loaded'
                 PROVE  version'[f] # 0 /\ version'[f] = Latest(f)'
    BY DEF VersionInv, Latest, LastOf
  <1>2. /\ f \in Lasting /\ f \in Filters
        /\ f \in metadata.listed \ metadata.deprecated
    BY LastingShrinks, BundleAssumption DEF Lasting, LoadedInv, MetadataKeepsLasting
  <1>3. CASE RulesAlone(f)
    BY <1>1, <1>2, <1>3 DEF RulesAlone, VersionInv, Latest, LastOf
  <1>4. CASE CommitWrite(f)
    <2>1. version' = version /\ loaded' = loaded
      BY <1>4 DEF CommitWrite, settings
    <2> QED BY <1>1, <1>2, <1>4, <2>1, CommitLatest DEF VersionInv
  <1>5. ASSUME NEW t \in Tasks, Receive(t, f)
        PROVE  version'[f] # 0 /\ version'[f] = Latest(f)'
    <2>1. PICK v \in Versions : v # 0 /\ Received(t, f, v)
      BY <1>2, <1>5, ReceivesRules
    <2> DEFINE w == [task |-> t, v |-> v]
    <2>2. w \in Transaction /\ w.v = v
      BY DEF Transaction
    <2>3. writes'[f] = Append(writes[f], w) /\ version'[f] = v
      BY <1>2, <2>1 DEF TypeOK, Received
    <2> HIDE DEF w
    <2>4. writes[f] \in Seq(Transaction)
      BY <1>2 DEF TypeOK
    <2>5. writes'[f] # <<>> /\ LastOf(writes'[f]) = w
      BY <2>2, <2>3, <2>4, AppendLast
    <2> QED BY <2>1, <2>2, <2>3, <2>5 DEF Latest, LastOf
  <1>6. \A t \in Tasks : ~Restart(t)
    BY DEF Restart
  <1> QED BY <1>2, <1>3, <1>4, <1>5, <1>6, RulesSteps

\* Where every write ends and the extension does not stop, two operations that
\* load the same filter at once, served different versions in any order, never
\* leave the stored rules and the recorded version apart
\* (loadFilterRulesFromBackend).
THEOREM VersionsDescribe ==
  ASSUME "storage" \notin Faults, "crash" \notin Faults
  PROVE  Spec => []VersionDescribesContent
  <1>1. Init => VersionInv
    BY DEF Init, VersionInv
  <1>2. TypeOK /\ LoadedInv /\ TasksInv /\ VersionInv /\ [Next]_vars => VersionInv'
    BY StepVersion
  <1>3. VersionInv => VersionDescribesContent
    BY DEF VersionInv, VersionDescribesContent, Latest
  <1> QED BY <1>1, <1>2, <1>3, LoadedInvariant, WritesAreAwaited, PTL DEF Spec

-----------------------------------------------------------------------------
(* The engine follows what is enabled.  A filter that lasts and is on is   *)
(* applied, or on its way: an update of the engine is due or includes it,  *)
(* or a running operation will ask for one.                                *)

\* No transaction removes the rules of a filter that lasts.
NoRemoval == \A f \in Lasting : \A i \in DOMAIN writes[f] : writes[f][i].v # 0

\* The operation in state r will ask for an engine update because of f.
Owes(r, f) ==
    \/ r.op \in {"group", "reload", "start"}
    \/ r.op = "update" /\ (f \in r.done \/ r.job[f].st \in {"write", "raw"})

Entering(f) ==
    \/ engineTimer
    \/ \E t \in Tasks : Owes(task[t], f)
    \/ Fresh /\ (f \in LastOf(engineRuns).unread \/ LastOf(engineRuns).rules[f] = content[f])
    \/ ~Fresh /\ (engineBehind \/ applied[f] = content[f])

EnabledEnters == \A f \in EnabledFilters \intersect Lasting : Entering(f)

LEMMA StepNoRemoval ==
  ASSUME TypeOK, LoadedInv, TasksInv, NoRemoval, "storage" \notin Faults, [Next]_vars
  PROVE  NoRemoval'
  <1>1. SUFFICES ASSUME NEW f \in Lasting'
                 PROVE  \A i \in DOMAIN writes'[f] : writes'[f][i].v # 0
    BY DEF NoRemoval
  <1>2. /\ f \in Lasting /\ f \in Filters /\ writes[f] \in Seq(Transaction)
        /\ f \in metadata.listed \ metadata.deprecated
        /\ f \in disk.metadata.listed
        /\ \A i \in DOMAIN writes[f] : writes[f][i].v # 0
    BY LastingShrinks, BundleAssumption
       DEF Lasting, LoadedInv, MetadataKeepsLasting, NoRemoval, TypeOK
  <1>3. CASE RulesAlone(f)
    BY <1>2, <1>3 DEF RulesAlone
  <1>4. CASE CommitWrite(f)
    <2>1. writes'[f] = Tail(writes[f]) /\ writes[f] # <<>>
      BY <1>2, <1>4 DEF CommitWrite, TypeOK
    <2>2. \A i \in DOMAIN writes'[f] : i + 1 \in DOMAIN writes[f]
                                        /\ writes'[f][i] = writes[f][i + 1]
      BY <1>2, <2>1
    <2> QED BY <1>2, <2>2
  <1>5. ASSUME NEW t \in Tasks, Receive(t, f)
        PROVE  \A i \in DOMAIN writes'[f] : writes'[f][i].v # 0
    <2>1. PICK v \in Versions : v # 0 /\ Received(t, f, v)
      BY <1>2, <1>5, ReceivesRules
    <2> DEFINE w == [task |-> t, v |-> v]
    <2>2. w.v # 0
      BY <2>1
    <2>3. writes'[f] = Append(writes[f], w)
      BY <1>2, <2>1 DEF TypeOK, Received
    <2> HIDE DEF w
    <2>4. \A i \in DOMAIN writes'[f] :
             \/ i \in DOMAIN writes[f] /\ writes'[f][i] = writes[f][i]
             \/ writes'[f][i] = w
      BY <1>2, <2>3
    <2> QED BY <1>2, <2>2, <2>4
  <1>6. ASSUME NEW t \in Tasks, Restart(t)
        PROVE  writes'[f] = <<>>
    <2>1. f \notin Obsolete(disk, disk.metadata)
      BY <1>2 DEF Obsolete
    <2> QED BY <1>2, <1>6, <2>1 DEF Restart, Reconcile
  <1> QED BY <1>2, <1>3, <1>4, <1>5, <1>6, RulesSteps

\* A filter that lasts gets into the set the engine is given only through an
\* operation that asks for an engine update then, or will; "enable" does not.
LEMMA NewlyEnabled ==
  ASSUME TypeOK, LoadedInv, TasksInv, "enable" \notin Ops, [Next]_vars,
         NEW f \in Lasting, f \in EnabledFilters' \ EnabledFilters
  PROVE  engineTimer' \/ \E t \in Tasks : Owes(task'[t], f)
  <1> USE DEF settings, store, engine, running
  <1> DEFINE Asked == engineTimer' \/ \E t \in Tasks : Owes(task'[t], f)
  <1>0. f \in metadata.listed
    BY DEF LoadedInv, MetadataKeepsLasting
  <1>1. ASSUME enabled' \subseteq enabled, groupOn' \subseteq groupOn
        PROVE  FALSE
    BY <1>0, <1>1 DEF EnabledFilters
  <1>2. ASSUME NEW t \in Tasks, UpdateMetadata(t)
        PROVE  FALSE
    BY <1>1, <1>2 DEF UpdateMetadata, Reconcile, Settings
  <1>3. ASSUME NEW t \in Tasks, AfterLoad(t)
        PROVE  Asked
    <2>1. CASE task[t].op = "reload"
      BY <1>3, <2>1 DEF AfterLoad
    <2>2. CASE task[t].op # "reload"
      <3>1. PICK S : task' = [task EXCEPT ![t] =
                        [CheckTask(task[t], "check", S) EXCEPT !.ready = Obtained(task[t])]]
        BY <1>3, <2>2 DEF AfterLoad
      <3>2. task[t] \in TaskState /\ TaskShape(task[t])
        BY DEF TypeOK, TasksInv
      <3>3. task'[t].op = task[t].op
        BY <3>1, <3>2 DEF TypeOK, CheckTask, TaskState, TaskRecord
      <3>4. task[t].op = "group"
        BY <1>3, <2>2, <3>2, OpsAssumption DEF AfterLoad, Settled, TaskShape, AllOps
      <3> QED BY <3>3, <3>4 DEF Owes
    <2> QED BY <2>1, <2>2
  <1>4. ASSUME NEW t \in Tasks
        PROVE  ~EnableUntouchedGroups(t)
    BY DEF EnableUntouchedGroups, TasksInv, TaskShape
  <1>5. ASSUME NEW t \in Tasks, FinishGroup(t)
        PROVE  Asked
    BY <1>5 DEF FinishGroup
  <1>6. ASSUME NEW t \in Tasks, Restart(t)
        PROVE  Asked
    <2>1. task'[t] = [IdleTask EXCEPT !.op = "start", !.pc = "obsolete"]
      BY <1>6 DEF Restart
    <2>2. task'[t].op = "start"
      BY <2>1 DEF IdleTask
    <2> QED BY <2>2 DEF Owes
  <1>7. ASSUME NEW t \in Tasks,
               \/ StartLoads(t) \/ StartEngine(t) \/ MigrateDeprecatedFilters(t)
               \/ CheckGroup(t) \/ FinishUpdate(t)
               \/ AutoUpdateFilters(t) \/ ReloadEnabledFilters(t)
               \/ \E h \in Filters : \/ CreateCustom(t, h) \/ FetchFails(t, h)
                                     \/ WriteRaw(t, h) \/ EnableFilter(t, h)
                                     \/ Receive(t, h)
               \/ \E g \in Groups : EnableGroup(t, g)
        PROVE  enabled' \subseteq enabled /\ groupOn' \subseteq groupOn
    BY <1>7 DEF StartLoads, StartEngine, MigrateDeprecatedFilters, CheckGroup,
         FinishUpdate, AutoUpdateFilters, ReloadEnabledFilters, CreateCustom,
         FetchFails, WriteRaw, EnableFilter, Receive, EnableGroup
  <1>8. ASSUME \/ \E h \in Filters : \/ CommitWrite(h) \/ AbortWrite(h)
                                     \/ DisableFilter(h) \/ Publish(h) \/ Retire(h)
               \/ \E g \in Groups : DisableGroup(g)
               \/ UpdateEngine \/ RunUpdates \/ SaveSettings \/ UNCHANGED vars
        PROVE  enabled' \subseteq enabled /\ groupOn' \subseteq groupOn
    BY RunsFrame, <1>8 DEF CommitWrite, AbortWrite, DisableFilter, Publish, Retire, DisableGroup,
         UpdateEngine, SaveSettings, vars
  <1> QED BY <1>1, <1>2, <1>3, <1>4, <1>5, <1>6, <1>7, <1>8 DEF Next, TaskStep

\* An operation that owes the engine an update goes on owing it, or asks.
LEMMA KeepsOwing ==
  ASSUME TypeOK, TasksInv, "storage" \notin Faults, [Next]_vars,
         NEW u \in Tasks, NEW f \in Filters, Owes(task[u], f)
  PROVE  \/ engineTimer'
         \/ Owes(task'[u], f)
         \/ StartEngine(u)
         \/ \E t \in Tasks : Restart(t)
  <1> USE DEF settings, store, engine, running
  <1>0. /\ task[u] \in TaskState /\ TaskShape(task[u])
        /\ task[u].op \notin {"none", "enable"}
    BY DEF TypeOK, TasksInv, Owes
  \* One task goes to state r.
  <1>a. ASSUME NEW t \in Tasks, NEW r, task' = [task EXCEPT ![t] = r],
               t = u => Owes(r, f)
        PROVE  Owes(task'[u], f)
    BY <1>a DEF TypeOK
  \* ... in which operation, what is done and the jobs are as before.
  <1>b. ASSUME NEW t \in Tasks, NEW r, task' = [task EXCEPT ![t] = r],
               r.op = task[t].op, r.done = task[t].done, r.job = task[t].job
        PROVE  Owes(task'[u], f)
    BY <1>a, <1>b DEF Owes
  <1>1. ASSUME NEW t \in Tasks, UpdateMetadata(t)
        PROVE  Owes(task'[u], f)
    <2> DEFINE r == [task[t] EXCEPT !.pc = "obsolete"]
    <2>1. task' = [task EXCEPT ![t] = r]
      BY <1>1 DEF UpdateMetadata
    <2>2. r.op = task[t].op /\ r.done = task[t].done /\ r.job = task[t].job
      BY DEF TypeOK, TaskState, TaskRecord
    <2> HIDE DEF r
    <2> QED BY <1>b, <2>1, <2>2
  <1>2. ASSUME NEW t \in Tasks, MigrateDeprecatedFilters(t)
        PROVE  Owes(task'[u], f)
    <2> DEFINE gone == loaded \intersect metadata.deprecated \intersect metadata.listed
               r == [task[t] EXCEPT !.pc = "migrate",
                                    !.moving = gone \intersect EnabledFilters]
    <2>1. task' = [task EXCEPT ![t] = r]
      BY <1>2 DEF MigrateDeprecatedFilters
    <2>2. r.op = task[t].op /\ r.done = task[t].done /\ r.job = task[t].job
      BY DEF TypeOK, TaskState, TaskRecord
    <2> HIDE DEF r
    <2> QED BY <1>b, <2>1, <2>2
  <1>3. ASSUME NEW t \in Tasks, StartLoads(t)
        PROVE  Owes(task'[u], f)
    <2>1. task' = [task EXCEPT ![t] = StartJobs(task[t])] /\ task[t].pc = "migrate"
      BY <1>3 DEF StartLoads
    <2>2. \A h \in Filters : task[t].job[h].st = "none"
      BY <2>1, NothingWaits
    <2>3. StartJobs(task[t]).op = task[t].op /\ StartJobs(task[t]).done = task[t].done
      BY DEF StartJobs, TypeOK, TaskState, TaskRecord
    <2>4. t = u => Owes(StartJobs(task[t]), f)
      BY <2>2, <2>3 DEF Owes
    <2> QED BY <1>a, <2>1, <2>4
  <1>4. ASSUME NEW t \in Tasks, StartEngine(t), t # u
        PROVE  Owes(task'[u], f)
    BY <1>4, <1>a DEF StartEngine
  <1>5. ASSUME NEW t \in Tasks, AfterLoad(t)
        PROVE  engineTimer' \/ Owes(task'[u], f)
    <2>1. CASE task[t].op = "reload"
      BY <1>5, <2>1 DEF AfterLoad
    <2>2. CASE task[t].op # "reload"
      <3>1. PICK S : task' = [task EXCEPT ![t] =
                        [CheckTask(task[t], "check", S) EXCEPT !.ready = Obtained(task[t])]]
        BY <1>5, <2>2 DEF AfterLoad
      <3> DEFINE r == [CheckTask(task[t], "check", S) EXCEPT !.ready = Obtained(task[t])]
      <3>2. r.op = task[t].op
        BY DEF CheckTask, TypeOK, TaskState, TaskRecord
      <3>3. t = u => task[t].op = "group"
        BY <1>0, <1>5, <2>2 DEF AfterLoad, Settled, TaskShape, Owes
      <3>4. t = u => Owes(r, f)
        BY <3>2, <3>3 DEF Owes
      <3> QED BY <1>a, <3>1, <3>4
    <2> QED BY <2>1, <2>2
  <1>6. ASSUME NEW t \in Tasks, EnableUntouchedGroups(t)
        PROVE  Owes(task'[u], f)
    <2>1. t # u /\ task' = [task EXCEPT ![t] = IdleTask]
      BY <1>0, <1>6 DEF EnableUntouchedGroups
    <2> QED BY <1>a, <2>1
  <1>7. ASSUME NEW t \in Tasks, CheckGroup(t)
        PROVE  Owes(task'[u], f)
    <2>1. PICK S : task' = [task EXCEPT ![t] = CheckTask(task[t], "update", S)]
      BY <1>7 DEF CheckGroup
    <2>2. CheckTask(task[t], "update", S).op = "group"
      BY <1>7 DEF CheckGroup, CheckTask, TypeOK, TaskState, TaskRecord
    <2> QED BY <1>a, <2>1, <2>2 DEF Owes
  <1>8. ASSUME NEW t \in Tasks, FinishGroup(t)
        PROVE  engineTimer'
    BY <1>8 DEF FinishGroup
  <1>9. ASSUME NEW t \in Tasks, FinishUpdate(t)
        PROVE  engineTimer' \/ Owes(task'[u], f)
    <2>1. CASE t = u
      <3>1. task[t].op = "update" /\ Active(t) = {}
        BY <1>9 DEF FinishUpdate, Settled
      <3>2. f \in task[t].done
        BY <2>1, <3>1 DEF Owes, Active
      <3>3. AnyUpdated(task[t]) = TRUE
        BY <3>2 DEF AnyUpdated
      <3>4. engineTimer' = (engineTimer \/ AnyUpdated(task[t]))
        BY <1>9 DEF FinishUpdate
      <3> QED BY <3>3, <3>4
    <2>2. CASE t # u
      BY <1>9, <1>a, <2>2 DEF FinishUpdate
    <2> QED BY <2>1, <2>2
  <1>10. ASSUME NEW t \in Tasks, NEW h \in Filters, CreateCustom(t, h)
         PROVE  Owes(task'[u], f)
    <2> DEFINE r == [task[t] EXCEPT !.moving = task[t].moving \ {h}]
    <2>1. task' = [task EXCEPT ![t] = r]
      BY <1>10 DEF CreateCustom
    <2>2. r.op = task[t].op /\ r.done = task[t].done /\ r.job = task[t].job
      BY DEF TypeOK, TaskState, TaskRecord
    <2> HIDE DEF r
    <2> QED BY <1>b, <2>1, <2>2
  \* The job for h, which is being fetched, goes on to j.
  <1>c. ASSUME NEW t \in Tasks, NEW h \in Filters, NEW j, task[t].job[h].st = "fetch",
               task' = [task EXCEPT ![t].job[h] = j]
        PROVE  Owes(task'[u], f)
    <2> DEFINE r == [task[t] EXCEPT !.job[h] = j]
    <2>1. task' = [task EXCEPT ![t] = r]
      BY <1>c
    <2>2. /\ r.op = task[t].op /\ r.done = task[t].done
          /\ f # h => r.job[f] = task[t].job[f]
      BY DEF TypeOK, TaskState, TaskRecord
    <2> HIDE DEF r
    <2>3. t = u => Owes(r, f)
      BY <1>c, <2>2 DEF Owes
    <2> QED BY <1>a, <2>1, <2>3
  <1>11. ASSUME NEW t \in Tasks, NEW h \in Filters, Receive(t, h) \/ FetchFails(t, h)
         PROVE  Owes(task'[u], f)
    <2>1. task[t].job[h].st = "fetch" /\ \E j : task' = [task EXCEPT ![t].job[h] = j]
      BY <1>11 DEF Receive, FetchFails, Retry
    <2> QED BY <1>c, <2>1
  <1>12. ASSUME NEW t \in Tasks, NEW h \in Filters, WriteRaw(t, h)
         PROVE  Owes(task'[u], f)
    <2> DEFINE r == [task[t] EXCEPT !.job[h] = NoJob, !.done = task[t].done \union {h}]
    <2>1. task' = [task EXCEPT ![t] = r]
      BY <1>12 DEF WriteRaw
    <2>2. /\ r.op = task[t].op /\ r.done = task[t].done \union {h}
          /\ f # h => r.job[f] = task[t].job[f]
      BY DEF TypeOK, TaskState, TaskRecord
    <2> HIDE DEF r
    <2>3. t = u => Owes(r, f)
      BY <2>2 DEF Owes
    <2> QED BY <1>a, <2>1, <2>3
  <1>13. ASSUME NEW t \in Tasks,
                \/ AutoUpdateFilters(t) \/ ReloadEnabledFilters(t)
                \/ \E h \in Filters : EnableFilter(t, h)
                \/ \E g \in Groups : EnableGroup(t, g)
         PROVE  Owes(task'[u], f)
    <2>1. Idle(t) /\ \E r : task' = [task EXCEPT ![t] = r]
      BY <1>13 DEF AutoUpdateFilters, ReloadEnabledFilters, EnableFilter, EnableGroup
    <2>2. t # u
      BY <1>0, <2>1 DEF Idle
    <2> QED BY <1>a, <2>1, <2>2
  <1>14. ASSUME NEW h \in Filters, CommitWrite(h)
         PROVE  Owes(task'[u], f)
    <2> DEFINE w == Head(writes[h])
               r == [task[w.task] EXCEPT !.job[h].st = "raw"]
    <2>1. w.task \in Tasks /\ task[w.task] \in TaskState
      <3>1. writes[h] \in Seq(Transaction) /\ writes[h] # <<>>
        BY <1>14 DEF CommitWrite, TypeOK
      <3>2. w \in Transaction
        BY <3>1
      <3> QED BY <3>2 DEF Transaction, TypeOK
    <2>2. task' = task \/ task' = [task EXCEPT ![w.task] = r]
      BY <1>14 DEF CommitWrite
    <2>3. /\ r.op = task[w.task].op /\ r.done = task[w.task].done
          /\ r.job[h].st = "raw"
          /\ f # h => r.job[f] = task[w.task].job[f]
      BY <2>1, ZenonT(40) DEF TaskState, TaskRecord, Jobs
    <2> HIDE DEF r, w
    <2>4. ASSUME w.task = u
          PROVE  Owes(r, f)
      <3>1. /\ r.op = task[u].op /\ r.done = task[u].done
            /\ r.job[h].st = "raw"
            /\ f # h => r.job[f] = task[u].job[f]
        BY <2>3, <2>4
      <3>2. CASE f = h
        BY <3>1, <3>2 DEF Owes
      <3>3. CASE f # h
        BY <3>1, <3>3 DEF Owes
      <3> QED BY <3>2, <3>3
    <2> QED BY <1>a, <2>1, <2>2, <2>4
  <1>15. ASSUME \/ \E h \in Filters : DisableFilter(h) \/ Publish(h) \/ Retire(h)
                \/ \E g \in Groups : DisableGroup(g)
                \/ UpdateEngine \/ RunUpdates \/ SaveSettings \/ UNCHANGED vars
         PROVE  task' = task
    BY RunsFrame, <1>15 DEF DisableFilter, Publish, Retire, DisableGroup, UpdateEngine,
         SaveSettings, vars
  <1>16. \A h \in Filters : ~AbortWrite(h)
    BY DEF AbortWrite
  <1> QED BY <1>1, <1>2, <1>3, <1>4, <1>5, <1>6, <1>7, <1>8, <1>9, <1>10, <1>11, <1>12,
             <1>13, <1>14, <1>15, <1>16 DEF Next, TaskStep

\* The operation whose write has been committed owes the engine an update.
LEMMA CommitOwes ==
  ASSUME TypeOK, TasksInv, NoRemoval, "enable" \notin Ops,
         NEW f \in Lasting, f \in Filters, CommitWrite(f)
  PROVE  \E t \in Tasks : Owes(task'[t], f)
  <1> DEFINE w == Head(writes[f])
             r == [task[w.task] EXCEPT !.job[f].st = "raw"]
  <1>1. /\ writes[f] \in Seq(Transaction) /\ writes[f] # <<>>
        /\ w \in Transaction /\ w = writes[f][1] /\ 1 \in DOMAIN writes[f]
    BY DEF CommitWrite, TypeOK
  <1>2. /\ w.task \in Tasks /\ task[w.task] \in TaskState /\ TaskShape(task[w.task])
        /\ w.v # 0
    BY <1>1 DEF Transaction, TypeOK, TasksInv, NoRemoval
  <1>3. task[w.task].job[f].st = "write"
    <2>1. Stages(f)[w.task] = "write"
      BY <1>1, <1>2 DEF TasksInv, Consistent
    <2> QED BY <1>2, <2>1 DEF Stages
  <1>4. task[w.task].op \in {"group", "reload", "update"}
    BY <1>2, <1>3, OpsAssumption DEF TaskShape, AllOps
  <1>5. task'[w.task] = r
    BY <1>2 DEF CommitWrite, TypeOK
  <1>6. r.op = task[w.task].op /\ r.job[f].st = "raw"
    BY <1>2 DEF TaskState, TaskRecord, Jobs
  <1> QED BY <1>2, <1>4, <1>5, <1>6 DEF Owes

LEMMA StepEnabledEnters ==
  ASSUME TypeOK, LoadedInv, TasksInv, BehindFirst, NoRemoval, EnabledEnters,
         "storage" \notin Faults, "enable" \notin Ops, [Next]_vars
  PROVE  EnabledEnters'
  <1> USE DEF settings, store, engine, running
  <1>0. /\ engineRuns \in Seq(Run) /\ EnabledFilters \in SUBSET Filters
        /\ Lasting' \subseteq Lasting /\ Lasting \subseteq Filters
    BY LastingShrinks, BundleAssumption DEF TypeOK, EnabledFilters, Lasting
  <1>1. SUFFICES ASSUME NEW f \in Lasting', f \in EnabledFilters', ~engineTimer',
                        ~ \E t \in Tasks : Owes(task'[t], f)
                 PROVE  \/ /\ Fresh'
                           /\ \/ f \in LastOf(engineRuns').unread
                              \/ LastOf(engineRuns').rules[f] = content'[f]
                        \/ ~Fresh' /\ (engineBehind' \/ applied'[f] = content'[f])
    BY DEF EnabledEnters, Entering, LastOf, Owes
  <1>2. f \in Filters /\ f \in Lasting /\ f \in EnabledFilters /\ Entering(f)
    BY <1>0, <1>1, NewlyEnabled DEF EnabledEnters
  <1>3. \A t \in Tasks : ~Restart(t)
    <2>1. ASSUME NEW t \in Tasks, Restart(t)
          PROVE  Owes(task'[t], f)
      <3>1. task'[t] = [IdleTask EXCEPT !.op = "start", !.pc = "obsolete"]
        BY <2>1 DEF Restart
      <3>2. task'[t].op = "start"
        BY <3>1 DEF IdleTask
      <3> QED BY <3>2 DEF Owes
    <2> QED BY <1>1, <2>1
  <1>4. CASE UpdateEngine \/ \E t \in Tasks : StartEngine(t)
    <2>1. engineRuns' = Append(engineRuns, NewRun)
      BY <1>4 DEF UpdateEngine, StartEngine
    <2>2. Fresh' /\ LastOf(engineRuns') = NewRun
      BY <2>1, RunBegins
    <2> QED BY <1>2, <2>2 DEF NewRun
  <1>5. CASE ~ \E t \in Tasks : StartEngine(t)
    <2>1. ~ \E t \in Tasks : Owes(task[t], f)
      BY <1>1, <1>2, <1>3, <1>5, KeepsOwing
    <2>2. CASE RunUpdates
      <3>0. ~engineTimer /\ content' = content
        BY <1>1, <2>2, RunsFrame
      <3>1. PICK i \in DOMAIN engineRuns : EngineStep(i)
        BY <2>2 DEF RunUpdates
      <3>2. CASE Configure(i) \/ UpdateFails(i)
        BY <1>2, <2>1, <3>0, <3>2, RunEnds DEF Entering
      <3>3. CASE \E h \in Filters : ReadRules(i, h)
        <4>1. PICK h \in Filters : ReadRules(i, h)
          BY <3>3
        <4> QED BY <1>2, <2>1, <3>0, <4>1, RunReads DEF Entering
      <3> QED BY <3>1, <3>2, <3>3 DEF EngineStep
    <2>3. CASE EngineWaits
      <3>1. UNCHANGED running /\ ~engineTimer
        BY <1>1, <2>3 DEF EngineWaits
      <3>2. content'[f] = content[f]
        <4>1. ~CommitWrite(f)
          BY <1>1, <1>2, CommitOwes
        <4>2. CASE RulesAlone(f)
          BY <4>2 DEF RulesAlone
        <4>3. CASE \E t \in Tasks : Receive(t, f)
          BY <4>3 DEF Receive
        <4> QED BY <1>2, <1>3, <4>1, <4>2, <4>3, RulesSteps
      <3> QED BY <1>2, <2>1, <3>1, <3>2 DEF Entering, Fresh, LastOf
    <2> QED BY <1>3, <1>4, <1>5, <2>2, <2>3, EngineSteps
  <1> QED BY <1>4, <1>5

\* Whatever was loaded, updated, switched or restarted meanwhile, in any order,
\* once all is quiet the engine runs the stored rules of every filter that lasts
\* and is on, as long as the store takes the writes, unless the engine is left
\* with an update older than one that has ended.  Enabling a filter by
\* itself is left out: it asks for the engine update before the filter is loaded
\* (loadAndEnableFilters is not awaited), and run enable_reaches_engine shows
\* what that does.
THEOREM EnabledReached ==
  ASSUME "storage" \notin Faults, "enable" \notin Ops
  PROVE  Spec => []EnabledIsApplied
  <1>1. Init => BehindFirst /\ NoRemoval /\ EnabledEnters
    BY DEF Init, BehindFirst, NoRemoval, EnabledEnters, EnabledFilters, Lasting
  <1>2. TypeOK /\ BehindFirst /\ [Next]_vars => BehindFirst'
    BY StepBehindFirst
  <1>3. TypeOK /\ LoadedInv /\ TasksInv /\ NoRemoval /\ [Next]_vars => NoRemoval'
    BY StepNoRemoval
  <1>4. /\ TypeOK /\ LoadedInv /\ TasksInv /\ BehindFirst /\ NoRemoval /\ EnabledEnters
        /\ [Next]_vars
        => EnabledEnters'
    BY StepEnabledEnters
  <1>5. NoRemoval /\ EnabledEnters => EnabledIsApplied
    BY DEF EnabledEnters, Entering, Fresh, EnabledIsApplied, Quiescent, Idle, Owes
  <1> QED BY <1>1, <1>2, <1>3, <1>4, <1>5, LoadedInvariant, WritesAreAwaited, PTL DEF Spec
=============================================================================
