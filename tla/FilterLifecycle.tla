--------------------------- MODULE FilterLifecycle ---------------------------
(***************************************************************************)
(* The life of the common (non-custom) filters in the Manifest V2 build:   *)
(* a filter is downloaded, its rules are stored, it is enabled, updated,   *)
(* disabled, and removed when the filter metadata drop or deprecate it;    *)
(* the filtering engine is reconfigured, debounced, after the changes.     *)
(*                                                                         *)
(* The background page is one thread: handlers interleave only where they  *)
(* await.  An operation that awaits is a task; each of its steps is the    *)
(* code between two awaits.  The settings blob (states, versions, groups,  *)
(* metadata) is changed in memory and saved later, by a debounced write;   *)
(* filter rules are written to another store, by transactions that commit  *)
(* in the order they were issued.  `installed' and `loaded' of a filter    *)
(* state are always set and cleared together and are one set here.         *)
(***************************************************************************)
EXTENDS Integers, Sequences

CONSTANTS
    Filters,            \* common filters
    Groups,             \* filter groups
    GroupOf,            \* the group of each filter
    Recommended,        \* filters proposed when a group is first enabled
    BundledMetadata,    \* filters listed by the metadata in the package
    LocalCopies,        \* filters whose rules are in the package
    Tasks,              \* slots for operations in progress (a bound)
    Ops,                \* operations that may be started
    Faults,             \* which of "network", "storage", "crash" may happen
    Retirable,          \* filters the backend may deprecate or drop
    MaxVersion,         \* newest version the backend publishes (a bound)
    MaxRuns,            \* debounced engine updates in progress (a bound)
    NoGroup             \* the group of a task that is not about a group

AllOps == {"enable", "group", "update", "reload"}

ASSUME GroupOfAssumption == GroupOf \in [Filters -> Groups]
ASSUME BundleAssumption == /\ Recommended \subseteq Filters
                           /\ BundledMetadata \subseteq Filters
                           /\ LocalCopies \subseteq Filters
                           /\ Retirable \subseteq Filters
ASSUME BoundAssumption == /\ MaxVersion \in Nat \ {0}
                          /\ MaxRuns \in Nat
ASSUME OpsAssumption == Ops \subseteq AllOps
ASSUME NoGroupAssumption == NoGroup \notin Groups

VARIABLES
    \* --- settings, in memory
    known,          \* filters that have an entry in filterStateStorage
    loaded,         \* ... whose entry says loaded (and installed)
    enabled,        \* ... whose entry says enabled
    version,        \* filterVersionStorage: version of each filter, 0 = no entry
    groupOn,        \* groups whose state says enabled
    touched,        \* groups whose state says touched
    metadata,       \* metadataStorage
    \* --- on disk
    disk,           \* the settings last saved
    content,        \* stored rules of each filter: their version, 0 = none
    moved,          \* deprecated filters re-created as custom filters
    writes,         \* transactions issued on each filter's rules, oldest first
    \* --- running operations
    task,
    \* --- filtering engine
    engineTimer,    \* the debounced update is due
    engineRuns,     \* updates that took their snapshot of the enabled filters
    applied,        \* version of each filter's rules in the engine, 0 = absent
    engineBehind,   \* an update that began later than what is applied has ended
    \* --- the outside world
    backend         \* what the filters server publishes

settings == <<known, loaded, enabled, version, groupOn, touched, metadata>>
store == <<content, writes>>
running == <<engineRuns, applied, engineBehind>>
engine == <<engineTimer, running>>
vars == <<known, loaded, enabled, version, groupOn, touched, metadata, disk,
          content, moved, writes, task, engineTimer, engineRuns, applied,
          engineBehind, backend>>

Versions == 0..MaxVersion

Metadata == [listed : SUBSET Filters, deprecated : SUBSET Filters,
             ver : [Filters -> 1..MaxVersion]]

Jobs == [st : {"none", "fetch", "write", "raw"}, v : Versions, local : BOOLEAN]

TaskRecord == [op : AllOps \union {"none", "start"},
               stage : {"load", "check", "update"},
               pc : {"idle", "metadata", "obsolete", "migrate", "jobs"},
               group : Groups \union {NoGroup},
               want : SUBSET Filters,    \* filters the stage is about
               full : SUBSET Filters,    \* ... those updated without patches
               ready : SUBSET Filters,   \* filters to be enabled without loading
               done : SUBSET Filters,    \* filters the stage has loaded
               moving : SUBSET Filters,  \* deprecated filters being re-created
               job : [Filters -> Jobs]]

TaskState == {r \in TaskRecord : r.op = "group" => r.group \in Groups}

\* An update of the engine: the filters of its snapshot whose rules it has still
\* to read, the rules read, and whether an update that began later has ended.
Run == [unread : SUBSET Filters, rules : [Filters -> Versions], behind : BOOLEAN]

\* A transaction on the rules of a filter: write version v, or remove (v = 0).
Transaction == [task : Tasks, v : Versions]

SettingsBlob == [known : SUBSET Filters, loaded : SUBSET Filters,
                 enabled : SUBSET Filters, version : [Filters -> Versions],
                 groupOn : SUBSET Groups, touched : SUBSET Groups,
                 metadata : Metadata]

NoJob == [st |-> "none", v |-> 0, local |-> FALSE]
Fetch(v, local) == [st |-> "fetch", v |-> v, local |-> local]

IdleTask == [op |-> "none", stage |-> "load", pc |-> "idle", group |-> NoGroup,
             want |-> {}, full |-> {}, ready |-> {}, done |-> {}, moving |-> {},
             job |-> [f \in Filters |-> NoJob]]

Bundle == [listed |-> BundledMetadata, deprecated |-> {},
           ver |-> [f \in Filters |-> 1]]

Settings == [known |-> known, loaded |-> loaded, enabled |-> enabled,
             version |-> version, groupOn |-> groupOn, touched |-> touched,
             metadata |-> metadata]

Idle(t) == task[t].op = "none"
Active(t) == {f \in Filters : task[t].job[f].st # "none"}
Writing(t) == {f \in Filters : \E i \in DOMAIN writes[f] : writes[f][i].task = t}

\* The filters the engine is given: enabled, in an enabled group.
EnabledFilters == {f \in enabled : f \in metadata.listed /\ GroupOf[f] \in groupOn}

-----------------------------------------------------------------------------
\* Just after the first start: every bundled filter is known, none is loaded.
Init ==
    /\ known = BundledMetadata
    /\ loaded = {}
    /\ enabled = {}
    /\ version = [f \in Filters |-> IF f \in BundledMetadata THEN 1 ELSE 0]
    /\ groupOn = {}
    /\ touched = {}
    /\ metadata = Bundle
    /\ disk = Settings
    /\ content = [f \in Filters |-> 0]
    /\ moved = {}
    /\ writes = [f \in Filters |-> <<>>]
    /\ task = [t \in Tasks |-> IdleTask]
    /\ engineTimer = FALSE
    /\ engineRuns = <<>>
    /\ applied = [f \in Filters |-> 0]
    /\ engineBehind = FALSE
    /\ backend = [listed |-> Filters, deprecated |-> {},
                  ver |-> [f \in Filters |-> 1]]

-----------------------------------------------------------------------------
(* Messages from the pages, and the scheduler.                             *)

\* loadAndEnableFilters up to its first await: what is loaded is decided now.
LoadTask(op, S, g) ==
    [IdleTask EXCEPT !.op = op, !.group = g, !.stage = "load",
                     !.pc = IF S \subseteq loaded THEN "jobs" ELSE "metadata",
                     !.want = S \ loaded, !.ready = S \intersect loaded]

\* The handler does not wait for the filter: it asks for an engine update at
\* once, and only when the group is already touched and enabled.
EnableFilter(t, f) ==
    /\ "enable" \in Ops
    /\ Idle(t)
    /\ f \in metadata.listed \ metadata.deprecated
    /\ task' = [task EXCEPT ![t] = LoadTask("enable", {f}, NoGroup)]
    /\ engineTimer' = (engineTimer \/ GroupOf[f] \in touched \intersect groupOn)
    /\ UNCHANGED <<settings, store, disk, moved, running, backend>>

\* Does disabling f concern the engine?
InUntouchedGroup(f) == GroupOf[f] \notin touched     \* mistake: the wrong test
InEnabledGroup(f) == GroupOf[f] \in groupOn

DisableFilter(f) ==
    /\ f \in metadata.listed \ metadata.deprecated
    /\ enabled' = enabled \ {f}
    /\ engineTimer' = (engineTimer \/ InEnabledGroup(f))
    /\ UNCHANGED <<known, loaded, version, groupOn, touched, metadata, store,
                   disk, moved, task, running, backend>>

\* The recommended filters are loaded only on the first activation.
EnableGroup(t, g) ==
    /\ "group" \in Ops
    /\ Idle(t)
    /\ LET first == IF g \in touched THEN {}
                    ELSE {f \in Recommended : /\ GroupOf[f] = g
                                              /\ f \in metadata.listed
                                              /\ f \notin metadata.deprecated}
       IN task' = [task EXCEPT ![t] = LoadTask("group", first, g)]
    /\ UNCHANGED <<settings, store, disk, moved, engine, backend>>

DisableGroup(g) ==
    /\ groupOn' = groupOn \ {g}
    /\ touched' = touched \union {g}
    /\ engineTimer' = TRUE
    /\ UNCHANGED <<known, loaded, enabled, version, metadata, store, disk,
                   moved, task, running, backend>>

\* "Use optimized filters" was switched: load every enabled filter again.
ReloadEnabledFilters(t) ==
    /\ "reload" \in Ops
    /\ Idle(t)
    /\ task' = [task EXCEPT ![t] =
                  [IdleTask EXCEPT !.op = "reload", !.want = EnabledFilters,
                                   !.pc = IF EnabledFilters = {}
                                          THEN "jobs" ELSE "metadata"]]
    /\ UNCHANGED <<settings, store, disk, moved, engine, backend>>

-----------------------------------------------------------------------------
(* Loading a set of filters: updateMetadata, then one job per filter.      *)

\* The jobs of a stage.  An update without patches is started only for a
\* filter whose version is older than the metadata say.
StartJobs(r) ==
    LET due == IF r.stage = "load" THEN r.want
               ELSE {f \in r.want : /\ f \in metadata.listed
                                    /\ f \in r.full => version[f] < metadata.ver[f]}
    IN [r EXCEPT !.pc = "jobs",
                 !.job = [f \in Filters |-> IF f \in due
                                            THEN Fetch(backend.ver[f], FALSE)
                                            ELSE NoJob]]

\* By hand (every enabled filter, without patches) or by the scheduler (those
\* that are due, some of them with patches).  Metadata are refreshed only if
\* some filter is updated without patches.
AutoUpdateFilters(t) ==
    /\ "update" \in Ops
    /\ Idle(t)
    /\ \E S \in SUBSET (EnabledFilters \intersect loaded) \ {{}} :
         \E full \in SUBSET S :
           LET r == [IdleTask EXCEPT !.op = "update", !.stage = "update",
                                     !.want = S, !.full = full, !.pc = "metadata"]
           IN task' = [task EXCEPT ![t] = IF full = {} THEN StartJobs(r) ELSE r]
    /\ UNCHANGED <<settings, store, disk, moved, engine, backend>>

\* Installed filters that metadata m do not list.
Obsolete(s, m) == s.loaded \ m.listed

\* loadFilteringStates and removeObsoleteFilters under metadata m: entries for
\* the filters m lists, none for the loaded ones it does not list; the rules of
\* these are removed from the store.  s is a settings blob.
Reconcile(t, s, m, queue) ==
    LET obsolete == Obsolete(s, m)
    IN /\ metadata' = m
       /\ known' = (s.known \union m.listed) \ obsolete
       /\ loaded' = s.loaded \ obsolete
       /\ enabled' = s.enabled \ obsolete
       /\ version' = [f \in Filters |->
                        IF f \in obsolete THEN 0
                        ELSE IF f \in m.listed /\ s.version[f] = 0 THEN m.ver[f]
                        ELSE s.version[f]]
       /\ groupOn' = s.groupOn
       /\ touched' = s.touched
       /\ writes' = [f \in Filters |->
                       IF f \in obsolete
                       THEN Append(queue[f], [task |-> t, v |-> 0]) ELSE queue[f]]

\* Without the server, a load falls back on the packaged metadata and an update
\* goes on with the metadata it has.
NoMetadata(r) == [metadata EXCEPT !.listed = {}]      \* mistake: with none
FallbackMetadata(r) == IF r.stage = "load" THEN Bundle ELSE metadata

UpdateMetadata(t) ==
    /\ task[t].pc = "metadata"
    /\ \E m \in {backend} \union
            IF "network" \in Faults THEN {FallbackMetadata(task[t])} ELSE {} :
         Reconcile(t, Settings, m, writes)
    /\ task' = [task EXCEPT ![t].pc = "obsolete"]
    /\ UNCHANGED <<disk, content, moved, engine, backend>>

\* Deprecated filters lose their entries and their rules; those the user had
\* enabled are to be created again as custom filters.
MigrateDeprecatedFilters(t) ==
    /\ task[t].pc = "obsolete"
    /\ Writing(t) = {}
    /\ LET gone == loaded \intersect metadata.deprecated \intersect metadata.listed
       IN /\ task' = [task EXCEPT ![t].pc = "migrate",
                                  ![t].moving = gone \intersect EnabledFilters]
          /\ known' = known \ gone
          /\ loaded' = loaded \ gone
          /\ enabled' = enabled \ gone
          /\ version' = [f \in Filters |-> IF f \in gone THEN 0 ELSE version[f]]
          /\ writes' = [f \in Filters |->
                          IF f \in gone
                          THEN Append(writes[f], [task |-> t, v |-> 0]) ELSE writes[f]]
    /\ UNCHANGED <<groupOn, touched, metadata, content, disk, moved, engine, backend>>

\* createFilter for a deprecated filter whose rules have been removed.
CreateCustom(t, f) ==
    /\ task[t].pc = "migrate"
    /\ f \in task[t].moving \ Writing(t)
    /\ task' = [task EXCEPT ![t].moving = @ \ {f}]
    /\ \/ moved' = moved \union {f}
       \/ "network" \in Faults /\ moved' = moved
    /\ UNCHANGED <<settings, store, disk, engine, backend>>

StartLoads(t) ==
    /\ task[t].pc = "migrate"
    /\ task[t].moving = {}
    /\ Writing(t) = {}
    /\ task[t].op # "start"
    /\ task' = [task EXCEPT ![t] = StartJobs(task[t])]
    /\ UNCHANGED <<settings, store, disk, moved, engine, backend>>

\* A failed job of loadFilters is tried once more, from the package.
Retry(r, f) ==
    IF r.stage = "load" /\ ~r.job[f].local /\ f \in LocalCopies
    THEN [r EXCEPT !.job[f] = Fetch(1, TRUE)]
    ELSE [r EXCEPT !.job[f] = NoJob]

\* Fields parsed from the rules' header take precedence over the metadata's.
MetadataVersion(f, v) == metadata.ver[f]              \* mistake: the reverse
NextVersion(f, v) == v + 1                            \* mistake: off by one
RecordedVersion(f, v) == v

\* The rules have arrived: any version published since they were asked for.
\* State and version are set before the rules are written.
Receive(t, f) ==
    LET j == task[t].job[f]
    IN /\ j.st = "fetch"
       /\ known' = known \union {f}
       /\ loaded' = loaded \union {f}
       /\ IF f \in metadata.listed \ metadata.deprecated
          THEN \E v \in IF j.local THEN {1} ELSE j.v..backend.ver[f] :
                 /\ version' = [version EXCEPT ![f] = RecordedVersion(f, v)]
                 /\ writes' = [writes EXCEPT ![f] = Append(@, [task |-> t, v |-> v])]
                 /\ task' = [task EXCEPT ![t].job[f] =
                               [st |-> "write", v |-> v, local |-> j.local]]
          ELSE /\ task' = [task EXCEPT ![t] = Retry(task[t], f)]
               /\ UNCHANGED <<version, writes>>
    /\ UNCHANGED <<enabled, groupOn, touched, metadata, content, disk, moved,
                   engine, backend>>

FetchFails(t, f) ==
    /\ "network" \in Faults
    /\ task[t].job[f].st = "fetch"
    /\ ~task[t].job[f].local
    /\ task' = [task EXCEPT ![t] = Retry(task[t], f)]
    /\ UNCHANGED <<settings, store, disk, moved, engine, backend>>

\* The oldest transaction on f's rules commits: rules stored, or removed.
CommitWrite(f) ==
    /\ writes[f] # <<>>
    /\ LET w == Head(writes[f])
       IN /\ content' = [content EXCEPT ![f] = w.v]
          /\ task' = IF w.v = 0 THEN task
                     ELSE [task EXCEPT ![w.task].job[f].st = "raw"]
    /\ writes' = [writes EXCEPT ![f] = Tail(@)]
    /\ UNCHANGED <<settings, disk, moved, engine, backend>>

\* What the operation may do of an aborted transaction w.  A failed removal
\* throws, and then the filter is not created again by the migration, or only
\* answers false, which remove drops: it passes for done.
Unsettled(w, f) == {task[w.task]}                     \* mistake: it never knows
Rejected(w, f) ==
    IF w.v = 0 THEN {task[w.task], [task[w.task] EXCEPT !.moving = @ \ {f}]}
    ELSE {Retry(task[w.task], f)}

AbortWrite(f) ==
    /\ "storage" \in Faults
    /\ writes[f] # <<>>
    /\ LET w == Head(writes[f])
       IN \E r \in Rejected(w, f) : task' = [task EXCEPT ![w.task] = r]
    /\ writes' = [writes EXCEPT ![f] = Tail(@)]
    /\ UNCHANGED <<settings, content, disk, moved, engine, backend>>

\* The unprocessed text is stored too, and the job is done; or that fails.
WriteRaw(t, f) ==
    /\ task[t].job[f].st = "raw"
    /\ \/ task' = [task EXCEPT ![t].job[f] = NoJob, ![t].done = @ \union {f}]
       \/ "storage" \in Faults /\ task' = [task EXCEPT ![t] = Retry(task[t], f)]
    /\ UNCHANGED <<settings, store, disk, moved, engine, backend>>

-----------------------------------------------------------------------------
(* What each operation does once its jobs have settled.                    *)

Settled(t, stage) ==
    /\ task[t].pc = "jobs"
    /\ task[t].stage = stage
    /\ Active(t) = {}

\* checkForFiltersUpdates on the filters of S: those checked less than five
\* minutes ago are left out.
CheckTask(r, stage, S) ==
    [r EXCEPT !.stage = stage, !.pc = IF S = {} THEN "jobs" ELSE "metadata",
              !.want = S, !.full = S, !.done = {}]

\* The filters enabled after a load.
Requested(r) == r.want \union r.ready                 \* mistake: the failed too
Obtained(r) == r.done \union r.ready

\* enableFilters; then the filters that were loaded before are checked.
AfterLoad(t) ==
    LET r == task[t]
        got == Obtained(r)
    IN /\ Settled(t, "load")
       /\ enabled' = enabled \union (got \intersect known)
       /\ IF r.op = "reload"
          THEN /\ task' = [task EXCEPT ![t] = IdleTask]
               /\ engineTimer' = TRUE
          ELSE /\ \E S \in SUBSET r.ready :
                    task' = [task EXCEPT ![t] =
                               [CheckTask(r, "check", S) EXCEPT !.ready = got]]
               /\ UNCHANGED engineTimer
       /\ UNCHANGED <<known, loaded, version, groupOn, touched, metadata, store,
                      disk, moved, running, backend>>

\* The groups turned on along with the filters of S.
GroupsOff(S) == {GroupOf[f] : f \in S} \ groupOn       \* mistake: all that are off
UntouchedGroups(S) == {GroupOf[f] : f \in S} \ touched

\* A filter was enabled by itself: turn on its group unless it was touched.
EnableUntouchedGroups(t) ==
    LET fresh == UntouchedGroups(task[t].ready \intersect metadata.listed)
    IN /\ Settled(t, "check")
       /\ task[t].op = "enable"
       /\ groupOn' = groupOn \union fresh
       /\ touched' = touched \union fresh
       /\ task' = [task EXCEPT ![t] = IdleTask]
       /\ UNCHANGED <<known, loaded, enabled, version, metadata, store, disk,
                      moved, engine, backend>>

\* A group is being enabled: check its enabled filters first.
CheckGroup(t) ==
    /\ Settled(t, "check")
    /\ task[t].op = "group"
    /\ \E S \in SUBSET {f \in enabled \intersect metadata.listed :
                          GroupOf[f] = task[t].group} :
         task' = [task EXCEPT ![t] = CheckTask(task[t], "update", S)]
    /\ UNCHANGED <<settings, store, disk, moved, engine, backend>>

FinishGroup(t) ==
    /\ Settled(t, "update")
    /\ task[t].op = "group"
    /\ groupOn' = groupOn \union {task[t].group}
    /\ touched' = touched \union {task[t].group}
    /\ engineTimer' = TRUE
    /\ task' = [task EXCEPT ![t] = IdleTask]
    /\ UNCHANGED <<known, loaded, enabled, version, metadata, store, disk,
                   moved, running, backend>>

\* autoUpdateFilters asks for an engine update if some filter was updated.
AnyForced(r) == r.done \intersect r.full # {}          \* mistake: not for patches
AnyUpdated(r) == r.done # {}

FinishUpdate(t) ==
    /\ Settled(t, "update")
    /\ task[t].op = "update"
    /\ engineTimer' = (engineTimer \/ AnyUpdated(task[t]))
    /\ task' = [task EXCEPT ![t] = IdleTask]
    /\ UNCHANGED <<settings, store, disk, moved, running, backend>>

-----------------------------------------------------------------------------
(* The engine.                                                             *)

\* The debounce timer fires: the set of filters is read now, their rules later.
\* Nothing queues the updates: one that began earlier may end later.
NewRun == [unread |-> EnabledFilters, rules |-> [f \in Filters |-> 0], behind |-> FALSE]

UpdateEngine ==
    /\ engineTimer
    /\ Len(engineRuns) < MaxRuns
    /\ engineTimer' = FALSE
    /\ engineRuns' = Append(engineRuns, NewRun)
    /\ UNCHANGED <<settings, store, disk, moved, task, applied, engineBehind, backend>>

\* A filter without stored rules, or whose rules cannot be read, is left out.
ReadRules(i, f) ==
    /\ i \in DOMAIN engineRuns /\ f \in engineRuns[i].unread
    /\ \E v \in {content[f]} \union IF "storage" \in Faults THEN {0} ELSE {} :
          engineRuns' = [engineRuns EXCEPT ![i].unread = @ \ {f}, ![i].rules[f] = v]
    /\ UNCHANGED <<settings, store, disk, moved, task, engineTimer, applied,
                   engineBehind, backend>>

\* Run i ends: those that began before it are behind it.
RunsAfter(i) ==
    [k \in 1..(Len(engineRuns) - 1) |->
        IF k < i THEN [engineRuns[k] EXCEPT !.behind = TRUE] ELSE engineRuns[k + 1]]

Configure(i) ==
    /\ i \in DOMAIN engineRuns /\ engineRuns[i].unread = {}
    /\ applied' = engineRuns[i].rules
    /\ engineBehind' = engineRuns[i].behind
    /\ engineRuns' = RunsAfter(i)
    /\ UNCHANGED <<settings, store, disk, moved, task, engineTimer, backend>>

\* The trusted domains cannot be saved or the user rules not read: the update
\* is given up, and nothing asks for another.
UpdateFails(i) ==
    /\ "storage" \in Faults
    /\ i \in DOMAIN engineRuns /\ engineRuns[i].unread = {}
    /\ engineBehind' = (engineBehind \/ ~engineRuns[i].behind)
    /\ engineRuns' = RunsAfter(i)
    /\ UNCHANGED <<settings, store, disk, moved, task, engineTimer, applied, backend>>

EngineStep(i) ==
    \/ Configure(i) \/ UpdateFails(i) \/ \E f \in Filters : ReadRules(i, f)

RunUpdates == \E i \in DOMAIN engineRuns : EngineStep(i)

-----------------------------------------------------------------------------
(* The settings file, and a stop of the browser.                           *)

\* All marks of a filter are in one blob.
PartOfSettings == [Settings EXCEPT !.loaded = disk.loaded]  \* mistake: they are not
SavedSettings == Settings

\* The debounced save of all settings (unobservable unless a crash may happen).
SaveSettings ==
    /\ "crash" \in Faults
    /\ disk # Settings
    /\ disk' = SavedSettings
    /\ UNCHANGED <<settings, store, moved, task, engine, backend>>

\* Memory, operations and unfinished transactions are lost; the extension
\* starts on the saved settings and stored metadata, in task t.
Restart(t) ==
    /\ "crash" \in Faults
    /\ Reconcile(t, disk, disk.metadata, [f \in Filters |-> <<>>])
    /\ task' = [u \in Tasks |-> IF u = t
                                THEN [IdleTask EXCEPT !.op = "start", !.pc = "obsolete"]
                                ELSE IdleTask]
    /\ engineTimer' = FALSE
    /\ engineRuns' = <<>>
    /\ applied' = [f \in Filters |-> 0]
    /\ engineBehind' = FALSE
    /\ UNCHANGED <<disk, content, moved, backend>>

StartEngine(t) ==
    /\ task[t].pc = "migrate"
    /\ task[t].moving = {}
    /\ Writing(t) = {}
    /\ task[t].op = "start"
    /\ engineRuns' = Append(engineRuns, NewRun)
    /\ task' = [task EXCEPT ![t] = IdleTask]
    /\ UNCHANGED <<settings, store, disk, moved, engineTimer, applied, engineBehind,
                   backend>>

-----------------------------------------------------------------------------
(* The filters server.                                                     *)

Publish(f) ==
    /\ backend.ver[f] < MaxVersion
    /\ backend' = [backend EXCEPT !.ver[f] = @ + 1]
    /\ UNCHANGED <<settings, store, disk, moved, task, engine>>

Retire(f) ==
    /\ f \in Retirable \intersect backend.listed
    /\ \/ f \notin backend.deprecated
          /\ backend' = [backend EXCEPT !.deprecated = @ \union {f}]
       \/ backend' = [backend EXCEPT !.listed = @ \ {f}]
    /\ UNCHANGED <<settings, store, disk, moved, task, engine>>

-----------------------------------------------------------------------------
TaskStep(t) ==
    \/ UpdateMetadata(t) \/ MigrateDeprecatedFilters(t)
    \/ StartLoads(t) \/ StartEngine(t)
    \/ AfterLoad(t) \/ EnableUntouchedGroups(t)
    \/ CheckGroup(t) \/ FinishGroup(t) \/ FinishUpdate(t)
    \/ \E f \in Filters : \/ CreateCustom(t, f) \/ Receive(t, f)
                          \/ FetchFails(t, f) \/ WriteRaw(t, f)

Next ==
    \/ \E t \in Tasks : \/ TaskStep(t) \/ Restart(t)
                        \/ AutoUpdateFilters(t) \/ ReloadEnabledFilters(t)
                        \/ \E f \in Filters : EnableFilter(t, f)
                        \/ \E g \in Groups : EnableGroup(t, g)
    \/ \E f \in Filters : \/ CommitWrite(f) \/ AbortWrite(f) \/ DisableFilter(f)
                          \/ Publish(f) \/ Retire(f)
    \/ \E g \in Groups : DisableGroup(g)
    \/ UpdateEngine \/ RunUpdates \/ SaveSettings

Spec == Init /\ [][Next]_vars

\* Awaited calls return, or throw; transactions commit or abort; the debounce
\* timer fires; the oldest engine update goes on.  Nothing is assumed of the user, the server or the crashes.
Fairness ==
    /\ \A t \in Tasks : WF_vars(TaskStep(t))
    /\ \A f \in Filters : WF_vars(CommitWrite(f) \/ AbortWrite(f))
    /\ WF_vars(UpdateEngine)
    /\ WF_vars(EngineStep(1))

FairSpec == Spec /\ Fairness

-----------------------------------------------------------------------------
(* Properties.                                                             *)

\* Every variable has its type.
TypeOK ==
    /\ known \in SUBSET Filters
    /\ loaded \in SUBSET known
    /\ enabled \in SUBSET known
    /\ version \in [Filters -> Versions]
    /\ groupOn \in SUBSET Groups
    /\ touched \in SUBSET Groups
    /\ metadata \in Metadata
    /\ disk \in SettingsBlob
    /\ disk.loaded \subseteq disk.known
    /\ disk.enabled \subseteq disk.known
    /\ content \in [Filters -> Versions]
    /\ moved \in SUBSET Filters
    /\ writes \in [Filters -> Seq(Transaction)]
    /\ task \in [Tasks -> TaskState]
    /\ engineTimer \in BOOLEAN
    /\ engineRuns \in Seq(Run)
    /\ applied \in [Filters -> Versions]
    /\ engineBehind \in BOOLEAN
    /\ backend \in Metadata

\* Filters that all metadata, from the server and from the package, have always
\* listed and never deprecated: their entries are there to stay.
Lasting == (BundledMetadata \intersect backend.listed) \ backend.deprecated

\* Nothing is running, due or half done.
Quiescent ==
    /\ \A t \in Tasks : Idle(t)
    /\ \A f \in Filters : writes[f] = <<>>
    /\ ~engineTimer
    /\ engineRuns = <<>>

\* A filter is enabled only once its rules were obtained: every operation
\* enables, after its awaits, filters chosen before them (loadAndEnableFilters,
\* reloadEnabledFilters), and none of these may have failed to load or lost its
\* loaded mark meanwhile, nor across a restart on saved settings.
EnabledIsLoaded == enabled \intersect Lasting \subseteq loaded

\* Two operations that load the same filter at once, one having been served an
\* older version, never leave the stored rules and the recorded version apart
\* (loadFilterRulesFromBackend sets the version and issues the write in one
\* step): with no write in flight, the version is that of the rules.
VersionDescribesContent ==
    \A f \in loaded \intersect Lasting :
        writes[f] = <<>> => content[f] = version[f]

\* Enabling a filter never turns on a group the user has turned off, however
\* long the filter took to load (enableGroupsWereNotTouched looks at the group
\* when it acts): only enabling that very group does.
UserOffStays ==
    [][\A g \in touched \ groupOn :
          g \in groupOn' => \E t \in Tasks : task[t].op = "group" /\ task[t].group = g]_vars

\* A filter that lasts never loses its entry: no removal of obsolete or
\* deprecated filters, fallback on packaged metadata or restart drops it.
LastingIsKept == [][\A f \in known \intersect Lasting : f \in known']_vars

\* When all is quiet the engine runs exactly the stored rules of the enabled
\* filters that last, unless it was last configured by an update older than one
\* that has ended (Engine.update is debounced, and its calls overlap).
EnabledIsApplied ==
    Quiescent /\ ~engineBehind =>
        \A f \in EnabledFilters \intersect Lasting : applied[f] = content[f]

\* When all is quiet no filter that the user has switched off, itself or with
\* its group, still has rules in the engine, with the same exception.
DisabledIsNotApplied ==
    Quiescent /\ ~engineBehind => \A f \in Lasting \ EnabledFilters : applied[f] = 0

\* An enabled filter whose deprecation is being handled leaves the migration
\* only as a custom filter.
MigrationKeepsFilter ==
    [][\A t \in Tasks : task[t].moving \ task'[t].moving \subseteq moved']_vars

\* Every operation ends, whatever fails on its way, unless the extension stops.
OperationsEnd ==
    \A t \in Tasks : task[t].op \in AllOps ~> task[t].op \notin AllOps

\* A filter that is switched off leaves the engine, unless it is switched on or
\* an update of the engine fails or is overtaken by an older one.
DisabledLeavesEngine ==
    \A f \in Filters :
        [](f \in Lasting \ EnabledFilters) ~> (applied[f] = 0 \/ engineBehind)
=============================================================================
