---------------------------- MODULE CustomFilters ----------------------------
(* Filters the user adds from an address: creation, the batch that updates  *)
(* them, and removal, interleaved at their awaits.  A task is one handler   *)
(* or timer, an id is counted from CUSTOM_FILTERS_START_ID.  Metadata and   *)
(* state are written at once; the rules are a transaction, settled in the   *)
(* order of issue, the raw copy a later write, and either may fail.  What   *)
(* the engine makes of a request is in FilterLifecycle.                    *)
EXTENDS Naturals, FiniteSets, Sequences

CONSTANTS
    Addresses,        \* customUrl
    CustomTasks,      \* slots of running operations
    MaxId,            \* bound: ids in use
    MaxEdition,       \* bound: editions published of a list
    MaxOperations,    \* bound: operations begun
    NoFilter          \* no metadata, no rules

ASSUME CustomFiltersAssumption ==
    /\ MaxId \in Nat \ {0} /\ MaxEdition \in Nat \ {0} /\ MaxOperations \in Nat
    /\ NoFilter \notin [url : Addresses, ed : 0..MaxEdition]

VARIABLES
    metadata,         \* customFilterMetadataStorage, by id
    filterState,      \* filterStateStorage: "none", "off" or "on"
    rules,            \* the rules stored for an id
    customGroup,      \* groupStateStorage of the group: "untouched", "on" or "off"
    edition,          \* what each address serves
    loading,          \* loadingSubscriptions
    task,             \* the running operations
    begun,            \* how many have begun
    writes,           \* by id, the tasks whose transaction on its rules is open
    lost,             \* history: ids whose last settled transaction failed
    due               \* history: ids whose enabled rules have changed since an engine
                      \* update was last asked for, unless an operation failed for them

stored == <<metadata, filterState, customGroup>>
customVars == <<stored, rules, edition, loading, task, begun, writes, lost, due>>

Ids == 1..MaxId
\* Edition 0 is the empty list a load answers with while another is under way.
Lists == [url : Addresses, ed : 0..MaxEdition]
Jobs == {"none", "begin", "load", "ready", "write", "raw"}
IdleTask == [op |-> "none", url |-> {}, job |-> [i \in Ids |-> "none"],
             list |-> [i \in Ids |-> NoFilter], changed |-> FALSE]
\* list is the metadata an update has read, or what a transaction is to store.
TaskRecord == [op : {"none", "download", "create", "remove", "check", "update"},
               url : {{}} \union {{u} : u \in Addresses},
               job : [Ids -> Jobs], list : [Ids -> Lists \union {NoFilter}],
               changed : BOOLEAN]

Known == {i \in Ids : metadata[i] # NoFilter}
Enabled == {i \in Ids : filterState[i] = "on" /\ customGroup = "on"}
Runs == [i \in Ids |-> IF i \in Enabled THEN rules[i] ELSE NoFilter]
Busy == \E t \in CustomTasks : task[t].op # "none"

Changed == {i \in Ids : Runs'[i] # Runs[i]}

\* debounceUpdate: the update reads what is stored when it runs, or later.
AskUpdate == due' = {}

\* An operation begins; a task is a free slot for one that takes several steps.
BeginOperation == begun < MaxOperations /\ begun' = begun + 1
BeginTask(t) == task[t].op = "none" /\ BeginOperation

\* One job of a batch ends; done is what it leaves to be told to the engine.
EndJob(t, i, done) ==
    task' = [task EXCEPT ![t].job[i] = "none", ![t].list[i] = NoFilter,
                         ![t].changed = @ \/ done]

\* A task asks for a transaction on the rules of an id.
IssueWrite(t, i, list, op, changed) ==
    /\ task' = [task EXCEPT ![t] = [@ EXCEPT !.op = op, !.url = {}, !.changed = changed,
                                            !.job[i] = "write", !.list[i] = list]]
    /\ writes' = [writes EXCEPT ![i] = Append(@, t)]

CustomInit ==
    /\ metadata = [i \in Ids |-> NoFilter] /\ rules = [i \in Ids |-> NoFilter]
    /\ filterState = [i \in Ids |-> "none"] /\ customGroup = "untouched"
    /\ edition = [u \in Addresses |-> 1] /\ loading = {}
    /\ task = [t \in CustomTasks |-> IdleTask] /\ begun = 0 /\ writes = [i \in Ids |-> <<>>]
    /\ lost = {} /\ due = {}

-----------------------------------------------------------------------------
(* createFilter *)

\* genFilterId: one more than the highest id in use.
NextByCount == Cardinality(Known) + 1            \* mistake: one more than their number
GenFilterId ==
    IF Known = {} THEN 1 ELSE (CHOOSE i \in Known : \A j \in Known : j <= i) + 1

CreateFilter(t, u) ==
    /\ BeginTask(t) /\ u \notin loading
    /\ loading' = loading \union {u}
    /\ task' = [task EXCEPT ![t].op = "download", ![t].url = {u}]
    /\ UNCHANGED <<stored, rules, edition, writes, lost, due>>

\* Downloaded: the id, the metadata, the version and the state are one step.
AddFilter(t, list) ==
    /\ GenFilterId <= MaxId
    /\ metadata' = [metadata EXCEPT ![GenFilterId] = list]
    /\ filterState' = [filterState EXCEPT ![GenFilterId] = "on"]
    /\ IssueWrite(t, GenFilterId, list, "create", FALSE)
    /\ UNCHANGED <<rules, customGroup, edition, lost>>
    /\ due' = due \union Changed

StoreFilter(t) ==
    /\ task[t].op = "download"
    /\ \E u \in task[t].url : /\ AddFilter(t, [url |-> u, ed |-> edition[u]])
                              /\ loading' = loading \ {u}
    /\ UNCHANGED begun

\* The address is loading already: the list is taken to be empty.
StoreEmpty(t, u) ==
    /\ BeginTask(t) /\ u \in loading
    /\ AddFilter(t, [url |-> u, ed |-> 0])
    /\ UNCHANGED loading

\* The load fails, or its time is over while it goes on.
DownloadFails(t) ==
    /\ task[t].op = "download"
    /\ loading' \in {loading, loading \ task[t].url}
    /\ task' = [task EXCEPT ![t] = IdleTask]
    /\ UNCHANGED <<stored, rules, edition, begun, writes, lost, due>>

AwaitedBy(t, u) ==
    \/ task[t].op = "download" /\ u \in task[t].url
    \/ \E i \in Ids : task[t].job[i] = "load" /\ task[t].list[i].url = u

\* A load nobody waits for any more ends.
LateLoad(u) ==
    /\ u \in loading /\ \A t \in CustomTasks : ~AwaitedBy(t, u)
    /\ loading' = loading \ {u}
    /\ UNCHANGED <<stored, rules, edition, begun, task, writes, lost, due>>

\* The raw copy is written: the group is turned on if it never was.
FinishCreate(t) ==
    /\ task[t].op = "create" /\ \E i \in Ids : task[t].job[i] = "raw"
    /\ customGroup' = IF customGroup = "untouched" THEN "on" ELSE customGroup
    /\ task' = [task EXCEPT ![t] = IdleTask]
    /\ UNCHANGED <<metadata, filterState, rules, edition, begun, loading, writes, lost>>
    /\ AskUpdate

-----------------------------------------------------------------------------
(* removeFilter, and the switches of a filter and the group *)

EnabledAfter(i) == FALSE                         \* mistake: looked up after the deletion
WasEnabled(i) == filterState[i] = "on"

StateLeft(i) == filterState                      \* mistake: the state is left behind
StateDeleted(i) == [filterState EXCEPT ![i] = "none"]

RemoveFilter(t, i) ==
    /\ BeginTask(t) /\ i \in Known
    /\ metadata' = [metadata EXCEPT ![i] = NoFilter]
    /\ filterState' = StateDeleted(i)
    /\ IssueWrite(t, i, NoFilter, "remove", WasEnabled(i))
    /\ UNCHANGED <<rules, customGroup, edition, loading, lost>>
    /\ due' = due \union Changed

FinishRemove(t) ==
    /\ task[t].op = "remove" /\ \E i \in Ids : task[t].job[i] = "raw"
    /\ task' = [task EXCEPT ![t] = IdleTask]
    /\ UNCHANGED <<stored, rules, edition, begun, loading, writes, lost>>
    /\ IF task[t].changed THEN AskUpdate ELSE UNCHANGED due

SwitchFilter(i) ==
    /\ BeginOperation /\ filterState[i] # "none"
    /\ filterState' = [filterState EXCEPT ![i] = IF @ = "on" THEN "off" ELSE "on"]
    /\ UNCHANGED <<metadata, rules, customGroup, edition, loading, task, writes, lost>>
    /\ IF customGroup = "on" THEN AskUpdate ELSE UNCHANGED due

SwitchCustomGroup ==
    /\ BeginOperation
    /\ customGroup' = IF customGroup = "on" THEN "off" ELSE "on"
    /\ UNCHANGED <<metadata, filterState, rules, edition, loading, task, writes, lost>>
    /\ AskUpdate

-----------------------------------------------------------------------------
(* updateFilters: all are checked, then those that need it are updated.  A  *)
(* job reads the metadata, waits for the raw copy, then loads.             *)

UpdateFilters(t) ==
    /\ BeginTask(t) /\ Known # {}
    /\ task' = [task EXCEPT ![t] = [IdleTask EXCEPT
                  !.op = "check", !.list = metadata,
                  !.job = [i \in Ids |-> IF i \in Known THEN "begin" ELSE "none"]]]
    /\ UNCHANGED <<stored, rules, edition, loading, writes, lost, due>>

BeginLoad(t, i) ==
    /\ task[t].job[i] = "begin" /\ task[t].list[i].url \notin loading
    /\ loading' = loading \union {task[t].list[i].url}
    /\ task' = [task EXCEPT ![t].job[i] = "load"]
    /\ UNCHANGED <<stored, rules, edition, begun, writes, lost, due>>

\* isFilterNeedUpdate: the empty list has no version, and a checksum of its own.
Outdated(list, ed) == IF ed = 0 THEN list.ed # 0 ELSE ed > list.ed

\* The batch has an answer for one filter: updateFilterData, if it is a second
\* one, stores it with the metadata read before the load.
TakeList(t, i, ed) ==
    LET list == task[t].list[i] new == [list EXCEPT !.ed = ed] IN
    /\ \/ /\ ~Outdated(list, ed) /\ EndJob(t, i, FALSE)
          /\ UNCHANGED <<metadata, writes>>
       \/ /\ Outdated(list, ed) /\ task[t].op = "check"
          /\ task' = [task EXCEPT ![t].job[i] = "ready", ![t].list[i] = NoFilter]
          /\ UNCHANGED <<metadata, writes>>
       \/ /\ Outdated(list, ed) /\ task[t].op = "update"
          /\ metadata' = [metadata EXCEPT ![i] = new]
          /\ IssueWrite(t, i, new, "update", task[t].changed)
    /\ UNCHANGED <<rules, filterState, customGroup, edition, begun, lost, due>>

TakeLoaded(t, i) ==
    /\ task[t].job[i] = "load"
    /\ loading' = loading \ {task[t].list[i].url}
    /\ TakeList(t, i, edition[task[t].list[i].url])

TakeEmpty(t, i) ==
    /\ task[t].job[i] = "begin" /\ task[t].list[i].url \in loading
    /\ TakeList(t, i, 0)
    /\ UNCHANGED loading

\* The raw copy cannot be read, the load fails, or its time is over.
LoadFails(t, i) ==
    \/ task[t].job[i] \in {"begin", "load"} /\ UNCHANGED loading
    \/ task[t].job[i] = "load" /\ loading' = loading \ {task[t].list[i].url}

\* Promise.all: one check that fails ends the whole batch, not its loads.
CheckFails(t, i) ==
    /\ task[t].op = "check" /\ LoadFails(t, i)
    /\ task' = [task EXCEPT ![t] = IdleTask]
    /\ UNCHANGED <<stored, rules, edition, begun, writes, lost, due>>

\* updateFilter reads the metadata again, and downloads again.
StartUpdates(t) ==
    /\ task[t].op = "check" /\ \A i \in Ids : task[t].job[i] \in {"none", "ready"}
    /\ LET again == {i \in Known : task[t].job[i] = "ready"} IN
          task' = [task EXCEPT ![t] = [IdleTask EXCEPT !.op = "update",
                     !.job = [i \in Ids |-> IF i \in again THEN "begin" ELSE "none"],
                     !.list = [i \in Ids |-> IF i \in again THEN metadata[i] ELSE NoFilter]]]
    /\ UNCHANGED <<stored, rules, edition, begun, loading, writes, lost, due>>

UpdateFails(t, i) ==
    /\ task[t].op = "update" /\ LoadFails(t, i)
    /\ EndJob(t, i, FALSE)
    /\ UNCHANGED <<stored, rules, edition, begun, writes, lost, due>>

\* The raw copy is written: the filter counts as updated.
StoreRaw(t, i) ==
    /\ task[t].op = "update" /\ task[t].job[i] = "raw"
    /\ EndJob(t, i, TRUE)
    /\ UNCHANGED <<stored, rules, edition, begun, loading, writes, lost, due>>

FinishUpdates(t) ==
    /\ task[t].op = "update" /\ \A i \in Ids : task[t].job[i] = "none"
    /\ task' = [task EXCEPT ![t] = IdleTask]
    /\ UNCHANGED <<stored, rules, edition, begun, loading, writes, lost>>
    /\ IF task[t].changed THEN AskUpdate ELSE UNCHANGED due

-----------------------------------------------------------------------------
(* The transactions on the rules, and the raw copy *)

ToRaw(t, i) == task' = [task EXCEPT ![t].job[i] = "raw", ![t].list[i] = NoFilter]

\* An operation fails for a filter: only a batch goes on.
FailsFor(t, i) ==
    /\ \/ task[t].op = "update" /\ EndJob(t, i, FALSE)
       \/ task[t].op # "update" /\ task' = [task EXCEPT ![t] = IdleTask]
    /\ due' = due \ {i}

CommitWrite(i) ==
    /\ writes[i] # <<>>
    /\ rules' = [rules EXCEPT ![i] = task[Head(writes[i])].list[i]]
    /\ ToRaw(Head(writes[i]), i)
    /\ writes' = [writes EXCEPT ![i] = Tail(@)] /\ lost' = lost \ {i}
    /\ UNCHANGED <<stored, edition, begun, loading>>
    /\ due' = due \union Changed

\* A removal may not even notice.
RefuseWrite(i) ==
    /\ writes[i] # <<>>
    /\ \/ FailsFor(Head(writes[i]), i)
       \/ task[Head(writes[i])].op = "remove" /\ ToRaw(Head(writes[i]), i) /\ UNCHANGED due
    /\ writes' = [writes EXCEPT ![i] = Tail(@)] /\ lost' = lost \union {i}
    /\ UNCHANGED <<stored, rules, edition, begun, loading>>

RawFails(t, i) ==
    /\ task[t].job[i] = "raw"
    /\ FailsFor(t, i)
    /\ UNCHANGED <<stored, rules, edition, begun, loading, writes, lost>>

-----------------------------------------------------------------------------
PublishEdition(u) ==
    /\ edition[u] < MaxEdition
    /\ edition' = [edition EXCEPT ![u] = @ + 1]
    /\ UNCHANGED <<stored, rules, begun, loading, task, writes, lost, due>>

TaskStep(t) ==
    \/ StoreFilter(t) \/ DownloadFails(t) \/ FinishCreate(t) \/ FinishRemove(t)
    \/ UpdateFilters(t) \/ StartUpdates(t) \/ FinishUpdates(t)
    \/ \E u \in Addresses : CreateFilter(t, u) \/ StoreEmpty(t, u)
    \/ \E i \in Ids : \/ BeginLoad(t, i) \/ TakeLoaded(t, i) \/ TakeEmpty(t, i)
                      \/ CheckFails(t, i) \/ UpdateFails(t, i) \/ StoreRaw(t, i)
                      \/ RawFails(t, i) \/ RemoveFilter(t, i)

CustomNext ==
    \/ \E t \in CustomTasks : TaskStep(t)
    \/ \E i \in Ids : CommitWrite(i) \/ RefuseWrite(i) \/ SwitchFilter(i)
    \/ \E u \in Addresses : PublishEdition(u) \/ LateLoad(u)
    \/ SwitchCustomGroup

CustomSpec == CustomInit /\ [][CustomNext]_customVars

-----------------------------------------------------------------------------
CustomTypeOK ==
    /\ metadata \in [Ids -> Lists \union {NoFilter}]
    /\ rules \in [Ids -> Lists \union {NoFilter}]
    /\ filterState \in [Ids -> {"none", "off", "on"}]
    /\ customGroup \in {"untouched", "on", "off"}
    /\ edition \in [Addresses -> 1..MaxEdition] /\ loading \subseteq Addresses
    /\ task \in [CustomTasks -> TaskRecord] /\ begun \in 0..MaxOperations
    /\ writes \in [Ids -> Seq(CustomTasks)] /\ lost \subseteq Ids /\ due \subseteq Ids

(* Whatever a creation or an update that is still on its way does to it, a  *)
(* filter that can be switched on is described by metadata; and once no     *)
(* transaction on its rules is open, the rules stored are the edition the   *)
(* metadata name, unless the last transaction failed.                      *)
SwitchableIsDescribed ==
    \A i \in Ids :
        /\ filterState[i] # "none" => metadata[i] # NoFilter
        /\ writes[i] = <<>> /\ i \notin lost => rules[i] = metadata[i]

(* A new filter never takes the id of another that is there, also if both   *)
(* were downloading at once or filters were removed meanwhile.             *)
NewIdIsFree ==
    [][\A t \in CustomTasks :
          (StoreFilter(t) \/ \E u \in Addresses : StoreEmpty(t, u)) =>
              \E i \in Ids : metadata[i] = NoFilter /\ filterState[i] = "none"
                             /\ filterState'[i] = "on"]_customVars

(* Once no operation is running, an engine update has been asked for after  *)
(* the last change to the rules of any enabled filter, however operations   *)
(* overlapped: no change waits for the next one to be applied.  Only what   *)
(* an operation that failed has changed may do so.                         *)
EngineIsTold == ~Busy => due = {}
=============================================================================
