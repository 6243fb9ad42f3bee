-------------------------- MODULE UserFiltersProofs --------------------------
(* The filters a user makes: the custom filters he adds, for any number of  *)
(* operations that run at once, of ids and of editions; and the list of his *)
(* own rules, for any text and any number of saves that overlap: what the   *)
(* debounced save, the saves in flight and the text fetched after them owe  *)
(* to the clicks.                                                          *)
EXTENDS CustomFilters, UserRulesPage, WellFoundedInduction, TLAPS

-----------------------------------------------------------------------------
(* CUSTOM FILTERS                                                          *)

-----------------------------------------------------------------------------
(* The highest id. *)

\* The order of the natural numbers is well founded.
LEMMA Least ==
  ASSUME NEW T \in SUBSET Nat, T # {}
  PROVE  \E x \in T : \A y \in T : x <= y
  <1>1. PICK x \in T : \A y \in T : <<y, x>> \notin OpToRel(<, Nat)
    BY NatLessThanWellFounded, WFMin
  <1>2. \A a, b \in Nat : <<a, b>> \in OpToRel(<, Nat) <=> a < b
    BY DEF OpToRel
  <1>3. \A y \in T : ~(y < x)
    BY <1>1, <1>2
  <1>4. QED
    BY <1>3

LEMMA Highest ==
  ASSUME NEW n \in Nat, NEW T \in SUBSET (1..n), T # {}
  PROVE  \E x \in T : \A y \in T : y <= x
  <1> DEFINE D == {n - i : i \in T}
  <1>1. \A i \in T : i \in Nat /\ n - i \in Nat
    OBVIOUS
  <1>2. D \in SUBSET Nat
    BY <1>1
  <1>3. D # {}
    OBVIOUS
  <1> HIDE DEF D
  <1>4. PICK d \in D : \A y \in D : d <= y
    BY <1>2, <1>3, Least
  <1>5. PICK x \in T : d = n - x
    BY <1>4 DEF D
  <1>6. \A y \in T : n - x <= n - y
    BY <1>4, <1>5 DEF D
  <1>7. QED
    BY <1>1, <1>6

\* The id of a new filter is one that no filter has.
LEMMA NewId ==
  /\ GenFilterId \in Nat \ {0} /\ GenFilterId \notin Known
  /\ GenFilterId <= MaxId => GenFilterId \in Ids /\ metadata[GenFilterId] = NoFilter
  <1>0. MaxId \in Nat \ {0} /\ Known \in SUBSET (1..MaxId)
    BY CustomFiltersAssumption DEF Known, Ids
  <1>1. CASE Known = {}
    BY <1>0, <1>1 DEF GenFilterId, Ids, Known
  <1>2. CASE Known # {}
    <2> DEFINE top == CHOOSE i \in Known : \A j \in Known : j <= i
    <2>1. \E i \in Known : \A j \in Known : j <= i
      BY <1>0, <1>2, Highest
    <2>2. top \in Known /\ \A j \in Known : j <= top
      BY <2>1
    <2>3. GenFilterId = top + 1
      BY <1>2 DEF GenFilterId
    <2> HIDE DEF top
    <2>4. GenFilterId \in Nat \ {0} /\ GenFilterId \notin Known
      BY <1>0, <2>2, <2>3
    <2>5. QED
      BY <1>0, <2>4 DEF Ids, Known
  <1>3. QED
    BY <1>1, <1>2

-----------------------------------------------------------------------------
(* The inductive invariant. *)

\* What a task may look like: only an operation that stores has a transaction
\* or a raw copy to wait for, and a creation or a removal has one of them.
TaskOK(r) ==
    /\ r \in TaskRecord
    /\ \A i \in Ids : r.job[i] \in {"begin", "load"} => r.list[i] \in Lists
    /\ \A i \in Ids : r.job[i] \in {"write", "raw"} => r.op \in {"create", "remove", "update"}
    /\ \A i \in Ids : r.job[i] # "none" => r.op \notin {"none", "download"}
    /\ r.op \in {"create", "remove"} =>
          \A i, j \in Ids : r.job[i] # "none" /\ r.job[j] # "none" => i = j

\* The open transactions on an id are of different tasks, which wait for them.
QueueOK(i) ==
    /\ \A n \in 1..Len(writes[i]) : task[writes[i][n]].job[i] = "write"
    /\ \A m, n \in 1..Len(writes[i]) : writes[i][m] = writes[i][n] => m = n

\* The last of them stores what the metadata name.
LastIsNamed(i) ==
    writes[i] # <<>> => task[writes[i][Len(writes[i])]].list[i] = metadata[i]

\* If the id has been given again, a creation is behind the removal.
IsRecreated(i) ==
    filterState[i] # "none" =>
        \A n \in 1..Len(writes[i]) : task[writes[i][n]].op = "remove" =>
            \E m \in 1..Len(writes[i]) : m > n /\ task[writes[i][m]].op = "create"

\* An operation will ask for an engine update after a change to an id.
Owes(r, i) ==
    \/ r.op = "create" /\ r.job[i] \in {"write", "raw"}
    \/ r.op = "remove" /\ r.changed /\ r.job[i] \in {"write", "raw"}
    \/ r.op = "update" /\ (r.changed \/ r.job[i] = "raw")

DueIsOwed == \A i \in due : \E t \in CustomTasks : Owes(task[t], i)

QueuesOK == \A i \in Ids : QueueOK(i) /\ LastIsNamed(i) /\ IsRecreated(i)

CustomInv ==
    /\ CustomTypeOK /\ \A t \in CustomTasks : TaskOK(task[t])
    /\ QueuesOK /\ SwitchableIsDescribed /\ DueIsOwed

LEMMA NoList == NoFilter \notin Lists
  BY CustomFiltersAssumption DEF Lists

LEMMA IdleIsOK ==
  TaskOK(IdleTask) /\ IdleTask.op = "none" /\ \A i \in Ids : IdleTask.job[i] = "none"
  <1>1. /\ IdleTask.op = "none" /\ IdleTask.job = [i \in Ids |-> "none"]
        /\ IdleTask.list = [i \in Ids |-> NoFilter]
    BY DEF IdleTask
  <1>2. IdleTask \in TaskRecord
    BY DEF IdleTask, TaskRecord, Jobs
  <1>3. QED
    BY <1>1, <1>2 DEF TaskOK

-----------------------------------------------------------------------------
(* How a task goes on. *)

\* A task becomes r and keeps the transactions it waits for.
Keeps(t, r) ==
    /\ task' = [task EXCEPT ![t] = r] /\ TaskOK(r)
    /\ \A i \in Ids : task[t].job[i] = "write" =>
          r.job[i] = "write" /\ r.list[i] = task[t].list[i] /\ r.op = task[t].op

LEMMA TaskBecomes ==
  ASSUME CustomTypeOK, \A s \in CustomTasks : TaskOK(task[s]),
         NEW t \in CustomTasks, NEW r, TaskOK(r), task' = [task EXCEPT ![t] = r]
  PROVE  /\ task' \in [CustomTasks -> TaskRecord]
         /\ \A s \in CustomTasks : TaskOK(task'[s])
         /\ task'[t] = r /\ \A s \in CustomTasks \ {t} : task'[s] = task[s]
  <1>1. r \in TaskRecord
    BY DEF TaskOK
  <1>2. task \in [CustomTasks -> TaskRecord]
    BY DEF CustomTypeOK
  <1>3. task'[t] = r /\ \A s \in CustomTasks \ {t} : task'[s] = task[s]
    BY <1>2
  <1>4. \A s \in CustomTasks : TaskOK(task'[s])
    BY <1>3
  <1>5. QED
    BY <1>1, <1>2, <1>3, <1>4

\* Nothing but tasks and what is due changes.
LEMMA TaskGoesOn ==
  ASSUME CustomInv, NEW t \in CustomTasks, NEW r, Keeps(t, r),
         UNCHANGED <<metadata, filterState, rules, writes, lost>>,
         due' \in SUBSET due, \A i \in due' : Owes(task[t], i) => Owes(r, i)
  PROVE  /\ task' \in [CustomTasks -> TaskRecord]
         /\ \A s \in CustomTasks : TaskOK(task'[s])
         /\ QueuesOK' /\ SwitchableIsDescribed' /\ DueIsOwed'
  <1>1. /\ task' \in [CustomTasks -> TaskRecord]
        /\ \A s \in CustomTasks : TaskOK(task'[s])
        /\ task'[t] = r /\ \A s \in CustomTasks \ {t} : task'[s] = task[s]
    BY TaskBecomes DEF CustomInv, Keeps
  <1>2. ASSUME NEW i \in Ids, NEW n \in 1..Len(writes[i])
        PROVE  LET s == writes[i][n] IN
               /\ s \in CustomTasks /\ task[s].job[i] = "write" /\ task'[s].job[i] = "write"
               /\ task'[s].list[i] = task[s].list[i] /\ task'[s].op = task[s].op
    <2>1. writes[i][n] \in CustomTasks
      BY DEF CustomInv, CustomTypeOK
    <2>2. task[writes[i][n]].job[i] = "write"
      BY DEF CustomInv, QueuesOK, QueueOK
    <2>3. QED  BY <1>1, <2>1, <2>2 DEF Keeps
  <1>3. QueuesOK'
    <2>1. SUFFICES ASSUME NEW i \in Ids PROVE (QueueOK(i) /\ LastIsNamed(i) /\ IsRecreated(i))'
      BY DEF QueuesOK
    <2>2. QueueOK(i) /\ LastIsNamed(i) /\ IsRecreated(i) /\ writes'[i] = writes[i]
      BY DEF CustomInv, QueuesOK
    <2>3. QueueOK(i)'
      BY <1>2, <2>2 DEF QueueOK
    <2>4. LastIsNamed(i)'
      <3>1. writes[i] # <<>> => Len(writes[i]) \in 1..Len(writes[i])
        BY DEF CustomInv, CustomTypeOK
      <3>2. QED  BY <1>2, <2>2, <3>1 DEF LastIsNamed
    <2>5. IsRecreated(i)'
      BY <1>2, <2>2 DEF IsRecreated
    <2>6. QED  BY <2>3, <2>4, <2>5
  <1>4. SwitchableIsDescribed'
    BY DEF CustomInv, SwitchableIsDescribed
  <1>5. DueIsOwed'
    <2>1. SUFFICES ASSUME NEW i \in due' PROVE \E s \in CustomTasks : Owes(task'[s], i)
      BY DEF DueIsOwed, Owes
    <2>2. PICK s \in CustomTasks : Owes(task[s], i)
      BY DEF CustomInv, DueIsOwed
    <2>3. Owes(task'[s], i)
      BY <1>1, <2>2
    <2>4. QED  BY <2>3
  <1>6. QED
    BY <1>1, <1>3, <1>4, <1>5

\* A task asks for the transaction that stores what the metadata now name.
LEMMA TaskIssues ==
  ASSUME CustomInv, NEW t \in CustomTasks, NEW r, Keeps(t, r), NEW i \in Ids,
         task[t].job[i] # "write", r.job[i] = "write",
         NEW list \in Lists \union {NoFilter}, r.list[i] = list,
         metadata' = [metadata EXCEPT ![i] = list],
         writes' = [writes EXCEPT ![i] = Append(@, t)], UNCHANGED <<rules, lost>>,
         \/ r.op = "create" /\ list # NoFilter /\ filterState' = [filterState EXCEPT ![i] = "on"]
         \/ r.op = "remove" /\ filterState' = [filterState EXCEPT ![i] = "none"]
         \/ r.op = "update" /\ list # NoFilter /\ UNCHANGED filterState,
         \A j \in due : Owes(task[t], j) => Owes(r, j),
         \A j \in due' : j \in due \/ (j = i /\ Owes(r, i))
  PROVE  /\ task' \in [CustomTasks -> TaskRecord]
         /\ \A s \in CustomTasks : TaskOK(task'[s])
         /\ metadata' \in [Ids -> Lists \union {NoFilter}]
         /\ filterState' \in [Ids -> {"none", "off", "on"}]
         /\ writes' \in [Ids -> Seq(CustomTasks)]
         /\ QueuesOK' /\ SwitchableIsDescribed' /\ DueIsOwed'
  <1>1. /\ task' \in [CustomTasks -> TaskRecord]
        /\ \A s \in CustomTasks : TaskOK(task'[s])
        /\ task'[t] = r /\ \A s \in CustomTasks \ {t} : task'[s] = task[s]
    BY TaskBecomes DEF CustomInv, Keeps
  <1>2. /\ metadata' \in [Ids -> Lists \union {NoFilter}]
        /\ filterState' \in [Ids -> {"none", "off", "on"}]
        /\ writes' \in [Ids -> Seq(CustomTasks)]
        /\ writes \in [Ids -> Seq(CustomTasks)]
    <2>1. /\ metadata \in [Ids -> Lists \union {NoFilter}]
          /\ filterState \in [Ids -> {"none", "off", "on"}]
          /\ writes \in [Ids -> Seq(CustomTasks)]
      BY DEF CustomInv, CustomTypeOK
    <2>2. Append(writes[i], t) \in Seq(CustomTasks)
      BY <2>1
    <2>3. writes' \in [Ids -> Seq(CustomTasks)]
      BY <2>1, <2>2
    <2>4. metadata' \in [Ids -> Lists \union {NoFilter}]
      BY <2>1
    <2>5. filterState' \in [Ids -> {"none", "off", "on"}]
      BY <2>1
    <2>6. QED  BY <2>1, <2>3, <2>4, <2>5
  <1>3. ASSUME NEW j \in Ids, NEW n \in 1..Len(writes[j])
        PROVE  LET s == writes[j][n] IN
               /\ s \in CustomTasks /\ task[s].job[j] = "write" /\ task'[s].job[j] = "write"
               /\ task'[s].list[j] = task[s].list[j] /\ task'[s].op = task[s].op
               /\ j = i => s # t
    <2>1. writes[j][n] \in CustomTasks
      BY <1>2
    <2>2. task[writes[j][n]].job[j] = "write"
      BY DEF CustomInv, QueuesOK, QueueOK
    <2>3. QED  BY <1>1, <2>1, <2>2 DEF Keeps
  <1>4. /\ Len(writes'[i]) = Len(writes[i]) + 1 /\ writes'[i][Len(writes[i]) + 1] = t
        /\ \A n \in 1..Len(writes[i]) : writes'[i][n] = writes[i][n]
        /\ Len(writes[i]) \in Nat
    BY <1>2
  <1>5. \A j \in Ids \ {i} : /\ writes'[j] = writes[j] /\ metadata'[j] = metadata[j]
                             /\ filterState'[j] = filterState[j]
    BY <1>2 DEF CustomInv, CustomTypeOK
  <1>6. metadata'[i] = list
    BY DEF CustomInv, CustomTypeOK
  <1>7. ASSUME NEW j \in Ids \ {i} PROVE (QueueOK(j) /\ LastIsNamed(j) /\ IsRecreated(j))'
    <2>1. QueueOK(j) /\ LastIsNamed(j) /\ IsRecreated(j)
      BY DEF CustomInv, QueuesOK
    <2>2. QueueOK(j)'
      BY <1>3, <1>5, <2>1 DEF QueueOK
    <2>3. LastIsNamed(j)'
      <3>1. writes[j] # <<>> => Len(writes[j]) \in 1..Len(writes[j])
        BY <1>2
      <3>2. QED  BY <1>3, <1>5, <2>1, <3>1 DEF LastIsNamed
    <2>4. IsRecreated(j)'
      BY <1>3, <1>5, <2>1 DEF IsRecreated
    <2>5. QED  BY <2>2, <2>3, <2>4
  <1>8. QueueOK(i)'
    <2>1. QueueOK(i)
      BY DEF CustomInv, QueuesOK
    <2>2. \A n \in 1..Len(writes'[i]) : n \in 1..Len(writes[i]) \/ n = Len(writes[i]) + 1
      BY <1>4
    <2>3. \A n \in 1..Len(writes'[i]) : task'[writes'[i][n]].job[i] = "write"
      BY <1>1, <1>3, <1>4, <2>2
    <2>4. \A m, n \in 1..Len(writes'[i]) : writes'[i][m] = writes'[i][n] => m = n
      BY <1>3, <1>4, <2>1, <2>2 DEF QueueOK
    <2>5. QED  BY <2>3, <2>4 DEF QueueOK
  <1>9. LastIsNamed(i)'
    BY <1>1, <1>4, <1>6 DEF LastIsNamed
  <1>10. IsRecreated(i)'
    <2>1. SUFFICES ASSUME filterState'[i] # "none", NEW n \in 1..Len(writes'[i]),
                          task'[writes'[i][n]].op = "remove"
                   PROVE  \E m \in 1..Len(writes'[i]) :
                              m > n /\ task'[writes'[i][m]].op = "create"
      BY DEF IsRecreated
    <2>2. r.op # "remove"
      BY <2>1 DEF CustomInv, CustomTypeOK
    <2>3. n \in 1..Len(writes[i]) /\ task[writes[i][n]].op = "remove"
      <3>1. n # Len(writes[i]) + 1
        BY <1>1, <1>4, <2>1, <2>2
      <3>2. n \in 1..Len(writes[i])
        BY <1>4, <3>1
      <3>3. QED  BY <1>3, <1>4, <2>1, <3>2
    <2>4. CASE r.op = "create"
      BY <1>1, <1>4, <2>3, <2>4
    <2>5. CASE r.op = "update"
      <3>1. filterState[i] # "none"
        BY <2>1, <2>5
      <3>2. PICK m \in 1..Len(writes[i]) : m > n /\ task[writes[i][m]].op = "create"
        BY <2>3, <3>1 DEF CustomInv, QueuesOK, IsRecreated
      <3>3. m \in 1..Len(writes'[i]) /\ task'[writes'[i][m]].op = "create"
        BY <1>3, <1>4, <3>2
      <3>4. QED  BY <3>2, <3>3
    <2>6. QED  BY <2>2, <2>4, <2>5
  <1>11. SwitchableIsDescribed'
    <2>1. SUFFICES ASSUME NEW j \in Ids
                   PROVE  /\ filterState'[j] # "none" => metadata'[j] # NoFilter
                          /\ writes'[j] = <<>> /\ j \notin lost' => rules'[j] = metadata'[j]
      BY DEF SwitchableIsDescribed
    <2>2. CASE j = i
      <3>1. writes'[i] # <<>>
        <4>1. Len(writes'[i]) # 0
          BY <1>4
        <4>2. QED  BY <1>2, <4>1
      <3>2. filterState'[i] # "none" => list # NoFilter
        BY DEF CustomInv, CustomTypeOK
      <3>3. QED  BY <1>6, <2>2, <3>1, <3>2
    <2>3. CASE j # i
      BY <1>5, <2>3 DEF CustomInv, SwitchableIsDescribed
    <2>4. QED  BY <2>2, <2>3
  <1>12. DueIsOwed'
    <2>1. SUFFICES ASSUME NEW j \in due' PROVE \E s \in CustomTasks : Owes(task'[s], j)
      BY DEF DueIsOwed, Owes
    <2>2. CASE j \in due
      <3>1. PICK s \in CustomTasks : Owes(task[s], j)
        BY <2>2 DEF CustomInv, DueIsOwed
      <3>2. Owes(task'[s], j)
        BY <1>1, <2>2, <3>1
      <3>3. QED  BY <3>2
    <2>3. CASE j = i /\ Owes(r, i)
      BY <1>1, <2>3
    <2>4. QED  BY <2>2, <2>3
  <1>13. QED
    BY <1>1, <1>2, <1>7, <1>8, <1>9, <1>10, <1>11, <1>12 DEF QueuesOK

\* What a transaction leaves: stored if it is committed; only an id a filter has
\* may become due, and then the task owes it, unless it has removed another one.
Leaves(t, i) ==
    \/ lost' = lost \union {i} /\ UNCHANGED rules
    \/ lost' = lost \ {i} /\ rules' = [rules EXCEPT ![i] = task[t].list[i]]

StillOwes(t, i, r) ==
    /\ \A j \in due : j \in due' /\ Owes(task[t], j) => Owes(r, j)
    /\ \A j \in due' : j \in due \/ (j = i /\ filterState[i] # "none" /\
                                      (task[t].op # "remove" => Owes(r, i)))

\* A transaction settles: the first on the id, of a task that then goes on.
LEMMA TaskSettles ==
  ASSUME CustomInv, NEW i \in Ids, writes[i] # <<>>,
         NEW t, t = Head(writes[i]), NEW r, TaskOK(r), task' = [task EXCEPT ![t] = r],
         \A j \in Ids \ {i} : task[t].job[j] = "write" =>
             r.job[j] = "write" /\ r.list[j] = task[t].list[j] /\ r.op = task[t].op,
         writes' = [writes EXCEPT ![i] = Tail(@)], UNCHANGED stored,
         Leaves(t, i), StillOwes(t, i, r)
  PROVE  /\ task' \in [CustomTasks -> TaskRecord]
         /\ \A s \in CustomTasks : TaskOK(task'[s])
         /\ rules' \in [Ids -> Lists \union {NoFilter}]
         /\ writes' \in [Ids -> Seq(CustomTasks)] /\ lost' \subseteq Ids
         /\ QueuesOK' /\ SwitchableIsDescribed' /\ DueIsOwed'
  <1>0. /\ task \in [CustomTasks -> TaskRecord] /\ rules \in [Ids -> Lists \union {NoFilter}]
        /\ writes \in [Ids -> Seq(CustomTasks)] /\ lost \subseteq Ids
    BY DEF CustomInv, CustomTypeOK
  <1>1. /\ Len(writes[i]) \in Nat \ {0} /\ t = writes[i][1] /\ t \in CustomTasks
        /\ writes'[i] = Tail(writes[i]) /\ Len(writes'[i]) = Len(writes[i]) - 1
        /\ \A n \in 1..Len(writes'[i]) : /\ n + 1 \in 1..Len(writes[i])
                                         /\ writes'[i][n] = writes[i][n + 1]
    BY <1>0
  <1>2. /\ task' \in [CustomTasks -> TaskRecord]
        /\ \A s \in CustomTasks : TaskOK(task'[s])
        /\ task'[t] = r /\ \A s \in CustomTasks \ {t} : task'[s] = task[s]
    BY <1>1, TaskBecomes DEF CustomInv
  <1>3. /\ rules' \in [Ids -> Lists \union {NoFilter}]
        /\ writes' \in [Ids -> Seq(CustomTasks)] /\ lost' \subseteq Ids
    <2>1. task[t].list[i] \in Lists \union {NoFilter}
      BY <1>0, <1>1 DEF TaskRecord
    <2>2. Tail(writes[i]) \in Seq(CustomTasks)
      BY <1>0
    <2>3. writes' \in [Ids -> Seq(CustomTasks)]
      BY <1>0, <2>2
    <2>4. rules' \in [Ids -> Lists \union {NoFilter}]
      BY <1>0, <2>1 DEF Leaves
    <2>5. lost' \subseteq Ids
      BY <1>0 DEF Leaves
    <2>6. QED  BY <2>3, <2>4, <2>5
  <1>4. ASSUME NEW j \in Ids, NEW n \in 1..Len(writes[j]), j # i \/ n # 1
        PROVE  LET s == writes[j][n] IN
               /\ s \in CustomTasks /\ task[s].job[j] = "write" /\ task'[s].job[j] = "write"
               /\ task'[s].list[j] = task[s].list[j] /\ task'[s].op = task[s].op
    <2>1. writes[j][n] \in CustomTasks
      BY <1>0
    <2>2. task[writes[j][n]].job[j] = "write"
      BY DEF CustomInv, QueuesOK, QueueOK
    <2>3. CASE j # i
      BY <1>2, <2>1, <2>2, <2>3
    <2>4. CASE j = i
      <3>1. 1 \in 1..Len(writes[i]) /\ n # 1
        BY <1>1, <1>4, <2>4
      <3>2. writes[j][n] # t
        BY <1>1, <2>4, <3>1 DEF CustomInv, QueuesOK, QueueOK
      <3>3. QED  BY <1>2, <2>1, <2>2, <3>2
    <2>5. QED  BY <2>3, <2>4
  <1>5. \A j \in Ids \ {i} : writes'[j] = writes[j] /\ rules'[j] = rules[j]
    BY <1>0 DEF Leaves
  <1>6. UNCHANGED <<metadata, filterState>>
    BY DEF stored
  <1>7. ASSUME NEW j \in Ids \ {i} PROVE (QueueOK(j) /\ LastIsNamed(j) /\ IsRecreated(j))'
    <2>1. QueueOK(j) /\ LastIsNamed(j) /\ IsRecreated(j)
      BY DEF CustomInv, QueuesOK
    <2>2. QueueOK(j)'
      BY <1>4, <1>5, <2>1 DEF QueueOK
    <2>3. LastIsNamed(j)'
      <3>1. writes[j] # <<>> => Len(writes[j]) \in 1..Len(writes[j])
        BY <1>0
      <3>2. QED  BY <1>4, <1>5, <1>6, <2>1, <3>1 DEF LastIsNamed
    <2>4. IsRecreated(j)'
      BY <1>4, <1>5, <1>6, <2>1 DEF IsRecreated
    <2>5. QED  BY <2>2, <2>3, <2>4
  <1>8. \A n \in 1..Len(writes'[i]) :
            /\ n + 1 \in 1..Len(writes[i]) /\ n + 1 # 1 /\ writes'[i][n] = writes[i][n + 1]
            /\ task'[writes'[i][n]].job[i] = "write"
            /\ task'[writes'[i][n]].list[i] = task[writes[i][n + 1]].list[i]
            /\ task'[writes'[i][n]].op = task[writes[i][n + 1]].op
    BY <1>1, <1>4
  <1>9. QueueOK(i)'
    <2>1. QueueOK(i)
      BY DEF CustomInv, QueuesOK
    <2>2. \A m, n \in 1..Len(writes'[i]) : writes'[i][m] = writes'[i][n] => m = n
      BY <1>1, <2>1 DEF QueueOK
    <2>3. QED  BY <1>8, <2>2 DEF QueueOK
  <1>10. LastIsNamed(i)'
    <2>1. SUFFICES ASSUME writes'[i] # <<>>
                   PROVE  task'[writes'[i][Len(writes'[i])]].list[i] = metadata[i]
      BY <1>6 DEF LastIsNamed
    <2>2. Len(writes'[i]) \in 1..Len(writes'[i]) /\ Len(writes'[i]) + 1 = Len(writes[i])
      BY <1>1, <1>3, <2>1
    <2>3. task[writes[i][Len(writes[i])]].list[i] = metadata[i]
      BY DEF CustomInv, QueuesOK, LastIsNamed
    <2>4. QED  BY <1>8, <2>2, <2>3
  <1>11. IsRecreated(i)'
    <2>1. SUFFICES ASSUME filterState[i] # "none", NEW n \in 1..Len(writes'[i]),
                          task'[writes'[i][n]].op = "remove"
                   PROVE  \E m \in 1..Len(writes'[i]) :
                              m > n /\ task'[writes'[i][m]].op = "create"
      BY <1>6 DEF IsRecreated
    <2>2. n + 1 \in 1..Len(writes[i]) /\ task[writes[i][n + 1]].op = "remove"
      BY <1>8, <2>1
    <2>3. PICK m \in 1..Len(writes[i]) : m > n + 1 /\ task[writes[i][m]].op = "create"
      BY <2>1, <2>2 DEF CustomInv, QueuesOK, IsRecreated
    <2>4. m - 1 \in 1..Len(writes'[i]) /\ m - 1 > n /\ (m - 1) + 1 = m
      BY <1>1, <2>3
    <2>5. task'[writes'[i][m - 1]].op = "create"
      BY <1>8, <2>3, <2>4
    <2>6. QED  BY <2>4, <2>5
  <1>12. SwitchableIsDescribed'
    <2>1. SUFFICES ASSUME NEW j \in Ids
                   PROVE  /\ filterState[j] # "none" => metadata[j] # NoFilter
                          /\ writes'[j] = <<>> /\ j \notin lost' => rules'[j] = metadata[j]
      BY <1>6 DEF SwitchableIsDescribed
    <2>2. filterState[j] # "none" => metadata[j] # NoFilter
      BY DEF CustomInv, SwitchableIsDescribed
    <2>3. CASE j = i
      <3>1. SUFFICES ASSUME writes'[i] = <<>>, i \notin lost' PROVE rules'[i] = metadata[i]
        BY <2>2, <2>3
      <3>2. Len(writes[i]) = 1
        <4>1. Len(writes'[i]) = 0
          BY <3>1
        <4>2. QED  BY <1>1, <4>1
      <3>3. task[t].list[i] = metadata[i]
        BY <1>1, <3>2 DEF CustomInv, QueuesOK, LastIsNamed
      <3>4. rules'[i] = task[t].list[i]
        BY <1>0, <3>1 DEF Leaves
      <3>5. QED  BY <3>3, <3>4
    <2>4. CASE j # i
      <3>1. writes'[j] = writes[j] /\ rules'[j] = rules[j] /\ (j \in lost' <=> j \in lost)
        BY <1>5, <2>4 DEF Leaves
      <3>2. QED  BY <3>1 DEF CustomInv, SwitchableIsDescribed
    <2>5. QED  BY <2>3, <2>4
  <1>13. DueIsOwed'
    <2>1. SUFFICES ASSUME NEW j \in due' PROVE \E s \in CustomTasks : Owes(task'[s], j)
      BY DEF DueIsOwed, Owes
    <2>2. CASE j \in due
      <3>1. PICK s \in CustomTasks : Owes(task[s], j)
        BY <2>2 DEF CustomInv, DueIsOwed
      <3>2. Owes(task'[s], j)
        BY <1>2, <2>1, <2>2, <3>1 DEF StillOwes
      <3>3. QED  BY <3>2
    <2>3. CASE j = i /\ filterState[i] # "none" /\ task[t].op = "remove"
      <3>1. 1 \in 1..Len(writes[i])
        BY <1>1
      <3>2. PICK m \in 1..Len(writes[i]) : m > 1 /\ task[writes[i][m]].op = "create"
        BY <1>1, <2>3, <3>1 DEF CustomInv, QueuesOK, IsRecreated
      <3>3. m # 1
        BY <3>2
      <3>4. /\ writes[i][m] \in CustomTasks /\ task'[writes[i][m]].job[i] = "write"
            /\ task'[writes[i][m]].op = "create"
        BY <1>4, <3>2, <3>3
      <3>5. Owes(task'[writes[i][m]], j)
        BY <2>3, <3>4 DEF Owes
      <3>6. QED  BY <3>4, <3>5
    <2>4. CASE j = i /\ Owes(r, i)
      BY <1>1, <1>2, <2>4
    <2>5. QED  BY <2>1, <2>2, <2>3, <2>4 DEF StillOwes
  <1>14. QED
    BY <1>2, <1>3, <1>7, <1>9, <1>10, <1>11, <1>12, <1>13 DEF QueuesOK

-----------------------------------------------------------------------------
(* The record a step gives a task: one job and what it is about become new. *)

With(r, t, i, op, job, list, changed) ==
    /\ r \in TaskRecord /\ task' = [task EXCEPT ![t] = r]
    /\ r.op = op /\ r.changed = changed /\ r.job[i] = job /\ r.list[i] = list
    /\ \A j \in Ids \ {i} : r.job[j] = task[t].job[j] /\ r.list[j] = task[t].list[j]

LEMMA JobEnds ==
  ASSUME CustomInv, NEW t \in CustomTasks, NEW i \in Ids, NEW done \in BOOLEAN,
         EndJob(t, i, done)
  PROVE  \E r : With(r, t, i, task[t].op, "none", NoFilter, task[t].changed \/ done)
  <1> DEFINE r == [task[t] EXCEPT !.job[i] = "none", !.list[i] = NoFilter, !.changed = @ \/ done]
  <1>1. task \in [CustomTasks -> TaskRecord] /\ task[t] \in TaskRecord
    BY DEF CustomInv, CustomTypeOK
  <1>2. task' = [task EXCEPT ![t] = r]
    BY <1>1 DEF EndJob
  <1>3. /\ r.op = task[t].op /\ r.changed = (task[t].changed \/ done)
        /\ r.job = [task[t].job EXCEPT ![i] = "none"]
        /\ r.list = [task[t].list EXCEPT ![i] = NoFilter]
    BY <1>1 DEF TaskRecord
  <1>4. r \in TaskRecord
    BY <1>1 DEF TaskRecord, Jobs
  <1> HIDE DEF r
  <1>5. r.job[i] = "none" /\ r.list[i] = NoFilter
        /\ \A j \in Ids \ {i} : r.job[j] = task[t].job[j] /\ r.list[j] = task[t].list[j]
    BY <1>1, <1>3 DEF TaskRecord
  <1>6. QED
    BY <1>2, <1>3, <1>4, <1>5 DEF With

LEMMA JobMoves ==
  ASSUME CustomInv, NEW t \in CustomTasks, NEW i \in Ids, NEW job \in Jobs,
         task' = [task EXCEPT ![t].job[i] = job, ![t].list[i] = NoFilter]
  PROVE  \E r : With(r, t, i, task[t].op, job, NoFilter, task[t].changed)
  <1> DEFINE r == [task[t] EXCEPT !.job[i] = job, !.list[i] = NoFilter]
  <1>1. task \in [CustomTasks -> TaskRecord] /\ task[t] \in TaskRecord
    BY DEF CustomInv, CustomTypeOK
  <1>2. task' = [task EXCEPT ![t] = r]
    BY <1>1
  <1>3. /\ r.op = task[t].op /\ r.changed = task[t].changed
        /\ r.job = [task[t].job EXCEPT ![i] = job]
        /\ r.list = [task[t].list EXCEPT ![i] = NoFilter]
    BY <1>1 DEF TaskRecord
  <1>4. r \in TaskRecord
    BY <1>1 DEF TaskRecord
  <1> HIDE DEF r
  <1>5. r.job[i] = job /\ r.list[i] = NoFilter
        /\ \A j \in Ids \ {i} : r.job[j] = task[t].job[j] /\ r.list[j] = task[t].list[j]
    BY <1>1, <1>3 DEF TaskRecord
  <1>6. QED
    BY <1>2, <1>3, <1>4, <1>5 DEF With

LEMMA JobLoads ==
  ASSUME CustomInv, NEW t \in CustomTasks, NEW i \in Ids,
         task' = [task EXCEPT ![t].job[i] = "load"]
  PROVE  \E r : With(r, t, i, task[t].op, "load", task[t].list[i], task[t].changed)
  <1> DEFINE r == [task[t] EXCEPT !.job[i] = "load"]
  <1>1. task \in [CustomTasks -> TaskRecord] /\ task[t] \in TaskRecord
    BY DEF CustomInv, CustomTypeOK
  <1>2. task' = [task EXCEPT ![t] = r]
    BY <1>1
  <1>3. /\ r.op = task[t].op /\ r.changed = task[t].changed
        /\ r.job = [task[t].job EXCEPT ![i] = "load"] /\ r.list = task[t].list
    BY <1>1 DEF TaskRecord
  <1>4. r \in TaskRecord
    BY <1>1 DEF TaskRecord, Jobs
  <1> HIDE DEF r
  <1>5. r.job[i] = "load" /\ r.list[i] = task[t].list[i]
        /\ \A j \in Ids \ {i} : r.job[j] = task[t].job[j] /\ r.list[j] = task[t].list[j]
    BY <1>1, <1>3 DEF TaskRecord
  <1>6. QED
    BY <1>2, <1>3, <1>4, <1>5 DEF With

LEMMA JobIssues ==
  ASSUME CustomInv, NEW t \in CustomTasks, NEW i \in Ids, NEW list \in Lists \union {NoFilter},
         NEW op \in {"create", "remove", "update"}, NEW changed \in BOOLEAN,
         IssueWrite(t, i, list, op, changed)
  PROVE  \E r : With(r, t, i, op, "write", list, changed)
  <1> DEFINE r == [task[t] EXCEPT !.op = op, !.url = {}, !.changed = changed,
                                  !.job[i] = "write", !.list[i] = list]
  <1>1. task \in [CustomTasks -> TaskRecord] /\ task[t] \in TaskRecord
    BY DEF CustomInv, CustomTypeOK
  <1>2. task' = [task EXCEPT ![t] = r]
    BY <1>1 DEF IssueWrite
  <1>3. /\ r.op = op /\ r.changed = changed
        /\ r.job = [task[t].job EXCEPT ![i] = "write"]
        /\ r.list = [task[t].list EXCEPT ![i] = list]
    BY <1>1 DEF TaskRecord
  <1>4. r \in TaskRecord
    BY <1>1 DEF TaskRecord, Jobs
  <1> HIDE DEF r
  <1>5. r.job[i] = "write" /\ r.list[i] = list
        /\ \A j \in Ids \ {i} : r.job[j] = task[t].job[j] /\ r.list[j] = task[t].list[j]
    BY <1>1, <1>3 DEF TaskRecord
  <1>6. QED
    BY <1>2, <1>3, <1>4, <1>5 DEF With

\* A job of a task comes to another stage, without a new transaction.
LEMMA JobGoesOn ==
  ASSUME CustomInv, NEW t \in CustomTasks, NEW i \in Ids, NEW job \in Jobs,
         NEW list \in Lists \union {NoFilter}, NEW changed \in BOOLEAN, NEW r,
         With(r, t, i, task[t].op, job, list, changed),
         task[t].job[i] # "none", task[t].changed => changed,
         job \in {"begin", "load"} => list \in Lists,
         job # "write", job = "raw" => task[t].job[i] = "write"
  PROVE  /\ TaskOK(r)
         /\ \A j \in Ids :
               \/ j # i \/ job = "raw" \/ task[t].job[i] \in {"begin", "load"}
               \/ changed /\ task[t].op = "update"
               => (Owes(task[t], j) => Owes(r, j))
  <1>1. TaskOK(task[t]) /\ task[t] \in TaskRecord
    BY DEF CustomInv, CustomTypeOK
  <1>2. /\ r \in TaskRecord /\ r.op = task[t].op /\ (r.changed <=> changed)
        /\ r.job[i] = job /\ r.list[i] = list
        /\ \A j \in Ids \ {i} : r.job[j] = task[t].job[j] /\ r.list[j] = task[t].list[j]
    BY DEF With
  <1>3. TaskOK(r)
    <2>1. \A j \in Ids : r.job[j] \in {"begin", "load"} => r.list[j] \in Lists
      BY <1>1, <1>2 DEF TaskOK
    <2>2. \A j \in Ids : r.job[j] \in {"write", "raw"} => r.op \in {"create", "remove", "update"}
      BY <1>1, <1>2 DEF TaskOK
    <2>3. \A j \in Ids : r.job[j] # "none" => r.op \notin {"none", "download"}
      BY <1>1, <1>2 DEF TaskOK
    <2>4. \A j \in Ids : r.job[j] # "none" => task[t].job[j] # "none"
      BY <1>2
    <2>5. r.op \in {"create", "remove"} =>
             \A j, k \in Ids : r.job[j] # "none" /\ r.job[k] # "none" => j = k
      BY <1>1, <1>2, <2>4 DEF TaskOK
    <2>6. QED  BY <1>2, <2>1, <2>2, <2>3, <2>5 DEF TaskOK
  <1>4. ASSUME NEW j \in Ids, Owes(task[t], j),
               \/ j # i \/ job = "raw" \/ task[t].job[i] \in {"begin", "load"}
               \/ changed /\ task[t].op = "update"
        PROVE  Owes(r, j)
    <2>1. CASE j # i
      BY <1>2, <1>4, <2>1 DEF Owes
    <2>2. CASE j = i /\ job = "raw"
      BY <1>2, <1>4, <2>2 DEF Owes
    <2>3. CASE j = i /\ task[t].job[i] \in {"begin", "load"}
      BY <1>2, <1>4, <2>3 DEF Owes
    <2>4. CASE changed /\ task[t].op = "update"
      BY <1>2, <2>4 DEF Owes
    <2>5. QED  BY <1>4, <2>1, <2>2, <2>3, <2>4
  <1>5. QED  BY <1>3, <1>4

-----------------------------------------------------------------------------
(* The steps. *)

LEMMA SameRuns ==
  ASSUME UNCHANGED <<filterState, customGroup>>, NEW i \in Ids,
         \A j \in Ids \ {i} : rules'[j] = rules[j]
  PROVE  \A j \in Changed : j = i /\ filterState[i] # "none"
  BY DEF Changed, Runs, Enabled

\* The types of what is written at once and of the counters.
RestOK ==
    /\ metadata \in [Ids -> Lists \union {NoFilter}]
    /\ filterState \in [Ids -> {"none", "off", "on"}]
    /\ rules \in [Ids -> Lists \union {NoFilter}]
    /\ customGroup \in {"untouched", "on", "off"}
    /\ edition \in [Addresses -> 1..MaxEdition] /\ loading \subseteq Addresses
    /\ begun \in 0..MaxOperations
    /\ writes \in [Ids -> Seq(CustomTasks)] /\ lost \subseteq Ids /\ due \subseteq Ids

LEMMA Bound == ASSUME CustomInv, BeginOperation PROVE begun' \in 0..MaxOperations
  BY CustomFiltersAssumption DEF BeginOperation, CustomInv, CustomTypeOK

\* The steps of a task that issue nothing give it a record that keeps what it owes.
Neutral(t) ==
    \/ DownloadFails(t) \/ FinishCreate(t) \/ FinishRemove(t)
    \/ UpdateFilters(t) \/ StartUpdates(t) \/ FinishUpdates(t)
    \/ \E u \in Addresses : CreateFilter(t, u)
    \/ \E i \in Ids : \/ BeginLoad(t, i) \/ CheckFails(t, i) \/ UpdateFails(t, i)
                      \/ StoreRaw(t, i) \/ RawFails(t, i)

LEMMA ToIdle ==
  ASSUME CustomInv, NEW t \in CustomTasks, task' = [task EXCEPT ![t] = IdleTask],
         \A i \in Ids : task[t].job[i] # "write",
         due' \in SUBSET due, \A i \in due' : ~Owes(task[t], i)
  PROVE  \E r : Keeps(t, r) /\ due' \in SUBSET due
                /\ \A i \in due' : Owes(task[t], i) => Owes(r, i)
  BY IdleIsOK DEF Keeps

LEMMA ToNext ==
  ASSUME CustomInv, NEW t \in CustomTasks, NEW i \in Ids, NEW job \in Jobs,
         NEW list \in Lists \union {NoFilter}, NEW changed \in BOOLEAN, NEW r,
         With(r, t, i, task[t].op, job, list, changed),
         task[t].job[i] \notin {"none", "write"}, task[t].changed => changed,
         job \in {"begin", "load"} => list \in Lists, job \notin {"write", "raw"},
         \/ task[t].job[i] \in {"begin", "load"} /\ UNCHANGED due
         \/ changed /\ task[t].op = "update" /\ UNCHANGED due
         \/ due' = due \ {i}
  PROVE  \E q : Keeps(t, q) /\ due' \in SUBSET due
                /\ \A j \in due' : Owes(task[t], j) => Owes(q, j)
  <1>1. /\ TaskOK(r)
        /\ \A j \in Ids :
               \/ j # i \/ task[t].job[i] \in {"begin", "load"}
               \/ changed /\ task[t].op = "update"
               => (Owes(task[t], j) => Owes(r, j))
    BY JobGoesOn
  <1>2. Keeps(t, r)
    BY <1>1 DEF Keeps, With
  <1>3. due' \in SUBSET due /\ due' \in SUBSET Ids
    BY DEF CustomInv, CustomTypeOK
  <1>4. \A j \in due' : Owes(task[t], j) => Owes(r, j)
    BY <1>1, <1>3
  <1>5. QED  BY <1>2, <1>3, <1>4

LEMMA NeutralKeeps ==
  ASSUME CustomInv, NEW t \in CustomTasks, Neutral(t)
  PROVE  \E r : Keeps(t, r) /\ due' \in SUBSET due
                /\ \A i \in due' : Owes(task[t], i) => Owes(r, i)
  <1> DEFINE Goal == \E r : Keeps(t, r) /\ due' \in SUBSET due
                            /\ \A i \in due' : Owes(task[t], i) => Owes(r, i)
  <1>0. /\ task[t] \in TaskRecord /\ TaskOK(task[t])
        /\ task \in [CustomTasks -> TaskRecord]
        /\ metadata \in [Ids -> Lists \union {NoFilter}] /\ due \subseteq Ids
    BY DEF CustomInv, CustomTypeOK
  <1>1. CASE DownloadFails(t)
    <2>1. \A i \in Ids : task[t].job[i] # "write" /\ ~Owes(task[t], i)
      BY <1>0, <1>1 DEF DownloadFails, TaskOK, Owes
    <2>2. QED  BY <1>0, <1>1, <2>1, ToIdle DEF DownloadFails
  <1>2. CASE FinishCreate(t)
    <2>1. \A i \in Ids : task[t].job[i] # "write"
      BY <1>0, <1>2 DEF FinishCreate, TaskOK
    <2>2. due' = {}
      BY <1>2 DEF FinishCreate, AskUpdate
    <2>3. QED  BY <1>2, <2>1, <2>2, ToIdle DEF FinishCreate
  <1>3. CASE FinishRemove(t)
    <2>1. \A i \in Ids : task[t].job[i] # "write"
      BY <1>0, <1>3 DEF FinishRemove, TaskOK
    <2>2. due' \in SUBSET due /\ \A i \in due' : ~Owes(task[t], i)
      BY <1>3 DEF FinishRemove, AskUpdate, Owes
    <2>3. QED  BY <1>3, <2>1, <2>2, ToIdle DEF FinishRemove
  <1>4. CASE FinishUpdates(t)
    <2>1. \A i \in Ids : task[t].job[i] # "write"
      BY <1>0, <1>4 DEF FinishUpdates
    <2>2. due' \in SUBSET due /\ \A i \in due' : ~Owes(task[t], i)
      BY <1>0, <1>4 DEF FinishUpdates, AskUpdate, Owes
    <2>3. QED  BY <1>4, <2>1, <2>2, ToIdle DEF FinishUpdates
  <1>5. ASSUME NEW u \in Addresses, CreateFilter(t, u) PROVE Goal
    <2> DEFINE r == [task[t] EXCEPT !.op = "download", !.url = {u}]
    <2>1. task' = [task EXCEPT ![t] = r] /\ task[t].op = "none" /\ due' = due
      BY <1>5, <1>0 DEF CreateFilter, BeginTask
    <2>2. r \in TaskRecord /\ r.job = task[t].job /\ r.list = task[t].list /\ r.op = "download"
      BY <1>0 DEF TaskRecord
    <2>3. \A i \in Ids : task[t].job[i] = "none"
      BY <1>0, <2>1 DEF TaskOK
    <2> HIDE DEF r
    <2>4. TaskOK(r)
      BY <2>2, <2>3 DEF TaskOK
    <2>5. Keeps(t, r)
      BY <2>1, <2>3, <2>4 DEF Keeps
    <2>6. \A i \in Ids : ~Owes(task[t], i)
      BY <2>1 DEF Owes
    <2>7. QED  BY <1>0, <2>1, <2>5, <2>6
  <1>6. CASE UpdateFilters(t)
    <2> DEFINE jobs == [i \in Ids |-> IF i \in Known THEN "begin" ELSE "none"]
               r == [IdleTask EXCEPT !.op = "check", !.list = metadata, !.job = jobs]
    <2>1. task' = [task EXCEPT ![t] = r] /\ task[t].op = "none" /\ due' = due
      BY <1>6 DEF UpdateFilters, BeginTask
    <2>2. r \in TaskRecord /\ r.op = "check" /\ r.job = jobs /\ r.list = metadata
      BY <1>0, IdleIsOK DEF TaskRecord, TaskOK, Jobs
    <2>3. \A i \in Ids : r.job[i] \in {"none", "begin"}
                         /\ (r.job[i] = "begin" => r.list[i] \in Lists)
      BY <1>0, <2>2 DEF Known
    <2> HIDE DEF r, jobs
    <2>4. TaskOK(r)
      BY <2>2, <2>3 DEF TaskOK
    <2>5. Keeps(t, r)
      BY <1>0, <2>1, <2>4 DEF Keeps, TaskOK
    <2>6. \A i \in Ids : ~Owes(task[t], i)
      BY <2>1 DEF Owes
    <2>7. QED  BY <1>0, <2>1, <2>5, <2>6
  <1>7. CASE StartUpdates(t)
    <2> DEFINE again == {i \in Known : task[t].job[i] = "ready"}
               jobs == [i \in Ids |-> IF i \in again THEN "begin" ELSE "none"]
               lists == [i \in Ids |-> IF i \in again THEN metadata[i] ELSE NoFilter]
               r == [IdleTask EXCEPT !.op = "update", !.job = jobs, !.list = lists]
    <2>1. task' = [task EXCEPT ![t] = r] /\ task[t].op = "check" /\ due' = due
      BY <1>7 DEF StartUpdates
    <2>2. jobs \in [Ids -> Jobs] /\ lists \in [Ids -> Lists \union {NoFilter}]
      BY <1>0 DEF Jobs
    <2>3. r \in TaskRecord /\ r.op = "update" /\ r.job = jobs /\ r.list = lists
      BY <2>2, IdleIsOK DEF TaskRecord, TaskOK
    <2>4. \A i \in Ids : r.job[i] \in {"none", "begin"}
                         /\ (r.job[i] = "begin" => r.list[i] \in Lists)
      BY <1>0, <2>3 DEF Known
    <2> HIDE DEF r, jobs, lists
    <2>5. TaskOK(r)
      BY <2>3, <2>4 DEF TaskOK
    <2>6. Keeps(t, r)
      BY <1>0, <2>1, <2>5 DEF Keeps, TaskOK
    <2>7. \A i \in Ids : ~Owes(task[t], i)
      BY <2>1 DEF Owes
    <2>8. QED  BY <1>0, <2>1, <2>6, <2>7
  <1>8. ASSUME NEW i \in Ids, BeginLoad(t, i) PROVE Goal
    <2>1. task' = [task EXCEPT ![t].job[i] = "load"] /\ task[t].job[i] = "begin" /\ due' = due
      BY <1>8 DEF BeginLoad
    <2>2. PICK r : With(r, t, i, task[t].op, "load", task[t].list[i], task[t].changed)
      BY <2>1, JobLoads
    <2>3. task[t].list[i] \in Lists /\ task[t].changed \in BOOLEAN /\ "load" \in Jobs
      BY <1>0, <2>1 DEF TaskOK, TaskRecord, Jobs
    <2>4. QED  BY <2>1, <2>2, <2>3, ToNext
  <1>9. ASSUME NEW i \in Ids, CheckFails(t, i) PROVE Goal
    <2>1. \A j \in Ids : task[t].job[j] # "write" /\ ~Owes(task[t], j)
      BY <1>0, <1>9 DEF CheckFails, TaskOK, Owes
    <2>2. QED  BY <1>0, <1>9, <2>1, ToIdle DEF CheckFails
  <1>10. ASSUME NEW i \in Ids, NEW done \in BOOLEAN, EndJob(t, i, done), task[t].op = "update",
                \/ task[t].job[i] \in {"begin", "load"} /\ UNCHANGED due
                \/ task[t].job[i] = "raw" /\ done /\ UNCHANGED due
                \/ task[t].job[i] = "raw" /\ due' = due \ {i}
         PROVE  Goal
    <2>1. PICK r : With(r, t, i, task[t].op, "none", NoFilter, task[t].changed \/ done)
      BY <1>10, JobEnds
    <2>2. (task[t].changed \/ done) \in BOOLEAN /\ "none" \in Jobs
      BY <1>0 DEF TaskRecord, Jobs
    <2>3. QED  BY <1>10, <2>1, <2>2, ToNext
  <1>11. ASSUME NEW i \in Ids, UpdateFails(t, i) PROVE Goal
    BY <1>10, <1>11 DEF UpdateFails, LoadFails
  <1>12. ASSUME NEW i \in Ids, StoreRaw(t, i) PROVE Goal
    BY <1>10, <1>12 DEF StoreRaw
  <1>13. ASSUME NEW i \in Ids, RawFails(t, i) PROVE Goal
    <2>1. CASE task[t].op = "update" /\ EndJob(t, i, FALSE)
      BY <1>10, <1>13, <2>1 DEF RawFails, FailsFor
    <2>2. CASE task[t].op # "update" /\ task' = [task EXCEPT ![t] = IdleTask]
      <3>1. task[t].job[i] = "raw" /\ due' = due \ {i}
        BY <1>13 DEF RawFails, FailsFor
      <3>2. task[t].op \in {"create", "remove"}
        BY <1>0, <2>2, <3>1 DEF TaskOK
      <3>3. \A j \in Ids \ {i} : task[t].job[j] = "none"
        BY <1>0, <3>1, <3>2 DEF TaskOK
      <3>4. \A j \in Ids : task[t].job[j] # "write"
        BY <3>1, <3>3
      <3>5. \A j \in due' : ~Owes(task[t], j)
        BY <1>0, <3>1, <3>2, <3>3 DEF Owes
      <3>6. QED  BY <2>2, <3>1, <3>4, <3>5, ToIdle
    <2>3. QED  BY <1>13, <2>1, <2>2 DEF RawFails, FailsFor
  <1>14. QED
    BY <1>1, <1>2, <1>3, <1>4, <1>5, <1>6, <1>7, <1>8, <1>9, <1>11, <1>12, <1>13
    DEF Neutral

LEMMA AddsFilter ==
  ASSUME CustomInv, NEW t \in CustomTasks, NEW list \in Lists, AddFilter(t, list),
         task[t].op \in {"none", "download"}
  PROVE  /\ task' \in [CustomTasks -> TaskRecord]
         /\ \A s \in CustomTasks : TaskOK(task'[s])
         /\ metadata' \in [Ids -> Lists \union {NoFilter}]
         /\ filterState' \in [Ids -> {"none", "off", "on"}]
         /\ writes' \in [Ids -> Seq(CustomTasks)] /\ due' \subseteq Ids
         /\ QueuesOK' /\ SwitchableIsDescribed' /\ DueIsOwed'
  <1>0. /\ task[t] \in TaskRecord /\ TaskOK(task[t])
        /\ filterState \in [Ids -> {"none", "off", "on"}] /\ due \subseteq Ids
    BY DEF CustomInv, CustomTypeOK
  <1>1. PICK new \in Ids : new = GenFilterId
    BY NewId DEF AddFilter
  <1>2. /\ metadata' = [metadata EXCEPT ![new] = list]
        /\ filterState' = [filterState EXCEPT ![new] = "on"]
        /\ IssueWrite(t, new, list, "create", FALSE)
        /\ UNCHANGED <<rules, customGroup, lost>> /\ due' = due \union Changed
    BY <1>1 DEF AddFilter
  <1>3. writes' = [writes EXCEPT ![new] = Append(@, t)]
    BY <1>2 DEF IssueWrite
  <1>4. PICK r : With(r, t, new, "create", "write", list, FALSE)
    BY <1>1, <1>2, JobIssues
  <1>5. \A j \in Ids : task[t].job[j] = "none" /\ ~Owes(task[t], j)
    BY <1>0 DEF TaskOK, Owes
  <1>6. /\ r \in TaskRecord /\ r.op = "create" /\ r.job[new] = "write" /\ r.list[new] = list
        /\ \A j \in Ids \ {new} : r.job[j] = "none"
    BY <1>4, <1>5 DEF With
  <1>7. TaskOK(r)
    BY <1>6 DEF TaskOK
  <1>8. Keeps(t, r)
    BY <1>4, <1>5, <1>7 DEF Keeps, With
  <1>9. \A j \in Changed : j = new
    BY <1>0, <1>1, <1>2 DEF Changed, Runs, Enabled
  <1>10. Owes(r, new)
    BY <1>6 DEF Owes
  <1>11. due' \subseteq Ids /\ \A j \in due' : j \in due \/ (j = new /\ Owes(r, new))
    BY <1>0, <1>1, <1>2, <1>9, <1>10
  <1>12. \A j \in due : Owes(task[t], j) => Owes(r, j)
    BY <1>0, <1>5
  <1>13. list # NoFilter
    BY NoList
  <1>14. QED
    <2>1. task[t].job[new] # "write" /\ list \in Lists \union {NoFilter}
      BY <1>1, <1>5
    <2>2. r.op = "create" /\ list # NoFilter
          /\ filterState' = [filterState EXCEPT ![new] = "on"]
      BY <1>2, <1>6, <1>13
    <2>3. UNCHANGED <<rules, lost>> /\ metadata' = [metadata EXCEPT ![new] = list]
      BY <1>2
    <2>4. r.job[new] = "write" /\ r.list[new] = list
      BY <1>6
    <2>5. QED
      BY <1>1, <1>3, <1>8, <1>11, <1>12, <2>1, <2>2, <2>3, <2>4, TaskIssues

LEMMA Removes ==
  ASSUME CustomInv, NEW t \in CustomTasks, NEW i \in Ids, RemoveFilter(t, i)
  PROVE  /\ task' \in [CustomTasks -> TaskRecord]
         /\ \A s \in CustomTasks : TaskOK(task'[s])
         /\ metadata' \in [Ids -> Lists \union {NoFilter}]
         /\ filterState' \in [Ids -> {"none", "off", "on"}]
         /\ writes' \in [Ids -> Seq(CustomTasks)] /\ due' \subseteq Ids
         /\ QueuesOK' /\ SwitchableIsDescribed' /\ DueIsOwed'
  <1>0. /\ task[t] \in TaskRecord /\ TaskOK(task[t])
        /\ filterState \in [Ids -> {"none", "off", "on"}] /\ due \subseteq Ids
    BY DEF CustomInv, CustomTypeOK
  <1>1. /\ task[t].op = "none"
        /\ metadata' = [metadata EXCEPT ![i] = NoFilter]
        /\ filterState' = [filterState EXCEPT ![i] = "none"]
        /\ IssueWrite(t, i, NoFilter, "remove", WasEnabled(i))
        /\ UNCHANGED <<rules, customGroup, lost>> /\ due' = due \union Changed
    BY DEF RemoveFilter, BeginTask, StateDeleted
  <1>2. writes' = [writes EXCEPT ![i] = Append(@, t)]
    BY <1>1 DEF IssueWrite
  <1>3. WasEnabled(i) \in BOOLEAN
    BY DEF WasEnabled
  <1>4. PICK r : With(r, t, i, "remove", "write", NoFilter, WasEnabled(i))
    BY <1>1, <1>3, JobIssues
  <1>5. \A j \in Ids : task[t].job[j] = "none" /\ ~Owes(task[t], j)
    BY <1>0, <1>1 DEF TaskOK, Owes
  <1>6. /\ r \in TaskRecord /\ r.op = "remove" /\ r.job[i] = "write" /\ r.list[i] = NoFilter
        /\ (r.changed <=> WasEnabled(i)) /\ \A j \in Ids \ {i} : r.job[j] = "none"
    BY <1>4, <1>5 DEF With
  <1>7. TaskOK(r)
    BY <1>6 DEF TaskOK
  <1>8. Keeps(t, r)
    BY <1>4, <1>5, <1>7 DEF Keeps, With
  <1>9. \A j \in Changed : j = i /\ filterState[i] = "on"
    BY <1>0, <1>1 DEF Changed, Runs, Enabled
  <1>10. filterState[i] = "on" => Owes(r, i)
    BY <1>6 DEF Owes, WasEnabled
  <1>11. due' \subseteq Ids /\ \A j \in due' : j \in due \/ (j = i /\ Owes(r, i))
    BY <1>0, <1>1, <1>9, <1>10
  <1>12. \A j \in due : Owes(task[t], j) => Owes(r, j)
    BY <1>0, <1>5
  <1>13. QED
    BY <1>1, <1>2, <1>5, <1>6, <1>8, <1>11, <1>12, TaskIssues

LEMMA Takes ==
  ASSUME CustomInv, NEW t \in CustomTasks, NEW i \in Ids, NEW ed \in 0..MaxEdition,
         task[t].job[i] \in {"begin", "load"}, TakeList(t, i, ed)
  PROVE  /\ task' \in [CustomTasks -> TaskRecord]
         /\ \A s \in CustomTasks : TaskOK(task'[s])
         /\ metadata' \in [Ids -> Lists \union {NoFilter}]
         /\ filterState' \in [Ids -> {"none", "off", "on"}]
         /\ writes' \in [Ids -> Seq(CustomTasks)] /\ due' \subseteq Ids
         /\ QueuesOK' /\ SwitchableIsDescribed' /\ DueIsOwed'
  <1> DEFINE list == task[t].list[i]
             new == [list EXCEPT !.ed = ed]
             Goes == \E r : Keeps(t, r) /\ due' \in SUBSET due
                            /\ \A j \in due' : Owes(task[t], j) => Owes(r, j)
  <1>0. /\ task[t] \in TaskRecord /\ TaskOK(task[t])
        /\ metadata \in [Ids -> Lists \union {NoFilter}]
        /\ filterState \in [Ids -> {"none", "off", "on"}]
        /\ writes \in [Ids -> Seq(CustomTasks)] /\ due \subseteq Ids
        /\ task[t].changed \in BOOLEAN
    BY DEF CustomInv, CustomTypeOK, TaskRecord
  <1>1. UNCHANGED <<rules, filterState, customGroup, lost, due>>
    BY DEF TakeList
  <1>2. list \in Lists /\ new \in Lists
    BY <1>0 DEF TaskOK, Lists
  <1>3. ASSUME Goes, UNCHANGED <<metadata, writes>>
        PROVE  /\ task' \in [CustomTasks -> TaskRecord]
               /\ \A s \in CustomTasks : TaskOK(task'[s])
               /\ QueuesOK' /\ SwitchableIsDescribed' /\ DueIsOwed'
    BY <1>1, <1>3, TaskGoesOn
  <1>4. CASE EndJob(t, i, FALSE) /\ UNCHANGED <<metadata, writes>>
    <2>1. PICK r : With(r, t, i, task[t].op, "none", NoFilter, task[t].changed \/ FALSE)
      BY <1>4, JobEnds
    <2>2. (task[t].changed \/ FALSE) \in BOOLEAN /\ "none" \in Jobs
      BY <1>0 DEF Jobs
    <2>3. Goes
      BY <1>1, <2>1, <2>2, ToNext
    <2>4. QED  BY <1>0, <1>1, <1>3, <1>4, <2>3
  <1>5. CASE /\ task' = [task EXCEPT ![t].job[i] = "ready", ![t].list[i] = NoFilter]
             /\ UNCHANGED <<metadata, writes>>
    <2>1. "ready" \in Jobs
      BY DEF Jobs
    <2>2. PICK changed \in BOOLEAN : changed = task[t].changed
      BY <1>0
    <2>3. PICK r : With(r, t, i, task[t].op, "ready", NoFilter, changed)
      BY <1>5, <2>1, <2>2, JobMoves
    <2>4. Goes
      <3>1. /\ task[t].changed => changed
            /\ task[t].job[i] \in {"begin", "load"} /\ due' = due
        BY <1>1, <2>2
      <3>2. QED  BY <2>1, <2>3, <3>1, ToNext
    <2>5. QED  BY <1>0, <1>1, <1>3, <1>5, <2>4
  <1>6. CASE /\ task[t].op = "update" /\ metadata' = [metadata EXCEPT ![i] = new]
             /\ IssueWrite(t, i, new, "update", task[t].changed)
    <2>1. writes' = [writes EXCEPT ![i] = Append(@, t)]
      BY <1>6 DEF IssueWrite
    <2>2. PICK r : With(r, t, i, "update", "write", new, task[t].changed)
      BY <1>0, <1>2, <1>6, JobIssues
    <2> HIDE DEF new, list
    <2>3. /\ r \in TaskRecord /\ r.op = "update" /\ r.job[i] = "write" /\ r.list[i] = new
          /\ (r.changed <=> task[t].changed)
          /\ \A j \in Ids \ {i} : r.job[j] = task[t].job[j] /\ r.list[j] = task[t].list[j]
      BY <2>2 DEF With
    <2>4. TaskOK(r)
      BY <1>0, <2>3 DEF TaskOK
    <2>5. Keeps(t, r)
      BY <1>6, <2>2, <2>3, <2>4 DEF Keeps, With
    <2>6. \A j \in Ids : Owes(task[t], j) => Owes(r, j)
      BY <1>6, <2>3 DEF Owes
    <2>7. new # NoFilter
      BY <1>2, NoList
    <2>8. QED
      BY <1>0, <1>1, <1>2, <1>6, <2>1, <2>3, <2>5, <2>6, <2>7, TaskIssues
  <1>7. QED
    BY <1>4, <1>5, <1>6 DEF TakeList

LEMMA Settles ==
  ASSUME CustomInv, NEW i \in Ids, CommitWrite(i) \/ RefuseWrite(i)
  PROVE  /\ task' \in [CustomTasks -> TaskRecord]
         /\ \A s \in CustomTasks : TaskOK(task'[s])
         /\ rules' \in [Ids -> Lists \union {NoFilter}]
         /\ writes' \in [Ids -> Seq(CustomTasks)] /\ lost' \subseteq Ids /\ due' \subseteq Ids
         /\ QueuesOK' /\ SwitchableIsDescribed' /\ DueIsOwed'
  <1>0. /\ task \in [CustomTasks -> TaskRecord] /\ writes \in [Ids -> Seq(CustomTasks)]
        /\ rules \in [Ids -> Lists \union {NoFilter}] /\ due \subseteq Ids
    BY DEF CustomInv, CustomTypeOK
  <1>1. /\ writes[i] # <<>> /\ writes' = [writes EXCEPT ![i] = Tail(@)]
        /\ UNCHANGED stored
    BY DEF CommitWrite, RefuseWrite
  <1>2. PICK t \in CustomTasks : t = Head(writes[i])
    BY <1>0, <1>1
  <1>3. task[t].job[i] = "write"
    <2>1. t = writes[i][1] /\ 1 \in 1..Len(writes[i])
      BY <1>0, <1>1, <1>2
    <2>2. QED  BY <2>1 DEF CustomInv, QueuesOK, QueueOK
  <1>4. /\ TaskOK(task[t]) /\ task[t] \in TaskRecord /\ task[t].changed \in BOOLEAN
        /\ task[t].op \in {"create", "remove", "update"}
    BY <1>0, <1>2, <1>3 DEF CustomInv, TaskOK, TaskRecord
  <1>5. ASSUME ToRaw(t, i)
        PROVE  \E r : /\ TaskOK(r) /\ task' = [task EXCEPT ![t] = r] /\ r.op = task[t].op
                      /\ r.job[i] = "raw"
                      /\ \A j \in Ids \ {i} : r.job[j] = task[t].job[j] /\ r.list[j] = task[t].list[j]
                      /\ \A j \in Ids : Owes(task[t], j) => Owes(r, j)
    <2>1. "raw" \in Jobs
      BY DEF Jobs
    <2>2. PICK r : With(r, t, i, task[t].op, "raw", NoFilter, task[t].changed)
      BY <1>2, <1>5, <2>1, JobMoves DEF ToRaw
    <2>3. TaskOK(r) /\ \A j \in Ids : Owes(task[t], j) => Owes(r, j)
      <3>1. NoFilter \in Lists \union {NoFilter} /\ task[t].job[i] # "none"
        BY <1>3
      <3>2. QED  BY <1>2, <1>3, <1>4, <2>1, <2>2, <3>1, JobGoesOn, SMTT(40)
    <2>4. QED  BY <2>2, <2>3 DEF With
  <1>6. CASE CommitWrite(i)
    <2>1. /\ rules' = [rules EXCEPT ![i] = task[t].list[i]] /\ ToRaw(t, i)
          /\ lost' = lost \ {i} /\ due' = due \union Changed
      BY <1>2, <1>6 DEF CommitWrite
    <2>2. PICK r : /\ TaskOK(r) /\ task' = [task EXCEPT ![t] = r] /\ r.op = task[t].op
                   /\ r.job[i] = "raw"
                   /\ \A j \in Ids \ {i} : r.job[j] = task[t].job[j] /\ r.list[j] = task[t].list[j]
                   /\ \A j \in Ids : Owes(task[t], j) => Owes(r, j)
      BY <1>5, <2>1
    <2>3. \A j \in Changed : j = i /\ filterState[i] # "none"
      BY <1>0, <1>1, <2>1, SameRuns DEF stored
    <2>4. task[t].op # "remove" => Owes(r, i)
      BY <1>4, <2>2 DEF Owes
    <2>5. due' \subseteq Ids
      BY <1>0, <2>1, <2>3
    <2>6. \A j \in due' : j \in due \/ (j = i /\ filterState[i] # "none" /\
                                         (task[t].op # "remove" => Owes(r, i)))
      BY <2>1, <2>3, <2>4
    <2>7. \A j \in due : j \in due' /\ Owes(task[t], j) => Owes(r, j)
      BY <1>0, <2>2
    <2>8. Leaves(t, i) /\ StillOwes(t, i, r)
      BY <2>1, <2>6, <2>7 DEF Leaves, StillOwes
    <2>9. QED
      BY <1>1, <1>2, <2>2, <2>5, <2>8, TaskSettles
  <1>7. CASE RefuseWrite(i) /\ ToRaw(t, i) /\ UNCHANGED due
    <2>1. UNCHANGED rules /\ lost' = lost \union {i}
      BY <1>7 DEF RefuseWrite
    <2>2. PICK r : /\ TaskOK(r) /\ task' = [task EXCEPT ![t] = r] /\ r.op = task[t].op
                   /\ r.job[i] = "raw"
                   /\ \A j \in Ids \ {i} : r.job[j] = task[t].job[j] /\ r.list[j] = task[t].list[j]
                   /\ \A j \in Ids : Owes(task[t], j) => Owes(r, j)
      BY <1>5, <1>7
    <2>3. \A j \in due : j \in due' /\ Owes(task[t], j) => Owes(r, j)
      BY <1>0, <2>2
    <2>4. Leaves(t, i) /\ StillOwes(t, i, r) /\ due' \subseteq Ids
      BY <1>0, <1>7, <2>1, <2>3 DEF Leaves, StillOwes
    <2>5. QED
      BY <1>1, <1>2, <2>2, <2>4, TaskSettles
  <1>8. CASE RefuseWrite(i) /\ FailsFor(t, i)
    <2>1. UNCHANGED rules /\ lost' = lost \union {i} /\ due' = due \ {i}
      BY <1>8 DEF RefuseWrite, FailsFor
    <2>2. \E r : /\ TaskOK(r) /\ task' = [task EXCEPT ![t] = r]
                 /\ \A j \in Ids \ {i} : task[t].job[j] = "write" =>
                       r.job[j] = "write" /\ r.list[j] = task[t].list[j] /\ r.op = task[t].op
                 /\ \A j \in Ids \ {i} : Owes(task[t], j) => Owes(r, j)
      <3>1. CASE task[t].op = "update" /\ EndJob(t, i, FALSE)
        <4>1. PICK r : With(r, t, i, task[t].op, "none", NoFilter, task[t].changed \/ FALSE)
          BY <1>2, <3>1, JobEnds
        <4>2. /\ "none" \in Jobs /\ NoFilter \in Lists \union {NoFilter}
              /\ task[t].job[i] # "none"
              /\ (task[t].changed \/ FALSE) = task[t].changed
          BY <1>3, <1>4 DEF Jobs
        <4>3. With(r, t, i, task[t].op, "none", NoFilter, task[t].changed)
          BY <4>1, <4>2
        <4>4. TaskOK(r) /\ \A j \in Ids \ {i} : Owes(task[t], j) => Owes(r, j)
          BY <1>2, <1>3, <1>4, <4>2, <4>3, JobGoesOn, SMTT(40)
        <4>5. QED  BY <4>1, <4>4 DEF With
      <3>2. CASE task[t].op # "update" /\ task' = [task EXCEPT ![t] = IdleTask]
        <4>1. \A j \in Ids \ {i} : task[t].job[j] = "none"
          BY <1>3, <1>4, <3>2 DEF TaskOK
        <4>2. \A j \in Ids \ {i} : ~Owes(task[t], j)
          BY <3>2, <4>1 DEF Owes
        <4>3. QED  BY <3>2, <4>1, <4>2, IdleIsOK
      <3>3. QED  BY <1>8, <3>1, <3>2 DEF FailsFor
    <2>3. PICK r : /\ TaskOK(r) /\ task' = [task EXCEPT ![t] = r]
                   /\ \A j \in Ids \ {i} : task[t].job[j] = "write" =>
                         r.job[j] = "write" /\ r.list[j] = task[t].list[j] /\ r.op = task[t].op
                   /\ \A j \in Ids \ {i} : Owes(task[t], j) => Owes(r, j)
      BY <2>2
    <2>4. \A j \in due : j \in due' /\ Owes(task[t], j) => Owes(r, j)
      BY <1>0, <2>1, <2>3
    <2>5. Leaves(t, i) /\ StillOwes(t, i, r) /\ due' \subseteq Ids
      BY <1>0, <2>1, <2>4 DEF Leaves, StillOwes
    <2>6. QED
      BY <1>1, <1>2, <2>3, <2>5, TaskSettles
  <1>9. QED
    BY <1>2, <1>6, <1>7, <1>8 DEF RefuseWrite

LEMMA CustomStep ==
  ASSUME CustomInv, [CustomNext]_customVars
  PROVE  CustomInv'
  <1>0. RestOK /\ task \in [CustomTasks -> TaskRecord]
    BY DEF RestOK, CustomInv, CustomTypeOK
  <1>1. ASSUME NEW t \in CustomTasks, Neutral(t) PROVE CustomInv'
    <2>1. PICK r : Keeps(t, r) /\ due' \in SUBSET due
                   /\ \A i \in due' : Owes(task[t], i) => Owes(r, i)
      BY <1>1, NeutralKeeps
    <2>2. /\ UNCHANGED <<metadata, filterState, rules, edition, writes, lost>>
          /\ customGroup' \in {"untouched", "on", "off"}
      BY <1>0, <1>1 DEF Neutral, stored, RestOK, DownloadFails, FinishCreate, FinishRemove,
         UpdateFilters, StartUpdates, FinishUpdates, CreateFilter, BeginLoad, CheckFails,
         UpdateFails, StoreRaw, RawFails
    <2>3. loading' \subseteq Addresses
      <3>1. CASE DownloadFails(t)
        BY <1>0, <3>1 DEF DownloadFails, RestOK
      <3>2. ASSUME NEW i \in Ids, BeginLoad(t, i) PROVE loading' \subseteq Addresses
        <4>1. task[t].list[i] \in Lists
          BY <3>2 DEF BeginLoad, CustomInv, TaskOK
        <4>2. QED  BY <1>0, <3>2, <4>1 DEF BeginLoad, RestOK, Lists
      <3>3. ASSUME NEW i \in Ids, LoadFails(t, i) PROVE loading' \subseteq Addresses
        BY <1>0, <3>3 DEF LoadFails, RestOK
      <3>4. ASSUME NEW u \in Addresses, CreateFilter(t, u) PROVE loading' \subseteq Addresses
        BY <1>0, <3>4 DEF CreateFilter, RestOK
      <3>5. CASE UNCHANGED loading
        BY <1>0, <3>5 DEF RestOK
      <3>6. QED
        BY <1>1, <3>1, <3>2, <3>3, <3>4, <3>5 DEF Neutral, FinishCreate, FinishRemove,
           UpdateFilters, StartUpdates, FinishUpdates, CheckFails, UpdateFails, StoreRaw, RawFails
    <2>4. begun' \in 0..MaxOperations
      <3>1. CASE BeginOperation
        BY <3>1, Bound
      <3>2. CASE UNCHANGED begun
        BY <1>0, <3>2 DEF RestOK
      <3>3. QED
        BY <1>1, <3>1, <3>2 DEF Neutral, BeginTask, DownloadFails, FinishCreate, FinishRemove,
           UpdateFilters, StartUpdates, FinishUpdates, CreateFilter, BeginLoad, CheckFails,
           UpdateFails, StoreRaw, RawFails
    <2>5. /\ task' \in [CustomTasks -> TaskRecord]
          /\ \A s \in CustomTasks : TaskOK(task'[s])
          /\ QueuesOK' /\ SwitchableIsDescribed' /\ DueIsOwed'
      BY <2>1, <2>2, TaskGoesOn
    <2>6. RestOK'
      BY <1>0, <2>1, <2>2, <2>3, <2>4 DEF RestOK
    <2>7. QED  BY <2>5, <2>6 DEF RestOK, CustomInv, CustomTypeOK
  <1>2. ASSUME NEW t \in CustomTasks, StoreFilter(t) PROVE CustomInv'
    <2>1. PICK u \in task[t].url : /\ AddFilter(t, [url |-> u, ed |-> edition[u]])
                                   /\ loading' = loading \ {u}
      BY <1>2 DEF StoreFilter
    <2>2. u \in Addresses
      BY <1>0 DEF TaskRecord
    <2>3. [url |-> u, ed |-> edition[u]] \in Lists
      BY <1>0, <2>2 DEF RestOK, Lists
    <2>4. task[t].op \in {"none", "download"} /\ UNCHANGED begun
      BY <1>2 DEF StoreFilter
    <2>5. UNCHANGED <<rules, customGroup, edition, lost>>
      BY <2>1 DEF AddFilter
    <2>6. /\ task' \in [CustomTasks -> TaskRecord]
          /\ \A s \in CustomTasks : TaskOK(task'[s])
          /\ metadata' \in [Ids -> Lists \union {NoFilter}]
          /\ filterState' \in [Ids -> {"none", "off", "on"}]
          /\ writes' \in [Ids -> Seq(CustomTasks)] /\ due' \subseteq Ids
          /\ QueuesOK' /\ SwitchableIsDescribed' /\ DueIsOwed'
      BY <2>1, <2>3, <2>4, AddsFilter
    <2>7. RestOK'
      BY <1>0, <2>1, <2>4, <2>5, <2>6 DEF RestOK
    <2>8. QED  BY <2>6, <2>7 DEF RestOK, CustomInv, CustomTypeOK
  <1>3. ASSUME NEW t \in CustomTasks, NEW u \in Addresses, StoreEmpty(t, u) PROVE CustomInv'
    <2>1. /\ AddFilter(t, [url |-> u, ed |-> 0]) /\ UNCHANGED loading /\ BeginOperation
          /\ task[t].op \in {"none", "download"}
      BY <1>3 DEF StoreEmpty, BeginTask
    <2>2. [url |-> u, ed |-> 0] \in Lists
      BY CustomFiltersAssumption DEF Lists
    <2>3. UNCHANGED <<rules, customGroup, edition, lost>>
      BY <2>1 DEF AddFilter
    <2>4. /\ task' \in [CustomTasks -> TaskRecord]
          /\ \A s \in CustomTasks : TaskOK(task'[s])
          /\ metadata' \in [Ids -> Lists \union {NoFilter}]
          /\ filterState' \in [Ids -> {"none", "off", "on"}]
          /\ writes' \in [Ids -> Seq(CustomTasks)] /\ due' \subseteq Ids
          /\ QueuesOK' /\ SwitchableIsDescribed' /\ DueIsOwed'
      BY <2>1, <2>2, AddsFilter
    <2>5. begun' \in 0..MaxOperations
      BY <2>1, Bound
    <2>6. RestOK'
      BY <1>0, <2>1, <2>3, <2>4, <2>5 DEF RestOK
    <2>7. QED  BY <2>4, <2>6 DEF RestOK, CustomInv, CustomTypeOK
  <1>4. ASSUME NEW t \in CustomTasks, NEW i \in Ids, RemoveFilter(t, i) PROVE CustomInv'
    <2>1. UNCHANGED <<rules, customGroup, edition, loading, lost>> /\ BeginOperation
      BY <1>4 DEF RemoveFilter, BeginTask
    <2>2. /\ task' \in [CustomTasks -> TaskRecord]
          /\ \A s \in CustomTasks : TaskOK(task'[s])
          /\ metadata' \in [Ids -> Lists \union {NoFilter}]
          /\ filterState' \in [Ids -> {"none", "off", "on"}]
          /\ writes' \in [Ids -> Seq(CustomTasks)] /\ due' \subseteq Ids
          /\ QueuesOK' /\ SwitchableIsDescribed' /\ DueIsOwed'
      BY <1>4, Removes
    <2>3. begun' \in 0..MaxOperations
      BY <2>1, Bound
    <2>4. RestOK'
      BY <1>0, <2>1, <2>2, <2>3 DEF RestOK
    <2>5. QED  BY <2>2, <2>4 DEF RestOK, CustomInv, CustomTypeOK
  <1>5. ASSUME NEW t \in CustomTasks, NEW i \in Ids, TakeLoaded(t, i) \/ TakeEmpty(t, i)
        PROVE  CustomInv'
    <2>1. PICK ed \in 0..MaxEdition :
            task[t].job[i] \in {"begin", "load"} /\ TakeList(t, i, ed)
      <3>1. CASE TakeEmpty(t, i)
        <4>1. 0 \in 0..MaxEdition
          BY CustomFiltersAssumption
        <4>2. QED  BY <3>1, <4>1 DEF TakeEmpty
      <3>2. CASE TakeLoaded(t, i)
        <4>1. task[t].list[i] \in Lists
          BY <3>2 DEF TakeLoaded, CustomInv, TaskOK
        <4>2. edition[task[t].list[i].url] \in 0..MaxEdition
          BY <1>0, <4>1 DEF Lists, RestOK
        <4>3. QED  BY <3>2, <4>2 DEF TakeLoaded
      <3>3. QED  BY <1>5, <3>1, <3>2
    <2>2. UNCHANGED <<rules, filterState, customGroup, edition, begun, lost, due>>
      BY <2>1 DEF TakeList
    <2>3. loading' \subseteq Addresses
      BY <1>0, <1>5 DEF TakeLoaded, TakeEmpty, RestOK
    <2>4. /\ task' \in [CustomTasks -> TaskRecord]
          /\ \A s \in CustomTasks : TaskOK(task'[s])
          /\ metadata' \in [Ids -> Lists \union {NoFilter}]
          /\ filterState' \in [Ids -> {"none", "off", "on"}]
          /\ writes' \in [Ids -> Seq(CustomTasks)] /\ due' \subseteq Ids
          /\ QueuesOK' /\ SwitchableIsDescribed' /\ DueIsOwed'
      BY <2>1, Takes
    <2>5. RestOK'
      BY <1>0, <2>2, <2>3, <2>4 DEF RestOK
    <2>6. QED  BY <2>4, <2>5 DEF RestOK, CustomInv, CustomTypeOK
  <1>6. ASSUME NEW i \in Ids, CommitWrite(i) \/ RefuseWrite(i) PROVE CustomInv'
    <2>1. UNCHANGED <<metadata, filterState, customGroup, edition, begun, loading>>
      BY <1>6 DEF CommitWrite, RefuseWrite, stored
    <2>2. /\ task' \in [CustomTasks -> TaskRecord]
          /\ \A s \in CustomTasks : TaskOK(task'[s])
          /\ rules' \in [Ids -> Lists \union {NoFilter}]
          /\ writes' \in [Ids -> Seq(CustomTasks)] /\ lost' \subseteq Ids /\ due' \subseteq Ids
          /\ QueuesOK' /\ SwitchableIsDescribed' /\ DueIsOwed'
      BY <1>6, Settles
    <2>3. RestOK'
      BY <1>0, <2>1, <2>2 DEF RestOK
    <2>4. QED  BY <2>2, <2>3 DEF RestOK, CustomInv, CustomTypeOK
  <1>7. ASSUME UNCHANGED <<metadata, rules, edition, loading, task, writes, lost>>,
               filterState' \in [Ids -> {"none", "off", "on"}],
               \A i \in Ids : filterState'[i] # "none" => filterState[i] # "none",
               customGroup' \in {"untouched", "on", "off"},
               begun' \in 0..MaxOperations, due' \in SUBSET due
        PROVE  CustomInv'
    <2>1. QueuesOK'
      BY <1>7 DEF CustomInv, QueuesOK, QueueOK, LastIsNamed, IsRecreated
    <2>2. SwitchableIsDescribed'
      BY <1>7 DEF CustomInv, SwitchableIsDescribed
    <2>3. DueIsOwed'
      BY <1>7 DEF CustomInv, DueIsOwed, Owes
    <2>4. \A s \in CustomTasks : TaskOK(task'[s])
      BY <1>7 DEF CustomInv
    <2>5. RestOK'
      BY <1>0, <1>7 DEF RestOK
    <2>6. QED  BY <1>0, <1>7, <2>1, <2>2, <2>3, <2>4, <2>5 DEF RestOK, CustomInv, CustomTypeOK
  <1>8. ASSUME NEW i \in Ids, SwitchFilter(i) PROVE CustomInv'
    <2>1. /\ filterState' \in [Ids -> {"none", "off", "on"}]
          /\ \A j \in Ids : filterState'[j] # "none" => filterState[j] # "none"
      BY <1>0, <1>8 DEF SwitchFilter, RestOK
    <2>2. begun' \in 0..MaxOperations
      BY <1>8, Bound DEF SwitchFilter
    <2>3. due' \in SUBSET due
      BY <1>8 DEF SwitchFilter, AskUpdate
    <2>4. /\ UNCHANGED <<metadata, rules, customGroup, edition, loading, task, writes, lost>>
          /\ customGroup' \in {"untouched", "on", "off"}
      BY <1>0, <1>8 DEF SwitchFilter, RestOK
    <2>5. QED  BY <1>7, <2>1, <2>2, <2>3, <2>4
  <1>9. CASE SwitchCustomGroup
    <2>1. begun' \in 0..MaxOperations
      BY <1>9, Bound DEF SwitchCustomGroup
    <2>2. QED  BY <1>0, <1>7, <1>9, <2>1 DEF SwitchCustomGroup, AskUpdate, RestOK
  <1>10. ASSUME NEW u \in Addresses, PublishEdition(u) \/ LateLoad(u) PROVE CustomInv'
    <2>1. /\ UNCHANGED <<metadata, filterState, rules, customGroup, task, begun, writes, lost, due>>
          /\ edition' \in [Addresses -> 1..MaxEdition] /\ loading' \subseteq Addresses
      <3>1. CASE PublishEdition(u)
        <4>1. edition[u] + 1 \in 1..MaxEdition
          BY <1>0, <3>1, CustomFiltersAssumption DEF PublishEdition, RestOK
        <4>2. QED  BY <1>0, <3>1, <4>1 DEF PublishEdition, stored, RestOK
      <3>2. CASE LateLoad(u)
        BY <1>0, <3>2 DEF LateLoad, stored, RestOK
      <3>3. QED  BY <1>10, <3>1, <3>2
    <2>2. QueuesOK'
      BY <2>1 DEF CustomInv, QueuesOK, QueueOK, LastIsNamed, IsRecreated
    <2>3. SwitchableIsDescribed' /\ DueIsOwed'
      BY <2>1 DEF CustomInv, SwitchableIsDescribed, DueIsOwed, Owes
    <2>4. \A s \in CustomTasks : TaskOK(task'[s])
      BY <2>1 DEF CustomInv
    <2>5. RestOK'
      BY <1>0, <2>1 DEF RestOK
    <2>6. QED  BY <1>0, <2>1, <2>2, <2>3, <2>4, <2>5 DEF RestOK, CustomInv, CustomTypeOK
  <1>11. CASE UNCHANGED customVars
    <2>1. UNCHANGED <<metadata, filterState, rules, customGroup, edition, loading, task, begun,
                      writes, lost, due>>
      BY <1>11 DEF customVars, stored
    <2>2. QED  BY <1>0, <1>7, <2>1 DEF RestOK
  <1>12. QED
    BY <1>1, <1>2, <1>3, <1>4, <1>5, <1>6, <1>8, <1>9, <1>10, <1>11
    DEF CustomNext, TaskStep, Neutral

-----------------------------------------------------------------------------
(* The specification. *)

LEMMA CustomInvariant == CustomSpec => []CustomInv
  <1>1. CustomInit => CustomInv
    <2>1. SUFFICES ASSUME CustomInit PROVE CustomInv
      OBVIOUS
    <2>2. \A t \in CustomTasks : task[t] = IdleTask /\ TaskOK(task[t])
      BY <2>1, IdleIsOK DEF CustomInit
    <2>3. \A i \in Ids : writes[i] = <<>> /\ Len(writes[i]) = 0
      BY <2>1 DEF CustomInit
    <2>4. CustomTypeOK
      <3>1. task \in [CustomTasks -> TaskRecord]
        BY <2>1, IdleIsOK DEF CustomInit, TaskOK
      <3>2. edition \in [Addresses -> 1..MaxEdition] /\ begun \in 0..MaxOperations
        BY <2>1, CustomFiltersAssumption DEF CustomInit
      <3>3. writes \in [Ids -> Seq(CustomTasks)]
        BY <2>1 DEF CustomInit
      <3>4. QED  BY <2>1, <3>1, <3>2, <3>3 DEF CustomInit, CustomTypeOK
    <2>5. QueuesOK
      BY <2>3 DEF QueuesOK, QueueOK, LastIsNamed, IsRecreated
    <2>6. SwitchableIsDescribed
      BY <2>1 DEF CustomInit, SwitchableIsDescribed
    <2>7. DueIsOwed
      BY <2>1 DEF CustomInit, DueIsOwed
    <2>8. QED  BY <2>2, <2>4, <2>5, <2>6, <2>7 DEF CustomInv
  <1>2. CustomInv /\ [CustomNext]_customVars => CustomInv'
    BY CustomStep
  <1>3. QED  BY <1>1, <1>2, PTL DEF CustomSpec

(* Every variable of the custom filters has its type. *)
THEOREM CustomFiltersTypes == CustomSpec => []CustomTypeOK
  BY CustomInvariant, PTL DEF CustomInv

(* However creations, updates, removals and their failures overlap, a       *)
(* filter that can be switched on has metadata; and once no transaction on  *)
(* its rules is open, the rules are of the edition the metadata name,       *)
(* unless the last transaction failed.                                     *)
THEOREM SwitchableFiltersAreDescribed == CustomSpec => []SwitchableIsDescribed
  BY CustomInvariant, PTL DEF CustomInv

(* When no operation runs, an engine update has been asked for after every  *)
(* change to the rules of an enabled filter: each operation asks for one    *)
(* before it ends, also one that a removal, another creation with the same  *)
(* id or another batch has overtaken, unless it fails.                      *)
THEOREM ChangesAreTold == CustomSpec => []EngineIsTold
  <1>1. CustomInv => EngineIsTold
    <2>1. SUFFICES ASSUME CustomInv, ~Busy PROVE due = {}
      BY DEF EngineIsTold
    <2>2. due \subseteq Ids /\ \A t \in CustomTasks : task[t].op = "none"
      BY <2>1 DEF Busy, CustomInv, CustomTypeOK
    <2>3. \A i \in Ids, t \in CustomTasks : ~Owes(task[t], i)
      BY <2>2 DEF Owes
    <2>4. QED  BY <2>1, <2>2, <2>3 DEF CustomInv, DueIsOwed
  <1>2. QED  BY <1>1, CustomInvariant, PTL

(* An id is given to one filter only, whatever the order of the downloads.  *)
THEOREM NewIdsAreFree == CustomSpec => NewIdIsFree
  <1>1. CustomInv /\ [CustomNext]_customVars =>
          [\A t \in CustomTasks :
              (StoreFilter(t) \/ \E u \in Addresses : StoreEmpty(t, u)) =>
                  \E i \in Ids : metadata[i] = NoFilter /\ filterState[i] = "none"
                                 /\ filterState'[i] = "on"]_customVars
    <2>1. SUFFICES ASSUME CustomInv, NEW list, NEW t \in CustomTasks, AddFilter(t, list)
                   PROVE  \E i \in Ids : metadata[i] = NoFilter /\ filterState[i] = "none"
                                         /\ filterState'[i] = "on"
      BY DEF StoreFilter, StoreEmpty
    <2>2. GenFilterId \in Ids /\ metadata[GenFilterId] = NoFilter
      BY <2>1, NewId DEF AddFilter
    <2>3. filterState[GenFilterId] = "none"
      BY <2>1, <2>2 DEF CustomInv, SwitchableIsDescribed
    <2>4. filterState'[GenFilterId] = "on"
      BY <2>1, <2>2 DEF AddFilter, CustomInv, CustomTypeOK
    <2>5. QED  BY <2>2, <2>3, <2>4
  <1>2. QED  BY <1>1, CustomInvariant, PTL DEF CustomSpec, NewIdIsFree

-----------------------------------------------------------------------------
(* THE LIST OF USER RULES                                                  *)

-----------------------------------------------------------------------------
(* The inductive invariant. *)

\* At most one mutation is the latest: the toggle that waits, while nothing is
\* in flight, or one of the saves in flight.
OneLatest ==
    /\ toggle.due /\ toggle.latest => InFlight = {}
    /\ \A s \in Saves : save[s].latest => s \in InFlight
    /\ \A s, q \in Saves : save[s].latest /\ save[q].latest => s = q

Sent(s) == save[s].pc = "sent"

\* The toggle that waits is what the clicks ask for, the list shows it, and
\* nothing is on its way that would change the list meanwhile.
ToggleWaits ==
    ~crossed /\ toggle.due /\ toggle.latest =>
        toggle.text = wanted /\ shownText = wanted /\ events = 0 /\ ~refetching

\* What the clicks ask for waits for the debounce, is on its way as the latest
\* save, or is stored with nothing on its way that would overwrite it.
WantedIsOnItsWay ==
    ~crossed =>
        \/ toggle.due /\ toggle.latest
        \/ \E s \in Saves : Sent(s) /\ save[s].latest /\ save[s].text = wanted
        \/ storedText = wanted /\ \A s \in Saves : ~Sent(s)

\* No text is fetched for an event while a save is in flight.
OneFetches == ~crossed /\ refetching => InFlight = {}

PageInv ==
    /\ PageTypeOK /\ OneLatest /\ ToggleWaits /\ WantedIsOnItsWay /\ OneFetches
    /\ ListIsWanted

-----------------------------------------------------------------------------
(* The operators the actions share. *)

LEMMA Texted == NoText \in Texts
  BY DEF NoText, Texts, Lines

LEMMA LineChanged ==
  ASSUME NEW t \in Texts, NEW r \in UserRules, NEW line \in Lines
  PROVE  [t EXCEPT ![r] = line] \in Texts
  BY DEF Texts

LEMMA NoSaveIs ==
  NoSave \in SaveRecord /\ NoSave.pc = "idle" /\ NoSave.latest = FALSE
  BY Texted DEF NoSave, SaveRecord

LEMMA NoToggleIs ==
  /\ NoToggle \in [due : BOOLEAN, text : Texts, latest : BOOLEAN]
  /\ NoToggle.due = FALSE /\ NoToggle.latest = FALSE
  BY Texted DEF NoToggle

LEMMA WantsIs ==
  ASSUME NEW text \in Texts, NEW cross \in BOOLEAN, crossed \in BOOLEAN, Wants(text, cross)
  PROVE  /\ crossed' \in BOOLEAN /\ wanted' \in Texts
         /\ crossed' <=> crossed \/ cross
         /\ ~crossed' => wanted' = text
  <1>1. crossed' = (crossed \/ cross) /\ wanted' = IF crossed' THEN NoText ELSE text
    BY DEF Wants
  <1>2. QED  BY <1>1, Texted

LEMMA SupersededIs ==
  ASSUME save \in [Saves -> SaveRecord]
  PROVE  /\ Superseded \in [Saves -> SaveRecord]
         /\ \A s \in Saves : /\ Superseded[s].pc = save[s].pc
                             /\ Superseded[s].latest = FALSE
  <1>1. ASSUME NEW s \in Saves
        PROVE  /\ Superseded[s] \in SaveRecord /\ Superseded[s].pc = save[s].pc
               /\ Superseded[s].latest = FALSE
    <2>1. Superseded[s] = [save[s] EXCEPT !.latest = FALSE, !.fallback = NoText]
      BY DEF Superseded
    <2>2. save[s] \in SaveRecord
      OBVIOUS
    <2>3. QED  BY <2>1, <2>2, Texted DEF SaveRecord
  <1>2. DOMAIN Superseded = Saves /\ Superseded = [s \in Saves |-> Superseded[s]]
    BY DEF Superseded
  <1>3. QED  BY <1>1, <1>2

\* A click that saves at once.
LEMMA PersistIs ==
  ASSUME PageTypeOK, NEW s \in Saves, NEW by \in {"delete", "undo"}, NEW text \in Texts,
         NEW gone \in Texts, Persist(s, by, text, gone)
  PROVE  /\ shownText' = text /\ refetching' = FALSE
         /\ toggle' \in [due : BOOLEAN, text : Texts, latest : BOOLEAN]
         /\ toggle'.latest = FALSE
         /\ save' \in [Saves -> SaveRecord]
         /\ save'[s].pc = "sent" /\ save'[s].latest /\ save'[s].text = text
         /\ \A q \in Saves \ {s} : save'[q].pc = save[q].pc /\ ~save'[q].latest
  <1> DEFINE new == [pc |-> "sent", by |-> by, text |-> text, fallback |-> shownText,
                     gone |-> gone, latest |-> TRUE]
  <1>1. /\ shownText' = text /\ refetching' = FALSE
        /\ save' = [Superseded EXCEPT ![s] = new]
        /\ toggle' = [NoToggle EXCEPT !.due = toggle.due]
    BY DEF Persist
  <1>2. save \in [Saves -> SaveRecord] /\ toggle.due \in BOOLEAN /\ shownText \in Texts
    BY DEF PageTypeOK
  <1>3. new \in SaveRecord /\ new.pc = "sent" /\ new.latest = TRUE /\ new.text = text
    BY <1>2 DEF SaveRecord
  <1>4. /\ toggle' \in [due : BOOLEAN, text : Texts, latest : BOOLEAN]
        /\ toggle'.latest = FALSE
    BY <1>1, <1>2, Texted DEF NoToggle
  <1> HIDE DEF new
  <1>5. QED  BY <1>1, <1>2, <1>3, <1>4, SupersededIs

LEMMA FinishedIs ==
  ASSUME save \in [Saves -> SaveRecord], NEW s \in Saves
  PROVE  /\ Finished(s) \in [Saves -> SaveRecord]
         /\ Finished(s)[s].pc = "idle" /\ Finished(s)[s].latest = FALSE
         /\ \A q \in Saves \ {s} : Finished(s)[q] = save[q]
  BY NoSaveIs DEF Finished

-----------------------------------------------------------------------------
(* Types. *)

LEMMA PageTypesHold ==
  ASSUME PageTypeOK, [PageNext]_pageVars
  PROVE  PageTypeOK'
  <1>0. /\ storedText \in Texts /\ shownText \in Texts /\ wanted \in Texts
        /\ undoable \in Texts
        /\ toggle \in [due : BOOLEAN, text : Texts, latest : BOOLEAN]
        /\ save \in [Saves -> SaveRecord] /\ events \in 0..MaxEvents
        /\ other \in [pc : {"idle", "read"}, read : Texts, wants : Texts]
        /\ refetching \in BOOLEAN /\ crossed \in BOOLEAN /\ MaxEvents \in Nat
    BY UserRulesAssumption DEF PageTypeOK
  <1>1. Crosses \in BOOLEAN /\ PageQuiet \in BOOLEAN
    BY DEF Crosses, PageQuiet
  <1>2. ASSUME NEW r \in UserRules, ToggleRule(r)
        PROVE  PageTypeOK'
    <2> DEFINE line == IF shownText[r] = "on" THEN "off" ELSE "on"
    <2>1. shownText' = [shownText EXCEPT ![r] = line] /\ line \in Lines
      BY <1>2 DEF ToggleRule, Lines
    <2>2. shownText' \in Texts
      BY <1>0, <2>1, LineChanged
    <2>3. [wanted EXCEPT ![r] = shownText'[r]] \in Texts
      <3>1. shownText'[r] \in Lines
        BY <2>2 DEF Texts
      <3>2. QED  BY <1>0, <3>1, LineChanged
    <2>4. crossed' \in BOOLEAN /\ wanted' \in Texts
      BY <1>0, <1>1, <1>2, <2>3, WantsIs DEF ToggleRule
    <2>5. save' \in [Saves -> SaveRecord]
      BY <1>0, <1>2, SupersededIs DEF ToggleRule
    <2>6. toggle' \in [due : BOOLEAN, text : Texts, latest : BOOLEAN]
      BY <1>2, <2>2 DEF ToggleRule
    <2>7. QED  BY <1>0, <1>2, <2>2, <2>4, <2>5, <2>6 DEF ToggleRule, PageTypeOK
  <1>3. ASSUME NEW s \in Saves, NEW r \in UserRules, DeleteRule(s, r)
        PROVE  PageTypeOK'
    <2>1. "absent" \in Lines /\ shownText[r] \in Lines
      BY <1>0 DEF Texts, Lines
    <2>2. /\ [shownText EXCEPT ![r] = "absent"] \in Texts
          /\ [NoText EXCEPT ![r] = shownText[r]] \in Texts
          /\ [wanted EXCEPT ![r] = "absent"] \in Texts
      BY <1>0, <2>1, Texted, LineChanged
    <2>3. crossed' \in BOOLEAN /\ wanted' \in Texts
      BY <1>0, <1>1, <1>3, <2>2, WantsIs DEF DeleteRule
    <2>4. /\ shownText' \in Texts /\ refetching' = FALSE /\ save' \in [Saves -> SaveRecord]
          /\ toggle' \in [due : BOOLEAN, text : Texts, latest : BOOLEAN]
      BY <1>3, <2>2, PersistIs DEF DeleteRule
    <2>5. QED  BY <1>0, <1>3, <2>3, <2>4 DEF DeleteRule, PageTypeOK
  <1>4. ASSUME NEW s \in Saves, NEW r \in UserRules, UndoDelete(s, r)
        PROVE  PageTypeOK'
    <2>1. "absent" \in Lines /\ undoable[r] \in Lines
      BY <1>0 DEF Texts, Lines
    <2>2. /\ [shownText EXCEPT ![r] = undoable[r]] \in Texts
          /\ [undoable EXCEPT ![r] = "absent"] \in Texts
          /\ [wanted EXCEPT ![r] = undoable[r]] \in Texts
      BY <1>0, <2>1, LineChanged
    <2>3. crossed' \in BOOLEAN /\ wanted' \in Texts
      BY <1>0, <1>1, <1>4, <2>2, WantsIs DEF UndoDelete
    <2>4. /\ shownText' \in Texts /\ refetching' = FALSE /\ save' \in [Saves -> SaveRecord]
          /\ toggle' \in [due : BOOLEAN, text : Texts, latest : BOOLEAN]
      BY <1>4, <2>2, Texted, PersistIs DEF UndoDelete
    <2>5. QED  BY <1>0, <1>4, <2>2, <2>3, <2>4 DEF UndoDelete, PageTypeOK
  <1>5. ASSUME NEW s \in Saves, FireToggle(s)
        PROVE  PageTypeOK'
    <2> DEFINE new == [NoSave EXCEPT !.pc = "sent", !.text = toggle.text,
                                     !.latest = toggle.latest]
    <2>1. new \in SaveRecord
      BY <1>0, NoSaveIs DEF SaveRecord
    <2>2. save' \in [Saves -> SaveRecord]
      BY <1>0, <1>5, <2>1 DEF FireToggle
    <2>3. QED  BY <1>0, <1>5, <2>2, NoToggleIs DEF FireToggle, PageTypeOK
  <1>6. CASE LeavePage
    <2>1. crossed' \in BOOLEAN /\ wanted' \in Texts
      BY <1>0, <1>6, WantsIs DEF LeavePage
    <2>2. QED  BY <1>0, <1>6, <2>1, NoToggleIs, Texted DEF LeavePage, PageTypeOK
  <1>7. ASSUME NEW s \in Saves, CommitSave(s)
        PROVE  PageTypeOK'
    <2>1. save[s] \in SaveRecord /\ save[s].text \in Texts
      BY <1>0 DEF SaveRecord
    <2>2. save' = [save EXCEPT ![s] = [save[s] EXCEPT !.pc = "stored", !.text = NoText]]
      BY <1>0, <1>7 DEF CommitSave
    <2>3. [save[s] EXCEPT !.pc = "stored", !.text = NoText] \in SaveRecord
      BY <2>1, Texted DEF SaveRecord
    <2>4. save' \in [Saves -> SaveRecord] /\ events' \in 0..MaxEvents
      BY <1>0, <1>7, <2>2, <2>3 DEF CommitSave
    <2>5. QED  BY <1>0, <1>7, <2>1, <2>4 DEF CommitSave, PageTypeOK
  <1>8. ASSUME NEW s \in Saves, SaveReply(s) \/ FetchAfterSave(s)
        PROVE  PageTypeOK'
    <2>1. [save EXCEPT ![s].pc = "fetch"] \in [Saves -> SaveRecord]
      BY <1>0 DEF SaveRecord
    <2>2. [save EXCEPT ![s].pc = "limits"] \in [Saves -> SaveRecord]
      BY <1>0 DEF SaveRecord
    <2>3. save' \in [Saves -> SaveRecord]
      BY <1>0, <1>8, <2>1, <2>2, FinishedIs DEF SaveReply, FetchAfterSave
    <2>4. QED  BY <1>0, <1>8, <2>3 DEF SaveReply, FetchAfterSave, PageTypeOK
  <1>9. ASSUME NEW s \in Saves, EndSave(s)
        PROVE  PageTypeOK'
    <2>1. save[s].gone \in Texts
      BY <1>0 DEF SaveRecord
    <2>2. undoable' \in Texts
      BY <1>0, <1>9, <2>1 DEF EndSave, Texts
    <2>3. QED  BY <1>0, <1>9, <2>2, FinishedIs DEF EndSave, PageTypeOK
  <1>10. ASSUME NEW s \in Saves, FailSave(s)
         PROVE  PageTypeOK'
    <2>1. save[s].fallback \in Texts /\ save[s].latest \in BOOLEAN
      BY <1>0 DEF SaveRecord
    <2>2. crossed' \in BOOLEAN /\ wanted' \in Texts
      BY <1>0, <1>10, WantsIs DEF FailSave
    <2>3. shownText' \in Texts /\ refetching' \in BOOLEAN
      BY <1>0, <1>10, <2>1 DEF FailSave
    <2>4. QED  BY <1>0, <1>10, <2>2, <2>3, FinishedIs DEF FailSave, PageTypeOK
  <1>11. CASE ReceiveEvent
    <2>1. events' \in 0..MaxEvents /\ refetching' \in BOOLEAN
      BY <1>0, <1>11 DEF ReceiveEvent
    <2>2. QED  BY <1>0, <1>11, <2>1 DEF ReceiveEvent, PageTypeOK
  <1>12. CASE FinishRefetch
    <2>1. crossed' \in BOOLEAN /\ wanted' \in Texts
      BY <1>0, <1>12, WantsIs DEF FinishRefetch
    <2>2. QED  BY <1>0, <1>12, <2>1 DEF FinishRefetch, PageTypeOK
  <1>13. ASSUME NEW r \in UserRules, NEW line \in Lines, OtherRead(r, line)
         PROVE  PageTypeOK'
    <2>1. [storedText EXCEPT ![r] = line] \in Texts
      BY <1>0, LineChanged
    <2>2. QED  BY <1>0, <1>13, <2>1 DEF OtherRead, PageTypeOK
  <1>14. CASE OtherWrite
    <2>1. other.wants \in Texts /\ (~PageQuiet \/ storedText # other.read) \in BOOLEAN
      BY <1>0
    <2>2. crossed' \in BOOLEAN /\ wanted' \in Texts
      BY <1>0, <1>14, <2>1, WantsIs DEF OtherWrite
    <2>3. events' \in 0..MaxEvents
      BY <1>0, <1>14 DEF OtherWrite
    <2>4. NoOther \in [pc : {"idle", "read"}, read : Texts, wants : Texts]
      BY Texted DEF NoOther
    <2>5. QED  BY <1>0, <1>14, <2>1, <2>2, <2>3, <2>4 DEF OtherWrite, PageTypeOK
  <1>15. CASE UNCHANGED pageVars
    BY <1>0, <1>15 DEF pageVars, PageTypeOK
  <1>16. QED
    BY <1>2, <1>3, <1>4, <1>5, <1>6, <1>7, <1>8, <1>9, <1>10, <1>11, <1>12, <1>13, <1>14,
       <1>15
    DEF PageNext, SaveStep

-----------------------------------------------------------------------------
(* The steps. *)

\* A save that is not over keeps its place among the mutations.
LEMMA TakenFurther ==
  ASSUME save \in [Saves -> SaveRecord], NEW s \in Saves, NEW pc \in {"fetch", "limits"},
         NEW f, f = [save EXCEPT ![s].pc = pc]
  PROVE  /\ f[s].pc = pc /\ f[s].latest = save[s].latest
         /\ \A q \in Saves \ {s} : f[q] = save[q]
  <1>1. save[s] \in SaveRecord /\ f[s] = [save[s] EXCEPT !.pc = pc]
    OBVIOUS
  <1>2. f[s].pc = pc /\ f[s].latest = save[s].latest
    BY <1>1 DEF SaveRecord
  <1>3. QED  BY <1>2

LEMMA PageInvNext == PageInv /\ [PageNext]_pageVars => PageInv'
  <1> SUFFICES ASSUME PageInv, [PageNext]_pageVars PROVE PageInv'
    OBVIOUS
  <1>0. /\ PageTypeOK /\ PageTypeOK' /\ OneLatest /\ ToggleWaits /\ WantedIsOnItsWay
        /\ OneFetches /\ ListIsWanted
    BY PageTypesHold DEF PageInv
  <1>a. /\ save \in [Saves -> SaveRecord] /\ save' \in [Saves -> SaveRecord]
        /\ storedText \in Texts /\ shownText \in Texts /\ wanted \in Texts
        /\ toggle \in [due : BOOLEAN, text : Texts, latest : BOOLEAN]
        /\ events \in 0..MaxEvents /\ MaxEvents \in Nat
        /\ refetching \in BOOLEAN /\ crossed \in BOOLEAN
        /\ Crosses \in BOOLEAN /\ PageQuiet \in BOOLEAN
    BY <1>0, UserRulesAssumption DEF PageTypeOK, Crosses, PageQuiet
  <1>b. \A s \in Saves : save[s].latest \in BOOLEAN /\ save[s].text \in Texts
    BY <1>a DEF SaveRecord
  <1>1. ASSUME NEW r \in UserRules, ToggleRule(r)
        PROVE  PageInv'
    <2> DEFINE line == IF shownText[r] = "on" THEN "off" ELSE "on"
               text == [wanted EXCEPT ![r] = line]
    <2>1. /\ InFlight = {} /\ shownText' = [shownText EXCEPT ![r] = line]
          /\ toggle' = [due |-> TRUE, text |-> shownText', latest |-> TRUE]
          /\ save' = Superseded /\ refetching' = FALSE /\ UNCHANGED <<storedText, events>>
          /\ Wants([wanted EXCEPT ![r] = shownText'[r]], Crosses)
      BY <1>1 DEF ToggleRule
    <2>2. shownText'[r] = line
      BY <1>a, <2>1 DEF Texts
    <2>3. line \in Lines
      BY DEF Lines
    <2>4. text \in Texts
      BY <1>a, <2>3, LineChanged
    <2>5. (crossed' <=> crossed \/ Crosses) /\ (~crossed' => wanted' = text)
      BY <1>a, <2>1, <2>2, <2>4, WantsIs
    <2>6. \A s \in Saves : save'[s].pc = "idle" /\ save'[s].latest = FALSE
      BY <1>a, <2>1, SupersededIs DEF InFlight
    <2>7. InFlight' = {}
      BY <2>6 DEF InFlight
    <2>8. ~crossed' => ~crossed /\ events = 0 /\ ~refetching /\ shownText = wanted
      BY <1>0, <1>a, <2>1, <2>5 DEF Crosses, ListIsWanted
    <2>9. ~crossed' => shownText' = wanted' /\ events' = 0
      BY <2>1, <2>5, <2>8
    <2>10. OneLatest' /\ ToggleWaits' /\ WantedIsOnItsWay' /\ OneFetches' /\ ListIsWanted'
      BY <2>1, <2>6, <2>7, <2>9
      DEF OneLatest, ToggleWaits, WantedIsOnItsWay, OneFetches, ListIsWanted
    <2>11. QED  BY <1>0, <2>10 DEF PageInv
  \* A click that saves at once, of text, while the list shows what is wanted.
  <1>2. ASSUME NEW s \in Saves, NEW by \in {"delete", "undo"}, NEW text \in Texts,
               NEW gone \in Texts, Persist(s, by, text, gone), NEW asked \in Texts,
               shownText = wanted => asked = text, Wants(asked, Crosses),
               UNCHANGED <<storedText, events>>
        PROVE  PageInv'
    <2>1. /\ shownText' = text /\ refetching' = FALSE /\ toggle'.latest = FALSE
          /\ save'[s].pc = "sent" /\ save'[s].latest /\ save'[s].text = text
          /\ \A q \in Saves \ {s} : save'[q].pc = save[q].pc /\ ~save'[q].latest
      BY <1>0, <1>2, PersistIs
    <2>2. (crossed' <=> crossed \/ Crosses) /\ (~crossed' => wanted' = asked)
      BY <1>a, <1>2, WantsIs
    <2>3. ~crossed' => shownText = wanted
      BY <1>0, <1>a, <2>2 DEF Crosses, ListIsWanted
    <2>4. ~crossed' => wanted' = text
      BY <1>2, <2>2, <2>3
    <2>5. s \in InFlight'
      BY <2>1 DEF InFlight
    <2>6. OneLatest'
      BY <2>1, <2>5 DEF OneLatest
    <2>7. ToggleWaits' /\ WantedIsOnItsWay' /\ OneFetches' /\ ListIsWanted'
      BY <2>1, <2>4 DEF ToggleWaits, WantedIsOnItsWay, OneFetches, ListIsWanted, Sent
    <2>8. QED  BY <1>0, <2>6, <2>7 DEF PageInv
  <1>3. ASSUME NEW s \in Saves, NEW r \in UserRules, DeleteRule(s, r)
        PROVE  PageInv'
    <2> DEFINE text == [shownText EXCEPT ![r] = "absent"]
               gone == [NoText EXCEPT ![r] = shownText[r]]
               asked == [wanted EXCEPT ![r] = "absent"]
    <2>1. "absent" \in Lines /\ shownText[r] \in Lines
      BY <1>a DEF Texts, Lines
    <2>2. text \in Texts /\ gone \in Texts /\ asked \in Texts
      BY <1>a, <2>1, Texted, LineChanged
    <2>3. shownText = wanted => asked = text
      OBVIOUS
    <2>4. Persist(s, "delete", text, gone) /\ Wants(asked, Crosses)
          /\ UNCHANGED <<storedText, events>>
      BY <1>3 DEF DeleteRule
    <2> HIDE DEF text, gone, asked
    <2>5. QED  BY <1>2, <2>2, <2>3, <2>4
  <1>4. ASSUME NEW s \in Saves, NEW r \in UserRules, UndoDelete(s, r)
        PROVE  PageInv'
    <2> DEFINE text == [shownText EXCEPT ![r] = undoable[r]]
               asked == [wanted EXCEPT ![r] = undoable[r]]
    <2>1. undoable[r] \in Lines
      BY <1>0 DEF PageTypeOK, Texts
    <2>2. text \in Texts /\ asked \in Texts
      BY <1>a, <2>1, LineChanged
    <2>3. shownText = wanted => asked = text
      OBVIOUS
    <2>4. Persist(s, "undo", text, NoText) /\ Wants(asked, Crosses)
          /\ UNCHANGED <<storedText, events>>
      BY <1>4 DEF UndoDelete
    <2> HIDE DEF text, asked
    <2>5. QED  BY <1>2, <2>2, <2>3, <2>4, Texted
  <1>5. ASSUME NEW s \in Saves, FireToggle(s)
        PROVE  PageInv'
    <2>1. /\ toggle.due /\ save[s].pc = "idle" /\ toggle'.due = FALSE
          /\ UNCHANGED <<storedText, shownText, events, refetching, wanted, crossed>>
      BY <1>5, NoToggleIs DEF FireToggle
    <2>2. CASE toggle.latest
      <3> DEFINE new == [NoSave EXCEPT !.pc = "sent", !.text = toggle.text,
                                       !.latest = toggle.latest]
      <3>1. save' = [save EXCEPT ![s] = new]
        BY <1>5, <2>2 DEF FireToggle, StillLatest
      <3>2. new.pc = "sent" /\ new.text = toggle.text /\ new.latest
        BY <2>2, NoSaveIs DEF SaveRecord
      <3> HIDE DEF new
      <3>3. InFlight = {} /\ \A q \in Saves : ~save[q].latest
        BY <1>0, <2>1, <2>2 DEF OneLatest
      <3>4. /\ save'[s].pc = "sent" /\ save'[s].text = toggle.text /\ save'[s].latest
            /\ \A q \in Saves \ {s} : save'[q] = save[q]
        BY <1>a, <3>1, <3>2
      <3>5. s \in InFlight'
        BY <3>4 DEF InFlight
      <3>6. OneLatest'
        BY <2>1, <3>3, <3>4, <3>5 DEF OneLatest
      <3>7. ~crossed => toggle.text = wanted /\ shownText = wanted /\ ~refetching
        BY <1>0, <2>1, <2>2 DEF ToggleWaits
      <3>8. WantedIsOnItsWay' /\ ToggleWaits' /\ OneFetches' /\ ListIsWanted'
        BY <2>1, <3>4, <3>7 DEF WantedIsOnItsWay, ToggleWaits, OneFetches, ListIsWanted, Sent
      <3>9. QED  BY <1>0, <3>6, <3>8 DEF PageInv
    <2>3. CASE ~toggle.latest
      <3>1. save' = save
        BY <1>5, <2>3 DEF FireToggle, StillLatest
      <3>2. OneLatest' /\ ToggleWaits' /\ WantedIsOnItsWay' /\ OneFetches' /\ ListIsWanted'
        BY <1>0, <2>1, <2>3, <3>1
        DEF OneLatest, ToggleWaits, WantedIsOnItsWay, OneFetches, ListIsWanted, InFlight, Sent
      <3>3. QED  BY <1>0, <3>2 DEF PageInv
    <2>4. QED  BY <2>2, <2>3
  \* A step that leaves the changes crossed has little to preserve.
  <1>6. ASSUME crossed', OneLatest'
        PROVE  PageInv'
    BY <1>0, <1>6 DEF PageInv, ToggleWaits, WantedIsOnItsWay, OneFetches, ListIsWanted
  <1>7. CASE LeavePage
    <2>1. crossed'
      BY <1>a, <1>7, WantsIs DEF LeavePage
    <2>2. OneLatest'
      BY <1>0, <1>7, NoToggleIs DEF LeavePage, OneLatest, InFlight
    <2>3. QED  BY <1>6, <2>1, <2>2
  <1>8. ASSUME NEW s \in Saves, CommitSave(s)
        PROVE  PageInv'
    <2>1. /\ save[s].pc = "sent" /\ storedText' = save[s].text /\ events' = events + 1
          /\ save[s].latest => \A q \in Saves \ {s} : save[q].pc # "sent"
          /\ UNCHANGED <<shownText, toggle, refetching, wanted, crossed>>
      BY <1>8 DEF CommitSave
    <2>2. /\ save'[s].pc = "stored" /\ save'[s].latest = save[s].latest
          /\ \A q \in Saves \ {s} : save'[q] = save[q]
      <3>1. save' = [save EXCEPT ![s] = [save[s] EXCEPT !.pc = "stored", !.text = NoText]]
        BY <1>a, <1>8 DEF CommitSave
      <3>2. save[s] \in SaveRecord
        BY <1>a
      <3>3. QED  BY <1>a, <3>1, <3>2 DEF SaveRecord
    <2>3. InFlight' = InFlight /\ s \in InFlight
      BY <2>1, <2>2 DEF InFlight
    <2>4. OneLatest'
      BY <1>0, <2>1, <2>2, <2>3 DEF OneLatest
    <2>5. ~(toggle.due /\ toggle.latest)
      BY <1>0, <2>3 DEF OneLatest
    <2>6. WantedIsOnItsWay'
      <3>1. SUFFICES ASSUME ~crossed PROVE WantedIsOnItsWay'
        BY <2>1 DEF WantedIsOnItsWay
      <3>2. PICK q \in Saves : Sent(q) /\ save[q].latest /\ save[q].text = wanted
        BY <1>0, <2>1, <2>5, <3>1 DEF WantedIsOnItsWay, Sent
      <3>3. CASE q = s
        BY <2>1, <2>2, <3>2, <3>3 DEF WantedIsOnItsWay, Sent
      <3>4. CASE q # s
        BY <2>1, <2>2, <3>2, <3>4 DEF WantedIsOnItsWay, Sent
      <3>5. QED  BY <3>3, <3>4
    <2>7. ToggleWaits' /\ OneFetches' /\ ListIsWanted'
      BY <1>0, <2>1, <2>3, <2>5 DEF ToggleWaits, OneFetches, ListIsWanted
    <2>8. QED  BY <1>0, <2>4, <2>6, <2>7 DEF PageInv
  \* A save that is past the storage goes on, or is over.
  <1>9. ASSUME NEW s \in Saves, save[s].pc \notin {"idle", "sent"},
               save'[s].pc # "sent",
               save'[s].latest => save[s].latest /\ save'[s].pc # "idle",
               \A q \in Saves \ {s} : save'[q] = save[q],
               UNCHANGED <<storedText, toggle, events, refetching, wanted, crossed>>,
               shownText' = shownText \/ (save[s].latest /\ shownText' = storedText)
        PROVE  PageInv'
    <2>1. s \in InFlight /\ InFlight' \subseteq InFlight
      BY <1>9 DEF InFlight
    <2>2. ~(toggle.due /\ toggle.latest)
      BY <1>0, <2>1 DEF OneLatest
    <2>3. \A q \in Saves : (save'[q].latest => save[q].latest /\ q \in InFlight')
      BY <1>0, <1>9 DEF OneLatest, InFlight
    <2>4. OneLatest'
      BY <1>0, <1>9, <2>2, <2>3 DEF OneLatest
    <2>5. \A q \in Saves : (Sent(q)' <=> Sent(q)) /\ (Sent(q) => save'[q] = save[q])
      BY <1>9 DEF Sent
    <2>6. WantedIsOnItsWay'
      BY <1>0, <1>9, <2>2, <2>5 DEF WantedIsOnItsWay
    <2>7. ~crossed => shownText' = wanted
      <3>1. SUFFICES ASSUME ~crossed PROVE shownText' = wanted
        OBVIOUS
      <3>2. shownText = wanted
        BY <1>0, <2>1, <3>1 DEF ListIsWanted
      <3>3. CASE save[s].latest
        <4>1. \A q \in Saves : save[q].latest => ~Sent(q)
          BY <1>0, <1>9, <3>3 DEF OneLatest, Sent
        <4>2. storedText = wanted
          BY <1>0, <2>2, <3>1, <4>1 DEF WantedIsOnItsWay
        <4>3. QED  BY <1>9, <3>2, <4>2
      <3>4. QED  BY <1>9, <3>2, <3>3
    <2>8. ToggleWaits' /\ OneFetches' /\ ListIsWanted'
      <3>1. ~crossed => ~refetching
        BY <1>0, <1>a, <2>1 DEF OneFetches
      <3>2. QED  BY <1>9, <2>2, <2>7, <3>1 DEF ToggleWaits, OneFetches, ListIsWanted
    <2>9. QED  BY <1>0, <2>4, <2>6, <2>8 DEF PageInv
  <1>10. ASSUME NEW s \in Saves, SaveReply(s)
         PROVE  PageInv'
    <2>1. /\ save[s].pc = "stored"
          /\ save' = Finished(s) \/ save' = [save EXCEPT ![s].pc = "fetch"]
          /\ UNCHANGED <<storedText, shownText, toggle, events, refetching, wanted, crossed>>
      BY <1>10 DEF SaveReply
    <2>2. /\ save'[s].pc # "sent"
          /\ save'[s].latest => save[s].latest /\ save'[s].pc # "idle"
          /\ \A q \in Saves \ {s} : save'[q] = save[q]
      <3>1. CASE save' = Finished(s)
        BY <1>a, <3>1, FinishedIs
      <3>2. CASE save' = [save EXCEPT ![s].pc = "fetch"]
        BY <1>a, <3>2, TakenFurther
      <3>3. QED  BY <2>1, <3>1, <3>2
    <2>3. QED  BY <1>9, <2>1, <2>2
  <1>11. ASSUME NEW s \in Saves, FetchAfterSave(s)
         PROVE  PageInv'
    <2>1. /\ save[s].pc = "fetch"
          /\ save' = Finished(s) \/ save' = [save EXCEPT ![s].pc = "limits"]
          /\ UNCHANGED <<storedText, toggle, events, refetching, wanted, crossed>>
          /\ shownText' = shownText \/ (save[s].latest /\ shownText' = storedText)
      BY <1>11 DEF FetchAfterSave, MayApply
    <2>2. /\ save'[s].pc # "sent"
          /\ save'[s].latest => save[s].latest /\ save'[s].pc # "idle"
          /\ \A q \in Saves \ {s} : save'[q] = save[q]
      <3>1. CASE save' = Finished(s)
        BY <1>a, <3>1, FinishedIs
      <3>2. CASE save' = [save EXCEPT ![s].pc = "limits"]
        BY <1>a, <3>2, TakenFurther
      <3>3. QED  BY <2>1, <3>1, <3>2
    <2>3. QED  BY <1>9, <2>1, <2>2
  <1>12. ASSUME NEW s \in Saves, EndSave(s)
         PROVE  PageInv'
    <2>1. /\ save[s].pc = "limits" /\ save' = Finished(s)
          /\ UNCHANGED <<storedText, shownText, toggle, events, refetching, wanted, crossed>>
      BY <1>12 DEF EndSave
    <2>2. /\ save'[s].pc # "sent" /\ ~save'[s].latest
          /\ \A q \in Saves \ {s} : save'[q] = save[q]
      BY <1>a, <2>1, FinishedIs
    <2>3. QED  BY <1>9, <2>1, <2>2
  <1>13. ASSUME NEW s \in Saves, FailSave(s)
         PROVE  PageInv'
    <2>1. save[s].pc # "idle" /\ save' = Finished(s) /\ UNCHANGED toggle /\ Wants(wanted, TRUE)
      BY <1>13 DEF FailSave
    <2>2. crossed'
      BY <1>a, <2>1, WantsIs
    <2>3. ~save'[s].latest /\ \A q \in Saves \ {s} : save'[q] = save[q]
      BY <1>a, <2>1, FinishedIs
    <2>4. ~(toggle.due /\ toggle.latest)
      BY <1>0, <2>1 DEF OneLatest, InFlight
    <2>5. \A q \in Saves : (save'[q].latest => save[q].latest /\ q \in InFlight')
      BY <1>0, <2>3 DEF OneLatest, InFlight
    <2>6. OneLatest'
      BY <1>0, <2>1, <2>3, <2>4, <2>5 DEF OneLatest
    <2>7. QED  BY <1>6, <2>2, <2>6
  \* The other steps leave the saves and the toggle alone.
  <1>14. ASSUME UNCHANGED <<save, toggle>>
         PROVE  InFlight' = InFlight /\ OneLatest'
    BY <1>0, <1>14 DEF OneLatest, InFlight
  <1>15. CASE ReceiveEvent
    <2>1. /\ events > 0 /\ events' = events - 1 /\ refetching' = (refetching \/ InFlight = {})
          /\ UNCHANGED <<storedText, shownText, toggle, save, wanted, crossed>>
      BY <1>15 DEF ReceiveEvent
    <2>2. InFlight' = InFlight /\ OneLatest'
      BY <1>14, <2>1
    <2>3. ~crossed => ~(toggle.due /\ toggle.latest)
      BY <1>0, <1>a, <2>1 DEF ToggleWaits
    <2>4. ToggleWaits' /\ WantedIsOnItsWay'
      BY <1>0, <2>1, <2>3 DEF ToggleWaits, WantedIsOnItsWay, Sent
    <2>5. OneFetches' /\ ListIsWanted'
      BY <1>0, <1>a, <2>1, <2>2 DEF OneFetches, ListIsWanted
    <2>6. QED  BY <1>0, <2>2, <2>4, <2>5 DEF PageInv
  <1>16. CASE FinishRefetch
    <2>1. /\ refetching /\ refetching' = FALSE
          /\ UNCHANGED <<storedText, toggle, save, events>>
      BY <1>16 DEF FinishRefetch
    <2>2. InFlight' = InFlight /\ OneLatest'
      BY <1>14, <2>1
    <2>3. CASE shownText' = storedText /\ UNCHANGED <<wanted, crossed>>
      <3>1. ~crossed => InFlight = {} /\ ~(toggle.due /\ toggle.latest)
        BY <1>0, <2>1 DEF OneFetches, ToggleWaits
      <3>2. ~crossed => storedText = wanted
        BY <1>0, <3>1 DEF WantedIsOnItsWay, Sent, InFlight
      <3>3. ToggleWaits' /\ WantedIsOnItsWay' /\ OneFetches' /\ ListIsWanted'
        BY <1>0, <2>1, <2>3, <3>1, <3>2
        DEF ToggleWaits, WantedIsOnItsWay, OneFetches, ListIsWanted, Sent
      <3>4. QED  BY <1>0, <2>2, <3>3 DEF PageInv
    <2>4. CASE Wants(wanted, TRUE)
      <3>1. crossed'
        BY <1>a, <2>4, WantsIs
      <3>2. QED  BY <1>6, <2>2, <3>1
    <2>5. QED  BY <1>16, <2>3, <2>4 DEF FinishRefetch
  <1>17. CASE OtherWrite
    <2> DEFINE cross == ~PageQuiet \/ storedText # other.read
    <2>1. /\ storedText' = other.wants /\ events' = events + 1 /\ Wants(other.wants, cross)
          /\ UNCHANGED <<shownText, toggle, save, refetching>>
      BY <1>17 DEF OtherWrite
    <2>2. InFlight' = InFlight /\ OneLatest'
      BY <1>14, <2>1
    <2>3. other.wants \in Texts /\ cross \in BOOLEAN
      BY <1>0, <1>a DEF PageTypeOK
    <2>4. (crossed' <=> crossed \/ cross) /\ (~crossed' => wanted' = other.wants)
      BY <1>a, <2>1, <2>3, WantsIs
    <2>5. CASE crossed'
      BY <1>6, <2>2, <2>5
    <2>6. CASE ~crossed'
      <3>1. PageQuiet /\ wanted' = storedText'
        BY <2>1, <2>4, <2>6
      <3>2. ToggleWaits' /\ WantedIsOnItsWay' /\ OneFetches' /\ ListIsWanted'
        BY <1>a, <2>1, <2>2, <3>1
        DEF ToggleWaits, WantedIsOnItsWay, OneFetches, ListIsWanted, Sent, PageQuiet, InFlight
      <3>3. QED  BY <1>0, <2>2, <3>2 DEF PageInv
    <2>7. QED  BY <2>5, <2>6
  <1>18. ASSUME UNCHANGED <<storedText, shownText, toggle, save, events, refetching, wanted,
                            crossed>>
         PROVE  PageInv'
    <2>1. InFlight' = InFlight /\ OneLatest'
      BY <1>14, <1>18
    <2>2. ToggleWaits' /\ WantedIsOnItsWay' /\ OneFetches' /\ ListIsWanted'
      BY <1>0, <1>18, <2>1 DEF ToggleWaits, WantedIsOnItsWay, OneFetches, ListIsWanted, Sent
    <2>3. QED  BY <1>0, <2>1, <2>2 DEF PageInv
  <1>19. QED
    BY <1>1, <1>3, <1>4, <1>5, <1>7, <1>8, <1>10, <1>11, <1>12, <1>13, <1>15, <1>16, <1>17,
       <1>18
    DEF PageNext, SaveStep, OtherRead, pageVars

-----------------------------------------------------------------------------
(* The theorems. *)

LEMMA PageInvInit == PageInit => PageInv
  <1> SUFFICES ASSUME PageInit PROVE PageInv
    OBVIOUS
  <1>1. /\ storedText \in Texts /\ shownText = storedText /\ wanted = storedText
        /\ toggle = NoToggle /\ save = [s \in Saves |-> NoSave]
        /\ events = 0 /\ refetching = FALSE /\ undoable = NoText /\ other = NoOther
        /\ crossed = FALSE
    BY DEF PageInit, Texts, Lines
  <1>2. NoOther \in [pc : {"idle", "read"}, read : Texts, wants : Texts]
    BY Texted DEF NoOther
  <1>3. PageTypeOK
    <2>1. save \in [Saves -> SaveRecord] /\ events \in 0..MaxEvents
      BY <1>1, NoSaveIs, UserRulesAssumption
    <2>2. toggle \in [due : BOOLEAN, text : Texts, latest : BOOLEAN]
      BY <1>1, NoToggleIs
    <2>3. QED  BY <1>1, <1>2, <2>1, <2>2, Texted DEF PageTypeOK
  <1>4. OneLatest /\ ToggleWaits /\ WantedIsOnItsWay /\ OneFetches /\ ListIsWanted
    BY <1>1, NoSaveIs, NoToggleIs
    DEF OneLatest, ToggleWaits, WantedIsOnItsWay, OneFetches, ListIsWanted, Sent, InFlight
  <1>5. QED  BY <1>3, <1>4 DEF PageInv

LEMMA PageInvHolds == PageSpec => []PageInv
  BY PageInvInit, PageInvNext, PTL DEF PageSpec

\* Every variable of the page keeps its type, whatever overlaps.
THEOREM UserRulesPageTypes == PageSpec => []PageTypeOK
  BY PageInvHolds, PTL DEF PageInv

\* No click is lost, neither to the debounce nor to the whole text of another
\* save: once nothing is on its way, all of them are in the storage.
THEOREM NoClickIsLost == PageSpec => []ClicksAreStored
  <1>1. PageInv => ClicksAreStored
    BY DEF PageInv, WantedIsOnItsWay, ClicksAreStored, PageQuiet, Sent, InFlight
  <1>2. QED  BY <1>1, PageInvHolds, PTL

\* The list shows what the clicks have led to, also while saves overlap and
\* their answers come late.
THEOREM ListShowsTheClicks == PageSpec => []ListIsWanted
  BY PageInvHolds, PTL DEF PageInv
=============================================================================
