--------------------------- MODULE RequestsProofs ---------------------------
(* What is kept of the requests that rules block: the filtering log, for    *)
(* any number of tabs, pages and events, whatever the size a tab's log is   *)
(* kept to; and the histories of their counts, for any units, spans and     *)
(* windows, wherever updates fall on the clock.                            *)
EXTENDS FilteringLog, PageStats, FiniteSetTheorems, SequenceTheorems, TLAPS

-----------------------------------------------------------------------------
(* THE FILTERING LOG                                                       *)

LEMMA RemoveAtProperties ==
  ASSUME NEW S, NEW l \in Seq(S), NEW i \in 1..Len(l)
  PROVE  /\ RemoveAt(l, i) \in Seq(S)
         /\ Len(RemoveAt(l, i)) = Len(l) - 1
         /\ \A k \in 1..Len(l) - 1 : RemoveAt(l, i)[k] = IF k < i THEN l[k] ELSE l[k + 1]
  <1> DEFINE a == SubSeq(l, 1, i - 1)
             b == SubSeq(l, i + 1, Len(l))
  <1>0. Len(l) \in Nat
    OBVIOUS
  <1>1. a \in Seq(S) /\ Len(a) = i - 1 /\ \A k \in 1..i - 1 : a[k] = l[k]
    BY <1>0
  <1>2. b \in Seq(S) /\ Len(b) = Len(l) - i /\ \A k \in 1..Len(l) - i : b[k] = l[k + i]
    BY <1>0
  <1>3. RemoveAt(l, i) = a \o b
    BY DEF RemoveAt
  <1> HIDE DEF a, b
  <1>4. /\ a \o b \in Seq(S) /\ Len(a \o b) = Len(a) + Len(b)
        /\ \A k \in 1..Len(a) + Len(b) :
              (a \o b)[k] = IF k <= Len(a) THEN a[k] ELSE b[k - Len(a)]
    BY <1>1, <1>2, ConcatProperties
  <1>5. ASSUME NEW k \in 1..Len(l) - 1
        PROVE  (a \o b)[k] = IF k < i THEN l[k] ELSE l[k + 1]
    <2>1. CASE k < i
      BY <1>0, <1>1, <1>2, <1>4, <2>1
    <2>2. CASE ~(k < i)
      <3>1. (a \o b)[k] = b[k - (i - 1)] /\ k - (i - 1) \in 1..Len(l) - i
        BY <1>0, <1>1, <1>2, <1>4, <2>2
      <3>2. QED  BY <1>0, <1>2, <3>1, <2>2
    <2>3. QED  BY <2>1, <2>2
  <1>6. QED
    BY <1>0, <1>1, <1>2, <1>3, <1>4, <1>5

-----------------------------------------------------------------------------
(* Every step is one of three: it leaves each tab its log or empties it, it *)
(* adds an event, or it moves one.                                         *)

Forgets ==
    /\ arrived' = arrived
    /\ \A t \in DOMAIN log' :
          log'[t] = <<>> \/ (t \in Tabs /\ log'[t] = log[t] /\ evicted'[t] = evicted[t])

LEMMA Kinds ==
  ASSUME LogTypeOK, [LogNext]_logVars
  PROVE  \/ Forgets
         \/ \E t \in AllTabs : AddEventData(t)
         \/ \E t \in AllTabs, e \in 1..arrived : MoveEventToBackgroundTab(t, e)
  <1> USE DEF LogTypeOK
  <1>1. ASSUME NEW p \in LogPages, OnOpenFilteringLogPage(p)
        PROVE  Forgets
    BY <1>1 DEF OnOpenFilteringLogPage, Forgets, Tabs
  <1>2. ASSUME NEW p \in LogPages, OnCloseFilteringLogPage(p)
        PROVE  Forgets
    BY <1>2 DEF OnCloseFilteringLogPage, Forgets, Tabs
  <1>3. CASE SetPreserveLogState
    BY <1>3 DEF SetPreserveLogState, Forgets, Tabs
  <1>4. CASE RestartLog
    BY <1>4 DEF RestartLog, Forgets, Tabs
  <1>5. ASSUME NEW t \in AllTabs, BeginLog(t), arrived' = arrived
        PROVE  Forgets
    BY <1>5 DEF BeginLog, Forgets, Tabs
  <1>6. ASSUME NEW t \in LogTabs, CreateTabInfo(t) \/ UpdateTabInfo(t)
        PROVE  Forgets
    BY <1>5, <1>6 DEF CreateTabInfo, UpdateTabInfo, AllTabs
  <1>7. ASSUME NEW t \in LogTabs, RemoveTabInfo(t)
        PROVE  Forgets
    BY <1>7 DEF RemoveTabInfo, Forgets, Tabs
  <1>8. ASSUME NEW found \in SUBSET LogTabs, SynchronizeOpenTabs(found)
        PROVE  Forgets
    BY <1>8 DEF SynchronizeOpenTabs, Forgets, Tabs, AllTabs
  <1>9. ASSUME NEW t \in AllTabs, NEW ignore \in BOOLEAN, ClearEventsByTabId(t, ignore)
        PROVE  Forgets
    BY <1>5, <1>9 DEF ClearEventsByTabId
  <1>10. CASE UNCHANGED logVars
    BY <1>10 DEF logVars, Forgets, Tabs
  <1>11. QED
    BY <1>1, <1>2, <1>3, <1>4, <1>6, <1>7, <1>8, <1>9, <1>10 DEF LogNext

\* What adding an event does to the logs: the second oldest goes, or nothing.
LEMMA Added ==
  ASSUME LogTypeOK, NEW t \in AllTabs, AddEventData(t)
  PROVE  /\ t \in Tabs /\ IsOpen /\ arrived' = arrived + 1
         /\ DOMAIN log' = Tabs
         /\ \A u \in Tabs \ {t} : log'[u] = log[u] /\ evicted'[u] = evicted[u]
         /\ log'[t] \in Seq(1..arrived + 1)
         /\ \/ /\ evicted'[t] = evicted[t] /\ Len(log'[t]) = Len(log[t]) + 1
               /\ \A k \in 1..Len(log[t]) : log'[t][k] = log[t][k]
               /\ log'[t][Len(log[t]) + 1] = arrived + 1
            \/ /\ Len(log[t]) >= 1 /\ Len(log[t]) <= 1 /\ Len(log'[t]) = Len(log[t])
               /\ log'[t][1] = log[t][1]
               /\ evicted'[t] = evicted[t] \union {arrived + 1}
            \/ /\ Len(log[t]) > 1 /\ Len(log'[t]) = Len(log[t])
               /\ log'[t][1] = log[t][1]
               /\ \A k \in 2..Len(log[t]) - 1 : log'[t][k] = log[t][k + 1]
               /\ log'[t][Len(log[t])] = arrived + 1
               /\ evicted'[t] = evicted[t] \union {log[t][2]}
  <1> DEFINE l == Append(log[t], arrived + 1)
  <1>1. /\ t \in Tabs /\ IsOpen /\ arrived \in Nat /\ arrived' = arrived + 1
        /\ log[t] \in Seq(1..arrived) /\ Len(log[t]) \in Nat
    BY DEF AddEventData, LogTypeOK
  <1>2. /\ l \in Seq(1..arrived + 1) /\ Len(l) = Len(log[t]) + 1
        /\ \A k \in 1..Len(log[t]) : l[k] = log[t][k]
        /\ l[Len(log[t]) + 1] = arrived + 1
    <2>1. log[t] \in Seq(1..arrived + 1) /\ arrived + 1 \in 1..arrived + 1
      BY <1>1, 1..arrived \subseteq 1..arrived + 1, SeqMonotonic
    <2>2. QED  BY <2>1, AppendProperties
  <1>3. CASE ~preserveLog /\ Len(l) > MaxPerTab
    <2>1. /\ log' = [log EXCEPT ![t] = RemoveAt(l, 2)]
          /\ evicted' = [evicted EXCEPT ![t] = @ \union {l[2]}]
      BY <1>1, <1>3 DEF AddEventData, OldestButFirst
    <2>2. 2 \in 1..Len(l) /\ Len(log[t]) >= 1 /\ Len(l) = Len(log[t]) + 1
      BY <1>1, <1>2, <1>3, FilteringLogAssumption
    <2>3. /\ RemoveAt(l, 2) \in Seq(1..arrived + 1)
          /\ Len(RemoveAt(l, 2)) = Len(l) - 1
          /\ \A k \in 1..Len(l) - 1 : RemoveAt(l, 2)[k] = IF k < 2 THEN l[k] ELSE l[k + 1]
      BY <1>2, <2>2, RemoveAtProperties
    <2>4. /\ log'[t] = RemoveAt(l, 2) /\ DOMAIN log' = Tabs
          /\ evicted'[t] = evicted[t] \union {l[2]}
          /\ \A u \in Tabs \ {t} : log'[u] = log[u] /\ evicted'[u] = evicted[u]
      BY <2>1, <1>1 DEF LogTypeOK, Tabs
    <2> HIDE DEF l
    <2>5. CASE Len(log[t]) <= 1
      <3> DEFINE n == Len(log[t])
                 r == RemoveAt(l, 2)
      <3>1. n \in Nat /\ n >= 1 /\ n <= 1 /\ Len(l) = n + 1
        BY <1>1, <2>2, <2>5
      <3>2. l[n + 1] = arrived + 1 /\ \A k \in 1..n : l[k] = log[t][k]
        BY <1>2
      <3>3. Len(r) = n /\ \A k \in 1..n : r[k] = IF k < 2 THEN l[k] ELSE l[k + 1]
        BY <2>3, <3>1
      <3> HIDE DEF n, r
      <3>4. r[1] = log[t][1] /\ l[2] = arrived + 1
        BY <3>1, <3>2, <3>3
      <3>5. QED
        BY <1>1, <2>3, <2>4, <3>1, <3>3, <3>4 DEF n, r
    <2>6. CASE ~(Len(log[t]) <= 1)
      <3> DEFINE n == Len(log[t])
                 r == RemoveAt(l, 2)
      <3>1. n \in Nat /\ n > 1 /\ Len(l) = n + 1
        BY <1>1, <2>2, <2>6
      <3>2. Len(r) = n /\ \A k \in 1..n : r[k] = IF k < 2 THEN l[k] ELSE l[k + 1]
        BY <2>3, <3>1
      <3>3. l[n + 1] = arrived + 1 /\ \A k \in 1..n : l[k] = log[t][k]
        BY <1>2
      <3> HIDE DEF n, r
      <3>4. r[1] = log[t][1] /\ l[2] = log[t][2] /\ r[n] = arrived + 1
        BY <3>1, <3>2, <3>3
      <3>5. \A k \in 2..n - 1 : r[k] = log[t][k + 1]
        BY <3>1, <3>2, <3>3
      <3>6. QED
        BY <1>1, <2>3, <2>4, <3>1, <3>2, <3>4, <3>5 DEF n, r
    <2>7. QED  BY <2>5, <2>6
  <1>4. CASE ~(~preserveLog /\ Len(l) > MaxPerTab)
    <2>1. log' = [log EXCEPT ![t] = l] /\ evicted' = evicted
      BY <1>1, <1>4 DEF AddEventData
    <2>2. /\ log'[t] = l /\ DOMAIN log' = Tabs
          /\ \A u \in Tabs \ {t} : log'[u] = log[u]
      BY <2>1, <1>1 DEF LogTypeOK, Tabs
    <2>3. QED  BY <1>1, <1>2, <2>1, <2>2
  <1>5. QED  BY <1>3, <1>4

\* What moving an event does to the logs.
LEMMA Moved ==
  ASSUME LogTypeOK, NEW t \in AllTabs, NEW e \in 1..arrived, MoveEventToBackgroundTab(t, e)
  PROVE  \E i \in 1..Len(log[t]) :
            /\ t \in Tabs /\ IsOpen /\ log[t][i] = e /\ arrived' = arrived /\ evicted' = evicted
            /\ DOMAIN log' = Tabs
            /\ \A u \in Tabs \ {t, Background} : log'[u] = log[u]
            /\ log'[t] \in Seq(1..arrived) /\ log'[Background] \in Seq(1..arrived)
            /\ t # Background => Len(log'[t]) = Len(log[t]) - 1
            /\ \A k \in 1..Len(log[t]) - 1 :
                  log'[t][k] = IF k < i THEN log[t][k] ELSE log[t][k + 1]
            /\ t = Background => Len(log'[Background]) = Len(log[Background])
            /\ t # Background => Len(log'[Background]) = Len(log[Background]) + 1
            /\ t # Background => \A k \in 1..Len(log[Background]) :
                  log'[Background][k] = log[Background][k]
            /\ log'[Background][Len(log'[Background])] = e
  <1>1. PICK i \in DOMAIN log[t] :
           /\ log[t][i] = e
           /\ log' = [[log EXCEPT ![t] = RemoveAt(log[t], i)]
                         EXCEPT ![Background] = Append(@, e)]
    BY DEF MoveEventToBackgroundTab, Taken
  <1>2. /\ t \in Tabs /\ IsOpen /\ arrived' = arrived /\ evicted' = evicted
        /\ log[t] \in Seq(1..arrived) /\ Background \in Tabs
        /\ log[Background] \in Seq(1..arrived) /\ Len(log[Background]) \in Nat
        /\ Len(log[t]) \in Nat /\ i \in 1..Len(log[t])
    BY DEF MoveEventToBackgroundTab, LogTypeOK
  <1> DEFINE r == RemoveAt(log[t], i)
  <1>3. /\ r \in Seq(1..arrived) /\ Len(r) = Len(log[t]) - 1
        /\ \A k \in 1..Len(log[t]) - 1 : r[k] = IF k < i THEN log[t][k] ELSE log[t][k + 1]
    BY <1>2, RemoveAtProperties
  <1>4. /\ DOMAIN log' = Tabs
        /\ \A u \in Tabs \ {t, Background} : log'[u] = log[u]
        /\ t # Background => log'[t] = r /\ log'[Background] = Append(log[Background], e)
        /\ t = Background => log'[Background] = Append(r, e)
    BY <1>1, <1>2 DEF LogTypeOK, Tabs
  <1> HIDE DEF r
  <1>5. CASE t = Background
    <2>1. /\ Append(r, e) \in Seq(1..arrived) /\ Len(Append(r, e)) = Len(r) + 1
          /\ \A k \in 1..Len(r) : Append(r, e)[k] = r[k]
          /\ Append(r, e)[Len(r) + 1] = e
      BY <1>3, AppendProperties
    <2>2. QED  BY <1>1, <1>2, <1>3, <1>4, <1>5, <2>1
  <1>6. CASE t # Background
    <2> DEFINE b == log[Background]
    <2>1. /\ Append(b, e) \in Seq(1..arrived) /\ Len(Append(b, e)) = Len(b) + 1
          /\ \A k \in 1..Len(b) : Append(b, e)[k] = b[k]
          /\ Append(b, e)[Len(b) + 1] = e
      BY <1>2, AppendProperties
    <2>2. QED  BY <1>1, <1>2, <1>3, <1>4, <1>6, <2>1, ZenonT(40)
  <1>7. QED  BY <1>5, <1>6

-----------------------------------------------------------------------------
(* Types. *)

\* The variables the kinds of a step say nothing about.
LEMMA LogTypesHold ==
  ASSUME LogTypeOK, [LogNext]_logVars
  PROVE  LogTypeOK'
  <1> USE DEF LogTypeOK, Tabs
  <1>1. ASSUME NEW p \in LogPages, OnOpenFilteringLogPage(p)
        PROVE  LogTypeOK'
    BY <1>1 DEF OnOpenFilteringLogPage
  <1>2. ASSUME NEW p \in LogPages, OnCloseFilteringLogPage(p)
        PROVE  LogTypeOK'
    <2>1. /\ connected' \subseteq LogPages /\ openedPages' \in Nat
          /\ UNCHANGED <<preserveLog, arrived>>
      BY <1>2 DEF OnCloseFilteringLogPage
    <2>2. CASE LastClosed
      <3>1. log' = [t \in Tabs |-> <<>>] /\ evicted' = [t \in AllTabs |-> {}]
        BY <1>2, <2>2 DEF OnCloseFilteringLogPage
      <3>2. QED  BY <2>1, <3>1, EmptySeq
    <2>3. CASE ~LastClosed
      BY <1>2, <2>1, <2>3 DEF OnCloseFilteringLogPage
    <2>4. QED  BY <2>2, <2>3
  <1>3. CASE SetPreserveLogState
    BY <1>3 DEF SetPreserveLogState
  <1>4. CASE RestartLog
    BY <1>4, EmptySeq DEF RestartLog, AllTabs
  <1>5. ASSUME NEW t \in AllTabs, BeginLog(t),
               UNCHANGED <<connected, openedPages, preserveLog, arrived>>
        PROVE  LogTypeOK'
    BY <1>5, EmptySeq DEF BeginLog
  <1>6. ASSUME NEW t \in LogTabs, CreateTabInfo(t) \/ UpdateTabInfo(t)
        PROVE  LogTypeOK'
    BY <1>5, <1>6 DEF CreateTabInfo, UpdateTabInfo, AllTabs
  <1>7. ASSUME NEW t \in LogTabs, RemoveTabInfo(t)
        PROVE  LogTypeOK'
    BY <1>7 DEF RemoveTabInfo
  <1>8. ASSUME NEW found \in SUBSET LogTabs, SynchronizeOpenTabs(found)
        PROVE  LogTypeOK'
    BY <1>8, EmptySeq DEF SynchronizeOpenTabs, AllTabs
  <1>9. ASSUME NEW t \in AllTabs, NEW ignore \in BOOLEAN, ClearEventsByTabId(t, ignore)
        PROVE  LogTypeOK'
    BY <1>5, <1>9 DEF ClearEventsByTabId
  <1>10. ASSUME NEW t \in AllTabs, AddEventData(t)
         PROVE  LogTypeOK'
    <2>1. /\ arrived \in Nat /\ arrived' = arrived + 1 /\ arrived' \in 0..MaxLogged
          /\ UNCHANGED <<connected, openedPages, preserveLog>>
      BY <1>10, FilteringLogAssumption DEF AddEventData
    <2>2. \A u \in Tabs : log'[u] \in Seq(1..arrived')
      <3>1. \A u \in Tabs : log[u] \in Seq(1..arrived + 1)
        BY <2>1, 1..arrived \subseteq 1..arrived + 1, SeqMonotonic
      <3>2. QED  BY <1>10, <2>1, <3>1, Added
    <2>3. log' \in [Tabs -> Seq(1..arrived')] /\ DOMAIN log' = Tabs
      <3>1. \E f : log' = [log EXCEPT ![t] = f]
        BY <1>10 DEF AddEventData
      <3>2. QED  BY <2>2, <3>1
    <2>4. evicted' \in [AllTabs -> SUBSET (1..arrived')]
      <3>1. \/ evicted' = evicted
            \/ \E f : evicted' = [evicted EXCEPT ![t] = @ \union f]
        BY <1>10 DEF AddEventData
      <3>2. evicted'[t] \subseteq 1..arrived'
        <4>1. Len(log[t]) \in Nat /\ \A k \in 1..Len(log[t]) : log[t][k] \in 1..arrived
          BY <1>10 DEF AddEventData
        <4>2. \/ evicted'[t] = evicted[t]
              \/ evicted'[t] = evicted[t] \union {arrived + 1}
              \/ Len(log[t]) > 1 /\ evicted'[t] = evicted[t] \union {log[t][2]}
          BY <1>10, Added
        <4>3. evicted[t] \subseteq 1..arrived' /\ arrived + 1 \in 1..arrived'
          BY <1>10, <2>1 DEF AddEventData
        <4>4. Len(log[t]) > 1 => log[t][2] \in 1..arrived'
          <5>1. SUFFICES ASSUME Len(log[t]) > 1 PROVE log[t][2] \in 1..arrived'
            OBVIOUS
          <5>2. 2 \in 1..Len(log[t])
            BY <4>1, <5>1
          <5>3. log[t][2] \in 1..arrived
            BY <4>1, <5>2
          <5>4. QED  BY <2>1, <5>3
        <4>5. QED  BY <4>2, <4>3, <4>4
      <3>3. \A u \in AllTabs \ {t} : evicted'[u] = evicted[u]
        BY <3>1
      <3>4. QED  BY <2>1, <3>1, <3>2, <3>3
    <2>5. QED  BY <2>1, <2>3, <2>4
  <1>11. ASSUME NEW t \in AllTabs, NEW e \in 1..arrived, MoveEventToBackgroundTab(t, e)
         PROVE  LogTypeOK'
    <2>1. \A u \in Tabs : log'[u] \in Seq(1..arrived)
      BY <1>11, Moved
    <2>2. \E f, g : log' = [[log EXCEPT ![t] = f] EXCEPT ![Background] = g]
      BY <1>11 DEF MoveEventToBackgroundTab
    <2>3. log' \in [Tabs -> Seq(1..arrived)] /\ DOMAIN log' = Tabs
      BY <2>1, <2>2
    <2>4. QED  BY <1>11, <2>3 DEF MoveEventToBackgroundTab
  <1>12. CASE UNCHANGED logVars
    BY <1>12 DEF logVars
  <1>13. QED
    BY <1>1, <1>2, <1>3, <1>4, <1>6, <1>7, <1>8, <1>9, <1>10, <1>11, <1>12 DEF LogNext

-----------------------------------------------------------------------------
(* Pages: their number is the one that is counted, and none open is no event. *)

PagesOK == IsFiniteSet(connected) /\ openedPages = Cardinality(connected)
EmptyUnlessOpen == ~IsOpen => \A t \in Tabs : log[t] = <<>>

LEMMA PagesHold ==
  ASSUME LogTypeOK, PagesOK, [LogNext]_logVars
  PROVE  PagesOK'
  <1>1. ASSUME NEW p \in LogPages, OnOpenFilteringLogPage(p)
        PROVE  PagesOK'
    <2>1. /\ p \notin connected /\ connected' = connected \union {p}
          /\ openedPages' = openedPages + 1
      BY <1>1 DEF OnOpenFilteringLogPage
    <2>2. /\ IsFiniteSet(connected \union {p})
          /\ Cardinality(connected \union {p}) = Cardinality(connected) + 1
      BY <2>1, FS_AddElement DEF PagesOK
    <2>3. QED  BY <2>1, <2>2 DEF PagesOK
  <1>2. ASSUME NEW p \in LogPages, OnCloseFilteringLogPage(p)
        PROVE  PagesOK'
    <2>1. p \in connected /\ connected' = connected \ {p}
      BY <1>2 DEF OnCloseFilteringLogPage
    <2>2. /\ IsFiniteSet(connected \ {p})
          /\ Cardinality(connected \ {p}) = Cardinality(connected) - 1
      BY <2>1, FS_RemoveElement DEF PagesOK
    <2>3. Cardinality(connected) # 0
      BY <2>1, FS_EmptySet DEF PagesOK
    <2>4. QED  BY <1>2, <2>1, <2>2, <2>3 DEF OnCloseFilteringLogPage, PagesOK, LogTypeOK
  <1>3. CASE RestartLog
    <2>1. IsFiniteSet({}) /\ Cardinality({}) = 0
      BY FS_EmptySet
    <2>2. QED  BY <1>3, <2>1 DEF RestartLog, PagesOK
  <1>4. CASE UNCHANGED <<connected, openedPages>>
    BY <1>4 DEF PagesOK
  <1>5. QED
    BY <1>1, <1>2, <1>3, <1>4
    DEF LogNext, logVars, SetPreserveLogState, CreateTabInfo, UpdateTabInfo, RemoveTabInfo,
        SynchronizeOpenTabs, AddEventData, ClearEventsByTabId, MoveEventToBackgroundTab

LEMMA EmptinessHolds ==
  ASSUME LogTypeOK, EmptyUnlessOpen, [LogNext]_logVars
  PROVE  EmptyUnlessOpen'
  <1>1. ASSUME NEW p \in LogPages, OnCloseFilteringLogPage(p), openedPages' = 0
        PROVE  \A t \in DOMAIN log' : log'[t] = <<>>
    BY <1>1 DEF OnCloseFilteringLogPage, LastClosed, LogTypeOK
  <1>2. CASE RestartLog
    BY <1>2 DEF RestartLog, EmptyUnlessOpen, Tabs
  <1>3. CASE Forgets /\ openedPages' >= openedPages
    <2>1. openedPages \in Nat /\ openedPages' \in Nat
      BY LogTypesHold DEF LogTypeOK
    <2>2. SUFFICES ASSUME ~(openedPages' > 0), NEW t \in DOMAIN log'
                   PROVE  log'[t] = <<>>
      BY DEF EmptyUnlessOpen, IsOpen, Tabs
    <2>3. ~(openedPages > 0)
      BY <1>3, <2>1, <2>2
    <2>4. QED  BY <1>3, <2>3 DEF Forgets, EmptyUnlessOpen, IsOpen
  <1>4. CASE openedPages > 0 /\ openedPages' = openedPages
    BY <1>4 DEF EmptyUnlessOpen, IsOpen
  <1>5. QED
    <2>1. ASSUME NEW t \in AllTabs, AddEventData(t) PROVE EmptyUnlessOpen'
      BY <2>1, <1>4 DEF AddEventData, IsOpen
    <2>2. ASSUME NEW t \in AllTabs, NEW e \in 1..arrived, MoveEventToBackgroundTab(t, e)
          PROVE EmptyUnlessOpen'
      BY <2>2, <1>4 DEF MoveEventToBackgroundTab, IsOpen
    <2>3. ASSUME Forgets PROVE EmptyUnlessOpen'
      <3>1. ASSUME NEW p \in LogPages, OnCloseFilteringLogPage(p) PROVE EmptyUnlessOpen'
        BY <3>1, <1>1, LogTypesHold DEF EmptyUnlessOpen, IsOpen, Tabs, LogTypeOK
      <3>2. \/ \E p \in LogPages : OnCloseFilteringLogPage(p)
            \/ RestartLog
            \/ openedPages' = openedPages \/ openedPages' = openedPages + 1
        BY DEF LogNext, logVars, SetPreserveLogState, CreateTabInfo, UpdateTabInfo, RemoveTabInfo,
               SynchronizeOpenTabs, AddEventData, ClearEventsByTabId, MoveEventToBackgroundTab,
               OnOpenFilteringLogPage
      <3>3. QED  BY <2>3, <3>1, <3>2, <1>2, <1>3 DEF LogTypeOK
    <2>4. QED  BY <2>1, <2>2, <2>3, Kinds

-----------------------------------------------------------------------------
(* The order of events in a tab. *)

\* A sequence in order, of numbers up to `top', that a new event is added to.
LEMMA GrownInOrder ==
  ASSUME NEW n \in Nat, NEW top \in Nat, NEW a, NEW b, NEW m \in Nat,
         \A k \in 1..n : a[k] \in 1..top,
         \A k, l \in 1..n : k < l => a[k] < a[l],
         \/ /\ m = n + 1 /\ b[n + 1] = top + 1
            /\ \A k \in 1..n : b[k] = a[k]
         \/ n <= 1 /\ m = n
         \/ /\ n > 1 /\ m = n /\ b[1] = a[1] /\ b[n] = top + 1
            /\ \A k \in 2..n - 1 : b[k] = a[k + 1]
  PROVE  \A i, j \in 1..m : i < j => b[i] < b[j]
  <1>1. SUFFICES ASSUME NEW i \in 1..m, NEW j \in 1..m, i < j
                 PROVE  b[i] < b[j]
    OBVIOUS
  <1>2. CASE m = n + 1 /\ b[n + 1] = top + 1 /\ \A k \in 1..n : b[k] = a[k]
    <2>1. b[i] = a[i] /\ i \in 1..n
      BY <1>1, <1>2
    <2>2. CASE j <= n
      BY <1>1, <1>2, <2>1, <2>2
    <2>3. CASE ~(j <= n)
      BY <1>1, <1>2, <2>1, <2>3
    <2>4. QED  BY <2>2, <2>3
  <1>3. CASE n <= 1 /\ m = n
    BY <1>1, <1>3
  <1>4. CASE /\ n > 1 /\ m = n /\ b[1] = a[1] /\ b[n] = top + 1
             /\ \A k \in 2..n - 1 : b[k] = a[k + 1]
    <2>1. b[i] \in 1..top
      <3>1. CASE i <= 1
        BY <1>1, <1>4, <3>1
      <3>2. CASE ~(i <= 1)
        BY <1>1, <1>4, <3>2
      <3>3. QED  BY <3>1, <3>2
    <2>2. CASE j <= n - 1
      <3>1. b[j] = a[j + 1] /\ j + 1 \in 1..n
        BY <1>1, <1>4, <2>2
      <3>2. CASE i <= 1
        BY <1>1, <1>4, <3>1, <3>2
      <3>3. CASE ~(i <= 1)
        <4>1. b[i] = a[i + 1] /\ i + 1 \in 1..n
          BY <1>1, <1>4, <2>2, <3>3
        <4>2. QED  BY <1>1, <3>1, <4>1
      <3>4. QED  BY <3>2, <3>3
    <2>3. CASE ~(j <= n - 1)
      BY <1>1, <1>4, <2>1, <2>3
    <2>4. QED  BY <2>2, <2>3
  <1>5. QED  BY <1>2, <1>3, <1>4

\* ... and one that an event is taken out of.
LEMMA ShortenedInOrder ==
  ASSUME NEW n \in Nat, NEW a, NEW b, NEW i \in 1..n,
         \A k, l \in 1..n : k < l => a[k] < a[l],
         \A k \in 1..n - 1 : b[k] = IF k < i THEN a[k] ELSE a[k + 1]
  PROVE  \A k, j \in 1..n - 1 : k < j => b[k] < b[j]
  <1>1. SUFFICES ASSUME NEW k \in 1..n - 1, NEW j \in 1..n - 1, k < j
                 PROVE  b[k] < b[j]
    OBVIOUS
  <1>2. PICK p \in 1..n : b[k] = a[p] /\ p <= k + 1 /\ (k < i => p <= k)
    BY <1>1
  <1>3. PICK q \in 1..n : b[j] = a[q] /\ q >= j /\ (~(j < i) => q > j)
    BY <1>1
  <1>4. p < q
    BY <1>1, <1>2, <1>3
  <1>5. QED  BY <1>2, <1>3, <1>4

\* What a tab shows is in the order of arrival; the background shows what moved.
InOrder ==
    \A t \in Tabs \ {Background} : \A i, j \in DOMAIN log[t] :
        i < j => log[t][i] < log[t][j]

LEMMA OrderHolds ==
  ASSUME LogTypeOK, InOrder, [LogNext]_logVars
  PROVE  InOrder'
  <1>1. CASE Forgets
    <2>1. SUFFICES ASSUME NEW t \in DOMAIN log' \ {Background},
                          NEW i \in DOMAIN log'[t], NEW j \in DOMAIN log'[t], i < j
                   PROVE  log'[t][i] < log'[t][j]
      BY DEF InOrder, Tabs
    <2>2. log'[t] # <<>>
      BY <2>1
    <2>3. t \in Tabs /\ log'[t] = log[t]
      BY <1>1, <2>2 DEF Forgets
    <2>4. QED  BY <2>1, <2>3 DEF InOrder
  <1>2. ASSUME NEW t \in AllTabs, AddEventData(t)
        PROVE  InOrder'
    <2> DEFINE n == Len(log[t])
    <2>1. SUFFICES ASSUME t # Background, NEW i \in 1..Len(log'[t]), NEW j \in 1..Len(log'[t]), i < j
                   PROVE  log'[t][i] < log'[t][j]
      <3>1. DOMAIN log'[t] = 1..Len(log'[t])
        BY <1>2, Added
      <3>2. DOMAIN log' = Tabs /\ \A u \in Tabs \ {t} : log'[u] = log[u]
        BY <1>2, Added
      <3>3. QED  BY <3>1, <3>2 DEF InOrder, Tabs
    <2>2. /\ arrived \in Nat /\ n \in Nat /\ t \in Tabs
          /\ \A k \in 1..n : log[t][k] \in 1..arrived
          /\ \A k, m \in 1..n : k < m => log[t][k] < log[t][m]
      BY <1>2, <2>1, SMTT(40) DEF AddEventData, LogTypeOK, InOrder
    <2>3. \/ /\ Len(log'[t]) = n + 1
             /\ \A k \in 1..n : log'[t][k] = log[t][k]
             /\ log'[t][n + 1] = arrived + 1
          \/ n <= 1 /\ Len(log'[t]) = n
          \/ /\ n > 1 /\ Len(log'[t]) = n
             /\ log'[t][1] = log[t][1]
             /\ \A k \in 2..n - 1 : log'[t][k] = log[t][k + 1]
             /\ log'[t][n] = arrived + 1
      BY <1>2, Added
    <2>4. Len(log'[t]) \in Nat
      BY <1>2, Added
    <2> HIDE DEF n
    <2>5. \A k, m \in 1..Len(log'[t]) : k < m => log'[t][k] < log'[t][m]
      BY <2>2, <2>3, <2>4, GrownInOrder, ZenonT(40)
    <2>6. QED  BY <2>1, <2>5
  <1>3. ASSUME NEW t \in AllTabs, NEW e \in 1..arrived, MoveEventToBackgroundTab(t, e)
        PROVE  InOrder'
    <2> DEFINE n == Len(log[t])
    <2>1. PICK i \in 1..n :
             /\ t \in Tabs /\ DOMAIN log' = Tabs
             /\ \A u \in Tabs \ {t, Background} : log'[u] = log[u]
             /\ log'[t] \in Seq(1..arrived)
             /\ t # Background => Len(log'[t]) = n - 1
             /\ \A k \in 1..n - 1 : log'[t][k] = IF k < i THEN log[t][k] ELSE log[t][k + 1]
      BY <1>3, Moved
    <2>2. SUFFICES ASSUME t # Background, NEW k \in 1..Len(log'[t]), NEW j \in 1..Len(log'[t]), k < j
                   PROVE  log'[t][k] < log'[t][j]
      BY <2>1 DEF InOrder, Tabs
    <2>3. n \in Nat /\ DOMAIN log[t] = 1..n
      BY <2>1 DEF LogTypeOK
    <2>4. \A q, m \in 1..n : q < m => log[t][q] < log[t][m]
      BY <2>1, <2>2, <2>3 DEF InOrder
    <2> HIDE DEF n
    <2>5. \A q, m \in 1..n - 1 : q < m => log'[t][q] < log'[t][m]
      BY <2>1, <2>3, <2>4, ShortenedInOrder
    <2>6. QED  BY <2>1, <2>2, <2>5
  <1>4. QED  BY <1>1, <1>2, <1>3, Kinds

LEMMA RecentHolds ==
  ASSUME LogTypeOK, InOrder, RecentStay, [LogNext]_logVars
  PROVE  RecentStay'
  <1>1. CASE Forgets
    <2>1. SUFFICES ASSUME NEW t \in DOMAIN log' \ {Background},
                          NEW i \in DOMAIN log'[t], NEW e \in evicted'[t], i > 1
                   PROVE  e < log'[t][i]
      BY DEF RecentStay, Tabs
    <2>2. log'[t] # <<>>
      BY <2>1
    <2>3. t \in Tabs /\ log'[t] = log[t] /\ evicted'[t] = evicted[t]
      BY <1>1, <2>2 DEF Forgets
    <2>4. QED  BY <2>1, <2>3 DEF RecentStay
  <1>2. ASSUME NEW t \in AllTabs, AddEventData(t)
        PROVE  RecentStay'
    <2> DEFINE n == Len(log[t])
    <2>1. SUFFICES ASSUME t # Background, NEW i \in 1..Len(log'[t]), NEW e \in evicted'[t], i > 1
                   PROVE  e < log'[t][i]
      <3>1. DOMAIN log'[t] = 1..Len(log'[t])
        BY <1>2, Added
      <3>2. /\ DOMAIN log' = Tabs
            /\ \A u \in Tabs \ {t} : log'[u] = log[u] /\ evicted'[u] = evicted[u]
        BY <1>2, Added
      <3>3. QED  BY <3>1, <3>2 DEF RecentStay, Tabs
    <2>2. /\ arrived \in Nat /\ n \in Nat /\ t \in Tabs
          /\ \A k \in 1..n : log[t][k] \in 1..arrived
          /\ \A k, m \in 1..n : k < m => log[t][k] < log[t][m]
          /\ \A k \in 1..n, o \in evicted[t] : k > 1 => o < log[t][k]
          /\ evicted[t] \subseteq 1..arrived
      BY <1>2, <2>1, SMTT(40) DEF AddEventData, LogTypeOK, InOrder, RecentStay
    <2>3. \/ /\ Len(log'[t]) = n + 1 /\ evicted'[t] = evicted[t]
             /\ \A k \in 1..n : log'[t][k] = log[t][k]
             /\ log'[t][n + 1] = arrived + 1
          \/ n <= 1 /\ Len(log'[t]) = n
          \/ /\ n > 1 /\ Len(log'[t]) = n
             /\ evicted'[t] = evicted[t] \union {log[t][2]}
             /\ \A k \in 2..n - 1 : log'[t][k] = log[t][k + 1]
             /\ log'[t][n] = arrived + 1
      BY <1>2, Added
    <2>4. Len(log'[t]) \in Nat
      BY <1>2, Added
    <2> HIDE DEF n
    <2>5. \A k, m \in 1..n : k < m => log[t][k] < log[t][m]
      BY <2>2
    <2>6. CASE /\ Len(log'[t]) = n + 1 /\ evicted'[t] = evicted[t]
               /\ \A k \in 1..n : log'[t][k] = log[t][k]
               /\ log'[t][n + 1] = arrived + 1
      <3>1. CASE i <= n
        BY <2>1, <2>2, <2>6, <3>1
      <3>2. CASE ~(i <= n)
        BY <2>1, <2>2, <2>4, <2>6, <3>2
      <3>3. QED  BY <3>1, <3>2
    <2>7. CASE n <= 1 /\ Len(log'[t]) = n
      BY <2>1, <2>2, <2>7
    <2>8. CASE /\ n > 1 /\ Len(log'[t]) = n
               /\ evicted'[t] = evicted[t] \union {log[t][2]}
               /\ \A k \in 2..n - 1 : log'[t][k] = log[t][k + 1]
               /\ log'[t][n] = arrived + 1
      <3>1. 2 \in 1..n /\ log[t][2] \in 1..arrived
        BY <2>2, <2>8
      <3>2. e \in 1..arrived
        BY <2>1, <2>2, <2>8, <3>1
      <3>3. CASE i <= n - 1
        <4>1. log'[t][i] = log[t][i + 1] /\ i + 1 \in 1..n /\ i + 1 > 2
          BY <2>1, <2>2, <2>8, <3>3
        <4>2. log[t][2] < log[t][i + 1] /\ \A o \in evicted[t] : o < log[t][i + 1]
          BY <2>1, <2>2, <2>5, <3>1, <4>1
        <4>3. QED  BY <2>1, <2>8, <4>1, <4>2
      <3>4. CASE ~(i <= n - 1)
        <4>1. i = n
          BY <2>1, <2>2, <2>8, <3>4
        <4>2. QED  BY <2>2, <2>8, <3>2, <4>1
      <3>5. QED  BY <3>3, <3>4
    <2>9. QED  BY <2>3, <2>6, <2>7, <2>8
  <1>3. ASSUME NEW t \in AllTabs, NEW e \in 1..arrived, MoveEventToBackgroundTab(t, e)
        PROVE  RecentStay'
    <2> DEFINE n == Len(log[t])
    <2>1. PICK i \in 1..n :
             /\ t \in Tabs /\ DOMAIN log' = Tabs /\ evicted' = evicted
             /\ \A u \in Tabs \ {t, Background} : log'[u] = log[u]
             /\ log'[t] \in Seq(1..arrived)
             /\ t # Background => Len(log'[t]) = n - 1
             /\ \A k \in 1..n - 1 : log'[t][k] = IF k < i THEN log[t][k] ELSE log[t][k + 1]
      BY <1>3, Moved
    <2>2. DOMAIN log[t] = 1..n /\ n \in Nat
      BY <2>1 DEF LogTypeOK
    <2>3. ASSUME t # Background, NEW k \in 1..Len(log'[t]), NEW o \in evicted[t], k > 1
          PROVE  o < log'[t][k]
      <3>1. \A m \in 1..n : m > 1 => o < log[t][m]
        BY <2>1, <2>2, <2>3 DEF RecentStay
      <3> HIDE DEF n
      <3>2. QED  BY <2>1, <2>2, <2>3, <3>1
    <2>4. SUFFICES ASSUME NEW u \in Tabs \ {Background}, NEW k \in DOMAIN log'[u],
                          NEW o \in evicted[u], k > 1
                   PROVE  o < log'[u][k]
      BY <2>1 DEF RecentStay, Tabs
    <2>5. CASE u = t
      <3>1. k \in 1..Len(log'[t])
        BY <2>1, <2>4, <2>5
      <3>2. QED  BY <2>3, <2>4, <2>5, <3>1
    <2>6. CASE u # t
      BY <2>1, <2>4, <2>6 DEF RecentStay
    <2>7. QED  BY <2>5, <2>6
  <1>4. QED  BY <1>1, <1>2, <1>3, Kinds

-----------------------------------------------------------------------------
(* An event is shown once. *)

\* The same two changes of a sequence, of numbers that differ from each other.
LEMMA GrownOnce ==
  ASSUME NEW n \in Nat, NEW top \in Nat, NEW a, NEW b, NEW m \in Nat,
         \A k \in 1..n : a[k] \in 1..top,
         \A k, l \in 1..n : a[k] = a[l] => k = l,
         \/ /\ m = n + 1 /\ b[n + 1] = top + 1
            /\ \A k \in 1..n : b[k] = a[k]
         \/ n >= 1 /\ n <= 1 /\ m = n /\ b[1] = a[1]
         \/ /\ n > 1 /\ m = n /\ b[1] = a[1] /\ b[n] = top + 1
            /\ \A k \in 2..n - 1 : b[k] = a[k + 1]
  PROVE  /\ \A i, j \in 1..m : b[i] = b[j] => i = j
         /\ \A i \in 1..m : b[i] = top + 1 \/ \E k \in 1..n : b[i] = a[k]
  <1>1. CASE m = n + 1 /\ b[n + 1] = top + 1 /\ \A k \in 1..n : b[k] = a[k]
    <2>1. \A i \in 1..m : i = n + 1 \/ (i \in 1..n /\ b[i] = a[i] /\ b[i] \in 1..top)
      BY <1>1
    <2>2. ~(top + 1 \in 1..top)
      OBVIOUS
    <2>3. QED  BY <1>1, <2>1, <2>2
  <1>2. CASE n >= 1 /\ n <= 1 /\ m = n /\ b[1] = a[1]
    <2>1. \A i \in 1..m : i = 1
      BY <1>2
    <2>2. QED  BY <1>2, <2>1
  <1>3. CASE /\ n > 1 /\ m = n /\ b[1] = a[1] /\ b[n] = top + 1
             /\ \A k \in 2..n - 1 : b[k] = a[k + 1]
    <2>1. \A i \in 1..m : \/ i = n
                          \/ i = 1 /\ b[i] = a[1]
                          \/ i \in 2..n - 1 /\ i + 1 \in 1..n /\ b[i] = a[i + 1]
      BY <1>3
    <2>2. 1 \in 1..n /\ ~(top + 1 \in 1..top)
      BY <1>3
    <2>3. ASSUME NEW i \in 1..m, NEW j \in 1..m, b[i] = b[j]
          PROVE  i = j
      <3>1. CASE i = n
        BY <1>3, <2>1, <2>2, <2>3, <3>1
      <3>2. CASE j = n
        BY <1>3, <2>1, <2>2, <2>3, <3>2
      <3>3. CASE i = 1 /\ b[i] = a[1]
        BY <1>3, <2>1, <2>2, <2>3, <3>2, <3>3
      <3>4. CASE j = 1 /\ b[j] = a[1]
        BY <1>3, <2>1, <2>2, <2>3, <3>1, <3>4
      <3>5. CASE i \in 2..n - 1 /\ j \in 2..n - 1
        <4>1. a[i + 1] = a[j + 1] /\ i + 1 \in 1..n /\ j + 1 \in 1..n
          BY <1>3, <2>3, <3>5
        <4>2. i + 1 = j + 1
          BY <4>1
        <4>3. QED  BY <3>5, <4>2
      <3>6. QED  BY <2>1, <3>1, <3>2, <3>3, <3>4, <3>5
    <2>4. QED  BY <1>3, <2>1, <2>2, <2>3
  <1>4. QED  BY <1>1, <1>2, <1>3

LEMMA ShortenedOnce ==
  ASSUME NEW n \in Nat, NEW a, NEW b, NEW i \in 1..n,
         \A k, l \in 1..n : a[k] = a[l] => k = l,
         \A k \in 1..n - 1 : b[k] = IF k < i THEN a[k] ELSE a[k + 1]
  PROVE  /\ \A k, j \in 1..n - 1 : b[k] = b[j] => k = j
         /\ \A k \in 1..n - 1 : b[k] # a[i] /\ \E p \in 1..n : b[k] = a[p]
  <1>1. ASSUME NEW k \in 1..n - 1, NEW j \in 1..n - 1, b[k] = b[j]
        PROVE  k = j
    <2>1. CASE k < i /\ j < i
      BY <1>1, <2>1
    <2>2. CASE k < i /\ ~(j < i)
      <3>1. a[k] = a[j + 1] /\ k \in 1..n /\ j + 1 \in 1..n
        BY <1>1, <2>2
      <3>2. k = j + 1
        BY <3>1
      <3>3. QED  BY <2>2, <3>2
    <2>3. CASE ~(k < i) /\ j < i
      <3>1. a[k + 1] = a[j] /\ k + 1 \in 1..n /\ j \in 1..n
        BY <1>1, <2>3
      <3>2. k + 1 = j
        BY <3>1
      <3>3. QED  BY <2>3, <3>2
    <2>4. CASE ~(k < i) /\ ~(j < i)
      <3>1. a[k + 1] = a[j + 1] /\ k + 1 \in 1..n /\ j + 1 \in 1..n
        BY <1>1, <2>4
      <3>2. k + 1 = j + 1
        BY <3>1
      <3>3. QED  BY <3>2
    <2>5. QED  BY <2>1, <2>2, <2>3, <2>4
  <1>2. ASSUME NEW k \in 1..n - 1
        PROVE  b[k] # a[i] /\ \E p \in 1..n : b[k] = a[p]
    <2>1. CASE k < i
      <3>1. k \in 1..n /\ k # i /\ b[k] = a[k]
        BY <2>1
      <3>2. QED  BY <3>1
    <2>2. CASE ~(k < i)
      <3>1. k + 1 \in 1..n /\ k + 1 # i /\ b[k] = a[k + 1]
        BY <2>2
      <3>2. QED  BY <3>1
    <2>3. QED  BY <2>1, <2>2
  <1>3. QED  BY <1>1, <1>2

\* ... and a sequence to whose end an element it does not have is added.
LEMMA LongerOnce ==
  ASSUME NEW n \in Nat, NEW a, NEW b, NEW x,
         \A k, l \in 1..n : a[k] = a[l] => k = l,
         \A k \in 1..n : a[k] # x,
         \A k \in 1..n : b[k] = a[k], b[n + 1] = x
  PROVE  /\ \A k, j \in 1..n + 1 : b[k] = b[j] => k = j
         /\ \A k \in 1..n + 1 : b[k] = x \/ \E p \in 1..n : b[k] = a[p]
  <1>1. \A k \in 1..n + 1 : k = n + 1 \/ (k \in 1..n /\ b[k] = a[k])
    OBVIOUS
  <1>2. QED  BY <1>1

LEMMA OnceHolds ==
  ASSUME LogTypeOK, EventIsOnce, [LogNext]_logVars
  PROVE  EventIsOnce'
  <1>1. CASE Forgets
    <2>1. SUFFICES ASSUME NEW t \in DOMAIN log', NEW u \in DOMAIN log',
                          NEW i \in DOMAIN log'[t], NEW j \in DOMAIN log'[u],
                          log'[t][i] = log'[u][j]
                   PROVE  t = u /\ i = j
      BY DEF EventIsOnce, Tabs
    <2>2. log'[t] # <<>> /\ log'[u] # <<>>
      BY <2>1
    <2>3. t \in Tabs /\ log'[t] = log[t] /\ u \in Tabs /\ log'[u] = log[u]
      BY <1>1, <2>2 DEF Forgets
    <2>4. QED  BY <2>1, <2>3 DEF EventIsOnce
  <1>2. ASSUME NEW t \in AllTabs, AddEventData(t)
        PROVE  EventIsOnce'
    <2> DEFINE n == Len(log[t])
    <2>1. /\ arrived \in Nat /\ n \in Nat /\ Len(log'[t]) \in Nat /\ t \in Tabs
          /\ DOMAIN log[t] = 1..n /\ DOMAIN log'[t] = 1..Len(log'[t]) /\ DOMAIN log' = Tabs
          /\ \A k \in 1..n : log[t][k] \in 1..arrived
          /\ \A u \in Tabs \ {t} : log'[u] = log[u]
          /\ \A u \in Tabs : \A k \in DOMAIN log[u] : log[u][k] \in 1..arrived
      BY <1>2, Added DEF AddEventData, LogTypeOK
    <2>2. \A k, l \in 1..n : log[t][k] = log[t][l] => k = l
      BY <2>1 DEF EventIsOnce
    <2>3. \/ /\ Len(log'[t]) = n + 1 /\ log'[t][n + 1] = arrived + 1
             /\ \A k \in 1..n : log'[t][k] = log[t][k]
          \/ n >= 1 /\ n <= 1 /\ Len(log'[t]) = n /\ log'[t][1] = log[t][1]
          \/ /\ n > 1 /\ Len(log'[t]) = n /\ log'[t][1] = log[t][1] /\ log'[t][n] = arrived + 1
             /\ \A k \in 2..n - 1 : log'[t][k] = log[t][k + 1]
      BY <1>2, Added
    <2> HIDE DEF n
    <2>4. /\ \A i, j \in 1..Len(log'[t]) : log'[t][i] = log'[t][j] => i = j
          /\ \A i \in 1..Len(log'[t]) :
                log'[t][i] = arrived + 1 \/ \E k \in 1..n : log'[t][i] = log[t][k]
      <3> DEFINE old == log[t]
                 new == log'[t]
                 m == Len(log'[t])
                 top == arrived
      <3>1. /\ top \in Nat /\ n \in Nat /\ m \in Nat
            /\ \A k \in 1..n : old[k] \in 1..top
            /\ \A k, l \in 1..n : old[k] = old[l] => k = l
        BY <2>1, <2>2
      <3>2. \/ m = n + 1 /\ new[n + 1] = top + 1 /\ \A k \in 1..n : new[k] = old[k]
            \/ n >= 1 /\ n <= 1 /\ m = n /\ new[1] = old[1]
            \/ /\ n > 1 /\ m = n /\ new[1] = old[1] /\ new[n] = top + 1
               /\ \A k \in 2..n - 1 : new[k] = old[k + 1]
        BY <2>3
      <3> HIDE DEF old, new, m, top
      <3>3. /\ \A i, j \in 1..m : new[i] = new[j] => i = j
            /\ \A i \in 1..m : new[i] = top + 1 \/ \E k \in 1..n : new[i] = old[k]
        BY <3>1, <3>2, GrownOnce
      <3>4. QED  BY <3>3 DEF old, new, m, top
    <2>5. ~(arrived + 1 \in 1..arrived)
      BY <2>1
    <2>6. ASSUME NEW u \in Tabs \ {t}, NEW i \in DOMAIN log'[t], NEW j \in DOMAIN log'[u]
          PROVE  log'[t][i] # log'[u][j]
      <3>1. log'[u] = log[u] /\ log[u][j] \in 1..arrived
        BY <2>1, <2>6
      <3>2. CASE log'[t][i] = arrived + 1
        BY <2>5, <3>1, <3>2
      <3>3. CASE \E k \in 1..n : log'[t][i] = log[t][k]
        BY <2>1, <2>6, <3>1, <3>3 DEF EventIsOnce
      <3>4. QED  BY <2>1, <2>4, <2>6, <3>2, <3>3
    <2>7. SUFFICES ASSUME NEW u \in Tabs, NEW v \in Tabs,
                          NEW i \in DOMAIN log'[u], NEW j \in DOMAIN log'[v],
                          log'[u][i] = log'[v][j]
                   PROVE  u = v /\ i = j
      BY <2>1 DEF EventIsOnce, Tabs
    <2>8. CASE u = t /\ v = t
      BY <2>1, <2>4, <2>7, <2>8
    <2>9. CASE u # t /\ v # t
      BY <2>1, <2>7, <2>9 DEF EventIsOnce
    <2>10. QED  BY <2>6, <2>7, <2>8, <2>9
  <1>3. ASSUME NEW t \in AllTabs, NEW e \in 1..arrived, MoveEventToBackgroundTab(t, e)
        PROVE  EventIsOnce'
    <2> DEFINE n == Len(log[t])
               b == Len(log[Background])
    <2>1. PICK i \in 1..n :
             /\ t \in Tabs /\ DOMAIN log' = Tabs /\ log[t][i] = e
             /\ \A u \in Tabs \ {t, Background} : log'[u] = log[u]
             /\ log'[t] \in Seq(1..arrived) /\ log'[Background] \in Seq(1..arrived)
             /\ t # Background => Len(log'[t]) = n - 1
             /\ \A k \in 1..n - 1 : log'[t][k] = IF k < i THEN log[t][k] ELSE log[t][k + 1]
             /\ t = Background => Len(log'[Background]) = b
             /\ t # Background => Len(log'[Background]) = b + 1
             /\ t # Background => \A k \in 1..b : log'[Background][k] = log[Background][k]
             /\ log'[Background][Len(log'[Background])] = e
      BY <1>3, Moved
    <2>2. /\ n \in Nat /\ b \in Nat /\ Background \in Tabs
          /\ DOMAIN log[t] = 1..n /\ DOMAIN log[Background] = 1..b
          /\ DOMAIN log'[t] = 1..Len(log'[t])
          /\ DOMAIN log'[Background] = 1..Len(log'[Background])
      BY <2>1 DEF LogTypeOK
    <2> HIDE DEF n, b
    <2>3. \A k, l \in 1..n : log[t][k] = log[t][l] => k = l
      <3>1. t \in Tabs /\ DOMAIN log[t] = 1..n
        BY <2>1, <2>2
      <3>2. QED  BY <3>1 DEF EventIsOnce
    <2>4. /\ \A k, j \in 1..n - 1 : log'[t][k] = log'[t][j] => k = j
          /\ \A k \in 1..n - 1 : log'[t][k] # e /\ \E p \in 1..n : log'[t][k] = log[t][p]
      <3>1. /\ n \in Nat /\ log[t][i] = e
            /\ \A k \in 1..n - 1 : log'[t][k] = IF k < i THEN log[t][k] ELSE log[t][k + 1]
        BY <2>1, <2>2
      <3>2. /\ \A k, j \in 1..n - 1 : log'[t][k] = log'[t][j] => k = j
            /\ \A k \in 1..n - 1 :
                  log'[t][k] # log[t][i] /\ \E p \in 1..n : log'[t][k] = log[t][p]
        BY <3>1, <2>3, ShortenedOnce
      <3>3. QED  BY <3>1, <3>2
    <2>5. \* the background, after the move
          /\ \A k, j \in DOMAIN log'[Background] :
                log'[Background][k] = log'[Background][j] => k = j
          /\ \A k \in DOMAIN log'[Background] :
                log'[Background][k] = e
                \/ \E p \in DOMAIN log[Background] : log'[Background][k] = log[Background][p]
      <3>1. CASE t = Background
        <4>1. n = b
          BY <3>1 DEF n, b
        <4>2. DOMAIN log'[Background] = 1..(n - 1) + 1 /\ n - 1 \in Nat
          BY <2>1, <2>2, <3>1, <4>1
        <4>3. \A k \in 1..(n - 1) + 1 : k = n \/ k \in 1..n - 1
          BY <2>2
        <4>4. log'[Background][n] = e
          BY <2>1, <3>1, <4>1
        <4>5. QED  BY <2>2, <2>4, <3>1, <4>2, <4>3, <4>4
      <3>2. CASE t # Background
        <4>1. \A k, l \in 1..b : log[Background][k] = log[Background][l] => k = l
          BY <2>2 DEF EventIsOnce
        <4>2. \A k \in 1..b : log[Background][k] # e
          BY <2>1, <2>2, <3>2 DEF EventIsOnce
        <4>3. log'[Background][b + 1] = e /\ DOMAIN log'[Background] = 1..b + 1
          BY <2>1, <2>2, <3>2
        <4>4. \A k \in 1..b : log'[Background][k] = log[Background][k]
          BY <2>1, <3>2
        <4>5. b \in Nat /\ DOMAIN log[Background] = 1..b
          BY <2>2
        <4>6. /\ \A k, j \in 1..b + 1 :
                    log'[Background][k] = log'[Background][j] => k = j
              /\ \A k \in 1..b + 1 : log'[Background][k] = e
                    \/ \E p \in 1..b : log'[Background][k] = log[Background][p]
          BY <4>1, <4>2, <4>3, <4>4, <4>5, LongerOnce, SMTT(40)
        <4>7. QED  BY <4>3, <4>5, <4>6
      <3>3. QED  BY <3>1, <3>2
    <2>6. ASSUME t # Background
          PROVE  /\ \A k, j \in DOMAIN log'[t] : log'[t][k] = log'[t][j] => k = j
                 /\ \A k \in DOMAIN log'[t] :
                       log'[t][k] # e /\ \E p \in DOMAIN log[t] : log'[t][k] = log[t][p]
      BY <2>1, <2>2, <2>4, <2>6
    <2>7. ASSUME NEW u \in Tabs \ {Background}
          PROVE  /\ \A k, j \in DOMAIN log'[u] : log'[u][k] = log'[u][j] => k = j
                 /\ \A k \in DOMAIN log'[u] :
                       log'[u][k] # e /\ \E p \in DOMAIN log[u] : log'[u][k] = log[u][p]
      <3>1. CASE u = t
        BY <2>6, <2>7, <3>1
      <3>2. CASE u # t
        <4>1. log'[u] = log[u]
          BY <2>1, <2>7, <3>2
        <4>2. t \in Tabs /\ u \in Tabs /\ i \in DOMAIN log[t] /\ log[t][i] = e
          BY <2>1, <2>2, <2>7
        <4>3. \A k \in DOMAIN log[u] : log[u][k] # e
          BY <3>2, <4>2 DEF EventIsOnce
        <4>4. \A k, j \in DOMAIN log[u] : log[u][k] = log[u][j] => k = j
          BY <4>2 DEF EventIsOnce
        <4>5. QED  BY <4>1, <4>3, <4>4
      <3>3. QED  BY <3>1, <3>2
    <2>8. SUFFICES ASSUME NEW u \in Tabs, NEW v \in Tabs,
                          NEW k \in DOMAIN log'[u], NEW j \in DOMAIN log'[v],
                          log'[u][k] = log'[v][j]
                   PROVE  u = v /\ k = j
      BY <2>1 DEF EventIsOnce, Tabs
    <2>9. CASE u = v
      BY <2>5, <2>7, <2>8, <2>9
    <2>10. CASE u # v /\ u # Background /\ v # Background
      BY <2>7, <2>8, <2>10 DEF EventIsOnce
    <2>11. CASE u # v /\ u = Background
      BY <2>2, <2>5, <2>7, <2>8, <2>11 DEF EventIsOnce
    <2>12. CASE u # v /\ v = Background
      BY <2>2, <2>5, <2>7, <2>8, <2>12 DEF EventIsOnce
    <2>13. QED  BY <2>9, <2>10, <2>11, <2>12
  <1>4. QED  BY <1>1, <1>2, <1>3, Kinds

-----------------------------------------------------------------------------
(* The specification. *)

LogInv ==
    LogTypeOK /\ PagesOK /\ EmptyUnlessOpen /\ InOrder /\ RecentStay /\ EventIsOnce

LEMMA LogInvariant == LogSpec => []LogInv
  <1>1. LogInit => LogInv
    <2>1. SUFFICES ASSUME LogInit PROVE LogInv
      OBVIOUS
    <2>2. /\ DOMAIN log = {Background} /\ log[Background] = <<>>
          /\ log = [t \in {Background} |-> <<>>]
      BY <2>1 DEF LogInit
    <2>3. LogTypeOK
      <3>1. 0 \in 0..MaxLogged /\ <<>> \in Seq(1..0)
        BY EmptySeq, FilteringLogAssumption
      <3>2. log \in [{Background} -> Seq(1..0)] /\ arrived = 0
        BY <2>1, <2>2, <3>1 DEF LogInit
      <3>3. evicted \in [AllTabs -> SUBSET (1..0)]
        BY <2>1 DEF LogInit
      <3>4. QED  BY <2>1, <2>2, <3>1, <3>2, <3>3 DEF LogInit, LogTypeOK, AllTabs, Tabs
    <2>4. PagesOK
      <3>1. IsFiniteSet({}) /\ Cardinality({}) = 0
        BY FS_EmptySet
      <3>2. QED  BY <2>1, <3>1 DEF LogInit, PagesOK
    <2>5. EmptyUnlessOpen /\ InOrder /\ RecentStay
      BY <2>2 DEF EmptyUnlessOpen, InOrder, RecentStay, Tabs
    <2>6. EventIsOnce
      BY <2>2 DEF EventIsOnce, Tabs
    <2>7. QED  BY <2>3, <2>4, <2>5, <2>6 DEF LogInv
  <1>2. LogInv /\ [LogNext]_logVars => LogInv'
    BY LogTypesHold, PagesHold, EmptinessHolds, OrderHolds, RecentHolds, OnceHolds DEF LogInv
  <1>3. QED  BY <1>1, <1>2, PTL DEF LogSpec

(* Every variable of the filtering log has its type. *)
THEOREM FilteringLogTypes == LogSpec => []LogTypeOK
  BY LogInvariant, PTL DEF LogInv

(* Whatever pages open and close, and whatever tabs come and go meanwhile,  *)
(* no event is kept once no log page is connected.                          *)
THEOREM ClosedLogKeepsNothing == LogSpec => []ClosedLogIsEmpty
  <1>1. LogInv => ClosedLogIsEmpty
    <2>1. SUFFICES ASSUME LogInv, connected = {}, NEW t \in Tabs PROVE log[t] = <<>>
      BY DEF ClosedLogIsEmpty
    <2>2. openedPages = 0
      <3>1. Cardinality({}) = 0
        BY FS_EmptySet
      <3>2. QED  BY <2>1, <3>1 DEF LogInv, PagesOK
    <2>3. QED  BY <2>1, <2>2 DEF LogInv, EmptyUnlessOpen, IsOpen
  <1>2. QED  BY <1>1, LogInvariant, PTL

(* No event is shown twice: adding, dropping and moving keep the events of  *)
(* all tabs different from each other.                                     *)
THEOREM EventsAreShownOnce == LogSpec => []EventIsOnce
  BY LogInvariant, PTL DEF LogInv

(* What a tab's log drops is older than all it shows but the first, for any *)
(* size it is kept to, and although the setting to preserve it may change.  *)
THEOREM RecentEventsStay == LogSpec => []RecentStay
  BY LogInvariant, PTL DEF LogInv

(* Dropping events never touches the request of the main frame. *)
THEOREM MainRequestIsKept == LogSpec => MainRequestStays
  <1>1. LogTypeOK /\ [LogNext]_logVars =>
          [\A t \in Tabs : log[t] # <<>> /\ arrived' > arrived
              => t \in DOMAIN log' /\ log'[t] # <<>> /\ log'[t][1] = log[t][1]]_logVars
    <2>1. SUFFICES ASSUME LogTypeOK, [LogNext]_logVars, NEW t \in Tabs,
                          log[t] # <<>>, arrived' > arrived
                   PROVE  t \in DOMAIN log' /\ log'[t] # <<>> /\ log'[t][1] = log[t][1]
      OBVIOUS
    <2>2. arrived \in Nat /\ log[t] \in Seq(1..arrived)
      BY <2>1 DEF LogTypeOK
    <2>3. PICK u \in AllTabs : AddEventData(u)
      <3>1. ~(arrived' = arrived)
        BY <2>1, <2>2
      <3>2. QED  BY <2>1, <3>1, Kinds, Moved DEF Forgets
    <2>4. CASE u # t
      BY <2>1, <2>3, <2>4, Added
    <2>5. CASE u = t
      <3>1. Len(log[t]) \in Nat \ {0}
        BY <2>1, <2>2, EmptySeq
      <3>2. 1 \in 1..Len(log[t]) /\ Len(log[t]) >= 1
        BY <3>1
      <3>3. log'[t][1] = log[t][1] /\ Len(log'[t]) >= 1 /\ t \in DOMAIN log'
        BY <2>1, <2>3, <2>5, <3>1, <3>2, Added
      <3>4. log'[t] # <<>>
        BY <3>3
      <3>5. QED  BY <3>3, <3>4
    <2>6. QED  BY <2>4, <2>5
  <1>2. QED  BY <1>1, FilteringLogTypes, PTL DEF LogSpec, MainRequestStays

-----------------------------------------------------------------------------
(* PAGE STATISTICS                                                         *)

-----------------------------------------------------------------------------
(* Whole periods and the calendar.                                         *)

\* Division by a positive number.
LEMMA Quotient ==
  ASSUME NEW n \in Nat \ {0}, NEW a \in Nat
  PROVE  /\ a \div n \in Nat
         /\ n * (a \div n) <= a
         /\ a < n * (a \div n) + n
  OBVIOUS

LEMMA LessTimes ==
  ASSUME NEW n \in Nat \ {0}, NEW a \in Int, NEW b \in Int, n * a < n * b
  PROVE  a < b
  OBVIOUS

\* The periods a history moves on by between two times, when it does.
PagesMoved(n, from, to) == IF (to - from) \div n < 2 THEN 1 ELSE (to - from) \div n

\* Between two times the calendar turns at least as many pages as whole periods
\* pass, and at most one more.
LEMMA CalendarPages ==
  ASSUME NEW n \in Nat \ {0}, NEW from \in Nat, NEW to \in Nat, from <= to
  PROVE  /\ from \div n \in Nat /\ to \div n \in Nat /\ (to - from) \div n \in Nat
         /\ (to - from) \div n <= to \div n - from \div n
         /\ to \div n - from \div n <= (to - from) \div n + 1
  <1> DEFINE w == (to - from) \div n
             p == from \div n
             q == to \div n
  <1>1. /\ p \in Nat /\ n * p <= from /\ from < n * p + n
        /\ q \in Nat /\ n * q <= to /\ to < n * q + n
        /\ w \in Nat /\ n * w <= to - from /\ to - from < n * w + n
    BY Quotient
  <1> HIDE DEF w, p, q
  <1>2. /\ n * (p + w) = n * p + n * w
        /\ n * (q + 1) = n * q + n
        /\ n * (p + w + 2) = n * p + n * w + n + n
    BY <1>1
  <1>3. n * (p + w) < n * (q + 1) /\ n * q < n * (p + w + 2)
    BY <1>1, <1>2
  <1>4. p + w < q + 1 /\ q < p + w + 2
    BY <1>1, <1>3, LessTimes
  <1> QED BY <1>1, <1>4 DEF w, p, q

\* Across a turn of the calendar a history moves on by no more pages than were
\* turned, and by half of them at least.
LEMMA MovesBounds ==
  ASSUME NEW n \in Nat \ {0}, NEW from \in Nat, NEW to \in Nat, from <= to,
         from \div n # to \div n
  PROVE  /\ PagesMoved(n, from, to) \in Nat \ {0}
         /\ PagesMoved(n, from, to) <= to \div n - from \div n
         /\ to \div n - from \div n <= 2 * PagesMoved(n, from, to)
  <1> DEFINE w == (to - from) \div n
             p == from \div n
             q == to \div n
  <1>1. /\ p \in Nat /\ q \in Nat /\ w \in Nat
        /\ w <= q - p /\ q - p <= w + 1
    BY CalendarPages
  <1>2. p # q
    OBVIOUS
  <1>3. PagesMoved(n, from, to) = IF w < 2 THEN 1 ELSE w
    BY DEF PagesMoved
  <1> HIDE DEF w, p, q
  <1>4. /\ PagesMoved(n, from, to) \in Nat \ {0}
        /\ PagesMoved(n, from, to) <= q - p /\ q - p <= 2 * PagesMoved(n, from, to)
    BY <1>1, <1>2, <1>3
  <1> QED BY <1>4 DEF p, q

-----------------------------------------------------------------------------
(* Where a history counts the requests.  Request i, blocked at at[i], is    *)
(* counted back[i] entries before the last one, and is the rank[i]-th that  *)
(* entry counts, as long as the history reaches back so far.                *)

PlacedBy(h, at, t, n, back, rank) ==
    /\ \A i, j \in DOMAIN at : back[i] = back[j] /\ rank[i] = rank[j] => i = j
    /\ \A i \in DOMAIN at : /\ back[i] <= t \div n - at[i] \div n
                            /\ t \div n - at[i] \div n <= 2 * back[i]
                            /\ back[i] < Len(h) => rank[i] \in 1..h[Len(h) - back[i]]
    /\ \A d \in 0..Len(h) - 1 : \A k \in 1..h[Len(h) - d] :
          \E i \in DOMAIN at : back[i] = d /\ rank[i] = k

Placed(h, at, t, n) ==
    \E back, rank \in [DOMAIN at -> Nat] : PlacedBy(h, at, t, n, back, rank)

\* History h2 is h moved on by p periods, in which nothing has been counted.
MovedOn(h2, h, p) ==
    /\ Len(h2) <= Len(h) + p
    /\ \A d \in 0..Len(h2) - 1 : h2[Len(h2) - d] = IF d < p THEN 0
                                                  ELSE h[Len(h) - (d - p)]

LEMMA MovedPlaced ==
  ASSUME NEW h \in Seq(Nat), NEW h2 \in Seq(Nat), NEW p \in Nat, MovedOn(h2, h, p),
         NEW at \in Seq(Nat), NEW n \in Nat \ {0}, NEW from \in Nat, NEW to \in Nat,
         p <= to \div n - from \div n, to \div n - from \div n <= 2 * p,
         Placed(h, at, from, n)
  PROVE  Placed(h2, at, to, n)
  <1>1. PICK back \in [DOMAIN at -> Nat], rank \in [DOMAIN at -> Nat] :
          PlacedBy(h, at, from, n, back, rank)
    BY DEF Placed
  <1> DEFINE back2 == [i \in DOMAIN at |-> back[i] + p]
  <1>2. back2 \in [DOMAIN at -> Nat]
    OBVIOUS
  <1>3. /\ Len(h) \in Nat /\ Len(h2) \in Nat /\ Len(h2) <= Len(h) + p
        /\ \A d \in 0..Len(h2) - 1 : h2[Len(h2) - d] = IF d < p THEN 0
                                                       ELSE h[Len(h) - (d - p)]
    BY DEF MovedOn
  <1>4. ASSUME NEW i \in DOMAIN at, NEW j \in DOMAIN at,
               back2[i] = back2[j], rank[i] = rank[j]
        PROVE  i = j
    <2>1. back[i] = back[j]
      BY <1>4
    <2> QED BY <1>1, <1>4, <2>1 DEF PlacedBy
  <1>5. ASSUME NEW i \in DOMAIN at
        PROVE  /\ back2[i] <= to \div n - at[i] \div n
               /\ to \div n - at[i] \div n <= 2 * back2[i]
               /\ back2[i] < Len(h2) => rank[i] \in 1..h2[Len(h2) - back2[i]]
    <2> DEFINE a == at[i] \div n
               b == from \div n
               c == to \div n
    <2>1. a \in Nat /\ b \in Nat /\ c \in Nat
      <3>1. at[i] \in Nat
        OBVIOUS
      <3> QED BY <3>1, Quotient
    <2>2. back[i] <= b - a /\ b - a <= 2 * back[i] /\ p <= c - b /\ c - b <= 2 * p
      BY <1>1 DEF PlacedBy
    <2>3. back2[i] = back[i] + p /\ back[i] \in Nat
      OBVIOUS
    <2> HIDE DEF a, b, c, back2
    <2>4. back2[i] <= c - a /\ c - a <= 2 * back2[i]
      BY <2>1, <2>2, <2>3, SMTT(40)
    <2>5. ASSUME back2[i] < Len(h2)
          PROVE  rank[i] \in 1..h2[Len(h2) - back2[i]]
      <3>1. back[i] < Len(h) /\ back2[i] \in 0..Len(h2) - 1 /\ ~(back2[i] < p)
            /\ back2[i] - p = back[i]
        BY <1>3, <2>3, <2>5, SMTT(40)
      <3>2. h2[Len(h2) - back2[i]] = h[Len(h) - back[i]]
        BY <1>3, <3>1
      <3>3. rank[i] \in 1..h[Len(h) - back[i]]
        BY <1>1, <3>1 DEF PlacedBy
      <3> QED BY <3>2, <3>3
    <2> QED BY <2>4, <2>5 DEF a, c
  <1>6. ASSUME NEW d \in 0..Len(h2) - 1, NEW k \in 1..h2[Len(h2) - d]
        PROVE  \E i \in DOMAIN at : back2[i] = d /\ rank[i] = k
    <2>1. ~(d < p)
      BY <1>3
    <2>2. d - p \in 0..Len(h) - 1 /\ h2[Len(h2) - d] = h[Len(h) - (d - p)]
      BY <1>3, <2>1
    <2>3. \A e \in 0..Len(h) - 1 : \A m \in 1..h[Len(h) - e] :
            \E i \in DOMAIN at : back[i] = e /\ rank[i] = m
      BY <1>1 DEF PlacedBy
    <2>4. k \in 1..h[Len(h) - (d - p)]
      BY <2>2
    <2>5. PICK i \in DOMAIN at : back[i] = d - p /\ rank[i] = k
      BY <2>2, <2>3, <2>4
    <2>6. back2[i] = d
      BY <2>2, <2>5
    <2> QED BY <2>5, <2>6
  <1> HIDE DEF back2
  <1>7. PlacedBy(h2, at, to, n, back2, rank)
    BY <1>4, <1>5, <1>6 DEF PlacedBy
  <1> QED BY <1>2, <1>7 DEF Placed

\* One more request is counted by the last entry.
LEMMA CountedPlaced ==
  ASSUME NEW h \in Seq(Nat), Len(h) # 0, NEW at \in Seq(Nat), NEW t \in Nat,
         NEW n \in Nat \ {0}, Placed(h, at, t, n),
         NEW h2 \in Seq(Nat), Len(h2) = Len(h),
         \A i \in 1..Len(h) : h2[i] = IF i = Len(h) THEN h[i] + 1 ELSE h[i]
  PROVE  Placed(h2, Append(at, t), t, n)
  <1> DEFINE at2 == Append(at, t)
             L == Len(at) + 1
  <1>1. PICK back \in [DOMAIN at -> Nat], rank \in [DOMAIN at -> Nat] :
          PlacedBy(h, at, t, n, back, rank)
    BY DEF Placed
  <1> DEFINE back2 == [i \in DOMAIN at2 |-> IF i = L THEN 0 ELSE back[i]]
             rank2 == [i \in DOMAIN at2 |-> IF i = L THEN h[Len(h)] + 1 ELSE rank[i]]
  <1>2. /\ Len(at) \in Nat /\ DOMAIN at = 1..Len(at) /\ DOMAIN at2 = 1..L
        /\ L \notin DOMAIN at /\ DOMAIN at2 = DOMAIN at \union {L}
        /\ at2[L] = t /\ \A i \in DOMAIN at : at2[i] = at[i]
    BY SMTT(40)
  <1>3. /\ Len(h) \in Nat \ {0} /\ h[Len(h)] \in Nat
        /\ h2[Len(h)] = h[Len(h)] + 1
        /\ \A d \in 0..Len(h) - 1 : d # 0 => h2[Len(h) - d] = h[Len(h) - d]
    <2>1. Len(h) \in Nat \ {0} /\ Len(h) \in 1..Len(h) /\ h[Len(h)] \in Nat
      OBVIOUS
    <2>2. \A d \in 0..Len(h) - 1 : Len(h) - d \in 1..Len(h)
                                   /\ (d # 0 => Len(h) - d # Len(h))
      BY <2>1
    <2> QED BY <2>1, <2>2
  <1>4. back2 \in [DOMAIN at2 -> Nat] /\ rank2 \in [DOMAIN at2 -> Nat]
    BY <1>2, <1>3
  <1>5. /\ back2[L] = 0 /\ rank2[L] = h[Len(h)] + 1
        /\ \A i \in DOMAIN at : back2[i] = back[i] /\ rank2[i] = rank[i]
    BY <1>2
  <1> HIDE DEF at2, back2, rank2, L
  <1>6. ASSUME NEW i \in DOMAIN at
        PROVE  /\ back[i] <= t \div n - at[i] \div n
               /\ t \div n - at[i] \div n <= 2 * back[i]
               /\ back[i] < Len(h) => rank[i] \in 1..h[Len(h) - back[i]]
               /\ ~(back[i] = 0 /\ rank[i] = h[Len(h)] + 1)
    <2>1. /\ back[i] <= t \div n - at[i] \div n
          /\ t \div n - at[i] \div n <= 2 * back[i]
          /\ back[i] < Len(h) => rank[i] \in 1..h[Len(h) - back[i]]
      BY <1>1 DEF PlacedBy
    <2>2. ASSUME back[i] = 0, rank[i] = h[Len(h)] + 1
          PROVE  FALSE
      <3>1. Len(h) - back[i] = Len(h) /\ back[i] < Len(h)
        BY <1>3, <2>2
      <3>2. rank[i] \in 1..h[Len(h)]
        BY <2>1, <3>1
      <3> QED BY <1>3, <2>2, <3>2
    <2> QED BY <2>1, <2>2
  <1>7. ASSUME NEW i \in DOMAIN at2, NEW j \in DOMAIN at2,
               back2[i] = back2[j], rank2[i] = rank2[j]
        PROVE  i = j
    <2>1. CASE i = L \/ j = L
      BY <1>2, <1>5, <1>6, <1>7, <2>1
    <2>2. CASE i \in DOMAIN at /\ j \in DOMAIN at
      <3>1. back[i] = back[j] /\ rank[i] = rank[j]
        BY <1>5, <1>7, <2>2
      <3> QED BY <1>1, <2>2, <3>1 DEF PlacedBy
    <2> QED BY <1>2, <2>1, <2>2
  <1>8. ASSUME NEW i \in DOMAIN at2
        PROVE  /\ back2[i] <= t \div n - at2[i] \div n
               /\ t \div n - at2[i] \div n <= 2 * back2[i]
               /\ back2[i] < Len(h2) => rank2[i] \in 1..h2[Len(h2) - back2[i]]
    <2>1. CASE i = L
      <3>1. t \div n - at2[i] \div n = 0
        BY <1>2, <2>1, Quotient
      <3>2. rank2[i] \in 1..h2[Len(h2) - back2[i]]
        BY <1>3, <1>5, <2>1
      <3> QED BY <1>5, <2>1, <3>1, <3>2
    <2>2. CASE i \in DOMAIN at
      <3>1. back2[i] = back[i] /\ rank2[i] = rank[i] /\ at2[i] = at[i] /\ back[i] \in Nat
        BY <1>2, <1>5, <2>2
      <3>2. ASSUME back[i] < Len(h)
            PROVE  rank[i] \in 1..h2[Len(h) - back[i]]
        <4>1. back[i] \in 0..Len(h) - 1 /\ rank[i] \in 1..h[Len(h) - back[i]]
          BY <1>3, <1>6, <2>2, <3>1, <3>2
        <4>2. CASE back[i] = 0
          BY <1>3, <4>1, <4>2
        <4>3. CASE back[i] # 0
          BY <1>3, <4>1, <4>3
        <4> QED BY <4>2, <4>3
      <3> QED BY <1>6, <2>2, <3>1, <3>2
    <2> QED BY <1>2, <2>1, <2>2
  <1>9. ASSUME NEW d \in 0..Len(h2) - 1, NEW k \in 1..h2[Len(h2) - d]
        PROVE  \E i \in DOMAIN at2 : back2[i] = d /\ rank2[i] = k
    <2>1. CASE d = 0 /\ k = h[Len(h)] + 1
      BY <1>2, <1>5, <2>1
    <2>2. CASE ~(d = 0 /\ k = h[Len(h)] + 1)
      <3>1. d \in 0..Len(h) - 1 /\ k \in 1..h[Len(h) - d]
        BY <1>3, <1>9, <2>2, SMTT(40)
      <3>2. \A e \in 0..Len(h) - 1 : \A m \in 1..h[Len(h) - e] :
              \E i \in DOMAIN at : back[i] = e /\ rank[i] = m
        BY <1>1 DEF PlacedBy
      <3>3. PICK i \in DOMAIN at : back[i] = d /\ rank[i] = k
        BY <3>1, <3>2
      <3> QED BY <1>2, <1>5, <3>3
    <2> QED BY <2>1, <2>2
  <1>10. PlacedBy(h2, at2, t, n, back2, rank2)
    BY <1>7, <1>8, <1>9 DEF PlacedBy
  <1>11. Placed(h2, at2, t, n)
    BY <1>4, <1>10 DEF Placed
  <1> QED BY <1>11 DEF at2

-----------------------------------------------------------------------------
(* What a history counts are the requests placed within its reach.         *)

LEMMA CellsMember ==
  ASSUME NEW h \in Seq(Nat), NEW c
  PROVE  c \in Cells(h) <=> \E p \in DOMAIN h : \E k \in 1..h[p] : c = <<p, k>>
  BY DEF Cells

LEMMA PlacedCells ==
  ASSUME NEW h \in Seq(Nat), NEW at \in Seq(Nat), NEW t \in Nat, NEW n \in Nat \ {0},
         Placed(h, at, t, n)
  PROVE  \E F \in SUBSET DOMAIN at :
            /\ ExistsBijection(F, Cells(h))
            /\ \A i \in DOMAIN at :
                  /\ t \div n - at[i] \div n < Len(h) => i \in F
                  /\ i \in F => t \div n - at[i] \div n <= 2 * (Len(h) - 1)
  <1>1. PICK back \in [DOMAIN at -> Nat], rank \in [DOMAIN at -> Nat] :
          PlacedBy(h, at, t, n, back, rank)
    BY DEF Placed
  <1> DEFINE F == {i \in DOMAIN at : back[i] < Len(h)}
             b == [i \in F |-> <<Len(h) - back[i], rank[i]>>]
  <1>2. /\ Len(h) \in Nat /\ DOMAIN h = 1..Len(h) /\ F \in SUBSET DOMAIN at
        /\ \A i \in DOMAIN at : back[i] \in Nat /\ rank[i] \in Nat /\ at[i] \in Nat
    OBVIOUS
  <1>3. \A i \in F : /\ Len(h) - back[i] \in DOMAIN h
                     /\ rank[i] \in 1..h[Len(h) - back[i]]
    BY <1>1, <1>2, SMTT(40) DEF PlacedBy
  <1>4. b \in [F -> Cells(h)]
    <2>1. \A i \in F : <<Len(h) - back[i], rank[i]>> \in Cells(h)
      BY <1>3, CellsMember
    <2> QED BY <2>1
  <1>5. ASSUME NEW i \in F, NEW j \in F, b[i] = b[j]
        PROVE  i = j
    <2>1. <<Len(h) - back[i], rank[i]>> = <<Len(h) - back[j], rank[j]>>
      BY <1>5
    <2>2. Len(h) - back[i] = Len(h) - back[j] /\ rank[i] = rank[j]
      BY <2>1
    <2>3. back[i] = back[j]
      BY <1>2, <2>2
    <2> QED BY <1>1, <2>2, <2>3 DEF PlacedBy
  <1>6. ASSUME NEW c \in Cells(h)
        PROVE  \E i \in F : b[i] = c
    <2>0. PICK p \in DOMAIN h : \E k \in 1..h[p] : c = <<p, k>>
      BY CellsMember
    <2>1. PICK k \in 1..h[p] : c = <<p, k>>
      BY <2>0
    <2>2. \A e \in 0..Len(h) - 1 : \A m \in 1..h[Len(h) - e] :
            \E i \in DOMAIN at : back[i] = e /\ rank[i] = m
      BY <1>1 DEF PlacedBy
    <2>3. Len(h) - p \in 0..Len(h) - 1 /\ Len(h) - (Len(h) - p) = p
      BY <1>2
    <2>4. PICK i \in DOMAIN at : back[i] = Len(h) - p /\ rank[i] = k
      BY <2>2, <2>3
    <2>5. i \in F /\ Len(h) - back[i] = p
      BY <1>2, <2>3, <2>4
    <2>6. b[i] = <<Len(h) - back[i], rank[i]>>
      BY <2>5
    <2> QED BY <2>1, <2>4, <2>5, <2>6
  <1>7. ExistsBijection(F, Cells(h))
    <2> HIDE DEF b, F
    <2>1. b \in Injection(F, Cells(h))
      BY <1>4, <1>5 DEF Injection, IsInjective
    <2>2. b \in Surjection(F, Cells(h))
      BY <1>4, <1>6 DEF Surjection
    <2> QED BY <2>1, <2>2 DEF ExistsBijection, Bijection
  <1>8. ASSUME NEW i \in DOMAIN at
        PROVE  /\ t \div n - at[i] \div n < Len(h) => i \in F
               /\ i \in F => t \div n - at[i] \div n <= 2 * (Len(h) - 1)
    <2> DEFINE a == t \div n - at[i] \div n
    <2>1. a \in Int
      BY <1>2, Quotient
    <2>2. back[i] <= a /\ a <= 2 * back[i]
      BY <1>1 DEF PlacedBy
    <2> HIDE DEF a
    <2>3. (a < Len(h) => i \in F) /\ (i \in F => a <= 2 * (Len(h) - 1))
      BY <1>2, <2>1, <2>2
    <2> QED BY <2>3 DEF a
  <1> QED BY <1>2, <1>7, <1>8

\* The bounds on what a history counts.
LEMMA PlacedCounts ==
  ASSUME NEW h \in Seq(Nat), NEW at \in Seq(Nat), NEW t \in Nat, NEW n \in Nat \ {0},
         Placed(h, at, t, n)
  PROVE  /\ IsFiniteSet(Cells(h)) /\ Cardinality(Cells(h)) \in Nat
         /\ Cardinality(Cells(h)) <= Len(at)
         /\ \A w \in Nat : w <= Len(h) =>
              Cardinality({i \in DOMAIN at : t \div n - at[i] \div n < w})
                <= Cardinality(Cells(h))
         /\ Cardinality(Cells(h))
              <= Cardinality({i \in DOMAIN at : t \div n - at[i] \div n <= 2 * (Len(h) - 1)})
  <1>1. PICK F \in SUBSET DOMAIN at :
            /\ ExistsBijection(F, Cells(h))
            /\ \A i \in DOMAIN at :
                  /\ t \div n - at[i] \div n < Len(h) => i \in F
                  /\ i \in F => t \div n - at[i] \div n <= 2 * (Len(h) - 1)
    BY PlacedCells
  <1>2. IsFiniteSet(DOMAIN at) /\ Cardinality(DOMAIN at) = Len(at)
    <2> DEFINE m == Len(at)
    <2>1. DOMAIN at = 1..m /\ m \in Nat
      OBVIOUS
    <2> HIDE DEF m
    <2>2. IsFiniteSet(1..m) /\ Cardinality(1..m) = IF 1 > m THEN 0 ELSE m - 1 + 1
      BY <2>1, FS_Interval
    <2>3. Cardinality(1..m) = m
      BY <2>1, <2>2
    <2> QED BY <2>1, <2>2, <2>3 DEF m
  <1>3. IsFiniteSet(F) /\ Cardinality(F) <= Len(at) /\ Cardinality(F) \in Nat
    BY <1>2, FS_Subset, FS_CardinalityType
  <1>4. IsFiniteSet(Cells(h)) /\ Cardinality(Cells(h)) = Cardinality(F)
    BY <1>1, <1>3, FS_Bijection
  <1>5. ASSUME NEW w \in Nat, w <= Len(h)
        PROVE  Cardinality({i \in DOMAIN at : t \div n - at[i] \div n < w}) <= Cardinality(F)
    <2> DEFINE R == {i \in DOMAIN at : t \div n - at[i] \div n < w}
    <2>1. R \in SUBSET F
      <3>1. SUFFICES ASSUME NEW i \in R PROVE i \in F
        OBVIOUS
      <3>2. t \div n - at[i] \div n \in Int /\ t \div n - at[i] \div n < w
        <4>1. at[i] \in Nat
          OBVIOUS
        <4> QED BY <4>1, Quotient
      <3>3. Len(h) \in Nat
        OBVIOUS
      <3>4. t \div n - at[i] \div n < Len(h)
        BY <1>5, <3>2, <3>3
      <3> QED BY <1>1, <3>4
    <2> HIDE DEF R
    <2>2. Cardinality(R) <= Cardinality(F)
      BY <1>3, <2>1, FS_Subset
    <2> QED BY <2>2 DEF R
  <1>6. Cardinality(F)
          <= Cardinality({i \in DOMAIN at : t \div n - at[i] \div n <= 2 * (Len(h) - 1)})
    <2> DEFINE R == {i \in DOMAIN at : t \div n - at[i] \div n <= 2 * (Len(h) - 1)}
    <2>1. F \in SUBSET R /\ R \in SUBSET DOMAIN at
      BY <1>1
    <2> HIDE DEF R
    <2>2. Cardinality(F) <= Cardinality(R)
      BY <1>2, <2>1, FS_Subset
    <2> QED BY <2>2 DEF R
  <1> QED BY <1>3, <1>4, <1>5, <1>6

\* No entry counts more requests than were blocked.
LEMMA EntryBound ==
  ASSUME NEW h \in Seq(Nat), NEW m \in Nat,
         IsFiniteSet(Cells(h)), Cardinality(Cells(h)) <= m
  PROVE  h \in Seq(0..m)
  <1>1. ASSUME NEW p \in DOMAIN h
        PROVE  h[p] \in 0..m
    <2> DEFINE b == [k \in 1..h[p] |-> <<p, k>>]
    <2>1. h[p] \in Nat
      OBVIOUS
    <2>2. \A k \in 1..h[p] : <<p, k>> \in Cells(h)
      BY CellsMember
    <2>3. b \in [1..h[p] -> Cells(h)]
      BY <2>2
    <2>4. \A j, k \in 1..h[p] : b[j] = b[k] => j = k
      OBVIOUS
    <2> HIDE DEF b
    <2>5. b \in Injection(1..h[p], Cells(h))
      BY <2>3, <2>4 DEF Injection, IsInjective
    <2>6. Cardinality(1..h[p]) <= Cardinality(Cells(h))
      BY <2>5, FS_Injection
    <2>7. Cardinality(1..h[p]) = h[p]
      BY <2>1, FS_Interval
    <2>8. Cardinality(Cells(h)) \in Nat
      BY FS_CardinalityType
    <2> QED BY <2>1, <2>6, <2>7, <2>8
  <1> QED BY <1>1

-----------------------------------------------------------------------------
(* The operators that move a history on place what they keep.              *)

LEMMA ZerosType ==
  ASSUME NEW p \in Nat
  PROVE  /\ Zeros(p) \in Seq(Nat) /\ Len(Zeros(p)) = p
         /\ \A i \in 1..p : Zeros(p)[i] = 0
  <1>1. Zeros(p) \in [1..p -> Nat]
    BY DEF Zeros
  <1>2. Zeros(p) \in Seq(Nat) /\ DOMAIN Zeros(p) = 1..p
    BY <1>1
  <1> QED BY <1>2 DEF Zeros

LEMMA PadMoves ==
  ASSUME NEW h \in Seq(Nat), NEW p \in Nat
  PROVE  /\ h \o Zeros(p) \in Seq(Nat)
         /\ Len(h \o Zeros(p)) = Len(h) + p
         /\ MovedOn(h \o Zeros(p), h, p)
  <1> DEFINE z == Zeros(p)
             g == h \o z
  <1>1. z \in Seq(Nat) /\ Len(z) = p /\ \A i \in 1..p : z[i] = 0
    BY ZerosType
  <1> HIDE DEF z
  <1>2. /\ g \in Seq(Nat) /\ Len(g) = Len(h) + p /\ Len(h) \in Nat
        /\ \A i \in 1..Len(h) + p : g[i] = IF i <= Len(h) THEN h[i] ELSE z[i - Len(h)]
    BY <1>1
  <1> HIDE DEF g
  <1>3. ASSUME NEW d \in 0..Len(g) - 1
        PROVE  g[Len(g) - d] = IF d < p THEN 0 ELSE h[Len(h) - (d - p)]
    <2>1. Len(g) - d \in 1..Len(h) + p
      BY <1>2
    <2>2. CASE d < p
      <3>1. /\ ~(Len(g) - d <= Len(h)) /\ (Len(g) - d) - Len(h) \in 1..p
        BY <1>2, <2>2
      <3> QED BY <1>1, <1>2, <2>1, <2>2, <3>1
    <2>3. CASE ~(d < p)
      <3>1. Len(g) - d <= Len(h) /\ Len(g) - d = Len(h) - (d - p)
        BY <1>2, <2>3
      <3> QED BY <1>2, <2>1, <2>3, <3>1
    <2> QED BY <2>2, <2>3
  <1>4. MovedOn(g, h, p)
    BY <1>2, <1>3 DEF MovedOn
  <1> QED BY <1>2, <1>4 DEF g, z

\* The last n entries of a sequence, counted from its end.
LEMMA LatestEntries ==
  ASSUME NEW h \in Seq(Nat), NEW n \in Nat
  PROVE  /\ Latest(h, n) \in Seq(Nat)
         /\ Len(Latest(h, n)) = IF Len(h) > n THEN n ELSE Len(h)
         /\ \A i \in 1..Len(Latest(h, n)) :
              Latest(h, n)[i] = h[Len(h) - Len(Latest(h, n)) + i]
  <1>0. Len(h) \in Nat
    OBVIOUS
  <1>1. CASE Len(h) > n
    <2> DEFINE g == SubSeq(h, Len(h) - n + 1, Len(h))
    <2>1. /\ g \in Seq(Nat) /\ Len(g) = n
          /\ \A i \in 1..n : g[i] = h[Len(h) - n + 1 + i - 1]
      BY <1>0, <1>1
    <2>2. \A i \in 1..n : Len(h) - n + 1 + i - 1 = Len(h) - n + i
      BY <1>0
    <2>3. Latest(h, n) = g
      BY <1>1 DEF Latest
    <2> HIDE DEF g
    <2>4. \A i \in 1..n : g[i] = h[Len(h) - n + i]
      BY <2>1, <2>2
    <2>5. \A i \in 1..Len(g) : g[i] = h[Len(h) - Len(g) + i]
      BY <2>1, <2>4
    <2> QED BY <1>1, <2>1, <2>3, <2>5
  <1>2. CASE ~(Len(h) > n)
    <2>1. Latest(h, n) = h
      BY <1>2 DEF Latest
    <2>2. \A i \in 1..Len(h) : Len(h) - Len(h) + i = i
      BY <1>0
    <2> QED BY <1>2, <2>1, <2>2
  <1> QED BY <1>1, <1>2

LEMMA LatestMoved ==
  ASSUME NEW h \in Seq(Nat), NEW g \in Seq(Nat), NEW p \in Nat, NEW n \in Nat,
         MovedOn(g, h, p)
  PROVE  MovedOn(Latest(g, n), h, p)
  <1> DEFINE r == Latest(g, n)
  <1>1. /\ r \in Seq(Nat) /\ Len(r) = (IF Len(g) > n THEN n ELSE Len(g))
        /\ \A i \in 1..Len(r) : r[i] = g[Len(g) - Len(r) + i]
        /\ Len(g) \in Nat /\ Len(h) \in Nat /\ Len(r) \in Nat
    BY LatestEntries
  <1> HIDE DEF r
  <1>2. Len(r) <= Len(g)
    BY <1>1
  <1>3. ASSUME NEW d \in 0..Len(r) - 1
        PROVE  r[Len(r) - d] = IF d < p THEN 0 ELSE h[Len(h) - (d - p)]
    <2>1. Len(r) - d \in 1..Len(r) /\ Len(g) - Len(r) + (Len(r) - d) = Len(g) - d
      BY <1>1
    <2>2. r[Len(r) - d] = g[Len(g) - d]
      BY <1>1, <2>1
    <2>3. d \in 0..Len(g) - 1
      BY <1>1, <1>2
    <2> QED BY <2>2, <2>3 DEF MovedOn
  <1>4. MovedOn(r, h, p)
    BY <1>1, <1>2, <1>3 DEF MovedOn
  <1> QED BY <1>4 DEF r

\* The length a history keeps.
FullLength(u, h) == Len(h) >= Window[u] /\ (u \notin Untrimmed => Len(h) = Window[u])

LEMMA SamePlaced ==
  ASSUME NEW h \in Seq(Nat), NEW at \in Seq(Nat), NEW n \in Nat \ {0},
         NEW from \in Nat, NEW to \in Nat, from \div n = to \div n,
         Placed(h, at, from, n)
  PROVE  Placed(h, at, to, n)
  <1>1. MovedOn(h, h, 0)
    <2>1. \A d \in 0..Len(h) - 1 : ~(d < 0) /\ d - 0 = d
      OBVIOUS
    <2> QED BY <2>1 DEF MovedOn
  <1>2. to \div n \in Nat /\ from \div n \in Nat
    BY Quotient
  <1>3. 0 <= to \div n - from \div n /\ to \div n - from \div n <= 2 * 0
    BY <1>2
  <1> QED BY <1>1, <1>3, MovedPlaced

LEMMA PadAndTrimPlaces ==
  ASSUME NEW u \in Units, NEW h \in Seq(Nat), FullLength(u, h), NEW at \in Seq(Nat),
         NEW from \in Nat, NEW to \in Nat, from <= to,
         Placed(h, at, from, Span[u])
  PROVE  /\ PadAndTrim(u, h, from, to) \in Seq(Nat)
         /\ FullLength(u, PadAndTrim(u, h, from, to))
         /\ Placed(PadAndTrim(u, h, from, to), at, to, Span[u])
  <1> DEFINE n == Span[u]
             p == PagesMoved(n, from, to)
  <1>0. n \in Nat \ {0} /\ Window[u] \in Nat \ {0}
    BY PageStatsAssumption
  <1>1. CASE SamePeriod(u, from, to)
    <2>1. PadAndTrim(u, h, from, to) = h
      BY <1>1 DEF PadAndTrim
    <2>2. Placed(h, at, to, n)
      BY <1>0, <1>1, SamePlaced DEF SamePeriod
    <2> QED BY <2>1, <2>2
  <1>2. CASE ~SamePeriod(u, from, to)
    <2>1. /\ p \in Nat \ {0} /\ p <= to \div n - from \div n
          /\ to \div n - from \div n <= 2 * p
      BY <1>0, <1>2, MovesBounds DEF SamePeriod
    <2>2. PadAndTrim(u, h, from, to) = Latest(h \o Zeros(p), Window[u])
      BY <1>2 DEF PadAndTrim, Padding, Whole, PagesMoved
    <2> HIDE DEF n, p
    <2> DEFINE g == h \o Zeros(p)
               r == Latest(g, Window[u])
    <2>3. g \in Seq(Nat) /\ Len(g) = Len(h) + p /\ MovedOn(g, h, p)
      BY <2>1, PadMoves
    <2> HIDE DEF g
    <2>4. r \in Seq(Nat) /\ Len(r) = IF Len(g) > Window[u] THEN Window[u] ELSE Len(g)
      BY <1>0, <2>3, LatestEntries
    <2>5. MovedOn(r, h, p)
      BY <1>0, <2>1, <2>3, LatestMoved
    <2> HIDE DEF r
    <2>6. Placed(r, at, to, n)
      BY <1>0, <2>1, <2>4, <2>5, MovedPlaced DEF n
    <2>7. FullLength(u, r)
      <3>1. Len(h) \in Nat
        OBVIOUS
      <3> QED BY <1>0, <2>1, <2>3, <2>4, <3>1, SMTT(40) DEF FullLength
    <2> QED BY <2>2, <2>4, <2>6, <2>7 DEF r, g, n
  <1> QED BY <1>1, <1>2

\* Counting one in the last entry, or in an entry of its own after zeros.
LEMMA CountedEntries ==
  ASSUME NEW h \in Seq(Nat), NEW m \in Nat, m = Len(h), m # 0,
         NEW g, g = [h EXCEPT ![Len(h)] = @ + 1]
  PROVE  /\ g \in Seq(Nat) /\ Len(g) = m
         /\ \A i \in 1..m : g[i] = IF i = m THEN h[i] + 1 ELSE h[i]
  <1>1. DOMAIN h = 1..m /\ \A i \in 1..m : h[i] \in Nat
    OBVIOUS
  <1>2. g = [i \in 1..m |-> IF i = m THEN h[i] + 1 ELSE h[i]]
    BY <1>1
  <1>3. \A i \in 1..m : (IF i = m THEN h[i] + 1 ELSE h[i]) \in Nat
    BY <1>1
  <1>4. g \in [1..m -> Nat]
    BY <1>2, <1>3
  <1>5. g \in Seq(Nat) /\ DOMAIN g = 1..m
    BY <1>4
  <1>6. Len(g) = m
    BY <1>5
  <1> QED BY <1>2, <1>5, <1>6

LEMMA ConcatEntries ==
  ASSUME NEW h \in Seq(Nat), NEW z \in Seq(Nat)
  PROVE  /\ h \o z \in Seq(Nat) /\ Len(h \o z) = Len(h) + Len(z)
         /\ \A i \in 1..Len(h) + Len(z) :
               (h \o z)[i] = IF i <= Len(h) THEN h[i] ELSE z[i - Len(h)]
  OBVIOUS

LEMMA GrownEntries ==
  ASSUME NEW h \in Seq(Nat), NEW p \in Nat \ {0}
  PROVE  /\ h \o Zeros(p - 1) \o <<1>> \in Seq(Nat)
         /\ Len(h \o Zeros(p - 1) \o <<1>>) = Len(h) + p
         /\ \A i \in 1..Len(h) + p :
               (h \o Zeros(p - 1) \o <<1>>)[i]
                  = IF i = Len(h) + p THEN (h \o Zeros(p))[i] + 1 ELSE (h \o Zeros(p))[i]
  <1> DEFINE m == Len(h)
             y == Zeros(p - 1)
             z == Zeros(p)
             f == h \o z
             g == h \o y \o <<1>>
  <1>1. /\ y \in Seq(Nat) /\ Len(y) = p - 1 /\ \A i \in 1..p - 1 : y[i] = 0
        /\ z \in Seq(Nat) /\ Len(z) = p /\ \A i \in 1..p : z[i] = 0
    <2>1. p - 1 \in Nat
      OBVIOUS
    <2> QED BY <2>1, ZerosType
  <1> HIDE DEF y, z
  <1>2. m \in Nat /\ m = Len(h)
    OBVIOUS
  <1> DEFINE k == h \o y
  <1>3. /\ k \in Seq(Nat) /\ Len(k) = m + (p - 1)
        /\ \A i \in 1..m + (p - 1) : k[i] = IF i <= m THEN h[i] ELSE y[i - m]
    <2>1. /\ h \o y \in Seq(Nat) /\ Len(h \o y) = Len(h) + Len(y)
          /\ \A i \in 1..Len(h) + Len(y) :
                (h \o y)[i] = IF i <= Len(h) THEN h[i] ELSE y[i - Len(h)]
      BY <1>1, ConcatEntries
    <2> QED BY <1>2, <1>1, <2>1
  <1>4. g = k \o <<1>>
    OBVIOUS
  <1>5. \A i \in 1..m + p : f[i] = IF i <= m THEN h[i] ELSE z[i - m]
    BY <1>1, ConcatEntries
  <1> HIDE DEF k, g, f, m
  <1> DEFINE o == <<1>>
  <1>6. o \in Seq(Nat) /\ Len(o) = 1 /\ o[1] = 1
    OBVIOUS
  <1> HIDE DEF o
  <1>7. /\ k \o o \in Seq(Nat) /\ Len(k \o o) = m + (p - 1) + 1
        /\ \A i \in 1..m + (p - 1) + 1 :
              (k \o o)[i] = IF i <= m + (p - 1) THEN k[i] ELSE o[i - (m + (p - 1))]
    <2>1. /\ k \o o \in Seq(Nat) /\ Len(k \o o) = Len(k) + Len(o)
          /\ \A i \in 1..Len(k) + Len(o) :
                (k \o o)[i] = IF i <= Len(k) THEN k[i] ELSE o[i - Len(k)]
      BY <1>1, <1>3, <1>6, ConcatEntries
    <2> QED BY <1>2, <1>3, <1>6, <2>1
  <1>8. g = k \o o
    BY <1>4 DEF o
  <1>9. m + (p - 1) + 1 = m + p
    BY <1>2
  <1>10. /\ g \in Seq(Nat) /\ Len(g) = m + p
        /\ \A i \in 1..m + p :
              g[i] = IF i <= m + (p - 1) THEN k[i] ELSE o[i - (m + (p - 1))]
    BY <1>7, <1>8, <1>9
  <1>11. ASSUME NEW i \in 1..m + p
        PROVE  g[i] = IF i = m + p THEN f[i] + 1 ELSE f[i]
    <2>1. CASE i <= m
      <3>1. i \in 1..m + (p - 1) /\ i # m + p
        BY <1>2, <2>1
      <3>2. f[i] = h[i]
        BY <1>1, <1>5, <2>1
      <3>3. g[i] = k[i]
        BY <1>10, <3>1
      <3>4. k[i] = h[i]
        BY <1>1, <1>3, <2>1, <3>1
      <3> QED BY <3>1, <3>2, <3>3, <3>4
    <2>2. CASE ~(i <= m) /\ i # m + p
      <3>1. i - m \in 1..p - 1 /\ i - m \in 1..p /\ i \in 1..m + (p - 1)
        BY <1>2, <2>2
      <3>2. f[i] = 0
        BY <1>1, <1>5, <2>2, <3>1
      <3>3. g[i] = k[i]
        BY <1>10, <3>1
      <3>4. k[i] = 0
        BY <1>1, <1>3, <2>2, <3>1
      <3> QED BY <2>2, <3>2, <3>3, <3>4
    <2>3. CASE i = m + p
      <3>1. /\ i - m \in 1..p /\ ~(i <= m + (p - 1)) /\ ~(i <= m)
            /\ i - (m + (p - 1)) = 1
        BY <1>2, <2>3
      <3>2. f[i] = 0
        BY <1>1, <1>5, <3>1
      <3>3. g[i] = 1
        BY <1>6, <1>10, <3>1
      <3> QED BY <2>3, <3>2, <3>3
    <2> QED BY <2>1, <2>2, <2>3
  <1> QED BY <1>10, <1>11 DEF f, g, m, y, z

\* A full history has a last entry, and one more request can be counted in it.
LEMMA CountInPlaces ==
  ASSUME NEW u \in Units, NEW h \in Seq(Nat), FullLength(u, h), NEW at \in Seq(Nat),
         NEW from \in Nat, NEW to \in Nat, from <= to,
         Placed(h, at, from, Span[u])
  PROVE  /\ CountIn(u, h, from, to) \in Seq(Nat)
         /\ FullLength(u, CountIn(u, h, from, to))
         /\ Placed(CountIn(u, h, from, to), Append(at, to), to, Span[u])
  <1> DEFINE n == Span[u]
             p == PagesMoved(n, from, to)
             w == Window[u]
  <1>0. n \in Nat \ {0} /\ w \in Nat \ {0} /\ Len(h) \in Nat \ {0} /\ w <= Len(h)
    <2>1. n \in Nat \ {0} /\ w \in Nat \ {0} /\ w <= Len(h) /\ Len(h) \in Nat
      BY PageStatsAssumption DEF FullLength
    <2> QED BY <2>1
  <1>1. CASE SamePeriod(u, from, to)
    <2> DEFINE g == CountIn(u, h, from, to)
    <2>1. g = [h EXCEPT ![Len(h)] = @ + 1]
      BY <1>1 DEF CountIn
    <2>2. Placed(h, at, to, n)
      BY <1>0, <1>1, SamePlaced DEF SamePeriod
    <2> HIDE DEF g
    <2>3. /\ g \in Seq(Nat) /\ Len(g) = Len(h)
          /\ \A i \in 1..Len(h) : g[i] = IF i = Len(h) THEN h[i] + 1 ELSE h[i]
      BY <1>0, <2>1, CountedEntries
    <2>4. Placed(g, Append(at, to), to, n)
      BY <1>0, <2>2, <2>3, CountedPlaced
    <2>5. FullLength(u, g)
      BY <2>3 DEF FullLength
    <2> QED BY <2>3, <2>4, <2>5 DEF g
  <1>2. CASE ~SamePeriod(u, from, to)
    <2>1. /\ p \in Nat \ {0} /\ p <= to \div n - from \div n
          /\ to \div n - from \div n <= 2 * p
      BY <1>0, <1>2, MovesBounds DEF SamePeriod
    <2> DEFINE skipped == IF Whole(u, from, to) < 2 THEN 0 ELSE Whole(u, from, to) - 1
               grown == h \o Zeros(skipped) \o <<1>>
               moved == h \o Zeros(p)
    <2>2. skipped = p - 1 /\ p - 1 \in Nat
      <3>1. (to - from) \div n \in Nat
        BY <1>0, CalendarPages
      <3> QED BY <3>1 DEF Whole, PagesMoved
    <2>3. CountIn(u, h, from, to)
            = IF u \in Untrimmed THEN grown ELSE Latest(grown, w)
      BY <1>2 DEF CountIn
    <2> HIDE DEF p, skipped, w
    <2>4. moved \in Seq(Nat) /\ Len(moved) = Len(h) + p /\ MovedOn(moved, h, p)
      BY <2>1, PadMoves
    <2>5. /\ grown \in Seq(Nat) /\ Len(grown) = Len(h) + p
          /\ \A i \in 1..Len(h) + p :
                grown[i] = IF i = Len(h) + p THEN moved[i] + 1 ELSE moved[i]
      BY <2>1, <2>2, GrownEntries
    <2> HIDE DEF grown, moved
    <2>6. CASE u \in Untrimmed
      <3>1. Placed(moved, at, to, n)
        BY <1>0, <2>1, <2>4, MovedPlaced
      <3>2. Len(moved) # 0 /\ Len(grown) = Len(moved)
        BY <1>0, <2>1, <2>4, <2>5
      <3>3. Placed(grown, Append(at, to), to, n)
        BY <1>0, <2>4, <2>5, <3>1, <3>2, CountedPlaced
      <3>4. FullLength(u, grown)
        BY <1>0, <2>1, <2>5, <2>6 DEF FullLength, w
      <3> QED BY <2>3, <2>5, <2>6, <3>3, <3>4
    <2>7. CASE u \notin Untrimmed
      <3> DEFINE a == Latest(moved, w)
                 b == Latest(grown, w)
                 e == Len(h) + p - w
      <3>1. Len(h) = w /\ w \in Nat \ {0} /\ w + p > w
        BY <1>0, <2>1, <2>7 DEF FullLength, w
      <3>2. /\ a \in Seq(Nat) /\ Len(a) = w
            /\ \A i \in 1..w : a[i] = moved[w + p - w + i]
        <4>1. Len(moved) = w + p /\ w \in Nat
          BY <2>4, <3>1
        <4>2. Len(a) = w /\ a \in Seq(Nat)
          BY <2>4, <3>1, <4>1, LatestEntries
        <4>3. \A i \in 1..Len(a) : a[i] = moved[Len(moved) - Len(a) + i]
          BY <2>4, <4>1, LatestEntries
        <4> HIDE DEF a
        <4> QED BY <2>1, <3>1, <4>1, <4>2, <4>3
      <3>3. /\ b \in Seq(Nat) /\ Len(b) = w
            /\ \A i \in 1..w : b[i] = grown[w + p - w + i]
        <4>1. Len(grown) = w + p /\ w \in Nat
          BY <2>5, <3>1
        <4>2. Len(b) = w /\ b \in Seq(Nat)
          BY <2>5, <3>1, <4>1, LatestEntries
        <4>3. \A i \in 1..Len(b) : b[i] = grown[Len(grown) - Len(b) + i]
          BY <2>5, <4>1, LatestEntries
        <4> HIDE DEF b
        <4> QED BY <2>1, <3>1, <4>1, <4>2, <4>3
      <3>4. MovedOn(a, h, p)
        BY <2>1, <2>4, <3>1, LatestMoved
      <3> HIDE DEF a, b
      <3>5. \A i \in 1..w : b[i] = IF i = w THEN a[i] + 1 ELSE a[i]
        <4>1. \A i \in 1..w : /\ w + p - w + i \in 1..Len(h) + p
                              /\ w + p - w + i = Len(h) + p <=> i = w
          BY <2>1, <3>1
        <4> QED BY <2>5, <3>2, <3>3, <4>1, ZenonT(40)
      <3>6. Placed(a, at, to, n)
        BY <1>0, <2>1, <3>2, <3>4, MovedPlaced
      <3>7. Placed(b, Append(at, to), to, n)
        <4>1. Len(a) # 0 /\ Len(b) = Len(a)
          BY <3>1, <3>2, <3>3
        <4>2. \A i \in 1..Len(a) : b[i] = IF i = Len(a) THEN a[i] + 1 ELSE a[i]
          BY <3>2, <3>5
        <4> QED BY <1>0, <3>2, <3>3, <3>6, <4>1, <4>2, CountedPlaced
      <3>8. FullLength(u, b)
        BY <1>0, <3>1, <3>3 DEF FullLength, w
      <3> QED BY <2>3, <2>7, <3>3, <3>7, <3>8 DEF b
    <2> QED BY <2>6, <2>7
  <1> QED BY <1>1, <1>2

-----------------------------------------------------------------------------
(* The invariant.                                                          *)

\* Statistics whose histories count the requests blocked at the times `at`.
Counting(s, at) ==
    /\ s = [updated |-> s.updated, history |-> s.history]
    /\ s.updated \in Nat /\ s.history \in [Units -> Seq(Nat)]
    /\ \A u \in Units : /\ FullLength(u, s.history[u])
                        /\ Placed(s.history[u], at, s.updated, Span[u])

StatsInv ==
    /\ clock \in 0..MaxTime /\ totalBlocked \in Nat /\ missed \in Nat
    /\ uncounted \subseteq Counters /\ IsFiniteSet(uncounted)
    /\ blockedAt \in Seq(0..MaxTime) /\ Len(blockedAt) <= MaxBlocked
    /\ Len(blockedAt) <= totalBlocked + Cardinality(uncounted) + missed
    /\ stats = {} => blockedAt = <<>>
    /\ stats # {} => \E s : stats = {s} /\ s.updated <= clock /\ Counting(s, blockedAt)

LEMMA CreatedCounts ==
  ASSUME NEW t \in Nat
  PROVE  Counting(CreateStats(t), <<>>) /\ CreateStats(t).updated = t
  <1> DEFINE s == CreateStats(t)
  <1>1. /\ s = [updated |-> t, history |-> [u \in Units |-> Zeros(Window[u])]]
        /\ s.updated = t /\ s.history = [u \in Units |-> Zeros(Window[u])]
    BY DEF CreateStats
  <1> HIDE DEF s
  <1>2. ASSUME NEW u \in Units
        PROVE  /\ s.history[u] \in Seq(Nat) /\ FullLength(u, s.history[u])
               /\ Placed(s.history[u], <<>>, t, Span[u])
    <2> DEFINE h == Zeros(Window[u])
               w == Window[u]
    <2>1. w \in Nat \ {0}
      BY PageStatsAssumption
    <2>2. h \in Seq(Nat) /\ Len(h) = w /\ \A i \in 1..w : h[i] = 0
      BY <2>1, ZerosType
    <2>3. s.history[u] = h
      BY <1>1
    <2> HIDE DEF h
    <2>4. FullLength(u, h)
      BY <2>1, <2>2 DEF FullLength
    <2> HIDE DEF w
    <2> DEFINE e == <<>>
               f == [i \in DOMAIN e |-> 0]
    <2>5. DOMAIN e = {} /\ f \in [DOMAIN e -> Nat]
      OBVIOUS
    <2>6. \A d \in 0..Len(h) - 1 : \A k \in 1..h[Len(h) - d] : FALSE
      <3>1. \A d \in 0..Len(h) - 1 : Len(h) - d \in 1..w
        BY <2>1, <2>2
      <3>2. \A d \in 0..Len(h) - 1 : h[Len(h) - d] = 0
        BY <2>2, <3>1
      <3> QED BY <3>2
    <2> HIDE DEF e, f
    <2>7. PlacedBy(h, e, t, Span[u], f, f)
      BY <2>5, <2>6 DEF PlacedBy
    <2>8. Placed(h, e, t, Span[u])
      BY <2>5, <2>7 DEF Placed
    <2> QED BY <2>2, <2>3, <2>4, <2>8 DEF e
  <1>3. s.history \in [Units -> Seq(Nat)]
    BY <1>1, <1>2
  <1> QED BY <1>1, <1>2, <1>3 DEF Counting, s

LEMMA NormalizeCounts ==
  ASSUME NEW s, NEW at \in Seq(Nat), Counting(s, at), NEW t \in Nat, s.updated <= t
  PROVE  Counting(Normalize(s, t), at) /\ Normalize(s, t).updated <= t
  <1>1. CASE \A u \in Units : SamePeriod(u, s.updated, t)
    <2>1. Normalize(s, t) = s
      BY <1>1 DEF Normalize
    <2> QED BY <2>1
  <1>2. CASE ~\A u \in Units : SamePeriod(u, s.updated, t)
    <2> DEFINE r == Normalize(s, t)
    <2>1. r = [updated |-> t, history |->
                 [u \in Units |-> PadAndTrim(u, s.history[u], s.updated, t)]]
      BY <1>2 DEF Normalize
    <2> HIDE DEF r
    <2>2. /\ r = [updated |-> r.updated, history |-> r.history] /\ r.updated = t
          /\ r.history = [u \in Units |-> PadAndTrim(u, s.history[u], s.updated, t)]
      BY <2>1
    <2>3. ASSUME NEW u \in Units
          PROVE  /\ r.history[u] \in Seq(Nat) /\ FullLength(u, r.history[u])
                 /\ Placed(r.history[u], at, t, Span[u])
      <3>1. /\ s.updated \in Nat /\ s.history[u] \in Seq(Nat)
            /\ FullLength(u, s.history[u])
            /\ Placed(s.history[u], at, s.updated, Span[u])
        BY DEF Counting
      <3>2. r.history[u] = PadAndTrim(u, s.history[u], s.updated, t)
        BY <2>2
      <3> QED BY <3>1, <3>2, PadAndTrimPlaces
    <2>4. r.history \in [Units -> Seq(Nat)]
      BY <2>2, <2>3
    <2>5. Counting(r, at) /\ r.updated <= t
      BY <2>2, <2>3, <2>4 DEF Counting
    <2> QED BY <2>5 DEF r
  <1> QED BY <1>1, <1>2

LEMMA UpdateCounts ==
  ASSUME NEW s, NEW at \in Seq(Nat), Counting(s, at), NEW t \in Nat, s.updated <= t
  PROVE  Counting(UpdateStats(s, t), Append(at, t)) /\ UpdateStats(s, t).updated = t
  <1> DEFINE r == UpdateStats(s, t)
             at2 == Append(at, t)
  <1>1. r = [updated |-> t, history |->
               [u \in Units |-> CountIn(u, s.history[u], s.updated, t)]]
    BY DEF UpdateStats
  <1> HIDE DEF r, at2
  <1>2. /\ r = [updated |-> r.updated, history |-> r.history] /\ r.updated = t
        /\ r.history = [u \in Units |-> CountIn(u, s.history[u], s.updated, t)]
    BY <1>1
  <1>3. ASSUME NEW u \in Units
        PROVE  /\ r.history[u] \in Seq(Nat) /\ FullLength(u, r.history[u])
               /\ Placed(r.history[u], at2, t, Span[u])
    <2>1. /\ s.updated \in Nat /\ s.history[u] \in Seq(Nat)
          /\ FullLength(u, s.history[u])
          /\ Placed(s.history[u], at, s.updated, Span[u])
      BY DEF Counting
    <2>2. r.history[u] = CountIn(u, s.history[u], s.updated, t)
      BY <1>2
    <2> QED BY <2>1, <2>2, CountInPlaces DEF at2
  <1>4. r.history \in [Units -> Seq(Nat)]
    BY <1>2, <1>3
  <1>5. Counting(r, at2) /\ r.updated = t
    BY <1>2, <1>3, <1>4 DEF Counting
  <1> QED BY <1>5 DEF r, at2

\* What is read of the stored statistics, created when there are none.
LEMMA StoredCounts ==
  ASSUME StatsInv
  PROVE  Counting(Stored, blockedAt) /\ Stored.updated <= clock
  <1>0. clock \in Nat
    BY PageStatsAssumption DEF StatsInv
  <1>1. CASE stats = {}
    <2>1. Stored = CreateStats(clock) /\ blockedAt = <<>>
      BY <1>1 DEF Stored, StatsInv
    <2> QED BY <1>0, <2>1, CreatedCounts
  <1>2. CASE stats # {}
    <2>1. PICK s : stats = {s} /\ s.updated <= clock /\ Counting(s, blockedAt)
      BY <1>2 DEF StatsInv
    <2>2. Stored = s
      BY <2>1 DEF Stored
    <2> QED BY <2>1, <2>2
  <1> QED BY <1>1, <1>2

LEMMA StatsInvInit ==
  ASSUME StatsInit
  PROVE  StatsInv
  <1>1. IsFiniteSet({}) /\ Cardinality({}) = 0
    BY FS_EmptySet
  <1>2. <<>> \in Seq(0..MaxTime) /\ Len(<<>>) = 0
    OBVIOUS
  <1> QED BY <1>1, <1>2, PageStatsAssumption DEF StatsInit, StatsInv

LEMMA StatsInvStep ==
  ASSUME StatsInv, [StatsNext]_statsVars
  PROVE  StatsInv'
  <1>0. /\ clock \in Nat /\ clock <= MaxTime /\ totalBlocked \in Nat /\ missed \in Nat
        /\ uncounted \subseteq Counters /\ IsFiniteSet(uncounted)
        /\ Cardinality(uncounted) \in Nat
        /\ blockedAt \in Seq(0..MaxTime) /\ blockedAt \in Seq(Nat) /\ Len(blockedAt) \in Nat
        /\ Len(blockedAt) <= MaxBlocked /\ MaxTime \in Nat /\ MaxBlocked \in Nat
        /\ Len(blockedAt) <= totalBlocked + Cardinality(uncounted) + missed
    <2>1. IsFiniteSet(uncounted) /\ blockedAt \in Seq(0..MaxTime) /\ MaxTime \in Nat
      BY PageStatsAssumption DEF StatsInv
    <2>2. Cardinality(uncounted) \in Nat
      BY <2>1, FS_CardinalityType
    <2>3. blockedAt \in Seq(Nat) /\ Len(blockedAt) \in Nat
      <3>1. 0..MaxTime \subseteq Nat
        BY <2>1
      <3> QED BY <2>1, <3>1
    <2> QED BY <2>2, <2>3, PageStatsAssumption DEF StatsInv
  <1>1. CASE Tick
    <2>1. /\ clock' = clock + 1 /\ clock < MaxTime
          /\ UNCHANGED <<stats, totalBlocked, uncounted, missed, blockedAt>>
      BY <1>1 DEF Tick
    <2>2. stats' # {} =>
            \E s : stats' = {s} /\ s.updated <= clock' /\ Counting(s, blockedAt')
      <3>1. SUFFICES ASSUME stats # {}
                     PROVE  \E s : stats = {s} /\ s.updated <= clock + 1 /\ Counting(s, blockedAt)
        BY <2>1
      <3>2. PICK s : stats = {s} /\ s.updated <= clock /\ Counting(s, blockedAt)
        BY <3>1 DEF StatsInv
      <3>3. s.updated <= clock + 1
        BY <1>0, <3>2 DEF Counting
      <3> QED BY <3>2, <3>3
    <2>3. clock' \in 0..MaxTime
      BY <1>0, <2>1
    <2> QED BY <2>1, <2>2, <2>3 DEF StatsInv
  <1>2. ASSUME NEW c \in Counters, NEW late \in {0, 1}, OnBasicRuleApply(c, late)
        PROVE  StatsInv'
    <2>1. /\ c \notin uncounted /\ Len(blockedAt) < MaxBlocked
          /\ clock + late <= MaxTime /\ clock' = clock + late
          /\ stats' = {UpdateStats(Normalize(Stored, clock), clock')}
          /\ uncounted' = uncounted \union {c} /\ blockedAt' = Append(blockedAt, clock')
          /\ totalBlocked' = totalBlocked /\ missed' = missed
      BY <1>2 DEF OnBasicRuleApply
    <2>2. clock' \in 0..MaxTime /\ clock' \in Nat /\ clock <= clock'
      BY <1>0, <2>1
    <2> DEFINE s == Normalize(Stored, clock)
    <2>3. Counting(s, blockedAt) /\ s.updated <= clock
      BY <1>0, StoredCounts, NormalizeCounts
    <2> HIDE DEF s
    <2>4. s.updated <= clock'
      BY <1>0, <2>2, <2>3 DEF Counting
    <2>5. /\ Counting(UpdateStats(s, clock'), blockedAt')
          /\ UpdateStats(s, clock').updated = clock'
      BY <1>0, <2>1, <2>2, <2>3, <2>4, UpdateCounts
    <2>6. /\ IsFiniteSet(uncounted')
          /\ Cardinality(uncounted') = Cardinality(uncounted) + 1
      BY <1>0, <2>1, FS_AddElement
    <2>7. blockedAt' \in Seq(0..MaxTime) /\ Len(blockedAt') = Len(blockedAt) + 1
      BY <1>0, <2>1, <2>2
    <2>8. stats' = {UpdateStats(s, clock')}
      BY <2>1 DEF s
    <2>9. /\ Len(blockedAt') <= MaxBlocked
          /\ Len(blockedAt') <= totalBlocked' + Cardinality(uncounted') + missed'
      BY <1>0, <2>1, <2>6, <2>7
    <2>10. stats' # {} /\
           \E r : stats' = {r} /\ r.updated <= clock' /\ Counting(r, blockedAt')
      BY <2>2, <2>5, <2>8
    <2>11. uncounted' \subseteq Counters
      BY <1>0, <2>1
    <2> QED BY <1>0, <2>1, <2>2, <2>6, <2>7, <2>9, <2>10, <2>11 DEF StatsInv
  <1>3. ASSUME NEW c \in Counters, IncrementTotalBlocked(c) \/ CountIsMissed(c)
        PROVE  StatsInv'
    <2>1. /\ c \in uncounted /\ uncounted' = uncounted \ {c}
          /\ \/ totalBlocked' = totalBlocked + 1 /\ missed' = missed
             \/ totalBlocked' = totalBlocked /\ missed' = missed + 1
          /\ UNCHANGED <<clock, stats, blockedAt>>
      BY <1>3 DEF IncrementTotalBlocked, CountIsMissed
    <2>2. /\ IsFiniteSet(uncounted')
          /\ Cardinality(uncounted') = Cardinality(uncounted) - 1
      BY <1>0, <2>1, FS_RemoveElement
    <2>3. /\ totalBlocked' \in Nat /\ missed' \in Nat
          /\ Len(blockedAt) <= totalBlocked' + Cardinality(uncounted') + missed'
      BY <1>0, <2>1, <2>2, SMTT(40)
    <2> QED BY <2>1, <2>2, <2>3 DEF StatsInv
  <1>4. CASE GetStatisticsData
    <2>1. /\ stats' = {Normalize(Stored, clock)}
          /\ UNCHANGED <<clock, totalBlocked, uncounted, missed, blockedAt>>
      BY <1>4 DEF GetStatisticsData
    <2> DEFINE s == Normalize(Stored, clock)
    <2>2. Counting(s, blockedAt) /\ s.updated <= clock
      BY <1>0, StoredCounts, NormalizeCounts
    <2>3. stats' = {s}
      BY <2>1
    <2> HIDE DEF s
    <2> QED BY <2>1, <2>2, <2>3 DEF StatsInv
  <1>5. CASE ResetBlockedAdsCount
    <2>1. /\ stats' = {} /\ totalBlocked' = 0 /\ missed' = 0 /\ blockedAt' = <<>>
          /\ UNCHANGED <<clock, uncounted>>
      BY <1>5 DEF ResetBlockedAdsCount, Emptied
    <2>2. <<>> \in Seq(0..MaxTime) /\ Len(<<>>) = 0
      OBVIOUS
    <2>3. 0 <= 0 + Cardinality(uncounted) + 0
      BY <1>0
    <2> QED BY <1>0, <2>1, <2>2, <2>3 DEF StatsInv
  <1>6. CASE UNCHANGED statsVars
    BY <1>6 DEF statsVars, StatsInv
  <1> QED BY <1>1, <1>2, <1>3, <1>4, <1>5, <1>6 DEF StatsNext

-----------------------------------------------------------------------------
(* What the invariant says of the properties.                              *)

LEMMA HistoryCounts ==
  ASSUME StatsInv, NEW s \in stats, NEW u \in Units
  PROVE  /\ s.updated \in 0..clock /\ s.history[u] \in Seq(0..MaxBlocked)
         /\ FullLength(u, s.history[u])
         /\ Kept(s, u) \in Nat /\ Kept(s, u) <= Len(blockedAt)
         /\ Cardinality({i \in DOMAIN blockedAt : Age(s, u, i) < Window[u]}) <= Kept(s, u)
         /\ u \notin Untrimmed => Kept(s, u) <=
              Cardinality({i \in DOMAIN blockedAt : Age(s, u, i) <= 2 * (Window[u] - 1)})
  <1> DEFINE h == s.history[u]
             n == Span[u]
             t == s.updated
             w == Window[u]
  <1>1. /\ t \in Nat /\ t <= clock /\ h \in Seq(Nat) /\ FullLength(u, h)
        /\ Placed(h, blockedAt, t, n)
    <2>1. PICK r : stats = {r} /\ r.updated <= clock /\ Counting(r, blockedAt)
      BY DEF StatsInv
    <2>2. r = s
      BY <2>1
    <2> QED BY <2>1, <2>2 DEF Counting
  <1>2. /\ n \in Nat \ {0} /\ w \in Nat \ {0} /\ MaxBlocked \in Nat /\ clock \in Nat
        /\ blockedAt \in Seq(Nat) /\ Len(blockedAt) \in Nat /\ Len(blockedAt) <= MaxBlocked
    <2>1. 0..MaxTime \subseteq Nat /\ blockedAt \in Seq(0..MaxTime)
      BY PageStatsAssumption DEF StatsInv
    <2>2. blockedAt \in Seq(Nat) /\ Len(blockedAt) \in Nat
      BY <2>1, PageStatsAssumption
    <2> QED BY <2>2, PageStatsAssumption DEF StatsInv
  <1>3. w <= Len(h) /\ (u \notin Untrimmed => Len(h) = w)
    BY <1>1 DEF FullLength
  <1> HIDE DEF h, n, t, w
  <1>4. /\ IsFiniteSet(Cells(h)) /\ Cardinality(Cells(h)) \in Nat
        /\ Cardinality(Cells(h)) <= Len(blockedAt)
        /\ Cardinality({i \in DOMAIN blockedAt : t \div n - blockedAt[i] \div n < w})
             <= Cardinality(Cells(h))
        /\ Cardinality(Cells(h)) <= Cardinality(
             {i \in DOMAIN blockedAt : t \div n - blockedAt[i] \div n <= 2 * (Len(h) - 1)})
    <2> DEFINE at == blockedAt
    <2>1. at \in Seq(Nat) /\ Placed(h, at, t, n)
      BY <1>1, <1>2
    <2> HIDE DEF at
    <2>2. /\ IsFiniteSet(Cells(h)) /\ Cardinality(Cells(h)) \in Nat
          /\ Cardinality(Cells(h)) <= Len(at)
          /\ \A v \in Nat : v <= Len(h) =>
                Cardinality({i \in DOMAIN at : t \div n - at[i] \div n < v})
                  <= Cardinality(Cells(h))
          /\ Cardinality(Cells(h)) <= Cardinality(
                {i \in DOMAIN at : t \div n - at[i] \div n <= 2 * (Len(h) - 1)})
      BY <1>1, <1>2, <2>1, PlacedCounts, ZenonT(40)
    <2>3. Cardinality({i \in DOMAIN at : t \div n - at[i] \div n < w})
            <= Cardinality(Cells(h))
      BY <1>2, <1>3, <2>2
    <2> QED BY <2>2, <2>3 DEF at
  <1>5. Cardinality(Cells(h)) <= MaxBlocked
    BY <1>2, <1>4
  <1>6. h \in Seq(0..MaxBlocked)
    BY <1>1, <1>2, <1>4, <1>5, EntryBound
  <1>7. t \in 0..clock
    BY <1>1, <1>2
  <1> QED BY <1>1, <1>3, <1>4, <1>6, <1>7 DEF Kept, Age, h, n, t, w

LEMMA StatsInvImplies ==
  ASSUME StatsInv
  PROVE  StatsTypeOK /\ RecentIsKept /\ OldIsDropped /\ TotalCoversHistories
  <1>1. StatsTypeOK
    BY HistoryCounts DEF StatsInv, StatsTypeOK, FullLength
  <1>2. RecentIsKept
    BY HistoryCounts DEF RecentIsKept
  <1>3. OldIsDropped
    BY HistoryCounts DEF OldIsDropped
  <1>4. TotalCoversHistories
    <2>1. SUFFICES ASSUME NEW s \in stats, NEW u \in Units
                   PROVE  Kept(s, u) <= totalBlocked + Cardinality(uncounted) + missed
      BY DEF TotalCoversHistories
    <2>2. Kept(s, u) \in Nat /\ Kept(s, u) <= Len(blockedAt)
      BY HistoryCounts
    <2>3. /\ IsFiniteSet(uncounted) /\ totalBlocked \in Nat /\ missed \in Nat
          /\ Len(blockedAt) <= totalBlocked + Cardinality(uncounted) + missed
          /\ blockedAt \in Seq(0..MaxTime)
      BY DEF StatsInv
    <2>4. Cardinality(uncounted) \in Nat /\ Len(blockedAt) \in Nat
      BY <2>3, FS_CardinalityType
    <2> QED BY <2>2, <2>3, <2>4
  <1> QED BY <1>1, <1>2, <1>3, <1>4

LEMMA StatsInvariant == StatsSpec => []StatsInv
  BY StatsInvInit, StatsInvStep, PTL DEF StatsSpec

\* Histories are as long as their window, none of their entries is larger than
\* the number of requests blocked, and they are not ahead of the clock.
THEOREM StatsTypes == StatsSpec => []StatsTypeOK
  BY StatsInvariant, StatsInvImplies, PTL

\* What was blocked within the window of a history is counted in it, however
\* updates and looks at the statistics fall on the clock.
THEOREM RecentRequestsAreKept == StatsSpec => []RecentIsKept
  BY StatsInvariant, StatsInvImplies, PTL

\* What a trimmed history counts is less than twice as old as its window.
THEOREM OldRequestsAreDropped == StatsSpec => []OldIsDropped
  BY StatsInvariant, StatsInvImplies, PTL

\* No history counts more than the total, the counts still to come and the
\* counts lost.
THEOREM TheTotalCovers == StatsSpec => []TotalCoversHistories
  BY StatsInvariant, StatsInvImplies, PTL
=============================================================================
