---------------------------- MODULE FilteringLog ----------------------------
(* The requests and rules shown in the filtering log: kept by tab, in the   *)
(* worker's memory, while at least one log page is connected.  An event is  *)
(* its number, in the order events arrive; what it says, what later events  *)
(* add to it, and the hits of rules are left out.                          *)
EXTENDS Naturals, Sequences, SequencesExt

CONSTANTS
    LogTabs,          \* the tabs of the browser
    Background,       \* BACKGROUND_TAB_ID
    LogPages,         \* pages of the filtering log
    MaxPerTab,        \* REQUESTS_SIZE_PER_TAB
    MaxLogged         \* bound: events

ASSUME FilteringLogAssumption ==
    /\ Background \notin LogTabs
    /\ MaxPerTab \in Nat \ {0} /\ MaxLogged \in Nat

VARIABLES
    connected,        \* pages whose port is connected
    openedPages,      \* openedFilteringLogsPages
    preserveLog,      \* the setting PreserveLogEnabled
    log,              \* tabsInfoMap: the events of each tab that is known
    arrived,          \* how many events have arrived
    evicted           \* the events a tab's log has dropped to make room

logVars == <<connected, openedPages, preserveLog, log, arrived, evicted>>

AllTabs == LogTabs \union {Background}
Tabs == DOMAIN log
IsOpen == openedPages > 0

\* The log of a tab begins anew, known before or not.
BeginLog(t) ==
    /\ log' = [x \in Tabs \union {t} |-> IF x = t THEN <<>> ELSE log[x]]
    /\ evicted' = [evicted EXCEPT ![t] = {}]

LogInit ==
    /\ connected = {} /\ openedPages = 0 /\ preserveLog = FALSE
    /\ log = [t \in {Background} |-> <<>>]
    /\ arrived = 0 /\ evicted = [t \in AllTabs |-> {}]

-----------------------------------------------------------------------------
(* Log pages *)

OnOpenFilteringLogPage(p) ==
    /\ p \notin connected
    /\ connected' = connected \union {p} /\ openedPages' = openedPages + 1
    /\ UNCHANGED <<preserveLog, log, arrived, evicted>>

\* Mutant of LastClosed: the events stay.
NeverCleared == FALSE

LastClosed == openedPages <= 1

OnCloseFilteringLogPage(p) ==
    /\ p \in connected
    /\ connected' = connected \ {p}
    /\ openedPages' = IF openedPages = 0 THEN 0 ELSE openedPages - 1
    /\ IF LastClosed
       THEN log' = [t \in Tabs |-> <<>>] /\ evicted' = [t \in AllTabs |-> {}]
       ELSE UNCHANGED <<log, evicted>>
    /\ UNCHANGED <<preserveLog, arrived>>

SetPreserveLogState ==
    /\ preserveLog' = ~preserveLog
    /\ UNCHANGED <<connected, openedPages, log, arrived, evicted>>

\* The worker stops; the ports of the pages go with it.
RestartLog ==
    /\ connected' = {} /\ openedPages' = 0
    /\ log' = [t \in {Background} |-> <<>>] /\ evicted' = [t \in AllTabs |-> {}]
    /\ UNCHANGED <<preserveLog, arrived>>

-----------------------------------------------------------------------------
(* Tabs *)

\* Synthetic tabs, and tabs that have an address but no title, are skipped.
CreateTabInfo(t) ==
    /\ BeginLog(t)
    /\ UNCHANGED <<connected, openedPages, preserveLog, arrived>>

\* A known tab gets a title and a domain, which are left out.
UpdateTabInfo(t) ==
    /\ t \notin Tabs
    /\ BeginLog(t)
    /\ UNCHANGED <<connected, openedPages, preserveLog, arrived>>

\* A log page asks for the tabs of the browser: each is created or updated.
SynchronizeOpenTabs(found) ==
    /\ log' = [t \in Tabs \union found |-> IF t \in Tabs THEN log[t] ELSE <<>>]
    /\ evicted' = [t \in AllTabs |-> IF t \in found \ Tabs THEN {} ELSE evicted[t]]
    /\ UNCHANGED <<connected, openedPages, preserveLog, arrived>>

RemoveTabInfo(t) ==
    /\ t \in Tabs \ {Background}
    /\ log' = [x \in Tabs \ {t} |-> log[x]]
    /\ UNCHANGED <<connected, openedPages, preserveLog, arrived, evicted>>

\* The tab is reloaded, or the user clears its log, preserved or not.
ClearEventsByTabId(t, ignorePreserveLog) ==
    /\ t \in Tabs /\ (ignorePreserveLog \/ ~preserveLog)
    /\ BeginLog(t)
    /\ UNCHANGED <<connected, openedPages, preserveLog, arrived>>

-----------------------------------------------------------------------------
(* Events *)

\* Mutants of OldestButFirst.
Oldest(l) == 1
SecondNewest(l) == Len(l) - 1

\* The first event is the request of the main frame.
OldestButFirst(l) == 2

\* An event of an unknown tab is not recorded.
AddEventData(t) ==
    /\ arrived < MaxLogged /\ t \in Tabs /\ IsOpen
    /\ arrived' = arrived + 1
    /\ LET l == Append(log[t], arrived')
           out == OldestButFirst(l)
       IN  IF ~preserveLog /\ Len(l) > MaxPerTab
           THEN /\ log' = [log EXCEPT ![t] = RemoveAt(l, out)]
                /\ evicted' = [evicted EXCEPT ![t] = @ \union {l[out]}]
           ELSE log' = [log EXCEPT ![t] = l] /\ UNCHANGED evicted
    /\ UNCHANGED <<connected, openedPages, preserveLog>>

\* Mutant of Taken: the event is copied.
Copied(l, i) == l

Taken(l, i) == RemoveAt(l, i)

\* The request of a popup that was blocked moves out of the popup's tab.
MoveEventToBackgroundTab(t, e) ==
    /\ IsOpen /\ t \in Tabs
    /\ \E i \in DOMAIN log[t] :
          /\ log[t][i] = e
          /\ log' = LET rest == [log EXCEPT ![t] = Taken(log[t], i)]
                    IN  [rest EXCEPT ![Background] = Append(@, e)]
    /\ UNCHANGED <<connected, openedPages, preserveLog, arrived, evicted>>

LogNext ==
    \/ \E p \in LogPages : OnOpenFilteringLogPage(p) \/ OnCloseFilteringLogPage(p)
    \/ SetPreserveLogState
    \/ RestartLog
    \/ \E t \in LogTabs : CreateTabInfo(t) \/ UpdateTabInfo(t) \/ RemoveTabInfo(t)
    \/ \E found \in SUBSET LogTabs : SynchronizeOpenTabs(found)
    \/ \E t \in AllTabs :
          \/ AddEventData(t)
          \/ \E ignore \in BOOLEAN : ClearEventsByTabId(t, ignore)
          \/ \E e \in 1..arrived : MoveEventToBackgroundTab(t, e)

LogSpec == LogInit /\ [][LogNext]_logVars

-----------------------------------------------------------------------------
\* Types.
LogTypeOK ==
    /\ connected \subseteq LogPages /\ openedPages \in Nat /\ preserveLog \in BOOLEAN
    /\ Background \in Tabs /\ Tabs \subseteq AllTabs
    /\ log \in [Tabs -> Seq(1..arrived)] /\ arrived \in 0..MaxLogged
    /\ evicted \in [AllTabs -> SUBSET (1..arrived)]

(* Nothing is kept of what the user visits unless a log page is connected:  *)
(* whatever tabs come and go, whichever pages close, the last one to close  *)
(* and a worker that starts leave no event.                                *)
ClosedLogIsEmpty == connected = {} => \A t \in Tabs : log[t] = <<>>

(* An event is shown in one tab, and once: also when it has moved from the  *)
(* tab of a popup, and when the tab was closed or created again since.     *)
EventIsOnce ==
    \A t, u \in Tabs : \A i \in DOMAIN log[t], j \in DOMAIN log[u] :
        log[t][i] = log[u][j] => t = u /\ i = j

(* What a tab's log drops to make room is the oldest but the first: no      *)
(* event it shows after the first is older than one it has dropped.        *)
RecentStay ==
    \A t \in Tabs \ {Background} : \A i \in DOMAIN log[t], e \in evicted[t] :
        i > 1 => e < log[t][i]

(* As long as a tab is known and not cleared, events that arrive leave the  *)
(* first event of its log, the request of the main frame, where it is.     *)
MainRequestStays ==
    [][\A t \in Tabs : log[t] # <<>> /\ arrived' > arrived
          => t \in DOMAIN log' /\ log'[t] # <<>> /\ log'[t][1] = log[t][1]]_logVars
=============================================================================
