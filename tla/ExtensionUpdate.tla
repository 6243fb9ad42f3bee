--------------------------- MODULE ExtensionUpdate ---------------------------
(***************************************************************************)
(* The update of the extension itself in the Manifest V3 build.  The        *)
(* browser announces a downloaded update; the service worker offers it to   *)
(* the user, or applies it by itself once the browser is idle, by reloading *)
(* the extension.  The worker may be stopped between any two steps: what    *)
(* remains is the auto-update state, saved by a throttled write, and the    *)
(* marker a manual update leaves for the start after the reload.            *)
(*                                                                         *)
(* The worker is one thread; a step is the code between two awaits.         *)
(***************************************************************************)
EXTENDS Naturals

CONSTANTS
    Checks,         \* slots for manual checks and their time-outs (a bound)
    Handlers,       \* slots for automatic update handlers (a bound)
    MaxVersion,     \* newest version of the extension (a bound)
    None            \* no state, no marker, no handler, no time-out

ASSUME MaxVersionAssumption == MaxVersion \in Nat \ {0}

Versions == 1..MaxVersion

\* The auto-update state: the version announced (0: none), and whether the last
\* check was the user's.
State == [next : 0..MaxVersion, manual : BOOLEAN]

\* What a manual update leaves: the version it started from, and its outcome.
Marker == [init : Versions, ok : BOOLEAN]

ASSUME NoneAssumption == None \notin State \union Marker \union Checks \union Handlers

VARIABLES
    \* --- the browser and the store
    version,        \* the version installed
    published,      \* the newest version in the store
    \* --- on disk
    appVersion,     \* the version that started last
    saved,          \* the auto-update state
    marker,         \* the manual update marker
    pageOpened,     \* the page has been opened for this marker
    \* --- the worker
    phase,          \* where the start of the worker is
    isUpdate,       \* this start found a new version (used until the page opens)
    from,           \* the initial version read from the marker (until rewritten)
    fsm,            \* the state machine
    cache,          \* the auto-update state in memory
    hasState,       \* `cache' was read from the disk (used until init ends)
    due,            \* the throttled save has a call to make when its window ends
    check,          \* manual checks in progress
    timers,         \* their time-outs not fired or cleared
    currentTimer,   \* the time-out the handler remembers
    handler,        \* automatic handlers
    latest,         \* the last one created
    again,          \* history: announced again while an update is being applied
    apply           \* progress of a manual update

browser == <<version, published>>
start == <<phase, isUpdate, from, appVersion, hasState>>
record == <<marker, pageOpened>>
memory == <<cache, saved, due>>
manual == <<check, timers, currentTimer>>
auto == <<handler, latest, again>>
vars == <<version, published, appVersion, saved, marker, pageOpened,
          phase, isUpdate, from, fsm, cache, hasState, due, check, timers,
          currentTimer, handler, latest, again, apply>>

Empty == [next |-> 0, manual |-> FALSE]

Phases == {"down", "init", "loaded", "reload", "open", "up"}
Initialised == {"reload", "open", "up"}

-----------------------------------------------------------------------------
(* The state machine.                                                      *)

FSMStates == {"Idle", "Checking", "NotAvailable", "Available", "Updating",
              "Failed", "Success"}

Transitions ==
    {<<"Idle", "Check", "Checking">>,
     <<"Idle", "UpdateAvailable", "Available">>,
     <<"Checking", "UpdateAvailable", "Available">>,
     <<"Checking", "NoUpdateAvailable", "NotAvailable">>,
     <<"Checking", "UpdateFailed", "Failed">>,
     <<"NotAvailable", "after", "Idle">>,
     <<"Available", "Update", "Updating">>,
     <<"Updating", "UpdateFailed", "Failed">>,
     <<"Failed", "Check", "Checking">>,
     <<"Success", "after", "Idle">>}

\* An event a state does not handle is dropped.
Send(s, e) ==
    LET next == {d \in FSMStates : <<s, e, d>> \in Transitions}
    IN IF next = {} THEN s ELSE CHOOSE d \in next : TRUE

\* The Init event: the first guard that holds decides.
SendInit(s, pending, mark) ==
    IF s # "Idle" THEN s
    ELSE IF pending THEN "Available"
    ELSE IF mark = None THEN "Idle"
    ELSE IF mark.ok THEN "Success" ELSE "Failed"

-----------------------------------------------------------------------------
\* Version 1 has been installed and has started; the worker is down.
Init ==
    /\ version = 1 /\ published = 1
    /\ appVersion = 1
    /\ saved = None
    /\ marker = None
    /\ pageOpened = FALSE
    /\ phase = "down"
    /\ isUpdate = FALSE
    /\ from = 1
    /\ fsm = "Idle"
    /\ cache = None
    /\ hasState = FALSE
    /\ due = FALSE
    /\ check = [c \in Checks |-> "none"]
    /\ timers = {}
    /\ currentTimer = None
    /\ handler = [h \in Handlers |-> "none"]
    /\ latest = None
    /\ again = FALSE
    /\ apply = "none"

-----------------------------------------------------------------------------
(* The auto-update state manager.                                          *)

\* The state becomes c, and save is called: it saves at once when the window of
\* the last call is over, when the window ends otherwise.  A second call in the
\* same step is within the window of the first.
SetState(c, twice) ==
    /\ cache' = c
    /\ \/ due' = TRUE /\ UNCHANGED saved
       \/ ~due /\ due' = twice /\ saved' = c

\* The state in memory is emptied at once, before the removal from the disk.
ClearedLater == cache                           \* mistake: after the removal
ClearedUndefined == None                        \* mistake: undefined, not {}
Cleared == Empty

ClearState ==
    /\ cache' = Cleared
    /\ saved' = None
    /\ UNCHANGED due

TrailingSave ==
    /\ due
    /\ due' = FALSE
    /\ saved' = IF cache = None THEN saved ELSE cache
    /\ UNCHANGED <<browser, start, record, fsm, cache, manual, auto, apply>>

-----------------------------------------------------------------------------
(* The start of the worker.                                                *)

\* The version is recorded before anything else is done of an update.
Boot ==
    /\ phase = "down"
    /\ phase' = "init"
    /\ isUpdate' = (appVersion # version)
    /\ appVersion' = version
    /\ UNCHANGED <<browser, record, from, fsm, memory, hasState, manual, auto, apply>>

\* The listeners are registered before this; until then the state is undefined
\* and the handlers that use it throw.
LoadState ==
    /\ phase = "init"
    /\ phase' = "loaded"
    /\ cache' = IF saved = None THEN Empty ELSE saved
    /\ hasState' = (saved # None)
    /\ UNCHANGED <<browser, record, isUpdate, from, appVersion, fsm, saved,
                   due, manual, auto, apply>>

\* Something is reloading the extension, or about to.
Busy(h) == handler[h] \in {"applying", "reloading"}
Applying == apply # "none" \/ \E h \in Handlers : Busy(h)

\* What to do with a version that has become available, in state c: a manual
\* check is over, an automatic one gets a handler, which loads its
\* configuration before it monitors anything.
Delegate(c) ==
    /\ again' = (again \/ Applying)
    /\ IF c.manual
       THEN /\ timers' = timers \ {currentTimer}
            /\ currentTimer' = None
            /\ UNCHANGED <<check, handler, latest>>
       ELSE /\ \E h \in Handlers : /\ handler[h] = "none"
                                   /\ handler' = [handler EXCEPT ![h] = "loading"]
                                   /\ latest' = h
            /\ UNCHANGED manual

\* A saved version that is not newer than the one running is stale.
NewerOrSame(v) == v >= version                  \* mistake: off by one
Newer(v) == v > version

\* After a restart, a pending update is announced again to the handlers.
FinishInit ==
    /\ phase = "loaded"
    /\ phase' = "reload"
    /\ hasState' = FALSE
    /\ LET pending == hasState /\ cache.next # 0 /\ Newer(cache.next)
           stale == hasState /\ cache.next # 0 /\ ~Newer(cache.next)
           s == SendInit(fsm, pending, marker)
       IN IF pending
          THEN /\ fsm' = Send(s, "UpdateAvailable")
               /\ SetState(cache, TRUE)
               /\ Delegate(cache)
          ELSE /\ fsm' = s
               /\ IF stale THEN ClearState ELSE UNCHANGED memory
               /\ UNCHANGED <<manual, auto>>
    /\ UNCHANGED <<browser, record, isUpdate, from, appVersion, apply>>

\* handleReload: without a marker the flag is stale; with the flag set the page
\* has been opened before.
HandleReload ==
    /\ phase = "reload"
    /\ IF marker = None
       THEN /\ phase' = "up"
            /\ pageOpened' = FALSE
            /\ UNCHANGED from
       ELSE /\ phase' = IF pageOpened THEN "up" ELSE "open"
            /\ from' = IF pageOpened THEN 1 ELSE marker.init
            /\ UNCHANGED pageOpened
    /\ isUpdate' = (phase' = "open" /\ isUpdate)
    /\ UNCHANGED <<browser, appVersion, hasState, marker, fsm, memory,
                   manual, auto, apply>>

\* The outcome is corrected, the page the user came from is opened, and this is
\* noted.  A worker stopped before the note is as one stopped before this step:
\* the next start corrects the outcome and opens the page.
OpenPage ==
    /\ phase = "open"
    /\ phase' = "up"
    /\ pageOpened' = TRUE
    /\ marker' = IF isUpdate THEN marker ELSE [init |-> from, ok |-> FALSE]
    /\ isUpdate' = FALSE
    /\ from' = 1
    /\ UNCHANGED <<browser, appVersion, hasState, fsm, memory, manual, auto, apply>>

\* A page of the extension asks for the outcome and shows it.
GetUpdateData ==
    /\ phase \in Initialised
    /\ marker # None
    /\ marker' = None
    /\ UNCHANGED <<browser, start, pageOpened, fsm, memory, manual, auto, apply>>

\* The worker is gone.  The browser may install the newest version, which it
\* may have downloaded, on a reload of the extension or a restart of its own.
Down ==
    /\ phase # "down"
    /\ phase' = "down"
    /\ version' \in {version, published}
    /\ fsm' = "Idle"
    /\ cache' = None
    /\ hasState' = FALSE
    /\ due' = FALSE
    /\ check' = [c \in Checks |-> "none"]
    /\ timers' = {}
    /\ currentTimer' = None
    /\ handler' = [h \in Handlers |-> "none"]
    /\ latest' = None
    /\ again' = FALSE
    /\ apply' = "none"
    /\ isUpdate' = FALSE
    /\ from' = 1
    /\ UNCHANGED <<published, appVersion, saved, record>>

-----------------------------------------------------------------------------
(* Manual check and manual update.                                         *)

CheckUpdate(c) ==
    /\ cache # None
    /\ check[c] = "none"
    /\ c \notin timers
    /\ SetState([cache EXCEPT !.manual = TRUE], FALSE)
    /\ timers' = timers \union {c}
    /\ currentTimer' = c
    /\ check' = [check EXCEPT ![c] = "asking"]
    /\ fsm' = Send(fsm, "Check")
    /\ UNCHANGED <<browser, start, record, auto, apply>>

\* The backend and the browser say there is an update: wait for the browser to
\* download it, the time-out still running.
Stopped(S) == S \ {currentTimer}                \* mistake: the time-out cleared
Kept(S) == S

WaitForUpdate(c) ==
    /\ check[c] = "asking"
    /\ published > version
    /\ check' = [check EXCEPT ![c] = "none"]
    /\ timers' = Kept(timers)
    /\ UNCHANGED <<browser, start, record, fsm, memory, currentTimer, auto, apply>>

\* No update, no answer, or too many requests: the check is over.
Forget(c) == Empty                              \* mistake: all is reset
CheckOver(c) == [c EXCEPT !.manual = FALSE]

NoUpdate(c) ==
    /\ check[c] = "asking"
    /\ check' = [check EXCEPT ![c] = "none"]
    /\ timers' = timers \ {currentTimer}
    /\ currentTimer' = None
    /\ fsm' = Send(fsm, "NoUpdateAvailable")
    /\ SetState(CheckOver(cache), FALSE)
    /\ UNCHANGED <<browser, start, record, auto, apply>>

CheckTimeout(c) ==
    /\ c \in timers
    /\ timers' = timers \ {c}
    /\ currentTimer' = IF c = currentTimer THEN None ELSE currentTimer
    /\ fsm' = Send(fsm, "UpdateFailed")
    /\ UNCHANGED <<browser, start, record, memory, check, auto, apply>>

\* The button is there only while an update is available.
ApplyUpdate ==
    /\ phase \in Initialised
    /\ fsm = "Available"
    /\ apply = "none"
    /\ fsm' = Send(fsm, "Update")
    /\ apply' = "marker"
    /\ UNCHANGED <<browser, start, record, memory, manual, auto>>

\* The flag is removed, then the marker is written: nobody looks at the flag of
\* another marker in between.
SaveMarker ==
    /\ apply = "marker"
    /\ apply' = "clear"
    /\ pageOpened' = FALSE
    /\ marker' = [init |-> version, ok |-> TRUE]
    /\ UNCHANGED <<browser, start, fsm, memory, manual, auto>>

\* A handler whose monitoring has not started yet is not stopped by this.
ClearAutoUpdateState ==
    /\ apply = "clear"
    /\ apply' = "reload"
    /\ ClearState
    /\ handler' = [h \in Handlers |-> IF h = latest /\ handler[h] = "monitoring"
                                      THEN "none" ELSE handler[h]]
    /\ latest' = None
    /\ UNCHANGED <<browser, start, record, fsm, manual, again>>

\* The storage refuses a write.
ApplyFails ==
    /\ apply = "marker"
    /\ apply' = "none"
    /\ marker' = None
    /\ fsm' = Send(fsm, "UpdateFailed")
    /\ again' = (again /\ \E h \in Handlers : Busy(h))
    /\ pageOpened' \in {pageOpened, FALSE}
    /\ UNCHANGED <<browser, start, memory, manual, handler, latest>>

Reload ==
    /\ apply = "reload"
    /\ Down

-----------------------------------------------------------------------------
(* Automatic update.                                                       *)

StartMonitoring(h) ==
    /\ handler[h] = "loading"
    /\ handler' = [handler EXCEPT ![h] = "monitoring"]
    /\ UNCHANGED <<browser, start, record, fsm, memory, manual, latest, again, apply>>

\* A navigation is noted in the state; it also postpones the update (see Tick).
Navigate ==
    /\ \E h \in Handlers : handler[h] = "monitoring"
    /\ SetState(cache, FALSE)
    /\ UNCHANGED <<browser, start, record, fsm, manual, auto, apply>>

\* checkConditions: nothing to wait for any more; or no navigation for long
\* enough (a tick before that changes nothing).
StopMonitoring(h) ==
    /\ handler[h] = "monitoring"
    /\ cache.next = 0
    /\ handler' = [handler EXCEPT ![h] = "none"]
    /\ UNCHANGED <<browser, start, record, fsm, memory, manual, latest, again, apply>>

Tick(h) ==
    /\ handler[h] = "monitoring"
    /\ cache.next # 0
    /\ handler' = [handler EXCEPT ![h] = "applying"]
    /\ fsm' = Send(fsm, "Update")
    /\ ClearState
    /\ UNCHANGED <<browser, start, record, manual, latest, again, apply>>

RemoveMarker(h) ==
    /\ handler[h] = "applying"
    /\ handler' = [handler EXCEPT ![h] = "reloading"]
    /\ marker' = None
    /\ UNCHANGED <<browser, start, pageOpened, fsm, memory, manual, latest, again, apply>>

AutoApplyFails(h) ==
    /\ handler[h] = "applying"
    /\ handler' = [handler EXCEPT ![h] = "none"]
    /\ fsm' = Send(fsm, "UpdateFailed")
    /\ again' = (again /\ (apply # "none" \/ \E g \in Handlers \ {h} : Busy(g)))
    /\ UNCHANGED <<browser, start, record, memory, manual, latest, apply>>

AutoReload(h) ==
    /\ handler[h] = "reloading"
    /\ Down

-----------------------------------------------------------------------------
(* The browser.                                                            *)

Publish ==
    /\ published < MaxVersion
    /\ published' = published + 1
    /\ UNCHANGED <<version, start, record, fsm, memory, manual, auto, apply>>

\* The browser has downloaded the newest version and says so.
OnUpdateAvailable ==
    /\ cache # None
    /\ published > version
    /\ fsm' = Send(fsm, "UpdateAvailable")
    /\ SetState([cache EXCEPT !.next = published], TRUE)
    /\ Delegate(cache)
    /\ UNCHANGED <<browser, start, record, apply>>

\* A notification has been shown long enough.
NotificationDelay ==
    /\ Send(fsm, "after") # fsm
    /\ fsm' = Send(fsm, "after")
    /\ UNCHANGED <<browser, start, record, memory, manual, auto, apply>>

-----------------------------------------------------------------------------
Starting == Boot \/ LoadState \/ FinishInit \/ HandleReload \/ OpenPage

ManualUpdate == \/ SaveMarker \/ ClearAutoUpdateState
                \/ ApplyFails \/ Reload

AutoUpdate(h) == \/ StartMonitoring(h) \/ StopMonitoring(h) \/ Tick(h)
                 \/ RemoveMarker(h) \/ AutoApplyFails(h) \/ AutoReload(h)

Next ==
    \/ Starting \/ GetUpdateData \/ Down
    \/ TrailingSave \/ NotificationDelay
    \/ \E c \in Checks : \/ CheckUpdate(c) \/ WaitForUpdate(c) \/ NoUpdate(c)
                         \/ CheckTimeout(c)
    \/ ApplyUpdate \/ ManualUpdate
    \/ \E h \in Handlers : AutoUpdate(h)
    \/ Navigate \/ Publish \/ OnUpdateAvailable

Spec == Init /\ [][Next]_vars

-----------------------------------------------------------------------------
(* Properties.                                                             *)

\* Every variable has its type; once read, the auto-update state is always an
\* object, whatever clears it (its readers throw otherwise).
TypeOK ==
    /\ version \in Versions /\ published \in Versions
    /\ appVersion \in Versions
    /\ saved \in State \union {None}
    /\ marker \in Marker \union {None}
    /\ pageOpened \in BOOLEAN
    /\ phase \in Phases
    /\ isUpdate \in BOOLEAN
    /\ from \in Versions
    /\ fsm \in FSMStates
    /\ cache \in State \union {None}
    /\ cache = None <=> phase \in {"down", "init"}
    /\ hasState \in BOOLEAN
    /\ due \in BOOLEAN
    /\ check \in [Checks -> {"none", "asking"}]
    /\ timers \in SUBSET Checks
    /\ currentTimer \in Checks \union {None}
    /\ handler \in [Handlers -> {"none", "loading", "monitoring", "applying", "reloading"}]
    /\ latest \in Handlers \union {None}
    /\ again \in BOOLEAN
    /\ apply \in {"none", "marker", "clear", "reload"}

\* An update is offered only if there is one: whatever was saved before the
\* worker stopped, and whatever version runs now (ExtensionUpdateService.init
\* drops a saved version that the browser installed by itself).
OfferedIsNewer ==
    fsm = "Available" /\ ~Applying => cache.next > version

\* Two automatic handlers, one overwritten by a later announcement but still
\* monitoring, never both apply an update, unless the browser announced one more
\* in the meantime: the first to start empties the state the other looks at.
OneHandlerApplies ==
    \A g, h \in Handlers : Busy(g) /\ Busy(h) /\ g # h => again

\* No check hangs: while the machine is in Checking some time-out that ends it
\* is running, however many checks overlap and clear each other's time-outs.
CheckingIsTimed == fsm = "Checking" => timers # {}

\* A pending update is not forgotten while the worker runs, whatever checks end
\* without finding it again: only applying it empties the state.
PendingIsKept ==
    [][(cache # None /\ cache' # None /\ cache.next > version)
          => (cache'.next # 0 \/ Applying \/ Applying')]_vars

\* An update that has been announced is offered.
AnnouncedIsOffered ==
    (phase = "up" /\ cache.next > version) => fsm \in {"Available", "Updating"}

\* The icon of an offered update is shown: at once after a manual check, after
\* a delay the automatic handler knows otherwise.
IconIsShown ==
    (phase = "up" /\ fsm = "Available" /\ ~Applying) => cache.manual \/ latest # None
=============================================================================
