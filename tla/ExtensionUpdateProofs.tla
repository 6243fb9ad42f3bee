------------------------ MODULE ExtensionUpdateProofs ------------------------
(* The update of the extension, for any number of versions, of checks and   *)
(* of handlers: what the time-outs, the offers and the handlers that apply  *)
(* an update keep true of each other.                                      *)
EXTENDS ExtensionUpdate, TLAPS

-----------------------------------------------------------------------------
(* The state machine: where each event leads. *)

LEMMA Sent ==
  ASSUME NEW s \in FSMStates
  PROVE  /\ Send(s, "Check") = IF s \in {"Idle", "Failed"} THEN "Checking" ELSE s
         /\ Send(s, "UpdateAvailable") = IF s \in {"Idle", "Checking"} THEN "Available" ELSE s
         /\ Send(s, "NoUpdateAvailable") = IF s = "Checking" THEN "NotAvailable" ELSE s
         /\ Send(s, "UpdateFailed") = IF s \in {"Checking", "Updating"} THEN "Failed" ELSE s
         /\ Send(s, "Update") = IF s = "Available" THEN "Updating" ELSE s
         /\ Send(s, "after") = IF s \in {"NotAvailable", "Success"} THEN "Idle" ELSE s
  <1> DEFINE After(e) == {d \in FSMStates : <<s, e, d>> \in Transitions}
  <1>1. ASSUME NEW e, NEW d, After(e) = {d}
        PROVE  Send(s, e) = d
    BY <1>1 DEF Send
  <1>2. ASSUME NEW e, After(e) = {}
        PROVE  Send(s, e) = s
    BY <1>2 DEF Send
  <1>3. After("Check") = IF s \in {"Idle", "Failed"} THEN {"Checking"} ELSE {}
    BY DEF Transitions, FSMStates
  <1>4. After("UpdateAvailable") = IF s \in {"Idle", "Checking"} THEN {"Available"} ELSE {}
    BY DEF Transitions, FSMStates
  <1>5. After("NoUpdateAvailable") = IF s = "Checking" THEN {"NotAvailable"} ELSE {}
    BY DEF Transitions, FSMStates
  <1>6. After("UpdateFailed") = IF s \in {"Checking", "Updating"} THEN {"Failed"} ELSE {}
    BY DEF Transitions, FSMStates
  <1>7. After("Update") = IF s = "Available" THEN {"Updating"} ELSE {}
    BY DEF Transitions, FSMStates
  <1>8. After("after") = IF s \in {"NotAvailable", "Success"} THEN {"Idle"} ELSE {}
    BY DEF Transitions, FSMStates
  <1> HIDE DEF After
  <1>9. QED
    BY <1>1, <1>2, <1>3, <1>4, <1>5, <1>6, <1>7, <1>8

LEMMA SentIsState ==
  ASSUME NEW s \in FSMStates,
         NEW e \in {"Check", "UpdateAvailable", "NoUpdateAvailable", "UpdateFailed",
                    "Update", "after"}
  PROVE  Send(s, e) \in FSMStates
  BY Sent DEF FSMStates

LEMMA SentInit ==
  ASSUME NEW s \in FSMStates, NEW pending \in BOOLEAN, NEW mark \in Marker \union {None}
  PROVE  /\ SendInit(s, pending, mark) \in FSMStates
         /\ s # "Idle" => SendInit(s, pending, mark) = s
         /\ s = "Idle" /\ ~pending =>
               SendInit(s, pending, mark) \in {"Idle", "Success", "Failed"}
         /\ s = "Idle" /\ pending => SendInit(s, pending, mark) = "Available"
  BY DEF SendInit, FSMStates

-----------------------------------------------------------------------------
(* Types. *)

LEMMA NoneIsNoState ==
  None \notin State /\ Empty \in State /\ Empty # None /\ Empty.next = 0
  <1>1. 0 \in 0..MaxVersion
    BY MaxVersionAssumption
  <1>2. None \notin State
    BY NoneAssumption
  <1>3. Empty \in State /\ Empty.next = 0
    BY <1>1 DEF State, Empty
  <1>4. QED
    BY <1>2, <1>3

LEMMA SetStateIs ==
  ASSUME TypeOK, NEW c \in State, NEW twice \in BOOLEAN, SetState(c, twice)
  PROVE  cache' = c /\ saved' \in State \union {None} /\ due' \in BOOLEAN
  BY DEF SetState, TypeOK

LEMMA DelegateIs ==
  ASSUME TypeOK, NEW c \in State, Delegate(c)
  PROVE  /\ timers' \in SUBSET timers /\ currentTimer' \in Checks \union {None}
         /\ check' = check /\ again' \in BOOLEAN
         /\ latest' \in Handlers \union {None}
         /\ \/ handler' = handler
            \/ \E h \in Handlers : handler[h] = "none"
                                   /\ handler' = [handler EXCEPT ![h] = "loading"]
  BY DEF Delegate, TypeOK, manual

\* While the state has not been read, nothing else runs in the worker.
Asleep ==
    cache = None =>
        /\ fsm = "Idle" /\ timers = {} /\ apply = "none"
        /\ check = [c \in Checks |-> "none"] /\ handler = [h \in Handlers |-> "none"]

LEMMA TypesHold ==
  ASSUME TypeOK, Asleep, [Next]_vars
  PROVE  TypeOK'
  <1> USE DEF browser, start, record, memory, manual, auto
  <1>1. CASE Boot
    BY <1>1 DEF Boot, TypeOK, Phases, Versions
  <1>2. CASE LoadState
    <2>1. cache' \in State /\ cache' # None /\ phase = "init" /\ phase' = "loaded"
      BY <1>2, NoneIsNoState DEF LoadState, TypeOK
    <2>2. hasState' \in BOOLEAN
      BY <1>2 DEF LoadState
    <2>3. QED  BY <1>2, <2>1, <2>2 DEF LoadState, TypeOK, Phases
  <1>3. CASE FinishInit
    <2>1. /\ phase = "loaded" /\ phase' = "reload" /\ hasState' = FALSE
          /\ UNCHANGED <<version, published, marker, pageOpened, isUpdate, from, appVersion, apply>>
          /\ cache \in State
      BY <1>3 DEF FinishInit, TypeOK
    <2> DEFINE pending == hasState /\ cache.next # 0 /\ Newer(cache.next)
               stale == hasState /\ cache.next # 0 /\ ~Newer(cache.next)
               s == SendInit(fsm, pending, marker)
    <2>2. s \in FSMStates
      <3>1. pending \in BOOLEAN
        OBVIOUS
      <3>2. QED  BY <3>1, SentInit DEF TypeOK
    <2>3. CASE pending
      <3>1. fsm' = Send(s, "UpdateAvailable") /\ SetState(cache, TRUE) /\ Delegate(cache)
        BY <1>3, <2>3 DEF FinishInit
      <3>2. fsm' \in FSMStates
        BY <2>2, <3>1, SentIsState
      <3>3. cache' \in State /\ saved' \in State \union {None} /\ due' \in BOOLEAN
        BY <2>1, <3>1, SetStateIs
      <3>4. /\ timers' \in SUBSET Checks /\ currentTimer' \in Checks \union {None}
            /\ check' = check /\ again' \in BOOLEAN /\ latest' \in Handlers \union {None}
            /\ handler' \in [Handlers -> {"none", "loading", "monitoring", "applying", "reloading"}]
        BY <2>1, <3>1, DelegateIs DEF TypeOK
      <3>5. QED  BY <2>1, <3>2, <3>3, <3>4, NoneIsNoState DEF TypeOK, Phases
    <2>4. CASE ~pending
      <3>1. /\ fsm' = s
            /\ IF stale THEN ClearState ELSE UNCHANGED memory
            /\ UNCHANGED <<manual, auto>>
        BY <1>3, <2>4 DEF FinishInit
      <3>2. cache' \in State /\ saved' \in State \union {None} /\ due' \in BOOLEAN
        BY <2>1, <3>1, NoneIsNoState DEF ClearState, Cleared, TypeOK
      <3>3. QED  BY <2>1, <2>2, <3>1, <3>2, NoneIsNoState DEF TypeOK, Phases
    <2>5. QED  BY <2>3, <2>4
  <1>4. CASE HandleReload
    <2>1. from' \in Versions /\ phase' \in {"up", "open"} /\ isUpdate' \in BOOLEAN
          /\ pageOpened' \in BOOLEAN
      <3>1. 1 \in Versions /\ (marker # None => marker.init \in Versions)
        BY MaxVersionAssumption DEF TypeOK, Marker, Versions
      <3>2. CASE marker = None
        BY <1>4, <3>2 DEF HandleReload, TypeOK
      <3>3. CASE marker # None
        BY <1>4, <3>1, <3>3 DEF HandleReload, TypeOK
      <3>4. QED  BY <3>2, <3>3
    <2>2. QED  BY <1>4, <2>1 DEF HandleReload, TypeOK, Phases
  <1>5. CASE OpenPage
    <2>1. marker' \in Marker \union {None} /\ 1 \in Versions
      BY <1>5, MaxVersionAssumption DEF OpenPage, TypeOK, Marker, Versions
    <2>2. QED  BY <1>5, <2>1 DEF OpenPage, TypeOK, Phases
  <1>6. CASE GetUpdateData
    BY <1>6 DEF GetUpdateData, TypeOK
  <1>7. CASE Down
    <2>1. 1 \in Versions /\ version' \in Versions
      BY <1>7, MaxVersionAssumption DEF Down, TypeOK, Versions
    <2>2. QED  BY <1>7, <2>1 DEF Down, TypeOK, Phases, FSMStates
  <1>8. CASE TrailingSave
    BY <1>8, ZenonT(40) DEF TrailingSave, TypeOK
  <1>9. CASE NotificationDelay
    <2>1. fsm' \in FSMStates
      BY <1>9, SentIsState DEF NotificationDelay, TypeOK
    <2>2. QED  BY <1>9, <2>1 DEF NotificationDelay, TypeOK
  <1>10. ASSUME NEW c \in Checks, CheckUpdate(c)
         PROVE  TypeOK'
    <2>1. [cache EXCEPT !.manual = TRUE] \in State
      BY <1>10 DEF CheckUpdate, TypeOK, State
    <2>2. cache' \in State /\ saved' \in State \union {None} /\ due' \in BOOLEAN
      BY <1>10, <2>1, SetStateIs DEF CheckUpdate
    <2>3. fsm' \in FSMStates
      BY <1>10, SentIsState DEF CheckUpdate, TypeOK
    <2>4. QED  BY <1>10, <2>2, <2>3, NoneIsNoState DEF CheckUpdate, TypeOK
  <1>11. ASSUME NEW c \in Checks, WaitForUpdate(c)
         PROVE  TypeOK'
    BY <1>11 DEF WaitForUpdate, Kept, TypeOK
  <1>12. ASSUME NEW c \in Checks, NoUpdate(c)
         PROVE  TypeOK'
    <2>1. cache # None
      BY <1>12 DEF NoUpdate, Asleep
    <2>2. CheckOver(cache) \in State
      BY <2>1 DEF CheckOver, TypeOK, State
    <2>3. cache' \in State /\ saved' \in State \union {None} /\ due' \in BOOLEAN
      BY <1>12, <2>2, SetStateIs DEF NoUpdate
    <2>4. fsm' \in FSMStates
      BY <1>12, SentIsState DEF NoUpdate, TypeOK
    <2>5. QED  BY <1>12, <2>1, <2>3, <2>4, NoneIsNoState DEF NoUpdate, TypeOK
  <1>13. ASSUME NEW c \in Checks, CheckTimeout(c)
         PROVE  TypeOK'
    <2>1. fsm' \in FSMStates
      BY <1>13, SentIsState DEF CheckTimeout, TypeOK
    <2>2. QED  BY <1>13, <2>1 DEF CheckTimeout, TypeOK
  <1>14. CASE ApplyUpdate
    <2>1. fsm' \in FSMStates
      BY <1>14, SentIsState DEF ApplyUpdate, TypeOK
    <2>2. QED  BY <1>14, <2>1 DEF ApplyUpdate, TypeOK
  <1>15. CASE SaveMarker
    BY <1>15 DEF SaveMarker, TypeOK, Marker
  <1>16. CASE ClearAutoUpdateState
    <2>1. cache # None
      BY <1>16 DEF ClearAutoUpdateState, Asleep
    <2>2. cache' \in State /\ saved' = None /\ due' = due
      BY <1>16, NoneIsNoState DEF ClearAutoUpdateState, ClearState, Cleared
    <2>3. handler' \in [Handlers -> {"none", "loading", "monitoring", "applying", "reloading"}]
      BY <1>16 DEF ClearAutoUpdateState, TypeOK
    <2>4. QED  BY <1>16, <2>1, <2>2, <2>3, NoneIsNoState DEF ClearAutoUpdateState, TypeOK
  <1>17. CASE ApplyFails
    <2>1. fsm' \in FSMStates
      BY <1>17, SentIsState DEF ApplyFails, TypeOK
    <2>2. again' \in BOOLEAN
      BY <1>17 DEF ApplyFails, TypeOK
    <2>3. QED  BY <1>17, <2>1, <2>2 DEF ApplyFails, TypeOK
  <1>18. ASSUME NEW h \in Handlers, StartMonitoring(h)
         PROVE  TypeOK'
    BY <1>18 DEF StartMonitoring, TypeOK
  <1>19. ASSUME NEW h \in Handlers, StopMonitoring(h)
         PROVE  TypeOK'
    BY <1>19 DEF StopMonitoring, TypeOK
  <1>20. ASSUME NEW h \in Handlers, Tick(h)
         PROVE  TypeOK'
    <2>1. cache # None
      BY <1>20 DEF Tick, Asleep
    <2>2. cache' \in State /\ saved' = None /\ due' = due
      BY <1>20, NoneIsNoState DEF Tick, ClearState, Cleared
    <2>3. fsm' \in FSMStates
      BY <1>20, SentIsState DEF Tick, TypeOK
    <2>4. QED  BY <1>20, <2>1, <2>2, <2>3, NoneIsNoState DEF Tick, TypeOK
  <1>21. ASSUME NEW h \in Handlers, RemoveMarker(h)
         PROVE  TypeOK'
    BY <1>21 DEF RemoveMarker, TypeOK
  <1>22. ASSUME NEW h \in Handlers, AutoApplyFails(h)
         PROVE  TypeOK'
    <2>1. fsm' \in FSMStates
      BY <1>22, SentIsState DEF AutoApplyFails, TypeOK
    <2>2. again' \in BOOLEAN
      BY <1>22 DEF AutoApplyFails, TypeOK
    <2>3. QED  BY <1>22, <2>1, <2>2 DEF AutoApplyFails, TypeOK
  <1>23. CASE Navigate
    <2>1. cache # None
      BY <1>23 DEF Navigate, Asleep
    <2>2. cache' = cache /\ saved' \in State \union {None} /\ due' \in BOOLEAN
      BY <1>23, <2>1, SetStateIs DEF Navigate, TypeOK
    <2>3. QED  BY <1>23, <2>2 DEF Navigate, TypeOK
  <1>24. CASE Publish
    <2>1. published' \in Versions
      BY <1>24, MaxVersionAssumption DEF Publish, TypeOK, Versions
    <2>2. QED  BY <1>24, <2>1 DEF Publish, TypeOK
  <1>25. CASE OnUpdateAvailable
    <2>1. cache \in State /\ cache # None
      BY <1>25 DEF OnUpdateAvailable, TypeOK
    <2>2. [cache EXCEPT !.next = published] \in State
      <3>1. published \in 0..MaxVersion
        BY MaxVersionAssumption DEF TypeOK, Versions
      <3>2. QED  BY <2>1, <3>1 DEF State
    <2>3. cache' \in State /\ saved' \in State \union {None} /\ due' \in BOOLEAN
      BY <1>25, <2>2, SetStateIs DEF OnUpdateAvailable
    <2>4. /\ timers' \in SUBSET Checks /\ currentTimer' \in Checks \union {None}
          /\ check' = check /\ again' \in BOOLEAN /\ latest' \in Handlers \union {None}
          /\ handler' \in [Handlers -> {"none", "loading", "monitoring", "applying", "reloading"}]
      BY <1>25, <2>1, DelegateIs DEF OnUpdateAvailable, TypeOK
    <2>5. fsm' \in FSMStates
      BY <1>25, SentIsState DEF OnUpdateAvailable, TypeOK
    <2>6. QED  BY <1>25, <2>1, <2>3, <2>4, <2>5, NoneIsNoState DEF OnUpdateAvailable, TypeOK
  <1>26. CASE UNCHANGED vars
    BY <1>26 DEF vars, TypeOK
  <1>27. QED
    BY <1>1, <1>2, <1>3, <1>4, <1>5, <1>6, <1>7, <1>8, <1>9, <1>10, <1>11, <1>12, <1>13,
       <1>14, <1>15, <1>16, <1>17, <1>18, <1>19, <1>20, <1>21, <1>22, <1>23, <1>24, <1>25,
       <1>26
    DEF Next, Starting, ManualUpdate, AutoUpdate, Reload, AutoReload

-----------------------------------------------------------------------------
(* What a step may do to the state machine, the checks and the handlers. *)

\* Nothing a worker that sleeps could be woken by is left behind.
LEMMA AsleepHolds ==
  ASSUME TypeOK, Asleep, [Next]_vars
  PROVE  Asleep'
  <1> USE DEF browser, start, record, memory, manual, auto
  <1>1. CASE cache' # None
    BY <1>1 DEF Asleep
  <1>2. CASE Down
    BY <1>2 DEF Down, Asleep
  <1>3. CASE cache = None /\ cache' = None /\ ~Down
    <2>1. /\ fsm = "Idle" /\ timers = {} /\ apply = "none"
          /\ \A c \in Checks : check[c] = "none"
          /\ \A h \in Handlers : handler[h] = "none"
          /\ phase \in {"down", "init"}
      BY <1>3 DEF Asleep, TypeOK
    <2>2. CASE Boot \/ NotificationDelay \/ TrailingSave \/ GetUpdateData \/ Publish
      <3>1. Send("Idle", "after") = "Idle"
        BY Sent DEF FSMStates
      <3>2. ~NotificationDelay
        BY <2>1, <3>1 DEF NotificationDelay
      <3>3. UNCHANGED <<fsm, timers, apply, check, handler>>
        BY <2>2, <3>2 DEF Boot, TrailingSave, GetUpdateData, Publish
      <3>4. QED  BY <1>3, <3>3 DEF Asleep
    <2>3. CASE UNCHANGED vars
      BY <2>3 DEF vars, Asleep
    <2>4. ~LoadState
      BY <1>3, NoneIsNoState DEF LoadState, TypeOK
    <2>5. /\ ~FinishInit /\ ~HandleReload /\ ~OpenPage /\ ~ApplyUpdate /\ ~OnUpdateAvailable
      BY <1>3, <2>1 DEF FinishInit, HandleReload, OpenPage, ApplyUpdate, Initialised,
                        OnUpdateAvailable
    <2>6. \A c \in Checks : ~CheckUpdate(c) /\ ~WaitForUpdate(c) /\ ~NoUpdate(c) /\ ~CheckTimeout(c)
      BY <1>3, <2>1 DEF CheckUpdate, WaitForUpdate, NoUpdate, CheckTimeout
    <2>7. ~ManualUpdate
      BY <1>3, <2>1 DEF ManualUpdate, SaveMarker, ClearAutoUpdateState, ApplyFails, Reload
    <2>8. \A h \in Handlers : ~AutoUpdate(h)
      BY <2>1 DEF AutoUpdate, StartMonitoring, StopMonitoring, Tick, RemoveMarker,
                  AutoApplyFails, AutoReload
    <2>9. ~Navigate
      BY <2>1 DEF Navigate
    <2>10. QED
      BY <1>3, <2>2, <2>3, <2>4, <2>5, <2>6, <2>7, <2>8, <2>9 DEF Next, Starting
  <1>4. CASE cache # None /\ cache' = None /\ ~Down
    <2>1. TypeOK'
      BY TypesHold
    <2>2. phase' \in {"down", "init"} /\ phase \notin {"down", "init"}
      BY <1>4, <2>1 DEF TypeOK
    <2>3. QED
      BY <1>4, <2>2
      DEF Next, vars, Starting, ManualUpdate, AutoUpdate, Reload, AutoReload, LoadState, FinishInit,
          HandleReload, OpenPage, CheckUpdate, WaitForUpdate, NoUpdate, CheckTimeout, ApplyUpdate,
          SaveMarker, ClearAutoUpdateState, ApplyFails, StartMonitoring, TrailingSave,
          StopMonitoring, Tick, RemoveMarker, AutoApplyFails, Navigate, OnUpdateAvailable,
          Boot, GetUpdateData, NotificationDelay, Publish
  <1>5. QED  BY <1>1, <1>2, <1>3, <1>4

\* Where the machine can be after a step.
LEMMA MachineMoves ==
  ASSUME TypeOK, [Next]_vars
  PROVE  \/ fsm' = fsm
         \/ \E c \in Checks : CheckUpdate(c) /\ fsm' = "Checking"
         \/ fsm' = "Available" /\ (OnUpdateAvailable \/ FinishInit)
         \/ fsm' \notin {"Checking", "Available"}
  <1> USE DEF browser, start, record, memory, manual, auto
  <1>1. fsm \in FSMStates
    BY DEF TypeOK
  <1>2. CASE FinishInit
    <2> DEFINE pending == hasState /\ cache.next # 0 /\ Newer(cache.next)
               s == SendInit(fsm, pending, marker)
    <2>1. /\ pending => fsm' = Send(s, "UpdateAvailable")
          /\ ~pending => fsm' = s
      BY <1>2 DEF FinishInit
    <2>2. pending \in BOOLEAN
      OBVIOUS
    <2>3. /\ s \in FSMStates /\ (fsm # "Idle" => s = fsm)
          /\ fsm = "Idle" /\ ~pending => s \in {"Idle", "Success", "Failed"}
          /\ fsm = "Idle" /\ pending => s = "Available"
      BY <2>2, SentInit DEF TypeOK
    <2> HIDE DEF pending, s
    <2>4. Send(s, "UpdateAvailable") = IF s \in {"Idle", "Checking"} THEN "Available" ELSE s
      BY <2>3, Sent
    <2>5. QED  BY <1>2, <2>1, <2>3, <2>4
  <1>3. CASE OnUpdateAvailable
    BY <1>1, <1>3, Sent DEF OnUpdateAvailable
  <1>4. ASSUME NEW c \in Checks, CheckUpdate(c)
        PROVE  fsm' = fsm \/ fsm' = "Checking"
    BY <1>1, <1>4, Sent DEF CheckUpdate
  <1>5. ASSUME NEW e \in {"NoUpdateAvailable", "UpdateFailed", "Update", "after"},
               fsm' = Send(fsm, e)
        PROVE  fsm' = fsm \/ fsm' \notin {"Checking", "Available"}
    BY <1>1, <1>5, Sent
  <1>6. CASE Down
    BY <1>6 DEF Down
  <1>7. CASE fsm' = fsm
    BY <1>7
  <1>8. QED
    BY <1>2, <1>3, <1>4, <1>5, <1>6, <1>7
    DEF Next, vars, Starting, ManualUpdate, AutoUpdate, Reload, AutoReload, LoadState,
        HandleReload, OpenPage, WaitForUpdate, NoUpdate, CheckTimeout, ApplyUpdate,
        SaveMarker, ClearAutoUpdateState, ApplyFails, StartMonitoring, TrailingSave,
        StopMonitoring, Tick, RemoveMarker, AutoApplyFails, Navigate,
        Boot, GetUpdateData, NotificationDelay, Publish

LEMMA TimedHolds ==
  ASSUME TypeOK, CheckingIsTimed, [Next]_vars
  PROVE  CheckingIsTimed'
  <1> USE DEF browser, start, record, memory, manual, auto
  <1>1. SUFFICES ASSUME fsm' = "Checking" PROVE timers' # {}
    BY DEF CheckingIsTimed
  <1>2. CASE \E c \in Checks : CheckUpdate(c)
    BY <1>2 DEF CheckUpdate
  <1>3. CASE fsm' = fsm /\ ~\E c \in Checks : CheckUpdate(c)
    <2>1. fsm = "Checking" /\ timers # {}
      BY <1>1, <1>3 DEF CheckingIsTimed
    <2>2. /\ Send("Checking", "UpdateAvailable") = "Available"
          /\ Send("Checking", "NoUpdateAvailable") = "NotAvailable"
          /\ Send("Checking", "UpdateFailed") = "Failed"
      BY Sent DEF FSMStates
    <2>3. ~OnUpdateAvailable
      BY <1>1, <2>1, <2>2 DEF OnUpdateAvailable
    <2>4. ~\E c \in Checks : NoUpdate(c) \/ CheckTimeout(c)
      BY <1>1, <2>1, <2>2 DEF NoUpdate, CheckTimeout
    <2>5. ~Down
      BY <1>1 DEF Down
    <2>6. CASE FinishInit
      <3> DEFINE pending == hasState /\ cache.next # 0 /\ Newer(cache.next)
      <3>1. ~pending
        <4>1. pending \in BOOLEAN /\ marker \in Marker \union {None}
          BY DEF TypeOK
        <4>2. SendInit(fsm, pending, marker) = "Checking"
          BY <2>1 DEF SendInit
        <4>3. pending => fsm' = Send(SendInit(fsm, pending, marker), "UpdateAvailable")
          BY <2>6 DEF FinishInit
        <4>4. QED  BY <1>1, <2>2, <4>2, <4>3
      <3>2. UNCHANGED timers
        BY <2>6, <3>1 DEF FinishInit
      <3>3. QED  BY <2>1, <3>2
    <2>7. ASSUME NEW c \in Checks, WaitForUpdate(c) PROVE timers' = timers
      BY <2>7 DEF WaitForUpdate, Kept
    <2>8. QED
      BY <1>3, <2>1, <2>3, <2>4, <2>5, <2>6, <2>7
      DEF Next, vars, Starting, ManualUpdate, AutoUpdate, Reload, AutoReload, LoadState,
          HandleReload, OpenPage, ApplyUpdate,
          SaveMarker, ClearAutoUpdateState, ApplyFails, StartMonitoring, TrailingSave,
          StopMonitoring, Tick, RemoveMarker, AutoApplyFails, Navigate,
          Boot, GetUpdateData, NotificationDelay, Publish
  <1>4. QED  BY <1>1, <1>2, <1>3, MachineMoves

-----------------------------------------------------------------------------
(* What is pending. *)

\* How the version that is announced, and where it is applied, can change.
LEMMA PendingMoves ==
  ASSUME TypeOK, Asleep, [Next]_vars, cache # None, cache' # None
  PROVE  /\ UNCHANGED version
         /\ \/ cache'.next = cache.next /\ (FinishInit => hasState \/ UNCHANGED cache)
            \/ OnUpdateAvailable /\ cache'.next = published
            \/ FinishInit /\ cache'.next = 0 /\ cache.next # 0 /\ ~Newer(cache.next)
               /\ UNCHANGED <<handler, again, apply>>
            \/ ClearAutoUpdateState /\ cache'.next = 0
            \/ \E h \in Handlers : Tick(h) /\ cache'.next = 0
  <1> USE DEF browser, start, record, memory, manual, auto
  <1>0. cache \in State /\ cache' \in State /\ phase' \notin {"down", "init"}
    BY TypesHold DEF TypeOK
  <1>1. CASE FinishInit
    <2> DEFINE pending == hasState /\ cache.next # 0 /\ Newer(cache.next)
               stale == hasState /\ cache.next # 0 /\ ~Newer(cache.next)
    <2>1. UNCHANGED <<version, apply>>
      BY <1>1 DEF FinishInit
    <2>2. CASE pending
      <3>1. cache' = cache
        BY <1>1, <2>2 DEF FinishInit, SetState
      <3>2. QED  BY <2>1, <3>1
    <2>3. CASE ~pending /\ stale
      <3>1. cache' = Empty /\ UNCHANGED <<handler, again>>
        BY <1>1, <2>3 DEF FinishInit, ClearState, Cleared
      <3>2. QED  BY <1>1, <2>1, <2>3, <3>1, NoneIsNoState
    <2>4. CASE ~pending /\ ~stale
      <3>1. cache' = cache
        BY <1>1, <2>4 DEF FinishInit
      <3>2. QED  BY <2>1, <3>1
    <2>5. QED  BY <2>2, <2>3, <2>4
  <1>2. CASE OnUpdateAvailable
    <2>1. cache' = [cache EXCEPT !.next = published] /\ UNCHANGED version
      BY <1>2 DEF OnUpdateAvailable, SetState
    <2>2. QED  BY <1>0, <1>2, <2>1 DEF State
  <1>3. CASE ClearAutoUpdateState
    BY <1>3, NoneIsNoState DEF ClearAutoUpdateState, ClearState, Cleared
  <1>4. ASSUME NEW h \in Handlers, Tick(h)
        PROVE  cache'.next = 0 /\ UNCHANGED version
    BY <1>4, NoneIsNoState DEF Tick, ClearState, Cleared
  <1>5. ASSUME NEW c \in Checks, CheckUpdate(c) \/ NoUpdate(c)
        PROVE  cache'.next = cache.next /\ UNCHANGED version /\ ~FinishInit
    <2>1. \/ cache' = [cache EXCEPT !.manual = TRUE]
          \/ cache' = [cache EXCEPT !.manual = FALSE]
      BY <1>5 DEF CheckUpdate, NoUpdate, SetState, CheckOver
    <2>2. UNCHANGED <<version, phase>>
      BY <1>5 DEF CheckUpdate, NoUpdate
    <2>3. QED  BY <1>0, <2>1, <2>2 DEF State, FinishInit
  <1>6. CASE Navigate
    BY <1>6 DEF Navigate, SetState, FinishInit
  <1>7. ~Down /\ ~Boot /\ ~LoadState
    BY <1>0 DEF Down, Boot, LoadState, TypeOK
  <1>8. CASE UNCHANGED <<cache, version>>
    BY <1>8
  <1>9. QED
    BY <1>1, <1>2, <1>3, <1>4, <1>5, <1>6, <1>7, <1>8
    DEF Next, vars, Starting, ManualUpdate, AutoUpdate, Reload, AutoReload,
        HandleReload, OpenPage, WaitForUpdate, CheckTimeout, ApplyUpdate,
        SaveMarker, ApplyFails, StartMonitoring, TrailingSave,
        StopMonitoring, RemoveMarker, AutoApplyFails,
        GetUpdateData, NotificationDelay, Publish

-----------------------------------------------------------------------------
(* What is offered. *)

\* While an update is offered there is one, until the user's choice to apply
\* it empties the state.
Offered == fsm = "Available" => apply = "reload" \/ cache.next > version

LEMMA OfferedHolds ==
  ASSUME TypeOK, Asleep, Offered, [Next]_vars
  PROVE  Offered'
  <1> USE DEF browser, start, record, memory, manual, auto
  <1>1. SUFFICES ASSUME fsm' = "Available", apply' # "reload"
                 PROVE  cache'.next > version'
    BY DEF Offered
  <1>2. ~Down
    BY <1>1 DEF Down
  <1>3. TypeOK' /\ Asleep'
    BY TypesHold, AsleepHolds
  <1>4. cache' # None /\ cache' \in State
    BY <1>1, <1>3 DEF Asleep, TypeOK
  <1>5. CASE OnUpdateAvailable
    <2>1. cache \in State /\ cache # None
      BY <1>5 DEF OnUpdateAvailable, TypeOK
    <2>2. cache'.next = published
      BY <1>5, <2>1 DEF OnUpdateAvailable, SetState, State
    <2>3. QED  BY <1>5, <2>2 DEF OnUpdateAvailable
  <1>6. CASE FinishInit
    <2> DEFINE pending == hasState /\ cache.next # 0 /\ Newer(cache.next)
               stale == hasState /\ cache.next # 0 /\ ~Newer(cache.next)
    <2>1. UNCHANGED <<version, apply>> /\ cache \in State
      BY <1>6 DEF FinishInit, TypeOK
    <2>2. CASE pending
      BY <1>6, <2>1, <2>2 DEF FinishInit, SetState, Newer
    <2>3. CASE ~pending
      <3>1. fsm = "Available"
        BY <1>1, <1>6, <2>3 DEF FinishInit, SendInit
      <3>2. cache.next > version
        BY <1>1, <2>1, <3>1 DEF Offered
      <3>3. ~stale
        BY <3>2 DEF Newer
      <3>4. cache' = cache
        BY <1>6, <2>3, <3>3 DEF FinishInit
      <3>5. QED  BY <2>1, <3>2, <3>4
    <2>4. QED  BY <2>2, <2>3
  <1>7. CASE fsm' = fsm /\ ~OnUpdateAvailable /\ ~FinishInit
    <2>1. fsm = "Available" /\ cache # None
      BY <1>1, <1>7 DEF Asleep
    <2>2. ~\E h \in Handlers : Tick(h)
      BY <1>7, <2>1, Sent DEF Tick, FSMStates
    <2>3. ~ClearAutoUpdateState
      BY <1>1 DEF ClearAutoUpdateState
    <2>4. cache'.next = cache.next /\ UNCHANGED version
      BY <1>4, <1>7, <2>1, <2>2, <2>3, PendingMoves
    <2>5. apply # "reload"
      BY <1>1, <1>2, <1>7, <2>3
      DEF Next, vars, Starting, ManualUpdate, AutoUpdate, Reload, AutoReload, LoadState,
          HandleReload, OpenPage, CheckUpdate, WaitForUpdate, NoUpdate, CheckTimeout, ApplyUpdate,
          SaveMarker, ApplyFails, StartMonitoring, TrailingSave,
          StopMonitoring, Tick, RemoveMarker, AutoApplyFails, Navigate,
          Boot, GetUpdateData, NotificationDelay, Publish
    <2>6. QED  BY <2>1, <2>4, <2>5 DEF Offered
  <1>8. QED  BY <1>1, <1>5, <1>6, <1>7, MachineMoves

-----------------------------------------------------------------------------
(* Who applies. *)

\* Once a handler applies an update, there is nothing left to apply, unless the
\* browser has announced something since.
NextAgain == (\E g \in Handlers : Busy(g)) /\ cache.next # 0 => again

\* A handler comes to apply an update only by a tick; while one does, a new
\* announcement is noted, and the note is kept.
LEMMA BusyMoves ==
  ASSUME TypeOK, Asleep, [Next]_vars, NEW g \in Handlers, Busy(g)'
  PROVE  /\ Busy(g) \/ Tick(g)
         /\ \A h \in Handlers \ {g} : Tick(h) => Busy(g)
         /\ again => again'
         /\ OnUpdateAvailable => again'
  <1> USE DEF browser, start, record, memory, manual, auto
  <1>1. ~Down /\ again \in BOOLEAN /\ again' \in BOOLEAN
    <2>1. TypeOK'
      BY TypesHold
    <2>2. QED  BY <2>1 DEF Down, TypeOK, Busy
  <1>2. ASSUME NEW c \in State, Delegate(c)
        PROVE  Busy(g) /\ again'
    <2>1. Busy(g)
      BY <1>2, DelegateIs DEF Busy, TypeOK
    <2>2. again' <=> again \/ Applying
      BY <1>2 DEF Delegate
    <2>3. QED  BY <2>1, <2>2 DEF Applying
  <1>3. CASE OnUpdateAvailable
    <2>1. cache \in State /\ Delegate(cache)
      BY <1>3 DEF OnUpdateAvailable, TypeOK
    <2>2. ~\E h \in Handlers : Tick(h)
      BY <1>3, <2>1, NoneIsNoState DEF OnUpdateAvailable, Tick, ClearState, SetState, Cleared,
                                      Delegate, TypeOK, manual
    <2>3. QED  BY <1>2, <2>1, <2>2
  <1>4. CASE FinishInit
    <2>1. cache \in State /\ phase' # phase /\ ~OnUpdateAvailable
          /\ ~\E h \in Handlers : Tick(h)
      BY <1>4 DEF FinishInit, TypeOK, OnUpdateAvailable, Tick
    <2>2. Delegate(cache) \/ UNCHANGED <<handler, again>>
      BY <1>4 DEF FinishInit
    <2>3. QED  BY <1>2, <2>1, <2>2 DEF Busy
  <1>5. CASE ApplyFails
    <2>1. UNCHANGED handler /\ (again' <=> again /\ \E h \in Handlers : Busy(h))
          /\ ~OnUpdateAvailable /\ ~\E h \in Handlers : Tick(h)
      BY <1>5 DEF ApplyFails, OnUpdateAvailable, Tick, TypeOK
    <2>2. QED  BY <2>1 DEF Busy
  <1>6. ASSUME NEW h \in Handlers, AutoApplyFails(h)
        PROVE  Busy(g) /\ (again => again') /\ ~OnUpdateAvailable
    <2>1. /\ handler[h] = "applying" /\ handler' = [handler EXCEPT ![h] = "none"]
          /\ again' <=> again /\ (apply # "none" \/ \E f \in Handlers \ {h} : Busy(f))
      BY <1>6 DEF AutoApplyFails
    <2>2. g # h /\ Busy(g)
      BY <2>1 DEF Busy, TypeOK
    <2>3. ~OnUpdateAvailable
      <3>1. UNCHANGED <<timers, currentTimer, latest>>
        BY <1>6 DEF AutoApplyFails
      <3>2. SUFFICES ASSUME OnUpdateAvailable PROVE FALSE
        OBVIOUS
      <3>3. cache \in State /\ Delegate(cache)
        BY <3>2 DEF OnUpdateAvailable, TypeOK
      <3>4. handler'[h] = handler[h] \/ handler'[h] = "loading"
        BY <3>3, DelegateIs DEF TypeOK
      <3>5. QED  BY <2>1, <3>4 DEF TypeOK
    <2>4. QED  BY <2>1, <2>2, <2>3
  <1>7. ASSUME NEW h \in Handlers, Tick(h)
        PROVE  UNCHANGED again /\ ~OnUpdateAvailable /\ (g = h \/ Busy(g))
    <2>1. handler[h] = "monitoring" /\ handler' = [handler EXCEPT ![h] = "applying"]
          /\ UNCHANGED again /\ fsm' = Send(fsm, "Update")
      BY <1>7 DEF Tick
    <2>2. ~OnUpdateAvailable
      <3>1. SUFFICES ASSUME OnUpdateAvailable PROVE FALSE
        OBVIOUS
      <3>2. cache \in State /\ Delegate(cache)
        BY <3>1 DEF OnUpdateAvailable, TypeOK
      <3>3. handler'[h] = handler[h] \/ handler'[h] = "loading"
        BY <3>2, DelegateIs DEF TypeOK
      <3>4. QED  BY <2>1, <3>3 DEF TypeOK
    <2>3. QED  BY <2>1, <2>2 DEF Busy, TypeOK
  <1>8. CASE /\ UNCHANGED again /\ ~OnUpdateAvailable /\ ~\E h \in Handlers : Tick(h)
             /\ handler' = handler
    BY <1>8 DEF Busy
  <1>9. ASSUME NEW h \in Handlers,
               StartMonitoring(h) \/ StopMonitoring(h) \/ RemoveMarker(h)
        PROVE  Busy(g) /\ UNCHANGED again /\ UNCHANGED fsm
    BY <1>9 DEF StartMonitoring, StopMonitoring, RemoveMarker, Busy, TypeOK
  <1>10. CASE ClearAutoUpdateState
    <2>1. apply' # apply /\ UNCHANGED again /\ g \in Handlers
          /\ handler' = [h \in Handlers |-> IF h = latest /\ handler[h] = "monitoring"
                                            THEN "none" ELSE handler[h]]
      BY <1>10 DEF ClearAutoUpdateState
    <2>2. ~OnUpdateAvailable /\ ~\E h \in Handlers : Tick(h)
      BY <2>1 DEF OnUpdateAvailable, Tick
    <2>3. handler'[g] = "none" \/ handler'[g] = handler[g]
      BY <2>1
    <2>4. QED  BY <2>1, <2>2, <2>3 DEF Busy
  <1>11. QED
    BY <1>1, <1>3, <1>4, <1>5, <1>6, <1>7, <1>8, <1>9, <1>10
    DEF Next, vars, Starting, ManualUpdate, AutoUpdate, Reload, AutoReload, LoadState,
        HandleReload, OpenPage, CheckUpdate, WaitForUpdate, NoUpdate, CheckTimeout, ApplyUpdate,
        SaveMarker, TrailingSave, Navigate, Boot, GetUpdateData, NotificationDelay, Publish

LEMMA AgainHolds ==
  ASSUME TypeOK, Asleep, NextAgain, [Next]_vars
  PROVE  NextAgain'
  <1>1. SUFFICES ASSUME NEW g \in Handlers, Busy(g)', cache'.next # 0
                 PROVE  again'
    BY DEF NextAgain, Busy
  <1>2. TypeOK' /\ Asleep'
    BY TypesHold, AsleepHolds
  <1>3. cache' # None
    BY <1>1, <1>2 DEF Asleep, Busy
  <1>4. CASE Tick(g) \/ OnUpdateAvailable
    BY <1>1, <1>4, BusyMoves, NoneIsNoState DEF Tick, ClearState, Cleared
  <1>5. CASE ~Tick(g) /\ ~OnUpdateAvailable
    <2>1. Busy(g) /\ (again => again')
      BY <1>1, <1>5, BusyMoves
    <2>2. cache # None
      BY <2>1 DEF Asleep, Busy
    <2>3. cache'.next = cache.next
      BY <1>1, <1>3, <1>5, <2>2, PendingMoves
    <2>4. QED  BY <1>1, <2>1, <2>3 DEF NextAgain
  <1>6. QED  BY <1>4, <1>5

LEMMA OneApplies ==
  ASSUME TypeOK, Asleep, NextAgain, OneHandlerApplies, [Next]_vars
  PROVE  OneHandlerApplies'
  <1>1. SUFFICES ASSUME NEW g \in Handlers, NEW h \in Handlers, Busy(g)', Busy(h)', g # h
                 PROVE  again'
    BY DEF OneHandlerApplies, Busy
  <1>2. CASE Busy(g) /\ Busy(h)
    BY <1>1, <1>2, BusyMoves DEF OneHandlerApplies
  <1>3. ASSUME NEW f \in {g, h}, Tick(f)
        PROVE  again'
    <2>1. \E k \in Handlers : Busy(k)
      BY <1>1, <1>3, BusyMoves
    <2>2. cache.next # 0
      BY <1>3 DEF Tick
    <2>3. QED  BY <1>1, <2>1, <2>2, BusyMoves DEF NextAgain
  <1>4. QED  BY <1>1, <1>2, <1>3, BusyMoves

-----------------------------------------------------------------------------
(* The inductive invariant. *)

UpdateInv ==
    TypeOK /\ Asleep /\ CheckingIsTimed /\ Offered /\ NextAgain /\ OneHandlerApplies

LEMMA UpdateInvInit == Init => UpdateInv
  <1> SUFFICES ASSUME Init PROVE UpdateInv
    OBVIOUS
  <1>1. 1 \in Versions
    BY MaxVersionAssumption DEF Versions
  <1>2. TypeOK
    BY <1>1 DEF Init, TypeOK, Phases, FSMStates
  <1>3. \A h \in Handlers : ~Busy(h)
    BY DEF Init, Busy
  <1>4. QED
    BY <1>2, <1>3 DEF Init, UpdateInv, Asleep, CheckingIsTimed, Offered, NextAgain,
                      OneHandlerApplies

LEMMA UpdateInvNext == UpdateInv /\ [Next]_vars => UpdateInv'
  BY TypesHold, AsleepHolds, TimedHolds, OfferedHolds, AgainHolds, OneApplies DEF UpdateInv

LEMMA UpdateInvHolds == Spec => []UpdateInv
  BY UpdateInvInit, UpdateInvNext, PTL DEF Spec

-----------------------------------------------------------------------------
(* The theorems. *)

\* Every variable keeps its type, and the auto-update state is an object from
\* the moment it has been read, whatever clears it afterwards.
THEOREM UpdateTypes == Spec => []TypeOK
  BY UpdateInvHolds, PTL DEF UpdateInv

\* However many checks overlap and clear each other's time-outs, a machine that
\* is checking has a time-out running that ends it.
THEOREM ChecksAreTimed == Spec => []CheckingIsTimed
  BY UpdateInvHolds, PTL DEF UpdateInv

\* What is offered is newer than what runs, whatever was saved before the
\* worker stopped and whatever the browser has installed by itself since.
THEOREM OffersAreNewer == Spec => []OfferedIsNewer
  <1>1. UpdateInv => OfferedIsNewer
    BY DEF UpdateInv, Offered, OfferedIsNewer, Applying
  <1>2. QED  BY <1>1, UpdateInvHolds, PTL

\* Two handlers that monitor at the same time do not both reload the extension,
\* unless the browser announced one more version in the meantime.
THEOREM HandlersApplyOnce == Spec => []OneHandlerApplies
  BY UpdateInvHolds, PTL DEF UpdateInv

\* No check that ends, no handler that stops and no step of the start makes a
\* running worker forget a version newer than the one that runs.
THEOREM PendingUpdatesAreKept == Spec => PendingIsKept
  <1>1. ASSUME UpdateInv, [Next]_vars, cache # None, cache' # None, cache.next > version
        PROVE  cache'.next # 0 \/ Applying \/ Applying'
    <2>1. TypeOK /\ Asleep /\ TypeOK'
      BY <1>1, TypesHold DEF UpdateInv
    <2>2. cache \in State /\ version \in Nat /\ version > 0 /\ cache.next \in Nat
      BY <1>1, <2>1, MaxVersionAssumption DEF TypeOK, State, Versions
    <2>3. CASE cache'.next = cache.next
      BY <1>1, <2>2, <2>3
    <2>4. CASE OnUpdateAvailable /\ cache'.next = published
      BY <2>1, <2>4, MaxVersionAssumption DEF TypeOK, Versions
    <2>5. CASE ~Newer(cache.next)
      BY <1>1, <2>5 DEF Newer
    <2>6. CASE ClearAutoUpdateState
      BY <2>6 DEF ClearAutoUpdateState, Applying
    <2>7. ASSUME NEW h \in Handlers, Tick(h)
          PROVE  Applying'
      <3>1. handler'[h] = "applying"
        BY <2>1, <2>7 DEF Tick, TypeOK
      <3>2. QED  BY <3>1 DEF Applying, Busy
    <2>8. QED  BY <1>1, <2>1, <2>3, <2>4, <2>5, <2>6, <2>7, PendingMoves
  <1>2. UpdateInv /\ [Next]_vars =>
           [(cache # None /\ cache' # None /\ cache.next > version)
              => (cache'.next # 0 \/ Applying \/ Applying')]_vars
    BY <1>1
  <1>3. QED  BY <1>2, UpdateInvHolds, PTL DEF PendingIsKept, Spec
=============================================================================
