----------------------------- MODULE RulesLimits -----------------------------
(* The limits of static rulesets in the MV3 build.  The browser may decline *)
(* a configuration as a whole; the service then takes the filters that do   *)
(* not run out of the settings, remembers the list as it was, and warns.    *)
(*                                                                         *)
(* One handler with its update of the engine is one slot of EngineUpdates;  *)
(* each action is the code between two awaits.  Static filters are packed   *)
(* into the extension, so enabling them does not wait for a download.       *)
EXTENDS Naturals, FiniteSets

CONSTANTS
    Rulesets,         \* the static filters
    RulesetGroups,    \* their groups
    RulesetGroup,     \* the group of each filter
    Recommended,      \* the filters with the tag "recommended"
    EngineUpdates,    \* slots of handlers and their engine updates
    MaxStatic         \* MAX_NUMBER_OF_ENABLED_STATIC_RULESETS

ASSUME RulesetsAssumption ==
    /\ RulesetGroup \in [Rulesets -> RulesetGroups]
    /\ IsFiniteSet(Rulesets) /\ Recommended \subseteq Rulesets
    /\ MaxStatic \in Nat

VARIABLES
    filtersOn,        \* filterStateStorage: the static filters that are enabled
    groupsOn,         \* groupStateStorage: the enabled groups
    touched,          \* groupStateStorage: those that were switched before
    paused,           \* SettingOption.DisableFiltering
    expected,         \* rulesLimitsStorage: the list kept for the warning
    running,          \* the rulesets the browser has enabled
    resultOn,         \* rulesLimitsService.isFilteringEnabled
    declined,         \* history: has the browser declined a configuration?
    upd               \* the engine updates

limitsVars == <<filtersOn, groupsOn, touched, paused, expected, running, resultOn,
                declined, upd>>

Settled == [on : SUBSET Rulesets, groups : SUBSET RulesetGroups]
NoUpdate == [pc |-> "idle", conf |-> {}, skip |-> FALSE, list |-> {}, broken |-> FALSE,
             import |-> "no", snapshot |-> [on |-> {}, groups |-> {}],
             target |-> {}]

UpdateRecord ==
    [pc : {"idle", "configure", "check", "compare", "take", "store", "verdict"},
     conf : SUBSET Rulesets, skip : BOOLEAN, list : SUBSET Rulesets, broken : BOOLEAN,
     import : {"no", "applied", "failed"}, snapshot : Settled, target : SUBSET Rulesets]

\* getCurrentConfigurationEnabledFilters: enabled filters of enabled groups.
ConfiguredIn(on, groups) == {f \in on : RulesetGroup[f] \in groups}
Configured == ConfiguredIn(filtersOn, groupsOn)

LimitsInit ==
    /\ filtersOn = {} /\ groupsOn = RulesetGroups /\ touched = RulesetGroups
    /\ paused = FALSE /\ resultOn = TRUE
    /\ expected = {} /\ running = {} /\ declined = FALSE
    /\ upd = [u \in EngineUpdates |-> NoUpdate]

-----------------------------------------------------------------------------
(* Engine.update.  The configuration is read at once and applied later. *)

Read(r, on, groups, off, skip) ==
    [r EXCEPT !.pc = "configure", !.skip = skip,
              !.conf = IF off THEN {} ELSE ConfiguredIn(on, groups)]

Begin(u, on, groups, off, skip) ==
    upd' = [upd EXCEPT ![u] = Read(@, on, groups, off, skip)]

Idle(u) == upd[u].pc = "idle"

\* An import waits for its update and then looks at the outcome.
AfterUpdate(r) ==
    IF r.import = "no" THEN NoUpdate
    ELSE [NoUpdate EXCEPT !.pc = "verdict", !.import = r.import,
                          !.snapshot = r.snapshot, !.target = r.target]

\* The browser takes the whole configuration or leaves everything as it is.
Configure(u) ==
    /\ upd[u].pc = "configure"
    /\ \/ /\ Cardinality(upd[u].conf) <= MaxStatic
          /\ running' = upd[u].conf
          /\ UNCHANGED declined
       \/ /\ ~(upd[u].conf \subseteq running)
          /\ declined' = TRUE
          /\ UNCHANGED running
    /\ resultOn' = ~paused
    /\ upd' = [upd EXCEPT ![u] = IF @.skip THEN AfterUpdate(@) ELSE [@ EXCEPT !.pc = "check"]]
    /\ UNCHANGED <<filtersOn, groupsOn, touched, paused, expected>>

-----------------------------------------------------------------------------
(* checkFiltersLimitsChange, with areFilterLimitsExceeded in front. *)

Exceeded(off, cached, list, actual) ==
    ~off /\ ((cached # {} /\ actual # cached) \/ actual # list)

\* What areFilterLimitsExceeded reads before it asks the browser.
CheckLimits(u) ==
    /\ upd[u].pc = "check"
    /\ upd' = [upd EXCEPT ![u].pc = "compare", ![u].list = Configured,
                          ![u].broken = Exceeded(paused, expected, Configured, running)]
    /\ UNCHANGED <<filtersOn, groupsOn, touched, paused, expected, running,
                   resultOn, declined>>

\* Not broken: the warning is over.  Broken: the settings are read again.
Compare(u) ==
    /\ upd[u].pc = "compare"
    /\ IF upd[u].broken
       THEN /\ upd' = [upd EXCEPT ![u].pc = "take", ![u].list = Configured]
            /\ UNCHANGED expected
       ELSE /\ upd' = [upd EXCEPT ![u] = AfterUpdate(@)]
            /\ expected' = {}
    /\ UNCHANGED <<filtersOn, groupsOn, touched, paused, running, resultOn, declined>>

\* A list that is being shown is not overwritten (AG-34194).
Remembered(old, list) == IF old = {} THEN list ELSE old

\* The list is stored; what does not run is turned off a moment later.
RememberFilters(u) ==
    /\ upd[u].pc = "take"
    /\ expected' = Remembered(expected, upd[u].list)
    /\ upd' = [upd EXCEPT ![u].pc = "store", ![u].conf = running]
    /\ UNCHANGED <<filtersOn, groupsOn, touched, paused, running, resultOn, declined>>

TakeFilters(u) ==
    /\ upd[u].pc = "store"
    /\ filtersOn' = (filtersOn \union upd[u].conf) \ (upd[u].list \ upd[u].conf)
    /\ Begin(u, filtersOn', groupsOn, paused, TRUE)
    /\ UNCHANGED <<groupsOn, touched, paused, expected, running, resultOn, declined>>

-----------------------------------------------------------------------------
(* What the user does; every handler ends in an update of the engine. *)

\* doesStaticFilterFitsInLimits: asked by the options page before it enables.
Fits == resultOn => Cardinality(Configured) <= MaxStatic
\* The filters that run once a group is on; the first time, the recommended.
WithGroup(g) == {f \in (IF g \in touched THEN filtersOn ELSE Recommended) : RulesetGroup[f] = g}
\* doStaticFiltersFitInLimits, for the filters of a group.
GroupFits(g) == resultOn => Cardinality(Configured) + Cardinality(WithGroup(g)) <= MaxStatic

\* The first of a group that was never switched enables the group.
EnableRuleset(u, f) ==
    /\ Idle(u) /\ f \notin filtersOn
    /\ RulesetGroup[f] \in groupsOn => Fits
    /\ filtersOn' = filtersOn \union {f}
    /\ groupsOn' = groupsOn \union ({RulesetGroup[f]} \ touched)
    /\ touched' = touched \union {RulesetGroup[f]}
    /\ IF RulesetGroup[f] \in groupsOn'
       THEN Begin(u, filtersOn', groupsOn', paused, FALSE)
       ELSE UNCHANGED upd
    /\ UNCHANGED <<paused, expected, running, resultOn, declined>>

DisableRuleset(u, f) ==
    /\ Idle(u) /\ f \in filtersOn
    /\ filtersOn' = filtersOn \ {f}
    /\ IF RulesetGroup[f] \in groupsOn
       THEN Begin(u, filtersOn', groupsOn, paused, FALSE)
       ELSE UNCHANGED upd
    /\ UNCHANGED <<groupsOn, touched, paused, expected, running, resultOn, declined>>

\* The first time a group is enabled, its recommended filters are as well.
EnableGroup(u, g) ==
    /\ Idle(u) /\ g \notin groupsOn /\ GroupFits(g)
    /\ filtersOn' = filtersOn \union WithGroup(g)
    /\ groupsOn' = groupsOn \union {g} /\ touched' = touched \union {g}
    /\ Begin(u, filtersOn', groupsOn', paused, FALSE)
    /\ UNCHANGED <<paused, expected, running, resultOn, declined>>

DisableGroup(u, g) ==
    /\ Idle(u) /\ g \in groupsOn
    /\ groupsOn' = groupsOn \ {g} /\ touched' = touched \union {g}
    /\ Begin(u, filtersOn, groupsOn', paused, FALSE)
    /\ UNCHANGED <<filtersOn, paused, expected, running, resultOn, declined>>

\* setFilteringState: the limits are not looked at when protection is paused.
SkipResumed(off) == ~off                         \* mistake: the flag the wrong way round
SkipCheck(off) == off

PauseOrResume(u) ==
    /\ Idle(u)
    /\ paused' = ~paused
    /\ Begin(u, filtersOn, groupsOn, paused', SkipCheck(paused'))
    /\ UNCHANGED <<filtersOn, groupsOn, touched, expected, running, resultOn, declined>>

\* onRestoreFilters: "enable the filters again" of the warning.
RestoreFilters(u) ==
    /\ Idle(u) /\ expected # {}
    /\ filtersOn' = filtersOn \union expected
    /\ Begin(u, filtersOn', groupsOn, paused, FALSE)
    /\ UNCHANGED <<groupsOn, touched, paused, expected, running, resultOn, declined>>

ClearWarning(u) ==
    /\ Idle(u) /\ expected # {}
    /\ expected' = {}
    /\ UNCHANGED <<filtersOn, groupsOn, touched, paused, running, resultOn,
                   declined, upd>>

\* Any other setting that is part of the configuration.
UpdateOther(u) ==
    /\ Idle(u)
    /\ Begin(u, filtersOn, groupsOn, paused, FALSE)
    /\ UNCHANGED <<filtersOn, groupsOn, touched, paused, expected, running,
                   resultOn, declined>>

\* The worker is restarted: Engine.start configures and checks.
RestartWorker(u) ==
    /\ upd' = [v \in EngineUpdates |->
                  IF v = u THEN Read(NoUpdate, filtersOn, groupsOn, paused, FALSE)
                  ELSE NoUpdate]
    /\ resultOn' = TRUE
    /\ UNCHANGED <<filtersOn, groupsOn, touched, paused, expected, running, declined>>

-----------------------------------------------------------------------------
(* handleApplyImportConfiguration: apply, update, and undo if that failed. *)

\* buildConfig: the groups of the filters it lists.
ImportedGroups(on) == {RulesetGroup[f] : f \in on}

\* A reset, which also ends a pause, and then what the configuration lists; one
\* that cannot be applied leaves the reset, perhaps with the filters enabled.
\* A reset leaves no group touched, an import those that it enables.
ApplyImport(u, on, success) ==
    /\ Idle(u)
    /\ \E part \in {{}, on} : filtersOn' = IF success THEN on ELSE part
    /\ groupsOn' = IF success THEN ImportedGroups(on) ELSE {}
    /\ touched' = groupsOn' /\ paused' = FALSE
    /\ upd' = [upd EXCEPT ![u] =
                  Read([@ EXCEPT !.import = IF success THEN "applied" ELSE "failed",
                                 !.snapshot = [on |-> filtersOn, groups |-> groupsOn],
                                 !.target = on],
                       filtersOn', groupsOn', paused', FALSE)]
    /\ UNCHANGED <<expected, running, resultOn, declined>>

NotApplied(off, cached, list, actual) ==         \* mistake: the settings only
    ~off /\ actual # list
LimitsExceeded(off, cached, list, actual) == Exceeded(off, cached, list, actual)

KeepImport(u) ==
    /\ upd[u].pc = "verdict" /\ upd[u].import = "applied"
    /\ ~LimitsExceeded(paused, expected, Configured, running)
    /\ upd' = [upd EXCEPT ![u] = NoUpdate]
    /\ UNCHANGED <<filtersOn, groupsOn, touched, paused, expected, running,
                   resultOn, declined>>

\* The snapshot is imported, if that succeeds; the warning is cleared.
UndoImport(u) ==
    /\ upd[u].pc = "verdict"
    /\ upd[u].import = "applied" => LimitsExceeded(paused, expected, Configured, running)
    /\ \/ filtersOn' = upd[u].snapshot.on /\ groupsOn' = upd[u].snapshot.groups
       \/ filtersOn' = {} /\ groupsOn' = {}
    /\ touched' = groupsOn' /\ paused' = FALSE /\ expected' = {}
    /\ upd' = [upd EXCEPT ![u] = Read(NoUpdate, filtersOn', groupsOn', paused', FALSE)]
    /\ UNCHANGED <<running, resultOn, declined>>

UpdateStep(u) ==
    \/ Configure(u) \/ CheckLimits(u) \/ Compare(u)
    \/ RememberFilters(u) \/ TakeFilters(u)
    \/ KeepImport(u) \/ UndoImport(u)

LimitsNext ==
    \E u \in EngineUpdates :
          \/ UpdateStep(u) \/ ClearWarning(u)
          \/ \E f \in Rulesets : EnableRuleset(u, f) \/ DisableRuleset(u, f)
          \/ \E g \in RulesetGroups : EnableGroup(u, g) \/ DisableGroup(u, g)
          \/ PauseOrResume(u) \/ RestoreFilters(u) \/ UpdateOther(u) \/ RestartWorker(u)
          \/ \E on \in SUBSET Rulesets, success \in BOOLEAN : ApplyImport(u, on, success)

LimitsSpec == LimitsInit /\ [][LimitsNext]_limitsVars

-----------------------------------------------------------------------------
LimitsTypeOK ==
    /\ filtersOn \subseteq Rulesets /\ groupsOn \subseteq touched
    /\ touched \subseteq RulesetGroups
    /\ expected \subseteq Rulesets /\ running \subseteq Rulesets
    /\ paused \in BOOLEAN /\ resultOn \in BOOLEAN /\ declined \in BOOLEAN
    /\ upd \in [EngineUpdates -> UpdateRecord]

(* Once the engine has been updated, and unless protection is paused, the   *)
(* settings list exactly the static filters that run: nothing is shown as   *)
(* enabled that the browser has declined, whatever it declined on the way.  *)
(* This is what one handler at a time achieves, with a single slot.         *)
QuietIsRunning ==
    (\A u \in EngineUpdates : Idle(u)) /\ ~paused => running = Configured

(* The service takes a filter out of the settings only if the browser has   *)
(* declined a configuration: "if filters from configuration are not same as *)
(* enabled filters - it means that browser declined update of the           *)
(* configuration" (rules-limits-service-mv3.ts:509-511).                   *)
TakenIsDeclined ==
    [][\A u \in EngineUpdates :
          TakeFilters(u) /\ ~(filtersOn \subseteq filtersOn') => declined]_limitsVars

(* An import that is reported as applied has left all that was imported in  *)
(* the settings; one of which a filter had to be taken is undone.  There is *)
(* one exception: after an import that was declined, the filters that still *)
(* run may be the very list of an earlier warning, which is then taken as   *)
(* the sign that nothing is wrong.                                         *)
ImportIsWhole ==
    [][\A u \in EngineUpdates :
          KeepImport(u) => \/ /\ filtersOn = upd[u].target
                              /\ groupsOn = ImportedGroups(upd[u].target)
                           \/ expected # {} /\ running = expected]_limitsVars
=============================================================================
