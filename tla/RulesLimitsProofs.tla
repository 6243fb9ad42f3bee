-------------------------- MODULE RulesLimitsProofs --------------------------
(* The limits of static rulesets, for any filters, groups and limit: what  *)
(* one handler at a time leaves in the settings, whatever the browser      *)
(* declines.  Handlers that overlap do not achieve this (TakenIsDeclined), *)
(* so those theorems are about a single slot.                              *)
EXTENDS RulesLimits, TLAPS

OneHandler == \E u \in EngineUpdates : EngineUpdates = {u}

-----------------------------------------------------------------------------
(* The records of the updates. *)

LEMMA ReadIs ==
  ASSUME NEW r \in UpdateRecord, NEW on \in SUBSET Rulesets, NEW groups, NEW off,
         NEW skip \in BOOLEAN
  PROVE  LET n == Read(r, on, groups, off, skip)
         IN /\ n \in UpdateRecord /\ n.pc = "configure" /\ n.skip = skip
            /\ n.conf = IF off THEN {} ELSE ConfiguredIn(on, groups)
            /\ n.import = r.import /\ n.target = r.target
  <1> DEFINE conf == IF off THEN {} ELSE ConfiguredIn(on, groups)
  <1>1. conf \in SUBSET Rulesets
    BY DEF ConfiguredIn
  <1>2. Read(r, on, groups, off, skip) =
          [r EXCEPT !.pc = "configure", !.skip = skip, !.conf = conf]
    BY DEF Read
  <1> HIDE DEF conf
  <1>3. /\ Read(r, on, groups, off, skip) \in UpdateRecord
        /\ Read(r, on, groups, off, skip).pc = "configure"
        /\ Read(r, on, groups, off, skip).skip = skip
        /\ Read(r, on, groups, off, skip).conf = conf
        /\ Read(r, on, groups, off, skip).import = r.import
        /\ Read(r, on, groups, off, skip).target = r.target
    BY <1>1, <1>2 DEF UpdateRecord
  <1>4. QED  BY <1>3 DEF conf

LEMMA NoUpdateIs ==
  NoUpdate \in UpdateRecord /\ NoUpdate.pc = "idle" /\ NoUpdate.import = "no"
  BY DEF NoUpdate, UpdateRecord, Settled

LEMMA AfterUpdateIs ==
  ASSUME NEW r \in UpdateRecord
  PROVE  /\ AfterUpdate(r) \in UpdateRecord
         /\ r.import = "no" => AfterUpdate(r) = NoUpdate
         /\ r.import # "no" => /\ AfterUpdate(r).pc = "verdict"
                               /\ AfterUpdate(r).import = r.import
                               /\ AfterUpdate(r).target = r.target
  <1>1. CASE r.import = "no"
    BY <1>1, NoUpdateIs DEF AfterUpdate
  <1>2. CASE r.import # "no"
    <2>1. AfterUpdate(r) = [NoUpdate EXCEPT !.pc = "verdict", !.import = r.import,
                              !.snapshot = r.snapshot, !.target = r.target]
      BY <1>2 DEF AfterUpdate
    <2>2. QED  BY <1>2, <2>1, NoUpdateIs DEF UpdateRecord
  <1>3. QED  BY <1>1, <1>2

LEMMA ConfiguredIs ==
  ASSUME NEW on, NEW groups, NEW f, NEW g
  PROVE  /\ f \in ConfiguredIn(on, groups) <=> f \in on /\ RulesetGroup[f] \in groups
         /\ ConfiguredIn(on, groups) \subseteq on
  BY DEF ConfiguredIn

\* What an import lists is configured, all of it.
LEMMA ImportedIs ==
  ASSUME NEW on \in SUBSET Rulesets
  PROVE  /\ ImportedGroups(on) \subseteq RulesetGroups
         /\ ConfiguredIn(on, ImportedGroups(on)) = on
  <1>1. ImportedGroups(on) \subseteq RulesetGroups
    BY RulesetsAssumption DEF ImportedGroups
  <1>2. QED  BY <1>1 DEF ConfiguredIn, ImportedGroups

-----------------------------------------------------------------------------
(* Types. *)

LEMMA LimitsTypesHold ==
  ASSUME LimitsTypeOK, [LimitsNext]_limitsVars
  PROVE  LimitsTypeOK'
  <1>0. /\ filtersOn \in SUBSET Rulesets /\ groupsOn \in SUBSET RulesetGroups
        /\ touched \in SUBSET RulesetGroups /\ groupsOn \subseteq touched
        /\ expected \in SUBSET Rulesets /\ running \in SUBSET Rulesets
        /\ paused \in BOOLEAN /\ resultOn \in BOOLEAN /\ declined \in BOOLEAN
        /\ upd \in [EngineUpdates -> UpdateRecord]
        /\ Configured \in SUBSET Rulesets
    BY DEF LimitsTypeOK, Configured, ConfiguredIn
  <1>1. CASE UNCHANGED limitsVars
    BY <1>1 DEF limitsVars, LimitsTypeOK
  <1>2. ASSUME NEW u \in EngineUpdates, NEW r \in UpdateRecord,
               upd' = [upd EXCEPT ![u] = r]
        PROVE  upd' \in [EngineUpdates -> UpdateRecord]
    BY <1>0, <1>2
  <1>3. ASSUME NEW u \in EngineUpdates, NEW on \in SUBSET Rulesets, NEW groups, NEW off,
               NEW skip \in BOOLEAN, Begin(u, on, groups, off, skip)
        PROVE  upd' \in [EngineUpdates -> UpdateRecord]
    <2>1. upd' = [upd EXCEPT ![u] = Read(upd[u], on, groups, off, skip)]
      BY <1>0, <1>3 DEF Begin
    <2>2. Read(upd[u], on, groups, off, skip) \in UpdateRecord
      BY <1>0, ReadIs
    <2>3. QED  BY <1>2, <2>1, <2>2
  <1>4. ASSUME NEW u \in EngineUpdates, Configure(u)
        PROVE  LimitsTypeOK'
    <2>1. upd[u] \in UpdateRecord /\ upd[u].conf \in SUBSET Rulesets
      BY <1>0 DEF UpdateRecord
    <2>2. [upd[u] EXCEPT !.pc = "check"] \in UpdateRecord
      BY <2>1 DEF UpdateRecord
    <2>3. upd' \in [EngineUpdates -> UpdateRecord]
      BY <1>0, <1>2, <1>4, <2>1, <2>2, AfterUpdateIs DEF Configure
    <2>4. QED  BY <1>0, <1>4, <2>1, <2>3 DEF Configure, LimitsTypeOK
  <1>5. ASSUME NEW u \in EngineUpdates, CheckLimits(u)
        PROVE  LimitsTypeOK'
    <2> DEFINE ex == Exceeded(paused, expected, Configured, running)
    <2>1. upd[u] \in UpdateRecord /\ ex \in BOOLEAN
      BY <1>0 DEF Exceeded
    <2>2. upd' = [upd EXCEPT ![u] = [upd[u] EXCEPT !.pc = "compare", !.list = Configured,
                                                   !.broken = ex]]
      BY <1>0, <1>5 DEF CheckLimits
    <2> HIDE DEF ex
    <2>3. [upd[u] EXCEPT !.pc = "compare", !.list = Configured, !.broken = ex] \in UpdateRecord
      BY <1>0, <2>1 DEF UpdateRecord
    <2>4. upd' \in [EngineUpdates -> UpdateRecord]
      BY <1>2, <2>2, <2>3
    <2>5. QED  BY <1>0, <1>5, <2>4 DEF CheckLimits, LimitsTypeOK
  <1>6. ASSUME NEW u \in EngineUpdates, Compare(u)
        PROVE  LimitsTypeOK'
    <2>1. upd[u] \in UpdateRecord /\ AfterUpdate(upd[u]) \in UpdateRecord
      BY <1>0, AfterUpdateIs
    <2>2. [upd[u] EXCEPT !.pc = "take", !.list = Configured] \in UpdateRecord
      BY <1>0, <2>1 DEF UpdateRecord
    <2>3. \/ upd' = [upd EXCEPT ![u] = [upd[u] EXCEPT !.pc = "take", !.list = Configured]]
          \/ upd' = [upd EXCEPT ![u] = AfterUpdate(upd[u])]
      BY <1>0, <1>6 DEF Compare
    <2>4. upd' \in [EngineUpdates -> UpdateRecord]
      BY <1>2, <2>1, <2>2, <2>3
    <2>5. expected' \in SUBSET Rulesets
      BY <1>0, <1>6 DEF Compare
    <2>6. QED  BY <1>0, <1>6, <2>4, <2>5 DEF Compare, LimitsTypeOK
  <1>7. ASSUME NEW u \in EngineUpdates, RememberFilters(u)
        PROVE  LimitsTypeOK'
    <2>1. upd[u] \in UpdateRecord /\ upd[u].list \in SUBSET Rulesets
      BY <1>0 DEF UpdateRecord
    <2>2. upd' = [upd EXCEPT ![u] = [upd[u] EXCEPT !.pc = "store", !.conf = running]]
      BY <1>0, <1>7 DEF RememberFilters
    <2>3. [upd[u] EXCEPT !.pc = "store", !.conf = running] \in UpdateRecord
      BY <1>0, <2>1 DEF UpdateRecord
    <2>4. upd' \in [EngineUpdates -> UpdateRecord]
      BY <1>2, <2>2, <2>3
    <2>5. QED  BY <1>0, <1>7, <2>1, <2>4 DEF RememberFilters, Remembered, LimitsTypeOK
  <1>8. ASSUME NEW u \in EngineUpdates, TakeFilters(u)
        PROVE  LimitsTypeOK'
    <2>1. upd[u].conf \in SUBSET Rulesets
      BY <1>0 DEF UpdateRecord
    <2>2. filtersOn' \in SUBSET Rulesets
      BY <1>0, <1>8, <2>1 DEF TakeFilters
    <2>3. upd' \in [EngineUpdates -> UpdateRecord]
      BY <1>3, <1>8, <2>2 DEF TakeFilters
    <2>4. QED  BY <1>0, <1>8, <2>2, <2>3 DEF TakeFilters, LimitsTypeOK
  <1>9. ASSUME NEW u \in EngineUpdates, KeepImport(u)
        PROVE  LimitsTypeOK'
    BY <1>0, <1>2, <1>9, NoUpdateIs DEF KeepImport, LimitsTypeOK
  <1>10. ASSUME NEW u \in EngineUpdates, UndoImport(u)
         PROVE  LimitsTypeOK'
    <2>1. upd[u].snapshot.on \in SUBSET Rulesets /\ upd[u].snapshot.groups \in SUBSET RulesetGroups
      BY <1>0 DEF UpdateRecord, Settled
    <2>2. filtersOn' \in SUBSET Rulesets /\ groupsOn' \in SUBSET RulesetGroups
      BY <1>10, <2>1 DEF UndoImport
    <2>3. Read(NoUpdate, filtersOn', groupsOn', paused', FALSE) \in UpdateRecord
      BY <2>2, NoUpdateIs, ReadIs
    <2>4. upd' \in [EngineUpdates -> UpdateRecord]
      BY <1>2, <1>10, <2>3 DEF UndoImport
    <2>5. QED  BY <1>0, <1>10, <2>2, <2>4 DEF UndoImport, LimitsTypeOK
  <1>11. ASSUME NEW u \in EngineUpdates, ClearWarning(u)
         PROVE  LimitsTypeOK'
    BY <1>0, <1>11 DEF ClearWarning, LimitsTypeOK
  <1>12. ASSUME NEW u \in EngineUpdates, NEW f \in Rulesets,
                EnableRuleset(u, f) \/ DisableRuleset(u, f)
         PROVE  LimitsTypeOK'
    <2>1. /\ filtersOn' \in SUBSET Rulesets
          /\ groupsOn' \subseteq touched' /\ touched' \subseteq RulesetGroups
      BY <1>0, <1>12, RulesetsAssumption DEF EnableRuleset, DisableRuleset
    <2>2. upd' \in [EngineUpdates -> UpdateRecord]
      BY <1>0, <1>3, <1>12, <2>1 DEF EnableRuleset, DisableRuleset
    <2>3. QED  BY <1>0, <1>12, <2>1, <2>2 DEF EnableRuleset, DisableRuleset, LimitsTypeOK
  <1>13. ASSUME NEW u \in EngineUpdates, NEW g \in RulesetGroups,
                EnableGroup(u, g) \/ DisableGroup(u, g)
         PROVE  LimitsTypeOK'
    <2>1. /\ filtersOn' \in SUBSET Rulesets
          /\ groupsOn' \subseteq touched' /\ touched' \subseteq RulesetGroups
      BY <1>0, <1>13, RulesetsAssumption DEF EnableGroup, DisableGroup, WithGroup
    <2>2. upd' \in [EngineUpdates -> UpdateRecord]
      BY <1>0, <1>3, <1>13, <2>1 DEF EnableGroup, DisableGroup
    <2>3. QED  BY <1>0, <1>13, <2>1, <2>2 DEF EnableGroup, DisableGroup, LimitsTypeOK
  <1>14. ASSUME NEW u \in EngineUpdates, PauseOrResume(u)
         PROVE  LimitsTypeOK'
    BY <1>0, <1>3, <1>14 DEF PauseOrResume, SkipCheck, LimitsTypeOK
  <1>15. ASSUME NEW u \in EngineUpdates, RestoreFilters(u)
         PROVE  LimitsTypeOK'
    <2>1. filtersOn' \in SUBSET Rulesets
      BY <1>0, <1>15 DEF RestoreFilters
    <2>2. QED  BY <1>0, <1>3, <1>15, <2>1 DEF RestoreFilters, LimitsTypeOK
  <1>16. ASSUME NEW u \in EngineUpdates, UpdateOther(u)
         PROVE  LimitsTypeOK'
    BY <1>0, <1>3, <1>16 DEF UpdateOther, LimitsTypeOK
  <1>17. ASSUME NEW u \in EngineUpdates, RestartWorker(u)
         PROVE  LimitsTypeOK'
    <2>1. Read(NoUpdate, filtersOn, groupsOn, paused, FALSE) \in UpdateRecord
      BY <1>0, NoUpdateIs, ReadIs
    <2>2. QED  BY <1>0, <1>17, <2>1, NoUpdateIs DEF RestartWorker, LimitsTypeOK
  <1>18. ASSUME NEW u \in EngineUpdates, NEW on \in SUBSET Rulesets, NEW success \in BOOLEAN,
                ApplyImport(u, on, success)
         PROVE  LimitsTypeOK'
    <2> DEFINE r == [upd[u] EXCEPT !.import = IF success THEN "applied" ELSE "failed",
                                   !.snapshot = [on |-> filtersOn, groups |-> groupsOn],
                                   !.target = on]
    <2>1. filtersOn' \in SUBSET Rulesets /\ groupsOn' \in SUBSET RulesetGroups
      BY <1>18, ImportedIs DEF ApplyImport
    <2>2. r \in UpdateRecord
      <3>1. upd[u] \in UpdateRecord /\ [on |-> filtersOn, groups |-> groupsOn] \in Settled
        BY <1>0 DEF Settled
      <3>2. (IF success THEN "applied" ELSE "failed") \in {"no", "applied", "failed"}
        OBVIOUS
      <3>3. QED  BY <3>1, <3>2 DEF UpdateRecord
    <2>3. upd' = [upd EXCEPT ![u] = Read(r, filtersOn', groupsOn', paused', FALSE)]
      BY <1>0, <1>18 DEF ApplyImport
    <2> HIDE DEF r
    <2>4. upd' \in [EngineUpdates -> UpdateRecord]
      BY <1>2, <2>1, <2>2, <2>3, ReadIs
    <2>5. QED  BY <1>0, <1>18, <2>1, <2>4 DEF ApplyImport, LimitsTypeOK
  <1>19. QED
    BY <1>1, <1>4, <1>5, <1>6, <1>7, <1>8, <1>9, <1>10, <1>11, <1>12, <1>13, <1>14, <1>15,
       <1>16, <1>17, <1>18
    DEF LimitsNext, UpdateStep

-----------------------------------------------------------------------------
(* One handler at a time. *)

\* What an update in progress knows: the configuration on its way is that of
\* the settings; without a check, the browser cannot decline it, because it all
\* runs already; not broken, or nothing left to do, means that all of it runs.
UpdateKnows(u) ==
    /\ Idle(u) /\ ~paused => running = Configured
    /\ upd[u].pc = "configure" /\ ~paused =>
          /\ upd[u].conf = Configured
          /\ upd[u].skip => Configured \subseteq running
    /\ upd[u].pc = "compare" /\ ~upd[u].broken /\ ~paused => running = Configured
    /\ upd[u].pc \in {"take", "store"} => upd[u].list = Configured
    /\ upd[u].pc = "store" => upd[u].conf = running

\* All of an import is in the settings until some of it is taken, and then the
\* list of the warning is not empty.
ImportKnows(u) ==
    /\ Idle(u) => upd[u].import = "no"
    /\ upd[u].import = "applied" =>
          /\ ~paused /\ groupsOn = ImportedGroups(upd[u].target)
          /\ filtersOn = upd[u].target \/ (upd[u].pc \in {"configure", "verdict"} /\ expected # {})
          /\ upd[u].pc = "configure" /\ ~upd[u].skip => filtersOn = upd[u].target
          /\ upd[u].pc \in {"check", "compare", "take"} =>
                running = upd[u].target \/ ~(upd[u].target \subseteq running)
          /\ upd[u].pc = "store" => expected # {} \/ (upd[u].target = {} /\ running = {})

LimitsInv == LimitsTypeOK /\ \A u \in EngineUpdates : UpdateKnows(u) /\ ImportKnows(u)

LEMMA LimitsInvNext ==
  ASSUME OneHandler
  PROVE  LimitsInv /\ [LimitsNext]_limitsVars => LimitsInv'
  <1> SUFFICES ASSUME LimitsInv, [LimitsNext]_limitsVars PROVE LimitsInv'
    OBVIOUS
  <1>0. LimitsTypeOK /\ LimitsTypeOK'
    BY LimitsTypesHold DEF LimitsInv
  <1> SUFFICES ASSUME NEW u \in EngineUpdates
               PROVE  UpdateKnows(u)' /\ ImportKnows(u)'
    BY <1>0 DEF LimitsInv
  <1> DEFINE old == upd[u]
             new == upd'[u]
             T == old.target
  <1>a. /\ filtersOn \in SUBSET Rulesets /\ groupsOn \in SUBSET RulesetGroups
        /\ filtersOn' \in SUBSET Rulesets /\ groupsOn' \in SUBSET RulesetGroups
        /\ expected \in SUBSET Rulesets /\ running \in SUBSET Rulesets
        /\ paused \in BOOLEAN /\ upd \in [EngineUpdates -> UpdateRecord]
        /\ old \in UpdateRecord /\ new \in UpdateRecord
    BY <1>0 DEF LimitsTypeOK
  <1>b. \A v \in EngineUpdates : v = u
    BY DEF OneHandler
  <1>c. /\ old.pc = "idle" /\ ~paused => running = Configured
        /\ old.pc = "configure" /\ ~paused =>
              old.conf = Configured /\ (old.skip => Configured \subseteq running)
        /\ old.pc = "compare" /\ ~old.broken /\ ~paused => running = Configured
        /\ old.pc \in {"take", "store"} => old.list = Configured
        /\ old.pc = "store" => old.conf = running
    BY DEF LimitsInv, UpdateKnows, Idle
  <1>d. /\ old.pc = "idle" => old.import = "no"
        /\ old.import = "applied" =>
              /\ ~paused /\ groupsOn = ImportedGroups(T)
              /\ filtersOn = T \/ (old.pc \in {"configure", "verdict"} /\ expected # {})
              /\ old.pc = "configure" /\ ~old.skip => filtersOn = T
              /\ old.pc \in {"check", "compare", "take"} =>
                    running = T \/ ~(T \subseteq running)
              /\ old.pc = "store" => expected # {} \/ (T = {} /\ running = {})
    BY DEF LimitsInv, ImportKnows, Idle
  <1>e. /\ T \in SUBSET Rulesets /\ old.conf \in SUBSET Rulesets
        /\ old.skip \in BOOLEAN /\ old.broken \in BOOLEAN
        /\ old.import \in {"no", "applied", "failed"}
        /\ old.pc \in {"idle", "configure", "check", "compare", "take", "store", "verdict"}
    BY <1>a DEF UpdateRecord
  \* All of an import that is in the settings is configured.
  <1>f. old.import = "applied" /\ filtersOn = T => Configured = T
    BY <1>d, <1>e, ImportedIs DEF Configured
  <1> HIDE DEF old, new, T
  <1>1. CASE UNCHANGED limitsVars
    BY <1>1, <1>c, <1>d
    DEF limitsVars, UpdateKnows, ImportKnows, Idle, Configured, old, new, T
  \* A step that begins an update: the configuration is read from the settings.
  <1>2. ASSUME new.pc = "configure", UNCHANGED running, new.import # "applied",
               ~paused' => new.conf = ConfiguredIn(filtersOn', groupsOn'),
               new.skip => paused' \/ ConfiguredIn(filtersOn', groupsOn') \subseteq running
        PROVE  UpdateKnows(u)' /\ ImportKnows(u)'
    BY <1>2 DEF UpdateKnows, ImportKnows, Idle, Configured, new
  <1>3. ASSUME NEW skip \in BOOLEAN, Begin(u, filtersOn', groupsOn', paused', skip)
        PROVE  /\ new.pc = "configure" /\ new.skip = skip
               /\ new.import = old.import /\ new.target = T
               /\ ~paused' => new.conf = ConfiguredIn(filtersOn', groupsOn')
    <2>1. new = Read(old, filtersOn', groupsOn', paused', skip)
      BY <1>3, <1>a DEF Begin, old, new
    <2>2. QED  BY <1>a, <2>1, ReadIs DEF T
  <1>4. CASE Configure(u)
    <2>1. /\ old.pc = "configure"
          /\ running' = old.conf \/ (~(old.conf \subseteq running) /\ UNCHANGED running)
          /\ upd' = [upd EXCEPT ![u] = IF old.skip THEN AfterUpdate(old)
                                       ELSE [old EXCEPT !.pc = "check"]]
          /\ UNCHANGED <<filtersOn, groupsOn, paused, expected>>
      BY <1>4 DEF Configure, old
    <2>2. Configured' = Configured
      BY <2>1 DEF Configured
    <2>3. CASE old.skip
      <3>1. new = AfterUpdate(old)
        BY <1>a, <2>1, <2>3 DEF new
      <3>2. ~paused => running' = Configured
        BY <1>c, <2>1, <2>3
      <3>3. CASE old.import = "no"
        <4>1. new.pc = "idle" /\ new.import = "no"
          BY <1>a, <3>1, <3>3, AfterUpdateIs, NoUpdateIs
        <4>2. QED
          BY <2>1, <2>2, <3>2, <4>1 DEF UpdateKnows, ImportKnows, Idle, new
      <3>4. CASE old.import # "no"
        <4>1. new.pc = "verdict" /\ new.import = old.import /\ new.target = T
          BY <1>a, <3>1, <3>4, AfterUpdateIs DEF T
        <4>2. QED
          BY <1>d, <2>1, <4>1 DEF UpdateKnows, ImportKnows, Idle, new
      <3>5. QED  BY <3>3, <3>4
    <2>4. CASE ~old.skip
      <3>1. new.pc = "check" /\ new.import = old.import /\ new.target = T
        BY <1>a, <2>1, <2>4 DEF new, UpdateRecord, T
      <3>2. old.import = "applied" => filtersOn = T /\ old.conf = T
        BY <1>c, <1>d, <1>f, <2>1, <2>4
      <3>3. QED
        BY <1>d, <2>1, <3>1, <3>2 DEF UpdateKnows, ImportKnows, Idle, new
    <2>5. QED  BY <2>3, <2>4
  <1>5. CASE CheckLimits(u)
    <2> DEFINE ex == Exceeded(paused, expected, Configured, running)
    <2>1. /\ old.pc = "check"
          /\ new = [old EXCEPT !.pc = "compare", !.list = Configured, !.broken = ex]
          /\ UNCHANGED <<filtersOn, groupsOn, paused, expected, running>>
      BY <1>5, <1>a DEF CheckLimits, old, new
    <2>2. ~ex /\ ~paused => running = Configured
      BY DEF Exceeded
    <2>3. ex \in BOOLEAN
      BY <1>a DEF Exceeded
    <2> HIDE DEF ex
    <2>4. new.pc = "compare" /\ new.broken = ex /\ new.import = old.import /\ new.target = T
      BY <1>a, <2>1, <2>3 DEF UpdateRecord, T
    <2>5. QED
      BY <1>d, <2>1, <2>2, <2>4 DEF UpdateKnows, ImportKnows, Idle, Configured, new
  <1>6. CASE Compare(u)
    <2>1. old.pc = "compare" /\ UNCHANGED <<filtersOn, groupsOn, paused, running>>
      BY <1>6 DEF Compare, old
    <2>2. CASE old.broken
      <3>1. new = [old EXCEPT !.pc = "take", !.list = Configured] /\ UNCHANGED expected
        BY <1>6, <1>a, <2>2 DEF Compare, old, new
      <3>2. new.pc = "take" /\ new.list = Configured /\ new.import = old.import /\ new.target = T
        BY <1>a, <3>1 DEF UpdateRecord, T
      <3>3. QED
        BY <1>d, <2>1, <3>1, <3>2 DEF UpdateKnows, ImportKnows, Idle, Configured, new
    <2>3. CASE ~old.broken
      <3>1. new = AfterUpdate(old)
        BY <1>6, <1>a, <2>3 DEF Compare, old, new
      <3>2. ~paused => running = Configured
        BY <1>c, <2>1, <2>3
      <3>3. CASE old.import = "no"
        <4>1. new.pc = "idle" /\ new.import = "no"
          BY <1>a, <3>1, <3>3, AfterUpdateIs, NoUpdateIs
        <4>2. QED
          BY <2>1, <3>2, <4>1 DEF UpdateKnows, ImportKnows, Idle, Configured, new
      <3>4. CASE old.import # "no"
        <4>1. new.pc = "verdict" /\ new.import = old.import /\ new.target = T
          BY <1>a, <3>1, <3>4, AfterUpdateIs DEF T
        <4>2. QED
          BY <1>d, <2>1, <4>1 DEF UpdateKnows, ImportKnows, Idle, new
      <3>5. QED  BY <3>3, <3>4
    <2>4. QED  BY <1>e, <2>2, <2>3
  <1>7. CASE RememberFilters(u)
    <2>1. /\ old.pc = "take" /\ expected' = Remembered(expected, old.list)
          /\ new = [old EXCEPT !.pc = "store", !.conf = running]
          /\ UNCHANGED <<filtersOn, groupsOn, paused, running>>
      BY <1>7, <1>a DEF RememberFilters, old, new
    <2>2. /\ new.pc = "store" /\ new.conf = running /\ new.list = old.list
          /\ new.import = old.import /\ new.target = T
      BY <1>a, <2>1 DEF UpdateRecord, T
    <2>3. old.list = Configured
      BY <1>c, <2>1
    <2>4. old.import = "applied" => filtersOn = T /\ (expected' # {} \/ (T = {} /\ running = {}))
      <3>1. SUFFICES ASSUME old.import = "applied", expected' = {}
                     PROVE  filtersOn = T /\ T = {} /\ running = {}
        BY <1>d, <2>1
      <3>2. filtersOn = T /\ (running = T \/ ~(T \subseteq running))
        BY <1>d, <2>1, <3>1
      <3>3. T = {}
        BY <1>f, <2>1, <2>3, <3>1, <3>2 DEF Remembered
      <3>4. QED  BY <3>2, <3>3
    <2>5. QED
      BY <1>d, <2>1, <2>2, <2>3, <2>4 DEF UpdateKnows, ImportKnows, Idle, Configured, new
  <1>8. CASE TakeFilters(u)
    <2>1. /\ old.pc = "store"
          /\ filtersOn' = (filtersOn \union old.conf) \ (old.list \ old.conf)
          /\ Begin(u, filtersOn', groupsOn', paused', TRUE)
          /\ UNCHANGED <<groupsOn, paused, expected, running>>
      BY <1>8 DEF TakeFilters, Begin, old
    <2>2. /\ new.pc = "configure" /\ new.skip /\ new.import = old.import /\ new.target = T
          /\ ~paused' => new.conf = ConfiguredIn(filtersOn', groupsOn')
      BY <1>3, <2>1
    <2>3. old.list = Configured /\ old.conf = running
      BY <1>c, <2>1
    <2>4. ConfiguredIn(filtersOn', groupsOn') \subseteq running
      BY <2>1, <2>3 DEF ConfiguredIn, Configured
    <2>5. old.import = "applied" => filtersOn' = T \/ expected # {}
      BY <1>d, <2>1, <2>3
    <2>6. QED
      BY <1>d, <2>1, <2>2, <2>4, <2>5 DEF UpdateKnows, ImportKnows, Idle, Configured, new
  <1>9. CASE KeepImport(u)
    <2>1. /\ old.pc = "verdict" /\ old.import = "applied" /\ new = NoUpdate
          /\ ~Exceeded(paused, expected, Configured, running)
          /\ UNCHANGED <<filtersOn, groupsOn, paused, expected, running>>
      BY <1>9, <1>a DEF KeepImport, LimitsExceeded, old, new
    <2>2. ~paused /\ running = Configured
      BY <1>d, <2>1 DEF Exceeded
    <2>3. QED
      BY <2>1, <2>2, NoUpdateIs DEF UpdateKnows, ImportKnows, Idle, Configured, new
  <1>10. CASE UndoImport(u)
    <2> DEFINE skip == FALSE
    <2>1. new = Read(NoUpdate, filtersOn', groupsOn', paused', skip) /\ UNCHANGED running
          /\ skip \in BOOLEAN /\ ~skip
      BY <1>10, <1>a DEF UndoImport, new
    <2> HIDE DEF skip
    <2>2. /\ new.pc = "configure" /\ ~new.skip /\ new.import = "no"
          /\ ~paused' => new.conf = ConfiguredIn(filtersOn', groupsOn')
      BY <1>a, <2>1, ReadIs, NoUpdateIs
    <2>3. QED  BY <1>2, <2>1, <2>2
  <1>11. CASE ClearWarning(u)
    <2>1. old.pc = "idle" /\ UNCHANGED <<filtersOn, groupsOn, paused, running, upd>>
      BY <1>11 DEF ClearWarning, Idle, old
    <2>2. QED
      BY <1>c, <1>d, <2>1 DEF UpdateKnows, ImportKnows, Idle, Configured, old, new, T
  \* What the user does, and the update it begins.
  <1>12. ASSUME old.pc = "idle", NEW skip \in BOOLEAN, skip => paused', UNCHANGED running,
                Begin(u, filtersOn', groupsOn', paused', skip)
         PROVE  UpdateKnows(u)' /\ ImportKnows(u)'
    <2>1. /\ new.pc = "configure" /\ new.skip = skip /\ new.import = "no"
          /\ ~paused' => new.conf = ConfiguredIn(filtersOn', groupsOn')
      BY <1>3, <1>12, <1>d
    <2>2. QED  BY <1>2, <1>12, <2>1
  \* A filter of a group that is off changes no configuration.
  <1>13. ASSUME old.pc = "idle", ConfiguredIn(filtersOn', groupsOn) = Configured,
                UNCHANGED <<groupsOn, paused, running, upd>>
         PROVE  UpdateKnows(u)' /\ ImportKnows(u)'
    BY <1>13, <1>c, <1>d DEF UpdateKnows, ImportKnows, Idle, Configured, old, new, T
  <1>14. ASSUME NEW f \in Rulesets, EnableRuleset(u, f) \/ DisableRuleset(u, f)
         PROVE  UpdateKnows(u)' /\ ImportKnows(u)'
    <2>1. /\ old.pc = "idle" /\ UNCHANGED <<paused, running>>
          /\ filtersOn' = filtersOn \union {f} \/ filtersOn' = filtersOn \ {f}
          /\ groupsOn' = groupsOn \/ groupsOn' = groupsOn \union {RulesetGroup[f]}
      BY <1>14 DEF EnableRuleset, DisableRuleset, Idle, old
    <2>2. CASE RulesetGroup[f] \in groupsOn'
      <3>1. Begin(u, filtersOn', groupsOn', paused', FALSE)
        BY <1>14, <2>1, <2>2 DEF EnableRuleset, DisableRuleset, Begin
      <3>2. QED  BY <1>12, <2>1, <3>1
    <2>3. CASE RulesetGroup[f] \notin groupsOn'
      <3>1. UNCHANGED <<groupsOn, upd>>
        BY <1>14, <2>1, <2>3 DEF EnableRuleset, DisableRuleset
      <3>2. ConfiguredIn(filtersOn', groupsOn) = Configured
        BY <2>1, <2>3 DEF Configured, ConfiguredIn
      <3>3. QED  BY <1>13, <2>1, <3>1, <3>2
    <2>4. QED  BY <2>2, <2>3
  <1>15. ASSUME NEW g \in RulesetGroups, EnableGroup(u, g) \/ DisableGroup(u, g)
         PROVE  UpdateKnows(u)' /\ ImportKnows(u)'
    BY <1>12, <1>15 DEF EnableGroup, DisableGroup, Begin, Idle, old
  <1>16. CASE PauseOrResume(u)
    <2>1. /\ old.pc = "idle" /\ paused' \in BOOLEAN /\ UNCHANGED running
          /\ Begin(u, filtersOn', groupsOn', paused', paused')
      BY <1>16, <1>a DEF PauseOrResume, SkipCheck, Begin, Idle, old
    <2>2. QED  BY <1>12, <2>1
  <1>17. CASE RestoreFilters(u) \/ UpdateOther(u)
    BY <1>12, <1>17 DEF RestoreFilters, UpdateOther, Begin, Idle, old
  <1>18. CASE RestartWorker(u)
    <2> DEFINE skip == FALSE
    <2>1. new = Read(NoUpdate, filtersOn, groupsOn, paused, skip)
          /\ UNCHANGED <<filtersOn, groupsOn, paused, running>>
          /\ skip \in BOOLEAN /\ ~skip
      BY <1>18 DEF RestartWorker, new
    <2> HIDE DEF skip
    <2>2. /\ new.pc = "configure" /\ ~new.skip /\ new.import = "no"
          /\ ~paused => new.conf = ConfiguredIn(filtersOn, groupsOn)
      BY <1>a, <2>1, ReadIs, NoUpdateIs
    <2>3. QED  BY <1>2, <2>1, <2>2
  <1>19. ASSUME NEW on \in SUBSET Rulesets, NEW success \in BOOLEAN,
                ApplyImport(u, on, success)
         PROVE  UpdateKnows(u)' /\ ImportKnows(u)'
    <2> DEFINE how == IF success THEN "applied" ELSE "failed"
               was == [on |-> filtersOn, groups |-> groupsOn]
               r == [old EXCEPT !.import = how, !.snapshot = was, !.target = on]
               skip == FALSE
    <2>1. /\ new = Read(r, filtersOn', groupsOn', paused', skip) /\ ~paused'
          /\ success => filtersOn' = on /\ groupsOn' = ImportedGroups(on)
          /\ UNCHANGED running /\ skip \in BOOLEAN /\ ~skip
      BY <1>19, <1>a DEF ApplyImport, old, new
    <2> HIDE DEF skip
    <2>2. how \in {"no", "applied", "failed"} /\ was \in Settled /\ (how = "applied" <=> success)
      BY <1>a DEF Settled
    <2> HIDE DEF how, was
    <2>3. r \in UpdateRecord /\ r.import = how /\ r.target = on
      BY <1>a, <2>2 DEF UpdateRecord
    <2> HIDE DEF r
    <2>4. /\ new.pc = "configure" /\ ~new.skip /\ new.import = how /\ new.target = on
          /\ ~paused' => new.conf = ConfiguredIn(filtersOn', groupsOn')
      BY <1>a, <2>1, <2>3, ReadIs
    <2>5. QED
      BY <2>1, <2>2, <2>4 DEF UpdateKnows, ImportKnows, Idle, Configured, new
  <1>20. QED
    BY <1>b, <1>1, <1>4, <1>5, <1>6, <1>7, <1>8, <1>9, <1>10, <1>11, <1>14, <1>15, <1>16,
       <1>17, <1>18, <1>19
    DEF LimitsNext, UpdateStep

LEMMA LimitsInvInit == LimitsInit => LimitsInv
  <1> SUFFICES ASSUME LimitsInit PROVE LimitsInv
    OBVIOUS
  <1>1. LimitsTypeOK
    BY NoUpdateIs DEF LimitsInit, LimitsTypeOK
  <1>2. ASSUME NEW u \in EngineUpdates
        PROVE  UpdateKnows(u) /\ ImportKnows(u)
    <2>1. upd[u] = NoUpdate /\ running = {} /\ Configured = {}
      BY DEF LimitsInit, Configured, ConfiguredIn
    <2>2. QED  BY <2>1, NoUpdateIs DEF UpdateKnows, ImportKnows, Idle
  <1>3. QED  BY <1>1, <1>2 DEF LimitsInv

LEMMA LimitsInvHolds ==
  ASSUME OneHandler
  PROVE  LimitsSpec => []LimitsInv
  BY LimitsInvInit, LimitsInvNext, PTL DEF LimitsSpec

-----------------------------------------------------------------------------
(* The theorems. *)

\* Every variable keeps its type, with any number of handlers at once.
THEOREM RulesLimitsTypes == LimitsSpec => []LimitsTypeOK
  <1>1. LimitsInit => LimitsTypeOK
    BY LimitsInvInit DEF LimitsInv
  <1>2. LimitsTypeOK /\ [LimitsNext]_limitsVars => LimitsTypeOK'
    BY LimitsTypesHold
  <1>3. QED  BY <1>1, <1>2, PTL DEF LimitsSpec

\* With one handler at a time the settings end up listing exactly what runs,
\* whatever the browser declines and whenever the worker is restarted.
THEOREM SettingsListWhatRuns == OneHandler => (LimitsSpec => []QuietIsRunning)
  <1> SUFFICES ASSUME OneHandler PROVE LimitsSpec => []QuietIsRunning
    OBVIOUS
  <1>1. LimitsInv => QuietIsRunning
    BY DEF OneHandler, LimitsInv, UpdateKnows, QuietIsRunning
  <1>2. QED  BY <1>1, LimitsInvHolds, PTL

\* With one handler at a time an import is kept only as a whole, but for the
\* one exception ImportIsWhole names.
THEOREM ImportsAreKeptWhole == OneHandler => (LimitsSpec => ImportIsWhole)
  <1> SUFFICES ASSUME OneHandler PROVE LimitsSpec => ImportIsWhole
    OBVIOUS
  <1>1. ASSUME LimitsInv, NEW u \in EngineUpdates, KeepImport(u)
        PROVE  \/ filtersOn = upd[u].target /\ groupsOn = ImportedGroups(upd[u].target)
               \/ expected # {} /\ running = expected
    <2>1. ImportKnows(u)
      BY <1>1 DEF LimitsInv
    <2>2. QED  BY <1>1, <2>1 DEF ImportKnows, KeepImport, LimitsExceeded, Exceeded
  <1>2. LimitsInv /\ [LimitsNext]_limitsVars =>
          [\A u \in EngineUpdates :
             KeepImport(u) => \/ /\ filtersOn = upd[u].target
                                 /\ groupsOn = ImportedGroups(upd[u].target)
                              \/ expected # {} /\ running = expected]_limitsVars
    BY <1>1
  <1>3. QED  BY <1>2, LimitsInvHolds, PTL DEF ImportIsWhole, LimitsSpec
=============================================================================
