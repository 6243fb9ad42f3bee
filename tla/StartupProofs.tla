---------------------------- MODULE StartupProofs ----------------------------
(* Starts, stops, updates and migrations, for any number of versions and    *)
(* any schemas: what each order of writes buys.                            *)
EXTENDS Startup, TLAPS

\* What can be left of a start: of an installation, before and after the
\* settings are written; of an update, before and after its versions are; and
\* of any start in the end.
DefaultsNext == <<"defaults", "settings", "stale", "filters", "record">>
Installing == {<<"schema", "defaults", "settings", "stale", "filters", "record">>, DefaultsNext}
Installed == {<<"settings", "stale", "filters", "record">>,
              <<"stale", "filters", "record">>, <<"filters", "record">>, <<"record">>}
UpdateNext == <<"schema", "record", "migrate", "settings", "stale">>
RecordNext == <<"record", "migrate", "settings", "stale">>
Updating == {UpdateNext, RecordNext}
Migrating == {<<"migrate", "settings", "stale">>}
Starting == {<<"settings", "stale">>, <<"stale">>, <<>>}
\* ... and the stored offer has been looked at.
PastStale == {<<"filters", "record">>, <<"record">>, <<>>}
AllTodo == Installing \union Installed \union Updating \union Migrating \union Starting

TodoOK ==
    /\ todo \in AllTodo
    /\ ~up => todo = <<>>
    /\ up /\ appVersion = 0 => todo \in Installing \union Installed
    /\ up /\ appVersion # 0 => todo \in Updating \union Migrating \union Starting
    /\ up /\ appVersion # 0 /\ todo \notin Updating => appVersion = version
    /\ appVersion # 0 \/ todo = <<"record">> => filtersReady

LEMMA Forms ==
  ASSUME NEW t \in AllTodo, t # <<>>
  PROVE  /\ Tail(t) \in AllTodo
         /\ Head(t) # "filters" => Tail(t) # <<"record">>
         /\ t \in PastStale => Head(t) \in {"filters", "record"} /\ Tail(t) \in PastStale
         /\ t \notin PastStale => (Head(t) = "stale" <=> Tail(t) \in PastStale)
         /\ Head(t) = "schema" => \/ t \in Installing /\ Tail(t) = DefaultsNext
                                  \/ t = UpdateNext /\ Tail(t) = RecordNext
         /\ Head(t) = "defaults" => t = DefaultsNext /\ Tail(t) \in Installed
         /\ Head(t) = "settings" => \/ t \in Installed /\ Tail(t) \in Installed
                                    \/ t \in Starting /\ Tail(t) \in Starting
         /\ Head(t) = "stale" => \/ t \in Installed /\ Tail(t) \in Installed
                                 \/ t \in Starting /\ Tail(t) \in Starting
         /\ Head(t) = "filters" => t \in Installed /\ Tail(t) = <<"record">>
         /\ Head(t) = "record" => \/ t = <<"record">> /\ Tail(t) = <<>>
                                  \/ t = RecordNext /\ Tail(t) \in Migrating
         /\ Head(t) = "migrate" => t \in Migrating /\ Tail(t) \in Starting
  <1>0. t \in {<<"schema", "defaults", "settings", "stale", "filters", "record">>,
              <<"defaults", "settings", "stale", "filters", "record">>,
              <<"settings", "stale", "filters", "record">>,
              <<"stale", "filters", "record">>,
              <<"filters", "record">>,
              <<"record">>,
              <<"schema", "record", "migrate", "settings", "stale">>,
              <<"record", "migrate", "settings", "stale">>,
              <<"migrate", "settings", "stale">>,
              <<"settings", "stale">>,
              <<"stale">>}
    BY DEF AllTodo, Installing, DefaultsNext, Installed, Updating, UpdateNext,
           RecordNext, Migrating, Starting, PastStale
  <1>1. CASE t = <<"schema", "defaults", "settings", "stale", "filters", "record">>
    <2>1. Head(t) = "schema" /\ Tail(t) = <<"defaults", "settings", "stale", "filters", "record">>  BY <1>1
    <2>2. QED  BY <1>1, <2>1 DEF AllTodo, Installing, DefaultsNext, Installed, Updating, UpdateNext,
           RecordNext, Migrating, Starting, PastStale
  <1>2. CASE t = <<"defaults", "settings", "stale", "filters", "record">>
    <2>1. Head(t) = "defaults" /\ Tail(t) = <<"settings", "stale", "filters", "record">>  BY <1>2
    <2>2. QED  BY <1>2, <2>1 DEF AllTodo, Installing, DefaultsNext, Installed, Updating, UpdateNext,
           RecordNext, Migrating, Starting, PastStale
  <1>3. CASE t = <<"settings", "stale", "filters", "record">>
    <2>1. Head(t) = "settings" /\ Tail(t) = <<"stale", "filters", "record">>  BY <1>3
    <2>2. QED  BY <1>3, <2>1 DEF AllTodo, Installing, DefaultsNext, Installed, Updating, UpdateNext,
           RecordNext, Migrating, Starting, PastStale
  <1>4. CASE t = <<"stale", "filters", "record">>
    <2>1. Head(t) = "stale" /\ Tail(t) = <<"filters", "record">>  BY <1>4
    <2>2. QED  BY <1>4, <2>1 DEF AllTodo, Installing, DefaultsNext, Installed, Updating, UpdateNext,
           RecordNext, Migrating, Starting, PastStale
  <1>5. CASE t = <<"filters", "record">>
    <2>1. Head(t) = "filters" /\ Tail(t) = <<"record">>  BY <1>5
    <2>2. QED  BY <1>5, <2>1 DEF AllTodo, Installing, DefaultsNext, Installed, Updating, UpdateNext,
           RecordNext, Migrating, Starting, PastStale
  <1>6. CASE t = <<"record">>
    <2>1. Head(t) = "record" /\ Tail(t) = <<>>  BY <1>6
    <2>2. QED  BY <1>6, <2>1 DEF AllTodo, Installing, DefaultsNext, Installed, Updating, UpdateNext,
           RecordNext, Migrating, Starting, PastStale
  <1>7. CASE t = <<"schema", "record", "migrate", "settings", "stale">>
    <2>1. Head(t) = "schema" /\ Tail(t) = <<"record", "migrate", "settings", "stale">>  BY <1>7
    <2>2. QED  BY <1>7, <2>1 DEF AllTodo, Installing, DefaultsNext, Installed, Updating, UpdateNext,
           RecordNext, Migrating, Starting, PastStale
  <1>8. CASE t = <<"record", "migrate", "settings", "stale">>
    <2>1. Head(t) = "record" /\ Tail(t) = <<"migrate", "settings", "stale">>  BY <1>8
    <2>2. QED  BY <1>8, <2>1 DEF AllTodo, Installing, DefaultsNext, Installed, Updating, UpdateNext,
           RecordNext, Migrating, Starting, PastStale
  <1>9. CASE t = <<"migrate", "settings", "stale">>
    <2>1. Head(t) = "migrate" /\ Tail(t) = <<"settings", "stale">>  BY <1>9
    <2>2. QED  BY <1>9, <2>1 DEF AllTodo, Installing, DefaultsNext, Installed, Updating, UpdateNext,
           RecordNext, Migrating, Starting, PastStale
  <1>10. CASE t = <<"settings", "stale">>
    <2>1. Head(t) = "settings" /\ Tail(t) = <<"stale">>  BY <1>10
    <2>2. QED  BY <1>10, <2>1 DEF AllTodo, Installing, DefaultsNext, Installed, Updating, UpdateNext,
           RecordNext, Migrating, Starting, PastStale
  <1>11. CASE t = <<"stale">>
    <2>1. Head(t) = "stale" /\ Tail(t) = <<>>  BY <1>11
    <2>2. QED  BY <1>11, <2>1 DEF AllTodo, Installing, DefaultsNext, Installed, Updating, UpdateNext,
           RecordNext, Migrating, Starting, PastStale
  <1>12. QED  BY <1>0, <1>1, <1>2, <1>3, <1>4, <1>5, <1>6, <1>7, <1>8, <1>9, <1>10, <1>11

LEMMA Disjoint ==
  /\ Installing \intersect Installed = {}
  /\ (Installing \union Installed) \intersect (Updating \union Migrating \union Starting) = {}
  /\ Updating \intersect (Migrating \union Starting) = {}
  /\ Migrating \intersect Starting = {}
  /\ <<"record">> \in Installed /\ <<>> \in Starting
  /\ DefaultsNext \in Installing
  /\ Updating = {UpdateNext, RecordNext} /\ UpdateNext # RecordNext
  /\ AllTodo = Installing \union Installed \union Updating \union Migrating \union Starting
  BY DEF AllTodo, Installing, DefaultsNext, Installed, Updating, UpdateNext,
           RecordNext, Migrating, Starting

LEMMA TodoIsTyped ==
  AllTodo \subseteq Seq({"schema", "defaults", "settings", "stale", "filters",
                         "record", "migrate"})
  BY DEF AllTodo, Installing, DefaultsNext, Installed, Updating, UpdateNext,
           RecordNext, Migrating, Starting

\* Which duties a start has left.
LEMMA DutiesOf ==
  ASSUME NEW t \in AllTodo
  PROVE  /\ (\E i \in DOMAIN t : t[i] = "migrate") <=> t \in Updating \union Migrating
         /\ (\E i \in DOMAIN t : t[i] = "stale") <=> t \notin PastStale
  BY DEF AllTodo, Installing, DefaultsNext, Installed, Updating, UpdateNext,
           RecordNext, Migrating, Starting, PastStale

LEMMA LeftForms ==
  ASSUME TodoOK
  PROVE  /\ Left("migrate") <=> todo \in Updating \union Migrating
         /\ Left("stale") <=> todo \notin PastStale
  BY DutiesOf DEF TodoOK, Left

LEMMA DutiesForms ==
  ASSUME NEW i \in BOOLEAN, NEW u \in BOOLEAN
  PROVE  /\ i => Duties(i, u) \in Installing /\ Duties(i, u) # DefaultsNext
         /\ ~i /\ u => Duties(i, u) = UpdateNext
         /\ ~i /\ ~u => Duties(i, u) \in Starting
         /\ Duties(i, u) \in AllTodo \ PastStale
  BY DEF Duties, AllTodo, Installing, DefaultsNext, Installed, Updating, UpdateNext,
           RecordNext, Migrating, Starting, PastStale

LEMMA BootForms ==
  ASSUME Boot
  PROVE  /\ todo' \in AllTodo \ PastStale
         /\ appVersion = 0 => todo' \in Installing /\ todo' # DefaultsNext
         /\ appVersion # 0 => todo' \in {UpdateNext} \union Starting
         /\ appVersion # 0 /\ appVersion # version => todo' = UpdateNext
  <1>1. IsInstall \in BOOLEAN /\ IsUpdate \in BOOLEAN  BY DEF IsInstall, IsUpdate
  <1>2. QED  BY <1>1, DutiesForms, Disjoint DEF Boot, IsInstall, IsUpdate

LEMMA SchemaFacts ==
  /\ \A v \in Versions : v \in Nat /\ SchemaOf[v] \in Nat /\ 0..SchemaOf[v] \subseteq Schemas
  /\ Schemas \subseteq Nat
  BY StartupAssumption DEF Versions, Schemas

LEMMA DefaultIsTyped ==
  ASSUME version \in Versions
  PROVE  DefaultSettings \in [custom : BOOLEAN, ran : [Schemas -> Nat]]
  BY SchemaFacts DEF DefaultSettings, Target

-----------------------------------------------------------------------------
OrderInv == StartupTypeOK /\ TodoOK

\* What the types say of versions and schemas.
LEMMA TypeFacts ==
  ASSUME StartupTypeOK
  PROVE  /\ version \in Nat /\ published \in Nat /\ version <= published
         /\ published <= MaxVersion /\ MaxVersion \in Nat /\ published \in Versions
         /\ Target \in Nat /\ Target = SchemaOf[version] /\ 0..Target \subseteq Schemas
         /\ DefaultSettings \in [custom : BOOLEAN, ran : [Schemas -> Nat]]
         /\ SchemaOf[published] \in Nat /\ Target <= SchemaOf[published]
  <1>1. version \in Nat /\ published \in Nat /\ version <= published
        /\ published <= MaxVersion /\ MaxVersion \in Nat /\ published \in Versions
        /\ version \in Versions
    BY StartupAssumption DEF StartupTypeOK, Versions
  <1>2. SchemaOf[published] \in Nat /\ Target <= SchemaOf[published]
    BY <1>1, StartupAssumption DEF Target
  <1>3. QED  BY <1>1, <1>2, SchemaFacts, DefaultIsTyped DEF Target

LEMMA OrderInit == StartupInit => OrderInv
  <1> SUFFICES ASSUME StartupInit PROVE OrderInv  OBVIOUS
  <1>1. 1 \in Versions /\ 1 \in 1..MaxVersion /\ 0 \in 0..SchemaOf[1] /\ 0 \in 0..MaxVersion
    BY StartupAssumption, SchemaFacts DEF Versions
  <1>2. settings \in [custom : BOOLEAN, ran : [Schemas -> Nat]]
    BY <1>1, DefaultIsTyped DEF StartupInit
  <1>3. <<>> \in Seq({"schema", "defaults", "settings", "stale", "filters", "record", "migrate"})
    OBVIOUS
  <1>4. StartupTypeOK
    <2>1. version \in Versions /\ published \in version..MaxVersion
      BY <1>1, StartupAssumption DEF StartupInit
    <2>2. appVersion \in 0..version /\ schemaVersion \in 0..Target /\ migration \in 0..Target
      BY <1>1 DEF StartupInit, Target
    <2>3. {up, filtersReady, disturbed, checking} \subseteq BOOLEAN
      BY DEF StartupInit
    <2>4. QED  BY <1>1, <1>2, <1>3, <2>1, <2>2, <2>3 DEF StartupInit, StartupTypeOK
  <1>5. TodoOK
    BY DEF StartupInit, TodoOK, AllTodo, Starting
  <1>6. QED  BY <1>4, <1>5 DEF OrderInv

LEMMA OrderStep == OrderInv /\ [StartupNext]_startVars => OrderInv'
  <1> SUFFICES ASSUME OrderInv, [StartupNext]_startVars PROVE OrderInv'  OBVIOUS
  <1> USE DEF OrderInv
  <1>0. TodoOK' => todo' \in Seq({"schema", "defaults", "settings", "stale", "filters",
                                  "record", "migrate"})
    BY TodoIsTyped DEF TodoOK
  <1>1. CASE Boot
    <2>0. /\ todo' \in AllTodo
          /\ appVersion = 0 => todo' \in Installing
          /\ appVersion # 0 => todo' \in {UpdateNext} \union Starting
          /\ appVersion # 0 /\ appVersion # version => todo' = UpdateNext
      BY <1>1, BootForms
    <2>1. TodoOK'
      BY <1>1, <2>0, Disjoint DEF Boot, TodoOK
    <2>2. StartupTypeOK'
      BY <1>0, <1>1, <2>1, TypeFacts DEF Boot, StartupTypeOK, Target, Due
    <2>3. QED  BY <2>1, <2>2
  <1>2. CASE WriteSchemaVersion
    <2>1. TodoOK'
      BY <1>2, Forms, Disjoint DEF WriteSchemaVersion, TodoOK, Due
    <2>2. StartupTypeOK'
      BY <1>0, <1>2, <2>1, TypeFacts DEF WriteSchemaVersion, StartupTypeOK, Target, Due
    <2>3. QED  BY <2>1, <2>2
  <1>3. CASE WriteAppVersion
    <2>0. /\ todo' \in AllTodo /\ up' /\ filtersReady' = filtersReady
          /\ appVersion' = version /\ version' = version /\ appVersion' # 0
          /\ \/ todo = <<"record">> /\ todo' = <<>>
             \/ todo = RecordNext /\ todo' \in Migrating
      BY <1>3, Forms, TypeFacts DEF WriteAppVersion, TodoOK, Due, StartupTypeOK, Versions
    <2>1. TodoOK'
      BY <2>0, Disjoint DEF TodoOK
    <2>2. StartupTypeOK'
      BY <1>0, <1>3, <2>1, TypeFacts DEF WriteAppVersion, StartupTypeOK, Target, Due
    <2>3. QED  BY <2>1, <2>2
  <1>4. CASE InstallSettings
    <2>1. TodoOK'
      BY <1>4, Forms, Disjoint DEF InstallSettings, TodoOK, Due
    <2>2. StartupTypeOK'
      BY <1>0, <1>4, <2>1, TypeFacts DEF InstallSettings, StartupTypeOK, Target, Due
    <2>3. QED  BY <2>1, <2>2
  <1>5. CASE RunSchemaMigration
    <2>1. TodoOK'
      BY <1>5, Forms, Disjoint DEF RunSchemaMigration, TodoOK, Due
    <2>2. StartupTypeOK'
      <3>1. migration \in Schemas /\ migration + 1 \in 0..Target
        BY <1>5, TypeFacts, SMTT(40) DEF RunSchemaMigration, StartupTypeOK
      <3>2. settings' \in [custom : BOOLEAN, ran : [Schemas -> Nat]]
        BY <1>5, <3>1, SMTT(40) DEF RunSchemaMigration, StartupTypeOK
      <3>3. QED
        BY <1>0, <1>5, <2>1, <3>1, <3>2 DEF RunSchemaMigration, StartupTypeOK, Target
    <2>3. QED  BY <2>1, <2>2
  <1>6. CASE MigrationFails
    <2>1. TodoOK'
      BY <1>6, Forms, Disjoint DEF MigrationFails, TodoOK, Due
    <2>2. StartupTypeOK'
      BY <1>0, <1>6, <2>1, TypeFacts DEF MigrationFails, StartupTypeOK, Target, Due
    <2>3. QED  BY <2>1, <2>2
  <1>7. CASE EndMigrations
    <2>1. TodoOK'
      BY <1>7, Forms, Disjoint DEF EndMigrations, TodoOK, Due
    <2>2. StartupTypeOK'
      BY <1>0, <1>7, <2>1, TypeFacts DEF EndMigrations, StartupTypeOK, Target, Due
    <2>3. QED  BY <2>1, <2>2
  <1>8. CASE InitSettings
    <2>1. TodoOK'
      BY <1>8, Forms, Disjoint DEF InitSettings, TodoOK, Due
    <2>2. StartupTypeOK'
      BY <1>0, <1>8, <2>1, TypeFacts DEF InitSettings, StartupTypeOK, Target, Due
    <2>3. QED  BY <2>1, <2>2
  <1>9. CASE ClearStaleAvailableVersion
    <2>1. TodoOK'
      BY <1>9, Forms, Disjoint DEF ClearStaleAvailableVersion, TodoOK, Due
    <2>2. StartupTypeOK'
      <3>1. /\ available \in 0..MaxVersion /\ 0 \in 0..MaxVersion
            /\ refused \subseteq {"settings", "stale"}
        BY TypeFacts DEF StartupTypeOK
      <3>2. /\ available' \in {0, available}
            /\ refused' \in {refused, refused \union {"stale"}}
        BY <1>9 DEF ClearStaleAvailableVersion
      <3>3. available' \in 0..MaxVersion /\ refused' \subseteq {"settings", "stale"}
        BY <3>1, <3>2
      <3>4. QED
        BY <1>0, <1>9, <2>1, <3>3 DEF ClearStaleAvailableVersion, StartupTypeOK, Target
    <2>3. QED  BY <2>1, <2>2
  <1>10. CASE InitDefaultFilters
    <2>1. TodoOK'
      BY <1>10, Forms, Disjoint DEF InitDefaultFilters, TodoOK, Due
    <2>2. StartupTypeOK'
      BY <1>0, <1>10, <2>1, TypeFacts DEF InitDefaultFilters, StartupTypeOK, Target, Due
    <2>3. QED  BY <2>1, <2>2
  <1>11. CASE SetSetting
    <2>1. TodoOK'
      BY <1>11, Forms, Disjoint DEF SetSetting, TodoOK, Due
    <2>2. StartupTypeOK'
      BY <1>0, <1>11, <2>1, TypeFacts DEF SetSetting, StartupTypeOK, Target, Due
    <2>3. QED  BY <2>1, <2>2
  <1>12. CASE CheckUpdate
    <2>1. TodoOK'
      BY <1>12, Forms, Disjoint DEF CheckUpdate, TodoOK, Due
    <2>2. StartupTypeOK'
      BY <1>0, <1>12, <2>1, TypeFacts DEF CheckUpdate, StartupTypeOK, Target, Due
    <2>3. QED  BY <2>1, <2>2
  <1>13. CASE EndCheck
    <2>1. TodoOK'
      BY <1>13, Forms, Disjoint DEF EndCheck, TodoOK, Due
    <2>2. StartupTypeOK'
      <3>1. available' \in 0..MaxVersion
        BY <1>13, TypeFacts DEF EndCheck, StartupTypeOK
      <3>2. QED
        BY <1>0, <1>13, <2>1, <3>1 DEF EndCheck, StartupTypeOK, Target
    <2>3. QED  BY <2>1, <2>2
  <1>14. CASE Stop
    <2>1. TodoOK'
      BY <1>14, Forms, Disjoint DEF Stop, TodoOK, Due
    <2>2. StartupTypeOK'
      BY <1>0, <1>14, <2>1, TypeFacts DEF Stop, StartupTypeOK, Target, Due
    <2>3. QED  BY <2>1, <2>2
  <1>15. CASE Publish
    <2>1. TodoOK'
      BY <1>15, Forms, Disjoint DEF Publish, TodoOK, Due
    <2>2. StartupTypeOK'
      <3>1. published' \in version..MaxVersion
        BY <1>15, TypeFacts DEF Publish
      <3>2. QED
        BY <1>0, <1>15, <2>1, <3>1 DEF Publish, StartupTypeOK, Target
    <2>3. QED  BY <2>1, <2>2
  <1>16. CASE Upgrade
    <2>1. TodoOK'
      BY <1>16, Forms, Disjoint DEF Upgrade, TodoOK, Due
    <2>2. StartupTypeOK'
      <3>1. /\ version' = published /\ version' \in Versions
            /\ published' \in version'..MaxVersion /\ appVersion' \in 0..version'
        BY <1>16, TypeFacts DEF Upgrade, StartupTypeOK
      <3>2. schemaVersion' \in 0..Target' /\ migration' \in 0..Target'
        BY <1>16, TypeFacts DEF Upgrade, StartupTypeOK, Target
      <3>3. QED
        BY <1>0, <1>16, <2>1, <3>1, <3>2 DEF Upgrade, StartupTypeOK
    <2>3. QED  BY <2>1, <2>2
  <1>17. CASE UNCHANGED startVars
    BY <1>17 DEF startVars, StartupTypeOK, TodoOK, Target
  <1>18. QED
    BY <1>1, <1>2, <1>3, <1>4, <1>5, <1>6, <1>7, <1>8, <1>9, <1>10, <1>11, <1>12, <1>13, <1>14, <1>15, <1>16, <1>17 DEF StartupNext

-----------------------------------------------------------------------------
\* The schema the data has reached: what is recorded, but for migrations that
\* are still to come in this start.
Reached == IF todo \in Updating \union Migrating THEN migration ELSE schemaVersion

\* What has been run on the settings once the extension is installed, and the
\* records it rests on.
RanOK ==
    /\ \A s \in Schemas : settings.ran[s] <= 1
    /\ todo = DefaultsNext \/ todo \in Installed => schemaVersion = Target
    /\ todo \in Installed => settings.ran = DefaultSettings.ran
    /\ appVersion # 0 =>
           /\ \A s \in Schemas : s >= Reached => settings.ran[s] = 0
           /\ ~disturbed => \A s \in Schemas : s < Reached => settings.ran[s] = 1
    /\ todo = UpdateNext => migration = schemaVersion
    /\ todo = RecordNext \/ todo \in Migrating => schemaVersion = Target
    /\ appVersion = version /\ appVersion # 0 => schemaVersion = Target

LEMMA RanInit == StartupInit => RanOK
  BY Disjoint, SchemaFacts DEF StartupInit, RanOK, DefaultSettings

\* What DefaultSettings say of migrations.
LEMMA DefaultRan ==
  ASSUME StartupTypeOK
  PROVE  /\ \A s \in Schemas : DefaultSettings.ran[s] = IF s < Target THEN 1 ELSE 0
         /\ Target \in Nat /\ Schemas \subseteq Nat /\ schemaVersion \in Nat
         /\ migration \in Nat /\ version \in Nat \ {0} /\ appVersion \in Nat
         /\ settings.ran \in [Schemas -> Nat]
  BY TypeFacts, SchemaFacts DEF DefaultSettings, StartupTypeOK, Versions

LEMMA RanStep == OrderInv /\ RanOK /\ [StartupNext]_startVars => RanOK'
  <1> SUFFICES ASSUME OrderInv, RanOK, [StartupNext]_startVars PROVE RanOK'  OBVIOUS
  <1> USE DEF OrderInv
  <1>0. OrderInv'  BY OrderStep
  <1>1. CASE Boot
    <2>1. /\ todo = <<>> /\ schemaVersion' = schemaVersion /\ settings' = settings
          /\ disturbed' = disturbed /\ version' = version /\ appVersion' = appVersion
          /\ migration' = schemaVersion /\ Target' = Target
      BY <1>1 DEF Boot, TodoOK, Target
    <2>2. Reached = schemaVersion /\ Reached' = schemaVersion
      BY <2>1, Disjoint DEF Reached
    <2>3. /\ todo' # DefaultsNext /\ todo' \notin Installed
          /\ todo' # RecordNext /\ todo' \notin Migrating
      BY <1>1, BootForms, Disjoint
    <2>4. QED  BY <2>1, <2>2, <2>3 DEF RanOK
  <1>2. CASE WriteSchemaVersion
    <2>1. /\ settings' = settings /\ disturbed' = disturbed /\ version' = version
          /\ appVersion' = appVersion /\ migration' = migration /\ Target' = Target
          /\ schemaVersion' = Target
      BY <1>2 DEF WriteSchemaVersion, Target
    <2>2. \/ todo \in Installing /\ todo' = DefaultsNext /\ appVersion = 0
          \/ todo = UpdateNext /\ todo' = RecordNext /\ migration = schemaVersion
      BY <1>2, Forms, Disjoint DEF WriteSchemaVersion, Due, TodoOK, RanOK
    <2>3. /\ todo' \notin Installed /\ todo' # UpdateNext /\ todo' \notin Migrating
          /\ appVersion # 0 => Reached = migration /\ Reached' = migration
      BY <2>1, <2>2, Disjoint DEF Reached
    <2>4. QED  BY <2>1, <2>2, <2>3 DEF RanOK
  <1>3. CASE WriteAppVersion
    <2>1. /\ settings' = settings /\ disturbed' = disturbed /\ version' = version
          /\ appVersion' = version /\ migration' = migration /\ Target' = Target
          /\ schemaVersion' = schemaVersion
      BY <1>3 DEF WriteAppVersion, Target
    <2>2. \/ todo = <<"record">> /\ todo' = <<>>
          \/ todo = RecordNext /\ todo' \in Migrating /\ appVersion # 0
      BY <1>3, Forms, Disjoint DEF WriteAppVersion, Due, TodoOK
    <2>3. todo' # DefaultsNext /\ todo' \notin Installed /\ todo' # UpdateNext /\ todo' # RecordNext
      BY <2>2, Disjoint
    <2>4. schemaVersion = Target
      BY <2>2, Disjoint DEF RanOK
    <2>5. CASE todo = <<"record">> /\ todo' = <<>>
      <3>1. settings.ran = DefaultSettings.ran /\ Reached' = Target
        BY <2>1, <2>4, <2>5, Disjoint DEF RanOK, Reached
      <3>2. QED  BY <2>1, <2>3, <2>4, <2>5, <3>1, DefaultRan DEF RanOK
    <2>6. CASE todo = RecordNext /\ todo' \in Migrating /\ appVersion # 0
      <3>1. Reached = migration /\ Reached' = migration
        BY <2>1, <2>6, Disjoint DEF Reached
      <3>2. QED  BY <2>1, <2>3, <2>4, <2>6, <3>1 DEF RanOK
    <2>7. QED  BY <2>2, <2>5, <2>6
  <1>4. CASE InstallSettings
    <2>1. /\ todo = DefaultsNext /\ todo' \in Installed /\ appVersion' = 0
          /\ schemaVersion' = schemaVersion /\ version' = version
          /\ settings' = DefaultSettings
      BY <1>4, Forms, Disjoint DEF InstallSettings, Due, TodoOK
    <2>2. /\ Target' = Target /\ DefaultSettings' = DefaultSettings /\ schemaVersion = Target
      BY <2>1 DEF Target, DefaultSettings, RanOK
    <2>3. todo' # UpdateNext /\ todo' # RecordNext /\ todo' \notin Migrating
      BY <2>1, Disjoint
    <2>4. QED  BY <2>1, <2>2, <2>3, DefaultRan DEF RanOK
  <1>5. CASE RunSchemaMigration
    BY <1>0, <1>5, Forms, Disjoint, DefaultRan, SMTT(40)
    DEF RunSchemaMigration, RanOK, Reached, TodoOK, Due, Target, DefaultSettings
  <1>6. CASE MigrationFails
    <2>1. /\ todo \in Migrating /\ todo' \in Starting /\ appVersion' = appVersion
          /\ schemaVersion' = schemaVersion /\ version' = version /\ disturbed' = TRUE
          /\ settings' = DefaultSettings /\ Target' = Target /\ schemaVersion = Target
      BY <1>6, Forms, Disjoint DEF MigrationFails, Due, TodoOK, Target, RanOK
    <2>2. /\ todo' # DefaultsNext /\ todo' \notin Installed /\ todo' # UpdateNext
          /\ todo' # RecordNext /\ todo' \notin Migrating /\ Reached' = Target
      BY <2>1, Disjoint DEF Reached
    <2>3. QED  BY <2>1, <2>2, DefaultRan DEF RanOK
  <1>7. CASE EndMigrations
    <2>1. /\ todo \in Migrating /\ todo' \in Starting /\ appVersion' = appVersion
          /\ schemaVersion' = schemaVersion /\ version' = version /\ disturbed' = disturbed
          /\ settings' = settings /\ Target' = Target /\ schemaVersion = Target
          /\ migration >= Target /\ migration \in 0..Target
      BY <1>7, Forms, Disjoint DEF EndMigrations, Due, TodoOK, Target, RanOK, StartupTypeOK
    <2>2. /\ todo' # DefaultsNext /\ todo' \notin Installed /\ todo' # UpdateNext
          /\ todo' # RecordNext /\ todo' \notin Migrating
          /\ Reached = migration /\ Reached' = Target
      BY <2>1, Disjoint DEF Reached
    <2>3. Reached' = Reached
      BY <2>1, <2>2, DefaultRan
    <2>4. QED  BY <2>1, <2>2, <2>3 DEF RanOK
  <1>8. CASE InitSettings
    <2>1. /\ appVersion' = appVersion /\ schemaVersion' = schemaVersion /\ version' = version
          /\ disturbed' = disturbed /\ Target' = Target /\ DefaultSettings' = DefaultSettings
      BY <1>8 DEF InitSettings, Target, DefaultSettings
    <2>2. \/ todo \in Installed /\ todo' \in Installed
          \/ todo \in Starting /\ todo' \in Starting
      BY <1>8, Forms, Disjoint DEF InitSettings, Due, TodoOK
    <2>3. /\ todo' # DefaultsNext /\ todo' # UpdateNext /\ todo' # RecordNext
          /\ todo' \notin Migrating /\ Reached = schemaVersion /\ Reached' = schemaVersion
          /\ todo' \in Installed => schemaVersion = Target
      BY <2>1, <2>2, Disjoint DEF Reached, RanOK
    <2>4. todo \in Starting => appVersion = version /\ appVersion # 0 /\ schemaVersion = Target
      BY <1>8, Disjoint DEF InitSettings, Due, TodoOK, RanOK
    <2>5. CASE settings' = settings
      BY <2>1, <2>2, <2>3, <2>5, Disjoint DEF RanOK
    <2>6. CASE settings' = DefaultSettings
      BY <2>1, <2>2, <2>3, <2>4, <2>6, Disjoint, DefaultRan DEF RanOK
    <2>7. QED  BY <1>8, <2>5, <2>6 DEF InitSettings
  <1>9. CASE ClearStaleAvailableVersion
    <2>1. /\ appVersion' = appVersion /\ schemaVersion' = schemaVersion /\ version' = version
          /\ disturbed' = disturbed /\ Target' = Target /\ DefaultSettings' = DefaultSettings
          /\ settings' = settings
      BY <1>9 DEF ClearStaleAvailableVersion, Target, DefaultSettings
    <2>2. \/ todo \in Installed /\ todo' \in Installed
          \/ todo \in Starting /\ todo' \in Starting
      BY <1>9, Forms, Disjoint DEF ClearStaleAvailableVersion, Due, TodoOK
    <2>3. /\ todo' # DefaultsNext /\ todo' # UpdateNext /\ todo' # RecordNext
          /\ todo' \notin Migrating /\ Reached = schemaVersion /\ Reached' = schemaVersion
          /\ todo' \in Installed => schemaVersion = Target
      BY <2>1, <2>2, Disjoint DEF Reached, RanOK
    <2>4. todo' \in Installed => settings.ran = DefaultSettings.ran
      BY <2>2, Disjoint DEF RanOK
    <2>5. QED  BY <2>1, <2>3, <2>4 DEF RanOK
  <1>10. CASE InitDefaultFilters
    <2>1. /\ appVersion' = appVersion /\ schemaVersion' = schemaVersion /\ version' = version
          /\ disturbed' = disturbed /\ Target' = Target /\ DefaultSettings' = DefaultSettings
          /\ settings' = settings
      BY <1>10 DEF InitDefaultFilters, Target, DefaultSettings
    <2>2. \/ todo \in Installed /\ todo' \in Installed
          \/ todo \in Starting /\ todo' \in Starting
      BY <1>10, Forms, Disjoint DEF InitDefaultFilters, Due, TodoOK
    <2>3. /\ todo' # DefaultsNext /\ todo' # UpdateNext /\ todo' # RecordNext
          /\ todo' \notin Migrating /\ Reached = schemaVersion /\ Reached' = schemaVersion
          /\ todo' \in Installed => schemaVersion = Target
      BY <2>1, <2>2, Disjoint DEF Reached, RanOK
    <2>4. todo' \in Installed => settings.ran = DefaultSettings.ran
      BY <2>2, Disjoint DEF RanOK
    <2>5. QED  BY <2>1, <2>3, <2>4 DEF RanOK
  <1>11. CASE SetSetting
    BY <1>0, <1>11, Forms, Disjoint, DefaultRan
    DEF SetSetting, RanOK, Reached, TodoOK, Due, Target, DefaultSettings
  <1>12. CASE CheckUpdate
    BY <1>0, <1>12, Forms, Disjoint, DefaultRan
    DEF CheckUpdate, RanOK, Reached, TodoOK, Due, Target, DefaultSettings
  <1>13. CASE EndCheck
    BY <1>0, <1>13, Forms, Disjoint, DefaultRan
    DEF EndCheck, RanOK, Reached, TodoOK, Due, Target, DefaultSettings
  <1>14. CASE Stop
    <2>1. /\ appVersion' = appVersion /\ schemaVersion' = schemaVersion /\ version' = version
          /\ Target' = Target /\ settings' = settings /\ todo' = <<>>
          /\ disturbed => disturbed'
      BY <1>14 DEF Stop, Target
    <2>2. /\ todo' # DefaultsNext /\ todo' \notin Installed /\ todo' # UpdateNext
          /\ todo' # RecordNext /\ todo' \notin Migrating /\ Reached' = schemaVersion
      BY <2>1, Disjoint DEF Reached
    <2>3. CASE appVersion = 0
      BY <2>1, <2>2, <2>3, DefaultRan DEF RanOK
    <2>4. CASE appVersion # 0 /\ todo \notin {RecordNext} \union Migrating
      <3>1. Reached = schemaVersion
        BY <2>4, Disjoint DEF Reached, RanOK
      <3>2. QED  BY <2>1, <2>2, <3>1 DEF RanOK
    <2>5. CASE appVersion # 0 /\ todo \in {RecordNext} \union Migrating
      <3>1. Left("migrate") /\ ~Left("schema")
        BY <2>5, LeftForms, Disjoint DEF Left, RecordNext, Migrating
      <3>2. schemaVersion = Target /\ Reached = migration /\ migration <= Target
        BY <2>5, Disjoint DEF Reached, RanOK, StartupTypeOK
      <3>3. ~disturbed' => ~disturbed /\ migration = Target
        <4>1. disturbed' <=> disturbed \/ migration < Target
          BY <1>14, <3>1 DEF Stop
        <4>2. QED  BY <3>2, <4>1, DefaultRan
      <3>4. QED  BY <2>1, <2>2, <3>2, <3>3, DefaultRan DEF RanOK
    <2>6. QED  BY <2>3, <2>4, <2>5
  <1>15. CASE Publish
    BY <1>0, <1>15, Forms, Disjoint, DefaultRan
    DEF Publish, RanOK, Reached, TodoOK, Due, Target, DefaultSettings
  <1>16. CASE Upgrade
    <2>1. /\ appVersion' = appVersion /\ schemaVersion' = schemaVersion
          /\ settings' = settings /\ todo = <<>> /\ todo' = <<>> /\ disturbed' = disturbed
          /\ appVersion # version'
      BY <1>16, TypeFacts DEF Upgrade, TodoOK, StartupTypeOK
    <2>2. /\ todo' # DefaultsNext /\ todo' \notin Installed /\ todo' # UpdateNext
          /\ todo' # RecordNext /\ todo' \notin Migrating
          /\ Reached = schemaVersion /\ Reached' = schemaVersion
      BY <2>1, Disjoint DEF Reached
    <2>3. QED  BY <2>1, <2>2 DEF RanOK
  <1>17. CASE UNCHANGED startVars
    BY <1>17 DEF startVars, RanOK, Reached, Target, DefaultSettings
  <1>18. QED
    BY <1>1, <1>2, <1>3, <1>4, <1>5, <1>6, <1>7, <1>8, <1>9, <1>10, <1>11, <1>12, <1>13, <1>14, <1>15, <1>16, <1>17 DEF StartupNext

-----------------------------------------------------------------------------
\* A check runs only after the stored offer was looked at.
OfferOK == (checking => up /\ todo \in PastStale) /\ OfferIsNewer

LEMMA OfferInit == StartupInit => OfferOK
  BY DEF StartupInit, OfferOK, OfferIsNewer

LEMMA OfferStep == OrderInv /\ OfferOK /\ [StartupNext]_startVars => OfferOK'
  <1> SUFFICES ASSUME OrderInv, OfferOK, [StartupNext]_startVars PROVE OfferOK'  OBVIOUS
  <1>1. OrderInv'  BY OrderStep
  <1>2. /\ Left("stale") <=> todo \notin PastStale
        /\ Left("stale")' <=> todo' \notin PastStale
    BY <1>1, DutiesOf DEF OrderInv, TodoOK, Left
  <1>3. checking => todo \in PastStale /\ up
    BY DEF OfferOK
  <1>4. up /\ todo \in PastStale /\ "stale" \notin refused => available = 0 \/ available > version
    BY <1>2 DEF OfferOK, OfferIsNewer
  <1> SUFFICES /\ checking' => up' /\ todo' \in PastStale
               /\ up' /\ todo' \in PastStale /\ "stale" \notin refused'
                    => available' = 0 \/ available' > version'
    BY <1>2 DEF OfferOK, OfferIsNewer
  <1> USE DEF OrderInv
  <1>5. CASE Boot
    BY <1>3, <1>5, BootForms DEF Boot
  <1>6. CASE WriteSchemaVersion
    BY <1>3, <1>4, <1>6, Forms DEF WriteSchemaVersion, TodoOK, Due
  <1>7. CASE WriteAppVersion
    BY <1>3, <1>4, <1>7, Forms DEF WriteAppVersion, TodoOK, Due
  <1>8. CASE InstallSettings
    BY <1>3, <1>4, <1>8, Forms DEF InstallSettings, TodoOK, Due
  <1>9. CASE RunSchemaMigration
    BY <1>3, <1>4, <1>9 DEF RunSchemaMigration
  <1>10. CASE MigrationFails
    BY <1>3, <1>4, <1>10, Forms DEF MigrationFails, TodoOK, Due
  <1>11. CASE EndMigrations
    BY <1>3, <1>4, <1>11, Forms DEF EndMigrations, TodoOK, Due
  <1>12. CASE InitSettings
    BY <1>3, <1>4, <1>12, Forms DEF InitSettings, TodoOK, Due
  <1>13. CASE ClearStaleAvailableVersion
    BY <1>3, <1>4, <1>13, Forms, TypeFacts DEF ClearStaleAvailableVersion, TodoOK, Due, Stale, StartupTypeOK
  <1>14. CASE InitDefaultFilters
    BY <1>3, <1>4, <1>14, Forms DEF InitDefaultFilters, TodoOK, Due
  <1>15. CASE SetSetting
    BY <1>2, <1>3, <1>4, <1>15 DEF SetSetting
  <1>16. CASE CheckUpdate
    BY <1>2, <1>3, <1>4, <1>16 DEF CheckUpdate
  <1>17. CASE EndCheck
    BY <1>2, <1>3, <1>4, <1>17 DEF EndCheck
  <1>18. CASE Stop
    BY <1>2, <1>3, <1>4, <1>18 DEF Stop
  <1>19. CASE Publish
    BY <1>2, <1>3, <1>4, <1>19 DEF Publish
  <1>20. CASE Upgrade
    BY <1>2, <1>3, <1>4, <1>20 DEF Upgrade
  <1>21. CASE UNCHANGED startVars
    BY <1>3, <1>4, <1>21 DEF startVars
  <1>22. QED
    BY <1>5, <1>6, <1>7, <1>8, <1>9, <1>10, <1>11, <1>12, <1>13, <1>14, <1>15, <1>16, <1>17, <1>18, <1>19, <1>20, <1>21 DEF StartupNext

-----------------------------------------------------------------------------
StartInv == OrderInv /\ RanOK /\ OfferOK

(* The inductive invariant: what is left of a start and what it has         *)
(* recorded agree, and the data has reached exactly the schema that the     *)
(* records and the migrations still to come say.                           *)
THEOREM StartInvariant == StartupSpec => []StartInv
  <1>1. StartupInit => StartInv
    BY OrderInit, RanInit, OfferInit DEF StartInv
  <1>2. StartInv /\ [StartupNext]_startVars => StartInv'
    BY OrderStep, RanStep, OfferStep DEF StartInv
  <1>3. QED  BY <1>1, <1>2, PTL DEF StartupSpec

(* However starts are cut off, no migration is run twice on the same data,  *)
(* and data in use has had all of them unless one failed or was cut off.    *)
THEOREM MigratedAlwaysOnce == StartupSpec => []MigratedOnce
  <1>1. StartInv => MigratedOnce
    <2> SUFFICES ASSUME StartInv PROVE MigratedOnce  OBVIOUS
    <2> USE DEF StartInv, OrderInv
    <2>1. \A s \in Schemas : settings.ran[s] <= 1
      BY DEF RanOK
    <2>2. ASSUME Started, ~disturbed PROVE UpToDate
      <3>1. todo = <<>> /\ appVersion # 0 /\ Reached = Target
        BY <2>2, Disjoint DEF Started, TodoOK, Reached, RanOK
      <3>2. QED  BY <2>2, <3>1, DefaultRan DEF RanOK, UpToDate
    <2>3. QED  BY <2>1, <2>2 DEF MigratedOnce
  <1>2. QED  BY <1>1, StartInvariant, PTL

(* An installation is recorded only when its filters are there.             *)
THEOREM InstallAlwaysWhole == StartupSpec => []InstallIsWhole
  <1>1. StartInv => InstallIsWhole
    BY DEF StartInv, OrderInv, TodoOK, InstallIsWhole
  <1>2. QED  BY <1>1, StartInvariant, PTL

(* What the user has set is lost only before the end of the installation or *)
(* after a migration failed or was cut off, or when they cannot be read.    *)
THEOREM SettingsAlwaysSurvive == StartupSpec => SettingsSurvive
  <1>1. StartInv /\ [StartupNext]_startVars
          => [settings.custom /\ ~settings'.custom =>
                disturbed \/ disturbed' \/ appVersion = 0 \/ "settings" \in refused']_startVars
    <2> SUFFICES ASSUME StartInv, StartupNext, appVersion # 0, ~disturbed, ~disturbed',
                        "settings" \notin refused', settings.custom, ~settings'.custom
                 PROVE  FALSE
      OBVIOUS
    <2> USE DEF StartInv, OrderInv
    <2>1. ~InstallSettings
      <3> SUFFICES ASSUME InstallSettings PROVE FALSE  OBVIOUS
      <3>1. todo = DefaultsNext /\ up
        BY Forms DEF InstallSettings, Due, TodoOK
      <3>2. QED  BY <3>1, Disjoint DEF TodoOK
    <2>2. ~InitSettings
      <3> SUFFICES ASSUME InitSettings PROVE FALSE  OBVIOUS
      <3>1. todo \in Starting /\ Reached = Target
        BY Forms, Disjoint DEF InitSettings, Due, TodoOK, Reached, RanOK
      <3>2. UpToDate
        BY <3>1, DefaultRan DEF RanOK, UpToDate
      <3>3. QED  BY <3>2 DEF InitSettings
    <2>3. ~MigrationFails
      BY DEF MigrationFails
    <2>4. ~RunSchemaMigration
      BY DEF RunSchemaMigration, StartupTypeOK
    <2>5. ~SetSetting
      BY DEF SetSetting, StartupTypeOK
    <2>6. settings' = settings
      BY <2>1, <2>2, <2>3, <2>4, <2>5
      DEF StartupNext, Boot, WriteSchemaVersion, WriteAppVersion, EndMigrations,
          ClearStaleAvailableVersion, InitDefaultFilters, CheckUpdate, EndCheck, Stop,
          Publish, Upgrade
    <2>7. QED  BY <2>6
  <1>2. QED  BY <1>1, StartInvariant, PTL DEF StartupSpec, SettingsSurvive

(* The version offered is newer than the one that runs, but where the       *)
(* storage kept the start from looking at the offer, until the next answer. *)
THEOREM OfferAlwaysNewer == StartupSpec => []OfferIsNewer
  <1>1. StartInv => OfferIsNewer
    BY DEF StartInv, OfferOK
  <1>2. QED  BY <1>1, StartInvariant, PTL
=============================================================================
