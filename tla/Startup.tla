------------------------------- MODULE Startup -------------------------------
(* The start of the extension: what is done once after an installation, and *)
(* once after an update, with the migrations of stored data; the stops in   *)
(* between; and the version the server offers, checked while it runs.  Data *)
(* is whether it is the user's or the default, and the migrations it has    *)
(* been through.  Writes follow memory; the delay of settings is in         *)
(* FilterLifecycle.  A failed access to the storage ends the start, as a    *)
(* stop does, but for the accesses whose errors are caught.                 *)
EXTENDS Naturals, Sequences

CONSTANTS
    MaxVersion,       \* bound: versions of the extension
    SchemaOf          \* APP_SCHEMA_VERSION of each version

Versions == 1..MaxVersion
Schemas == UNION {0..SchemaOf[v] : v \in Versions}

ASSUME StartupAssumption ==
    /\ MaxVersion \in Nat \ {0} /\ SchemaOf \in [Versions -> Nat]
    /\ \A v, w \in Versions : v <= w => SchemaOf[v] <= SchemaOf[w]

VARIABLES
    version,          \* Prefs.version: the version the browser runs
    published,        \* the newest version the server knows
    up,               \* the background page or worker runs
    todo,             \* what is left of AppCommon.asyncInit, in order
    migration,        \* the next migration of runMigrations
    appVersion,       \* stored under APP_VERSION_KEY, 0 if nothing is
    schemaVersion,    \* stored under SCHEMA_VERSION_KEY, 0 if nothing is
    settings,         \* stored under ADGUARD_SETTINGS_KEY
    refused,          \* history: duties of this start that caught a storage error
    filtersReady,     \* loading and enabling the default filters has ended
    disturbed,        \* a migration failed or was cut off since installation
    checking,         \* isChecking: a request to the server is under way
    available         \* the stored availableVersion, 0 if there is none

startVars == <<version, published, up, todo, migration, appVersion,
               schemaVersion, settings, refused, filtersReady, disturbed, checking,
               available>>

Target == SchemaOf[version]
\* Settings with their origin and how often each migration was run on them.
DefaultSettings ==
    [custom |-> FALSE, ran |-> [s \in Schemas |-> IF s < Target THEN 1 ELSE 0]]

-----------------------------------------------------------------------------
\* Mutant of IsInstall: any other version is taken for an installation.
IsChange == appVersion # version

\* Mutants of Duties: versions are recorded when the rest has succeeded ...
RecordedLast(install, update) ==
    IF install THEN <<"schema", "defaults", "settings", "stale", "filters", "record">>
    ELSE IF update THEN <<"migrate", "schema", "record", "settings", "stale">>
    ELSE <<"settings", "stale">>
\* ... or before it.
RecordedFirst(install, update) ==
    IF install THEN <<"record", "schema", "defaults", "settings", "stale", "filters">>
    ELSE IF update THEN <<"schema", "record", "migrate", "settings", "stale">>
    ELSE <<"settings", "stale">>

IsInstall == appVersion = 0
IsUpdate == ~IsInstall /\ appVersion # version

\* An update records both versions first, an installation its own last.
Duties(install, update) ==
    IF install THEN <<"schema", "defaults", "settings", "stale", "filters", "record">>
    ELSE IF update THEN <<"schema", "record", "migrate", "settings", "stale">>
    ELSE <<"settings", "stale">>

Left(duty) == \E i \in DOMAIN todo : todo[i] = duty
Due(duty) == up /\ todo # <<>> /\ Head(todo) = duty
Started == up /\ todo = <<>>

StartupInit ==
    /\ version = 1 /\ published = 1 /\ up = FALSE /\ todo = <<>> /\ migration = 0
    /\ appVersion = 0 /\ schemaVersion = 0 /\ settings = DefaultSettings
    /\ refused = {} /\ filtersReady = FALSE /\ disturbed = FALSE /\ checking = FALSE /\ available = 0

Boot ==
    /\ ~up /\ up' = TRUE
    /\ todo' = Duties(IsInstall, IsUpdate) /\ migration' = schemaVersion /\ refused' = {}
    /\ UNCHANGED <<version, published, appVersion, schemaVersion, settings,
                   filtersReady, disturbed, checking, available>>

WriteSchemaVersion ==
    /\ Due("schema")
    /\ todo' = Tail(todo) /\ schemaVersion' = Target
    /\ UNCHANGED <<version, published, up, migration, appVersion, settings,
                   refused, filtersReady, disturbed, checking,
                   available>>

WriteAppVersion ==
    /\ Due("record")
    /\ todo' = Tail(todo) /\ appVersion' = version
    /\ UNCHANGED <<version, published, up, migration, schemaVersion, settings,
                   refused, filtersReady, disturbed, checking,
                   available>>

InstallSettings ==
    /\ Due("defaults")
    /\ todo' = Tail(todo) /\ settings' = DefaultSettings /\ disturbed' = FALSE
    /\ UNCHANGED <<version, published, up, migration, appVersion,
                   schemaVersion, refused, filtersReady, checking,
                   available>>

RunSchemaMigration ==
    /\ Due("migrate") /\ migration < Target
    /\ settings' = [settings EXCEPT !.ran[migration] = @ + 1]
    /\ migration' = migration + 1
    /\ UNCHANGED <<version, published, up, todo, appVersion, schemaVersion,
                   refused, filtersReady, disturbed, checking,
                   available>>

\* One migration throws: the settings are reset and the others are not run.
MigrationFails ==
    /\ Due("migrate") /\ migration < Target
    /\ todo' = Tail(todo) /\ settings' = DefaultSettings /\ disturbed' = TRUE
    /\ UNCHANGED <<version, published, up, migration, appVersion,
                   schemaVersion, refused, filtersReady, checking,
                   available>>

EndMigrations ==
    /\ Due("migrate") /\ migration >= Target
    /\ todo' = Tail(todo)
    /\ UNCHANGED <<version, published, up, migration, appVersion,
                   schemaVersion, settings, refused, filtersReady,
                   disturbed, checking, available>>

\* The validator takes up-to-date settings; of others it knows no more than
\* what their fields tell it, so that it may take or refuse them.
UpToDate == \A s \in Schemas : s < Target => settings.ran[s] > 0

\* Settings that cannot be read are replaced as well.
InitSettings ==
    /\ Due("settings")
    /\ todo' = Tail(todo)
    /\ \/ UNCHANGED <<settings, refused>>
       \/ ~UpToDate /\ settings' = DefaultSettings /\ UNCHANGED refused
       \/ settings' = DefaultSettings /\ refused' = refused \union {"settings"}
    /\ UNCHANGED <<version, published, up, migration, appVersion, schemaVersion,
                   filtersReady, disturbed, checking, available>>

\* Mutant of Stale: an offer of the version that runs is kept.
OlderOnly == available < version
Stale == available <= version

\* The storage may refuse the reading, or both removals: the start goes on.
ClearStaleAvailableVersion ==
    /\ Due("stale")
    /\ todo' = Tail(todo)
    /\ \/ available' = (IF available # 0 /\ Stale THEN 0 ELSE available) /\ UNCHANGED refused
       \/ UNCHANGED available /\ refused' = refused \union {"stale"}
    /\ UNCHANGED <<version, published, up, migration, appVersion, schemaVersion,
                   settings, filtersReady, disturbed, checking>>

InitDefaultFilters ==
    /\ Due("filters")
    /\ todo' = Tail(todo) /\ filtersReady' = TRUE
    /\ UNCHANGED <<version, published, up, migration, appVersion,
                   schemaVersion, settings, refused, disturbed,
                   checking, available>>

-----------------------------------------------------------------------------
SetSetting ==
    /\ up /\ ~Left("settings")
    /\ settings' = [settings EXCEPT !.custom = TRUE]
    /\ UNCHANGED <<version, published, up, todo, migration, appVersion,
                   schemaVersion, refused, filtersReady, disturbed,
                   checking, available>>

\* The first check is part of the start, the next are a timer's.
CheckUpdate ==
    /\ up /\ ~Left("stale") /\ ~checking
    /\ checking' = TRUE
    /\ UNCHANGED <<version, published, up, todo, migration, appVersion,
                   schemaVersion, settings, refused, filtersReady,
                   disturbed, available>>

\* The answer is an offer, nothing newer, or an error; it may not be stored.
EndCheck ==
    /\ up /\ checking
    /\ checking' = FALSE
    /\ \/ /\ available' = IF published > version THEN published ELSE 0
          /\ refused' = refused \ {"stale"}
       \/ UNCHANGED <<available, refused>>
    /\ UNCHANGED <<version, published, up, todo, migration, appVersion,
                   schemaVersion, settings, filtersReady, disturbed>>

\* The browser stops the extension, or its start fails, at any moment.
Stop ==
    /\ up /\ up' = FALSE /\ todo' = <<>> /\ refused' = {} /\ checking' = FALSE
    /\ disturbed' = (disturbed \/ (Left("migrate") /\ ~Left("schema")
                                     /\ migration < Target))
    /\ UNCHANGED <<version, published, migration, appVersion, schemaVersion,
                   settings, filtersReady, available>>

Publish ==
    /\ published < MaxVersion /\ published' = published + 1
    /\ UNCHANGED <<version, up, todo, migration, appVersion, schemaVersion,
                   settings, refused, filtersReady, disturbed, checking,
                   available>>

\* The browser installs what is published.
Upgrade ==
    /\ ~up /\ version < published /\ version' = published
    /\ UNCHANGED <<published, up, todo, migration, appVersion, schemaVersion,
                   settings, refused, filtersReady, disturbed, checking,
                   available>>

StartupNext ==
    \/ Boot \/ WriteSchemaVersion \/ WriteAppVersion \/ InstallSettings
    \/ RunSchemaMigration \/ MigrationFails \/ EndMigrations
    \/ InitSettings \/ ClearStaleAvailableVersion \/ InitDefaultFilters
    \/ SetSetting \/ CheckUpdate \/ EndCheck \/ Stop \/ Publish \/ Upgrade

StartupSpec == StartupInit /\ [][StartupNext]_startVars

-----------------------------------------------------------------------------
(* Every variable stays within its type, and a start within its duties. *)
StartupTypeOK ==
    /\ version \in Versions /\ published \in version..MaxVersion
    /\ appVersion \in 0..version /\ schemaVersion \in 0..Target
    /\ migration \in 0..Target
    /\ settings \in [custom : BOOLEAN, ran : [Schemas -> Nat]]
    /\ {up, filtersReady, disturbed, checking} \subseteq BOOLEAN
    /\ todo \in Seq({"schema", "defaults", "settings", "stale", "filters",
                     "record", "migrate"})
    /\ refused \subseteq {"settings", "stale"} /\ available \in 0..MaxVersion

(* No migration is run twice on the same data, whenever the extension is    *)
(* stopped and started again, and data in use has had each of them, unless  *)
(* one failed or was cut off: the versions are recorded before they run.    *)
MigratedOnce ==
    /\ \A s \in Schemas : settings.ran[s] <= 1
    /\ Started /\ ~disturbed => UpToDate

(* An installation counts as done only when the filters are ready: stopped  *)
(* before, it starts over (app-common.ts: "only after successful            *)
(* initialization of the extension").                                       *)
InstallIsWhole == appVersion # 0 => filtersReady

(* What the user has set survives starts and updates, however they are      *)
(* interrupted: it is lost only if the installation had not been finished,  *)
(* a migration failed or was cut off, or this start could not read it.      *)
SettingsSurvive ==
    [][settings.custom /\ ~settings'.custom =>
           disturbed \/ disturbed' \/ appVersion = 0 \/ "settings" \in refused']_startVars

(* The version offered to the user is newer than the one that runs, also    *)
(* when the browser has updated the extension after the offer was stored;   *)
(* if the storage did not let this start look at the offer, then from the   *)
(* next answer of the server that is stored.                                *)
OfferIsNewer ==
    up /\ ~Left("stale") /\ "stale" \notin refused => available = 0 \/ available > version
=============================================================================
