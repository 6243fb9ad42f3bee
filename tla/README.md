# A specification of the AdGuard Browser Extension's background

TLA+ modules that model the stateful core of the extension's background code
(`src/Extension/src/background/`), TLC runs that check them on small instances,
and proofs, checked by TLAPS, of what matters most for instances of any size.
Paths below are relative to `src/Extension/src/background/`, and those of the user
rules page (`*.tsx`) to `src/Extension/src/pages/options/components/UserRules/`.

## 1. Inventory

The extension is built twice from one source tree: for Manifest V2 the background
is a page that lives as long as the browser, for Manifest V3 a service worker the
browser may stop at any time. Both are one thread: handlers interleave only where
they `await`. Files ending in `-mv2`/`-mv3` are the two variants, `-common` what
they share.

| component | state | operations | interacts with | hard part | what makes it correct |
|---|---|---|---|---|---|
| Common filters (`api/filters/main`, `common`, `update`, `categories`; `services/filters`) | filter states, versions, group states, metadata (one settings blob, saved late); rules in IndexedDB | enable, disable, group on/off, update by hand or timer, reload, reconcile, migrate | engine (debounced), server, storages | operations overlap at awaits; downloads and writes fail; the browser stops | what is enabled is loaded, is what the engine runs, and is never turned on against the user |
| Engine (`engine`) | configuration in tswebextension | update (1 s debounce), start | reads all settings | its snapshot is older than what it configures; updates overlap and end in any order | follows the settings once all is quiet, but for an update that an older one has overtaken |
| Rule storage (`storages/idb-storage.ts`, `filters.ts`) | rules per filter | set, remove (transactions) | filters, engine | abort, order | an operation learns of a failure |
| Extension update, MV3 (`services/extension-update`) | state machine, auto-update state (throttled save), marker, time-outs, intervals | check, apply by hand, apply when idle, resume after a restart | browser's update events, pages, settings start | announcements at any time, restarts, overlapping checks | an announced update is offered and applied once; no false success |
| Custom filters (`api/filters/custom.ts`) | metadata list, states, rules | create, update, remove, switch | engine, rule storage | remove during update; overlapping batches | what can be switched on is described and has the rules described |
| Rules limits and static filters, MV3 (`services/rules-limits`, `engine-mv3.ts`) | expected filters, filter and group states, the browser's rulesets | switch, configure, check, restore, import | browser's limits, engine | the browser declines a configuration; the list that is compared is read at several moments | settings and running rulesets agree |
| Safebrowsing (`api/safebrowsing.ts`) | verdict cache (40 min), request cache, suspension | look up, trust | server, storage | the caches' lifetimes differ; a lookup in flight | a verdict follows from an answer or from the user |
| User rules (`pages/options/components/UserRules`, `api/filters/userrules.ts`) | one text; the list shown | click, delete, undo, save, fetch, event | storage, other pages | debounce, late answers, whole-text writes | no click lost; the list shows what was clicked |
| Page statistics (`api/page-stats`) | histories of hours, days, months, a total | count, normalize, reset | engine events | calendar arithmetic; two counts with an await between | nothing recent lost, nothing old kept (finding 4: it is) |
| Filtering log (`api/filtering-log.ts`) | events by tab while a page is open | open, close, add, move, clear, tabs | tabs, engine events | limit, moves between tabs, pages closing | nothing kept while closed; an event once |
| Start, update, migrations, server check (`app/app-common.ts`, `api/install`, `api/update`, `services/update-check`) | recorded versions, settings, stored offer | install, update, migrate, check | all storages | a stop between any two writes | each step once; no settings lost |
| Hit statistics (`api/filters/hit-stats.ts`) | hits per rule | add, send, clean up | engine events | hits during a send | (nothing is promised, section 16) |
| Allowlist, settings and import formats, document block, consent, telemetry, language detection, icons, pages, messages, keep-alive, content scripts | small or none | | | few | presentation and transport |

`PROJECT.json` lists every component with its files and every hazard at its line.
(`pages/` is relative to `src/Extension/src/`.)

## 2. Plan

Done: 1. `FilterLifecycle` and `FilterLifecycleProofs`; 2. `ExtensionUpdate`;
3. `CustomFilters`; 4. `Safebrowsing` with its abstract specification
`SiteVerdicts`, and `SafebrowsingProofs`; 5. `RulesLimits`; 6. `UserRulesPage`;
7. `PageStats`; 8. `FilteringLog`; 9. `Startup` and `StartupProofs`; 10. `Services`, which runs 3 to 9;
11. proofs of every safety property the passing runs check (section 13), in eight modules.

Left, most important first:

1. The engine's theorems with stores that refuse writes: what then holds of versions
   and of the engine, and a property that says it.
2. An abstract specification of custom filters (a set of filters, each wholly
   present or absent) and what of it `CustomFilters` implements.
3. The rest of the MV3 engine: the debounced update and differential updates.
4. Listeners of pages and their new registration after a restart (keep-alive).

Every parameter is a CONSTANT with a named assumption; no module uses `RECURSIVE`,
so all can be proved about.

## 3. FilterLifecycle

The life of the common filters in the MV2 build.

*State.* `known`, `loaded`, `enabled` are the entries of `filterStateStorage`
(`installed` and `loaded` are always written together), `version` is
`filterVersionStorage`, `groupOn` and `touched` are `groupStateStorage`, `metadata`
is the metadata storage. All live in one settings object, changed in memory and
saved 100 ms later: `disk` is what was saved. `content` is the rules in IndexedDB
and `writes` the transactions issued on a filter's rules and not settled.
`engineTimer`, `engineRuns` and `applied` are the engine's debounce timer, the
updates that have read the set of enabled filters (each with the filters whose rules it
has still to read, and the rules read), and the configured rules. Nothing queues the
updates (`engine/engine-mv2.ts:63,104-188`), so one that began earlier may configure the
engine after one that began later: `engineBehind` is history and says that this has
happened, and that no newer update has ended since. `backend` is the filters server.

*Operations.* A handler that awaits is a `task`, in one of a few slots; each action
is the code between two awaits. `EnableFilter`, `EnableGroup`, `AutoUpdateFilters`
and `ReloadEnabledFilters` start a task. `UpdateMetadata` (with `Reconcile`:
`loadFilteringStates` and `removeObsoleteFilters`), `MigrateDeprecatedFilters`,
`CreateCustom`, `StartLoads` lead to one job per filter: `Receive` sets state and
version and issues the write in one step, as the code does, `CommitWrite` or
`AbortWrite` settles it, `WriteRaw` ends it, and a failed job goes to `Retry`, which
tries the packaged copy once. `AfterLoad`, `EnableUntouchedGroups`, `CheckGroup`,
`FinishGroup`, `FinishUpdate` are the continuations. `DisableFilter` and
`DisableGroup` do not await. `UpdateEngine` begins an engine update with the set of
enabled filters, `ReadRules` reads the rules of one of them, in any order and with
anything in between, `Configure` ends any update that has read all, `UpdateFails` is one
that throws. `Rejected` is what an operation makes of an aborted transaction: a failed
write is tried again from the package, a failed removal throws or, since
`FiltersStorage.remove` drops the answer of `removeMultiple`, is not noticed
(`storages/filters.ts:122-127`). `SaveSettings` the late save, `Restart` and `StartEngine` a stop
of the browser and the next start.

*Abstractions.* Whether a filter is due for a check depends on times: a check may
find any filter due. A rules download returns any version published since it was
asked for. Versions are numbers. The consent and the notifications are left out.

| run | bounds | shows |
|---|---|---|
| `filter_engine` | 1 filter, 2 tasks (group, update), 2 versions, 2 overlapping engine updates, downloads fail | `EnabledIsApplied`, `DisabledIsNotApplied`, `VersionDescribesContent` |
| `filter_races` | 2 filters of one group, one recommended and with a packaged copy, one that may be retired; 2 tasks (enable, group); downloads fail | `TypeOK`, `EnabledIsLoaded`, `UserOffStays`, `LastingIsKept` |
| `filter_restart` | 1 filter, 1 task of any kind, 2 overlapping engine updates; downloads, transactions and engine updates fail, the browser stops | `EnabledIsLoaded`; under fairness `OperationsEnd`, `DisabledLeavesEngine` |
| `enable_reaches_engine` | 1 filter, enabling only, no faults | violates `EnabledIsApplied` (finding) |
| `deprecated_filter` | 1 filter that may be retired, downloads fail | violates `MigrationKeepsFilter` (finding) |

One filter is enough where the question is between two operations on the same
filter (the engine, the versions); a second one, in the same group, is there where
an operation on one may touch the other (groups, metadata). Two tasks give every
pairwise interleaving. Two versions are the least that make one of them stale.
`filter_engine` leaves out the operation `enable`, because of the finding that
`enable_reaches_engine` shows, and aborted transactions: after an aborted write a
filter is marked as loaded and has a version but no rules, and nothing in the
code or its comments promises otherwise. `filter_races` has no engine (its
`MaxRuns` is 0): the others have.

*Fairness* (`Fairness`, used by `filter_restart` only): awaited calls return or
throw (weak fairness of each task's step), a transaction commits or aborts, the
debounce timer fires, the oldest engine update goes on and ends. These are promises and timers of the
platform. Nothing is assumed of the user, the server, or the browser's stops.
`OperationsEnd` allows that the extension stops instead.

*Engine updates that overlap.* An update takes a second after the last request, and may
take longer than that to read and configure. `EnabledIsApplied`, `DisabledIsNotApplied`
and `DisabledLeavesEngine` therefore except `engineBehind`: if the older of two updates
is the last to configure the engine, what it runs is older than the settings until
something asks for another update. The code and its comments promise nothing of the
order, so this is an observation (section 15) and no finding. What the properties do say
is that this is the *only* way: whatever else overlaps, the newest update that ends has
seen what the settings are.

*Lasting filters.* The properties speak of `Lasting` filters: those that the
package and the server list and the server has not deprecated. What happens to the
others is `MigrateDeprecatedFilters`, with its own property.

## 4. ExtensionUpdate

The update of the extension itself in the MV3 build.

*State.* `version` is installed, `published` is the newest in the store,
`appVersion` the one that started last. `saved` and `cache` are the auto-update
state on disk and in memory (`AutoUpdateStateManager`): the announced version and
`isManualCheck`. `due` says that the throttled save has a trailing call to make;
whether the window of the last call is over is a matter of time, so a call either
saves at once or is left for the window's end. `marker` and `pageOpened` are what a
manual update leaves for the next start, `fsm` is the state machine with the
transitions of `extension-update-machine-mv3.ts` (an event without a transition is
dropped). `check`, `timers` and `currentTimer` are manual checks in progress, their
10-minute time-outs, and the one time-out id the handler remembers. `handler` and
`latest` are the automatic handlers whose interval runs, and the one the service
knows. `again` is history, for one property.

*Actions.* `Boot`, `LoadState`, `FinishInit`, `HandleReload`, `OpenPage` are the
start of the worker between its awaits; `Down` is its end at any moment, by the
browser or by a reload, after which the newest version may be installed.
`CheckUpdate`, `WaitForUpdate`, `NoUpdate`, `CheckTimeout` are a manual check;
`ApplyUpdate` to `Reload` a manual application; `StartMonitoring` to `AutoReload` an
automatic one. `OnUpdateAvailable` is the browser's event. The idle time, the icon's
delay and the timestamps are abstracted: an interval's tick either finds the
browser idle long enough or does nothing.

| run | bounds | shows |
|---|---|---|
| `extension_update` | 2 checks and time-outs, 2 automatic handlers, 2 versions | `TypeOK`, `OfferedIsNewer`, `OneHandlerApplies`, `CheckingIsTimed`, `PendingIsKept` |
| `update_offered` | the same | violates `AnnouncedIsOffered` (finding) |
| `update_icon` | the same | violates `IconIsShown` (finding) |

Two checks and two handlers are the least that overlap; versions 1 and 2 are an old
and a new one, and a saved version can equal the running one. Stops of the worker
and announcements are not bounded. `OneHandlerApplies` excepts an announcement that
comes while an update is already being applied: the state the first handler
emptied is then filled again, and a second handler may apply too, to the same end.
No deadlock is checked: with everything up to date the system may really stop.

## 5. RulesLimits

Static filters in the MV3 build. *State:* `filtersOn`, `groupsOn`, `paused` are the
settings, `touched` the groups that were ever switched; `running` is what the browser has enabled; `expected` is the list kept for
the warning (`rulesLimitsStorage`); `resultOn` the last result of the engine;
`upd` the handlers with their engine updates. *Actions:* `EnableRuleset`,
`DisableRuleset`, `EnableGroup`, `DisableGroup`, `PauseOrResume`, `RestoreFilters`, `ClearWarning`,
`UpdateOther` (any other update), `ApplyImport` start an update; `Configure` is the
browser taking or declining it, `CheckLimits`, `Compare`, `TakeFilters`,
`RememberFilters` are `checkFiltersLimitsChange` between its awaits, `KeepImport` and
`UndoImport` the verdict of an import; `RestartWorker` is a restart. The first enabling
of a group enables its `Recommended` filters too, and the first filter enabled in a group
that was never switched turns the group on. The browser never takes more than `MaxStatic` filters and may decline anything new, so that
a limit shared with other extensions is covered. `QuietIsRunning` and `ImportIsWhole`
are statements about one handler at a time (one slot in the run): with two they fail,
which is finding 6. `ImportIsWhole` has one exception, which its proof brought to light
(finding 8): an import the browser has declined is reported as applied when what
still runs happens to be the list of an earlier warning.

## 6. Safebrowsing and SiteVerdicts

*State:* `verdict` is `sbCache`, `savedVerdict` its copy in the storage, `asked` is
`sbRequestCache`, `suspended` the suspension; `answer` and `reported` are history.
*Actions:* `StartLookup`, `CheckSuspended`, `AnswerLookup` or `FailLookup`,
`ProcessAnswer`, `ConcludeLookup` are one lookup between its awaits; `TrustSite`,
`ToggleSafebrowsing`, `Expire`, `ForgetAsked` (the cache of what was asked is full),
`SuspensionEnds` and `RestartSafebrowsing` come at any time. Verdicts are kept by hash,
one for each host, and the server is asked by the *prefix* of a hash, which hosts may
share (`HostPrefix`): the answer may list any host with that prefix, and all it lists are
cached (`api/safebrowsing.ts:157,286`), but only a host of the chain decides the outcome.
A save to the storage may fail at any verdict: the answer is then processed as if it
listed no host of the chain (`api/safebrowsing.ts:297`). An answer of a status below 500
that is empty or too long lists nothing, and counts as an answer.

`SiteVerdicts` says what all this amounts to: a verdict that appears is the user's trust,
or is justified by answers, or was kept. `VerdictsAreKept` is that specification with
`kept <- savedVerdict`; the chains become sets of domains. `TrustHolds` says when an
answer may block a site the user trusts: the question was on its way when the trust was
given, or the lookup is of another site whose hash begins alike (`Beside`). The second
can only be when the prefix is no longer marked as asked, after a restart or once that
cache is full (section 15). `SafeIsAnswered` says that the server has answered for a site
found safe and for its parent domains, not what it answered: finding 7.

## 7. CustomFilters

*State:* `metadata`, `filterState`, `rules`, `customGroup` by id, what each address
serves (`edition`), the addresses being loaded (`loading`, which is
`loadingSubscriptions`), the running operations (`task`) and the open transactions on the
rules of each id (`writes`). `lost` and `due` are history: the ids whose last transaction
failed, and those whose enabled rules have changed since an engine update was last asked
for. *Actions:* `CreateFilter` and `StoreFilter`, or `StoreEmpty`, `DownloadFails`,
`FinishCreate`; `RemoveFilter`, `FinishRemove`; a batch of updates has two passes, each
with one job per filter: `UpdateFilters`, `BeginLoad`, `TakeLoaded` or `TakeEmpty`,
`CheckFails`, then `StartUpdates`, the same again, `UpdateFails`, `StoreRaw`,
`FinishUpdates`; switches. Metadata, version and state are written in one step; the rules
are a transaction of their own, awaited, that `CommitWrite` or `RefuseWrite` settles, the
raw copy a second one (`api/filters/custom.ts:294-317,594-600`), and either may fail. A
load of an address that is already loading answers at once with nothing, which is taken
for an empty list (`api/network/network/network-common.ts:164-166`,
`api/filters/custom.ts:760`): edition 0. A load whose 60 seconds are over goes on by
itself (`LateLoad`).

`SwitchableIsDescribed` says that metadata and rules agree once the transactions have
settled, unless the last one failed. `EngineIsTold` stops at the request for an engine
update: what the engine makes of it, with updates that overlap, is `FilterLifecycle`.

## 8. UserRulesPage

*State:* `storedText` and `shownText`, the debounced `toggle`, the requests in flight
(`save`), `events` and `refetching`, `undoable`, a change from elsewhere (`other`);
`wanted` and `crossed` are history. `mutationSeqRef` is kept as "is it still the
latest" for each request. *Actions:* `ToggleRule`, `DeleteRule`, `UndoDelete` are
clicks, `FireToggle` the timer, `CommitSave`, `SaveReply`, `FetchAfterSave`, `EndSave`,
`FailSave` a request, `ReceiveEvent` and `FinishRefetch` the events, `OtherRead` and
`OtherWrite` the read-await-write of the background, `LeavePage` the unmounting. The
two properties speak of behaviours in which no change crossed one from elsewhere and
none failed (`crossed`): otherwise whole-text writes do overwrite each other, and the
code does not claim more.

## 9. PageStats

The clock is a number; a period is `Span` ticks. `Normalize` and `PadAndTrim` move a
history on by the difference of whole periods, as `differenceInDays` and the like
round down, from the time of the last change; `OnBasicRuleApply` and
`IncrementTotalBlocked` are the two counts with the await between; `CountIsMissed` a
save that fails. Because the rounding starts again at each change, histories fall
behind the calendar: `OnlyTheLast`, the window the comments promise, does not hold
(finding 4). `OldIsDropped` is the bound that does, twice the window, and is proved only;
`RecentIsKept` says that they never run ahead. What a history counts (`Kept`) is the number
of its `Cells`, one for each request an entry counts: the sum of the entries, in a
form that can be reasoned about. Categories are left out.

## 10. FilteringLog

`log` is the events (by number) of each known tab, `openedPages` the counter,
`connected` the pages really there, `evicted` is history. One action per public
operation of `FilteringLogApi`, and `RestartLog` for the worker: a page's port
connects again. The data of events and what later events add to it are left out.

## 11. Startup

*State:* `version` runs, `published` is the newest; `appVersion`, `schemaVersion`,
`settings`, `available` are stored; `todo` is what is left of `asyncInit`, in order,
`migration` the loop of `runMigrations`. `settings` says whether they are the user's
and how often each migration was run on them. `Boot` decides between installation,
update and plain start, each duty is an action of its own, and `Stop` may come
between any two (the browser, or a storage access that fails where nothing catches the
error). Two duties catch it and the start goes on: settings that cannot be read are reset
(`InitSettings`), and a stale offer that cannot be read or removed stays
(`ClearStaleAvailableVersion`, `services/update-check/update-check-service.ts:208-217`);
`refused` is history and names them. `disturbed` is history too: a migration failed or
was cut off. The code records the versions of an update
*before* its migrations and of an installation *after* the rest; the properties say
what each order buys: a migration is never run twice (`MigratedOnce`), an interrupted
installation starts over (`InstallIsWhole`). The price of the first, migrations
skipped after a stop, is in the model and excepted by `disturbed`: nothing in the code
promises otherwise. `SettingsSurvive` excepts a start that could not read the settings,
`OfferIsNewer` one that could not remove the offer, until a check has answered. The late save of settings is in `FilterLifecycle`.

## 12. Services and the runs

The seven components of sections 5 to 11 share no state: what they have in common is
the engine's update and the storage, which each models as far as it needs. `Services`
puts them side by side, and `service` says which one a behaviour exercises, so that
one run checks each of them exhaustively without the product of their states.

| run | shows |
|---|---|
| `filter_engine`, `filter_races`, `filter_restart` | section 3 |
| `extension_update` | section 4 |
| `services` | everything of sections 5 to 11 but the findings: 21 properties, the refinement `VerdictsAreKept` among them, and the types |
| `enable_reaches_engine`, `deprecated_filter` | findings 1, 2 |
| `update_offered`, `old_statistics`, `update_icon` | findings 3, 4, 5 |
| `taken_declined`, `no_need_to_ask` | findings 6, 7 |

Bounds of `services`: three filters of two groups of which the browser takes two (the
least that lets a declined import leave the list of an earlier warning running), one
handler slot (see section 5); a host, its parent, and another host with the same prefix,
of which the user visits the first and the last, one lookup at a time, the cache saved at
every second verdict (20 in the code), so that what is saved lags (the proofs are for any
number of lookups); two ids, one address with two editions, two tasks and four operations,
the least that lets a new filter, an update and a removal meet; two lines of rules, two requests in flight and one event on its way; hours
of two ticks and months of four, windows of two, nine ticks and two requests, so that
a request leaves each window that is cut and histories lag; two tabs and the
background, three events per tab and four in all, so that a log overflows; three
versions, each with one migration more, so that an update may skip one.
Symmetry is declared only on slots and on lines of rules, which no definition
distinguishes and no liveness property uses. No deadlock is checked: a bounded history
or a quiet page may stop. None of these components has a liveness property: what
would have to happen depends on the user or on a server that need not answer.

## 13. Proofs

All the invariants and all the action properties of the passing runs are proved, for
any value of the constants that meets the named assumptions of their modules, some under
a hypothesis that this section names. Where an invariant is not inductive, TLC checked
the stronger one on the instance of its run first.

`FilterLifecycleProofs`, for any sets of filters, groups and tasks and any bounds:

- `TypeCorrect`: `Spec => []TypeOK`, one lemma per group of actions.
- `LoadedInvariant` and `EnabledLoaded`: `EnabledIsLoaded` is not inductive. An
  operation enables, after its awaits, filters that it holds, so these must be loaded
  too, at every step of every operation; a restart goes back to the saved settings,
  so the same must hold of them; and a reconciliation with metadata that do not list
  a filter would clear its mark, so all metadata in use must list what lasts.
  `LoadedInv` is the conjunction: `Claimed` (enabled, held by an operation, or with a
  write on its way) filters that last are loaded; on disk enabled ones are; and
  `MetadataKeepsLasting`. `ClaimsNothingNew` is the sufficient condition most actions
  meet, with one step per action.
- `LastingKept`: the action property, from the same invariant.
- `UserOff`: under the assumption that the extension does not stop (`"crash"` is not
  in `Faults`), since a stop may bring back older settings.
- `DisabledLeft`, without any hypothesis: for a filter that is off, the *last* thing the
  engine is going to be told leaves it out (`Leaving`): the timer is due, or the last
  engine update that has read the enabled filters does not have it, or there is none
  and the filter is not applied. Updates may end in any order, so "last" is the newest
  that has not been overtaken: `BehindFirst` says that those a newer one has overtaken are
  the oldest of those on their way, and if none is left but such, either the newest has
  configured the engine last or `engineBehind` says that it has not.
- `WritesAreAwaited`: every transaction that writes rules belongs to a job that still
  waits for it, at most one per job. It holds with every fault: a refused write takes
  its transaction away and sends its job back to fetch, or ends it, and a stop takes
  both.
- `VersionsDescribe`, if the store refuses no write and the extension does not stop: the
  version of a loaded filter that lasts is that of the *last* write on its way, or of
  the stored rules when there is none (`Latest`). Both hypotheses are needed: the version
  is recorded before the rules are written, so a refused write, or a stop before the late
  save of the settings, leaves the two apart, and no comment promises otherwise.
- `EnabledReached`, if the store refuses no write and filters are not enabled one by
  one (`"enable"` is not in `Ops`): a filter that is on is applied, or will be
  (`Entering`): the timer is due, the newest engine update has still to read it or has
  read what is stored, or an operation that
  still runs `Owes` an update, because it is a group's, a reload or a start, or an update
  that has changed the filter. It allows stops. A refused write of the raw text, after
  that of the rules, leaves an updated filter out of `done`: the update may ask for no
  engine update, and the new rules wait for the next one. The hypothesis on `Ops` is
  finding 1: with that operation the statement is false, which is the run
  `enable_reaches_engine`.

`SafebrowsingProofs`, for any hosts, chains of parent domains, lookups and interval of
saves:

- `SupportInvariant`: none of the properties is inductive by itself. A verdict may come
  from the cache of a parent, from the storage after a restart, or from a lookup that
  asked long ago, and a hash marked as asked is the only trace of an answer whose
  verdict is gone. `SupportInv` therefore says that verdicts kept *and saved* are
  justified, that every host with a prefix marked as asked had an answer, and, for a lookup at each of its
  awaits, that what it has gathered is justified already or will be by its own question.
- `SafeAnswered`, `BlockedReported` follow; `TrustKept` is the action property, from
  what `newer` says of a lookup in flight: a host it lists is `Beside` the chain, or of
  the chain and then not trusted since before the lookup began.
- `ImplementsSiteVerdicts`: initial states map to initial states and every step to a
  step of `SiteVerdicts` or a stutter, under the invariant.

`StartupProofs`, for any number of versions and any schemas that grow with them. The
argument (`StartInv`): `TodoOK` lists what can be left of a start and which records each
rest presumes (`Forms` is its table, one line per rest); `RanOK` says that an installed
extension's data has had exactly the migrations below `Reached`, which is the recorded
schema, or the loop's variable while an update has migrations to come; `OfferOK` that no
check runs before the stored offer was looked at, and that an offer that stays after that
is newer, or the storage refused its removal. A stop in the middle of the migrations
is the one step that moves `Reached` without running anything, and it sets `disturbed`.

`ExtensionUpdateProofs`, for any number of checks, handlers and versions (`UpdateInv`):
while the state has not been read nothing else of the worker runs (`Asleep`), without
which the first announcement could not be typed; what is offered is newer until the
user's choice to apply it has emptied the state (`Offered`); and once a handler applies
an update the state is empty, unless one more announcement came, which is noted
(`NextAgain`): that is why a second handler's next look finds nothing. `PendingIsKept`
is the action property, from the same invariant: each place that could forget the
pending version reads it first.

`UserFiltersProofs`, the filters a user makes:

- Custom filters, for any number of operations, ids, addresses and editions
  (`CustomInv`). `SwitchableIsDescribed` needs that the *last* transaction open on an id
  stores what the metadata name (`LastIsNamed`), that each open transaction is waited for
  by one task (`QueueOK`), and that an id that was given again has its creation behind
  its removal (`IsRecreated`). `EngineIsTold` (`ChangesAreTold`) needs that for each change
  of what is enabled some operation *owes* an update until it has asked for one (`Owes`).
  `NewIdsAreFree` rests on the highest id in use being above all of them;
  the least number of a set comes from the well-ordering of Nat, cited by name,
  because the induction theorem itself cannot be instantiated here.
- The list of user rules, for any lines and any number of saves in flight (`PageInv`): at
  most one save or toggle is the latest; what the clicks ask for waits for the debounce,
  is on its way as the latest save, or is stored with nothing on its way that could
  overwrite it (`WantedIsOnItsWay`); a toggle that waits excludes events and fetches
  that would change the list under it; no text is fetched while a save is in flight.

`RequestsProofs`, what is kept of blocked requests:

- The filtering log, for any tabs, pages and limit (`LogInv`): `EventIsOnce` needs that
  numbers grow in arrival order in every tab but the background (`InOrder`), `RecentStay`
  in addition that what was dropped is older than what follows the first event, and
  `ClosedLogIsEmpty` that the counter of pages is the number of connected ones
  (`PagesOK`). Every step is one of three: it leaves a log or empties it, adds an event,
  or moves one.
- Page statistics, for any units, spans and windows. What is hard is arithmetic: whole
  periods restart at each change while the calendar does not. `MovesBounds` is the core:
  when the calendar has turned k pages, a history moves on by at least k/2 and at most k
  entries. `Placed` then says *where* a history counts each request: there is an entry
  `back` from the end and a rank in it for every request blocked, no two the same, with
  `back` between half its age and its age, and every cell within the history's reach is
  someone's. Padding and trimming add to `back` (`MovedPlaced`), a count adds a request at
  0 (`CountedPlaced`). The bounds `RecentIsKept` and `OldIsDropped` follow by a bijection
  between cells and requests within reach, `TotalCoversHistories` because no history
  counts more than all the requests since the last reset.

`RulesLimitsProofs`, for any rulesets, groups and limit. `LimitsTypeOK` holds with any
number of handlers. `QuietIsRunning` and `ImportIsWhole` are proved under `OneHandler`
(one update in progress at a time): with two, the check after one configures the
settings of the other, which is finding 6 and the run `taken_declined`, so the
hypothesis cannot go. `UpdateKnows` says, at each await of the update, what is known of
the configuration on its way, the settings and the browser; `ImportKnows` that all of an
import stays in the settings until some of it is taken, and that the list of the warning
is then not empty. `ImportIsWhole` was first stated without its exception and held for
two filters; the proof stopped at the import whose leftovers are the list of an earlier
warning, which takes three (finding 8).

`ServicesProofs`: `SideBySide` shows that a behaviour of `Services` is a behaviour of each
of its components, so what the modules above prove of a component's own specification
holds in the specification that the run `services` checks; `ServicesTypes` is an instance.

Only model-checked: liveness (`OperationsEnd`, `DisabledLeavesEngine`), which is out of
the prover's reach, and the properties whose runs are violations.

## 14. Findings

Each but finding 8 is a run that ends in a violation; `PROJECT.json` quotes the comments.

1. Enabling a filter of an untouched group never updates the engine, because the load
   is not awaited (`services/filters/filters-service-mv2.ts:99`).
2. A deprecated filter is removed before it is created as a custom one and is lost if
   the download fails (`api/filters/main/main-common.ts:719`).
3. An update announced in a state without a transition for it is not offered
   (`services/extension-update/extension-update-machine-mv3.ts:149`).
4. A history counts requests from before its window: it moves on by whole periods, which
   fall behind the calendar at each change (`api/page-stats/normalize-stats.ts:110`,
   against `api/page-stats/page-stats.ts:240`).
5. A check that ends after the announcement hides the icon of the update
   (`manual-update-handler-mv3.ts:214`).
6. The check after one handler's engine update takes out of the settings the filter
   another handler has just enabled (`services/rules-limits/rules-limits-service-mv3.ts:554`).
7. A site the server reported is taken as safe without asking, once its verdict has
   expired: its hash is still marked as asked (`api/safebrowsing.ts:161`).
8. (From the proof of `ImportIsWhole`, without a run of its own.) An import is reported as
   applied though the browser declined it. Let the warning's list be `{f1}`, with `f1` and
   `f3` running; an import asks for `f1` and `f2`, the browser declines it, and what is
   not running is taken from the settings. If the browser now runs just `f1`,
   `areFilterLimitsExceeded` compares what runs with the list of the *earlier* warning, finds
   them equal and returns false (`services/rules-limits/rules-limits-service-mv3.ts:500-512,549`),
   so the import is not undone (`services/ui/main.ts:277`). The comment says: "On failure the
   pre-apply state is restored (rollback)" (`services/ui/main.ts:258-259`).

## 15. Observations

Met while modelling, without a run: either nothing in the code or its comments
promises otherwise, or the part is outside the models.

- *In the models.* A custom filter removed while an update of it is on its way comes
  back with its metadata and rules, without a state (`api/filters/custom.ts:470,560`).
  An event that comes while the limits are being read is skipped
  (`UserRulesList.tsx:173-184`). A save that fails puts back a text that may itself not
  have been saved (`useUserRulesMutations.tsx:303-309`), and leaving the page cancels a
  toggle that is due (`useUserRulesMutations.tsx:268-272`). With "preserve log" switched
  off a log that is too long stays so (`api/filtering-log.ts:423-429`).
  `synchronizeOpenTabs` takes `Object.keys` of a Map, so it never removes a tab
  (`api/filtering-log.ts:357`). A stop during migrations skips the rest for ever
  (`api/update/main.ts:125`).
  If the older of two engine updates is the last to configure the engine, a filter that was
  switched off meanwhile still runs, and one that was switched on does not, until the next
  update (`engine-mv2.ts:63,104-188`, `engineBehind`). A site the user trusts may be blocked
  again by a lookup of another site whose hash has the same four first digits
  (`api/safebrowsing.ts:157,286`), though the comment on trusting says "this URL will be
  ignored by safebrowsing filter" (`api/safebrowsing.ts:86`). A load of a
  custom filter's address while another is under way makes its list empty until the next
  update (`network-common.ts:164-166`); and since metadata are written before rules, a
  filter whose rules could not be written counts as updated (`custom.ts:594-600`). The
  first start after a reload that changed nothing goes to Success, since the marker says
  so before the reload (`manual-update-handler-mv3.ts:284`).
- *Statistics of hits.* Overlapping batches send hits twice, hits added during a send
  are removed with it (`api/filters/hit-stats.ts:184`).
- *Filters.* The MV2 update timer stops for good if a storage access in it rejects
  (`filter-update-mv2.ts:79-109`); two engine updates at once may also configure the
  older allowlist last (`engine-mv2.ts:104-188`); two first additions to the consent list lose
  one (`annoyances-consent.ts:87-94`); a failed load leaves language detection locked
  (`locale-detect-mv2.ts:316-322`); a popup's switch removes a user rule by an index
  read when the page was loaded (`allowlist.ts:330-335`).
- *Migrations.* `migrateFromV3toV4` removes the old filters before the transaction that
  saves them.
- *Listeners.* Their ids start again at 1 with the worker (`notifier.ts:70`), so a page
  that registered with the last worker may remove another page's listener.

## 16. Not modelled

What is `not_modelled` in `PROJECT.json`, and why:

- what each migration, import or export does to the *format* of data: pure conversions
  of large structures, for which tests are the better tool;
- hit statistics: they lose and repeat hits by design of the code, which promises no
  more, so that no property could be stated that is both true and worth stating;
- allowlist, document block, consent, telemetry, language detection: one list or flag
  each, whose races are among the observations above;
- messages, connections, keep-alive: a handler is called per message, which the
  modules take as actions; lost messages appear as failures of the requests;
- the scheduler of filter updates: `FilterLifecycle` takes an update at any time;
- icons, pages, content scripts, the content of `filters/` (generated rules, more than
  a fifth of the code) and the user interface: presentation, generated code and calls
  of the browser. This, and the size of the formats, keeps the share of all lines that
  the models stand for small; of the background's stateful services most are modelled.

## 17. Running

    tlc -config FilterEngine.cfg MCFilterLifecycle.tla
    tlc -config ExtensionUpdate.cfg MCExtensionUpdate.tla
    tlc -config Services.cfg MCServices.tla
    tlapm FilterLifecycleProofs.tla
    tlapm ExtensionUpdateProofs.tla
    tlapm RulesLimitsProofs.tla
    tlapm SafebrowsingProofs.tla
    tlapm UserFiltersProofs.tla
    tlapm RequestsProofs.tla
    tlapm StartupProofs.tla
    tlapm ServicesProofs.tla
