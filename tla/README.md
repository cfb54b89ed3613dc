# Verification of ClashNova

ClashNova is a Windows client for the mihomo proxy core: a Tauri application
(Rust, `src-tauri/`), a Windows service that can host the core with the rights
that TUN needs (`crates/nova-service-ipc`, `src-tauri/src/service_host.rs`), a
library that builds the core's configuration (`crates/nova-core`), and a React
window (`src/`).

This directory models the parts in which order, failure and concurrency decide
whether the program is right, checks them with TLC on small instances and
proves some of what is checked with TLAPS for every value of the constants.
`PROJECT.json` lists components, runs, the code that each definition stands
for, hazards, findings and theorems. Every definition is written from the code.

Contents: [1 The system](#1-the-system), [2 The modules](#2-the-modules),
[3 The runs](#3-the-runs), [4 Fairness](#4-fairness),
[5 The proofs](#5-the-proofs), [6 Findings](#6-findings),
[7 What is not modelled](#7-what-is-not-modelled), [8 Plan](#8-plan),
[9 Running it](#9-running-it).

## 1 The system

### Components, their state and their operations

| Component | State | Operations | Module |
|---|---|---|---|
| Sidecar core handle (`core.rs`) | `CoreHandle` behind a mutex: child, generation, manual_stop, restarts, version; the processes | spawn, stop, restart, `on_terminated` with its automatic restart, version refresh; `tray::quit` | `SidecarCore`, abstract: `CoreSupervisor` |
| Core hosting and TUN (`core.rs`, `commands.rs`, `service.rs`, `service_manager.rs`) | which process hosts the core; SCM's state of the service; `tun` in memory, in settings.json and in runtime.yaml | start, stop, restart, start/install/uninstall/reinstall/repair service, `apply_tun` and its rollback | `CoreHosting` |
| Service core manager (`server.rs`, `service_host.rs`) | `CoreManager` behind a mutex: process, config, crash_count, last_crash_time, restart_at; requests on the pipe | start, stop, status, monitor; the service's stop, failure and death | `ServiceCore` |
| System proxy and settings (`commands.rs`, `sysproxy_win.rs`, `state.rs`) | settings in memory and on disk, the port in runtime.yaml and of the core, Windows' system proxy, guard loops by generation | `save_settings` and its rollback, the guard, clearing at exit and before an update | `SystemProxy` |
| Profiles and enhancers (`profiles.rs`, `state.rs`) | profiles.json, global-enhancers.json, one body per profile, one script per enhancer, runtime.yaml | 13 commands over `FileTransaction`, `finish_transaction`, regenerate and reload; the loop of scheduled updates | `ProfileStore`, `ProfileUpdater` |
| Updates (`updater.rs`, `core_update.rs`, `update_io.rs`, `bin/service_install.rs`) | the session (phase, candidates, cancellation, ready), the core cache and selection, the service's copy of the core and its rollback file | check, download, cancel, install the application, switch the core and undo it, the elevated helper | `Updates` |
| Service manager and health (`service_manager.rs`, `health.rs`) | status, operation_running, the health check's generation | init, install, reinstall, uninstall, refresh, the check's thread, handle_unhealthy | `ServiceManager`; its effect on the core in `CoreHosting` |
| Service installation, paths, policy (`bin/service_install.rs`, `bin/service_uninstall.rs`) | SCM registration, protected directory | install or repair, uninstall, update_managed_core; validate | `ServiceManager`, `Updates`; the policy as a predicate in `ServiceCore` |
| IPC client | none | one request with a timeout | its outcomes in `CoreHosting` |
| Configuration generation (`nova-core`) | none (pure) | `build`: enhancers, merge, settings, sniffer, TUN, DNS and its override | `RuntimeBuild` |
| Backups (`backup.rs`) | archive of backups; the store's files, memory and core during a restore | create, import, delete, restore with its rollback | `BackupArchive`, `BackupRestore` |
| WebDAV (`backup_webdav.rs`) | copies on a server | upload with read-back, download, delete | `WebDavSync` over `BackupArchive` |
| Traffic statistics (`stats.rs`) | accumulator with baselines, pending buckets, SQLite | observe, flush, flush on exit, retention, queries | `TrafficStats` |
| Deep links (`protocol.rs`) | bounded queue of imports | push, begin, finish, dismiss | `PendingImports` |
| Subscription conversion | none (pure) | share links to proxies | not modelled |
| Window stores and services (`src/stores`, `src/services`) | confirmed and pending settings, live streams | queue of patches, `loadAll`, reconnecting subscriptions, polling | not modelled |
| Tray, hotkeys, autostart, diagnostics, media, pages, mock | little or none | calls of the platform, presentation | `tray::quit` only |

### How they interact

- *Commands* come from the window and the tray. Those that change the
  configuration or the core hold `AppState.config_lock` from their first write to
  their end: one at a time. **Not** under it: `tray::quit`, event loops and
  automatic restarts, guard loops, the version task, downloads of an update,
  the topology editor's reading, the health check, the service manager's own
  operations, requests to a WebDAV server, the statistics loop, queued imports
  until one is confirmed.
- *Application to service*: one request per connection over a named pipe, with
  a client timeout. The service does not notice that a client gave up and
  serves the request all the same. The service has its own crash recovery.
- *Files*: commands snapshot the files they may touch (`FileTransaction`),
  write them one by one, and on an error put the old contents back one by one.
  Nothing protects against the death of the application in between.
- *Core*: reads runtime.yaml when it starts or is told to reload; an automatic
  restart reads whatever is there at that moment.
- *Helpers*: elevated processes that stop the service, swap or remove its files
  and register or start it; they are not children of the application and outlive it.
- *Archive*: backups are files of their own, written by commands under the lock
  and by downloads that take it only to save. Other machines share the server.
- *Statistics*: one loop polls the core's API; the exit writes beside it under a
  lock of its own.

### What is hard, and what makes each part right

- **Handle**: event loops and pending restarts of old generations act late.
  Right: at most one process that nobody failed to kill; a stop is final; a crash
  is healed, a crash loop is cut.
- **Hosting**: each switch is a sequence of fallible calls on two processes,
  with requests that take effect after they were given up. Right: with TUN on
  the application hosts nothing; settings, file and runtime agree; a failed
  switch leaves what it found; a stop stops both.
- **Service manager**: retries, a crash budget and requests meet under one mutex
  in any order. Right: a retry only while it is due, within budget and never
  after a stop; nothing outlives a shutdown that stopped it; crashes are healed.
- **System proxy**: several writers of one global setting, only one of which
  holds the lock. Right: a guard runs exactly when the settings ask for one;
  proxy, settings, files and core agree on one port.
- **Profiles**: several files per command, death between any two, a core that
  restarts in the middle and a download that began before the lock. Right:
  one current profile; no index entry without its file; runtime.yaml is what
  the store gives; the core runs runtime.yaml; rollbacks are complete.
- **Updates**: a cancellation may come at any moment, a switch changes four
  things in two processes, and its undoing can fail. Right: what is installed is
  what was shown; a cancelled download leaves nothing; a core that runs is the
  selected one; a switch is complete or undone; every operation ends.

- **Service manager**: `init`, operations, the check's thread and helpers of an
  earlier application overlap. Right: what is shown as ready is watched; what is
  registered has its files.
- **Backups**: many files, memory and a core are replaced while the core may be
  relaunched and the application may die. Right: all or nothing; what was there
  before is kept; a running core runs what was restored.
- **WebDAV**: answers get lost, uploads are cut off, others use the same server.
  Right: an id names one backup everywhere; what was reported as stored stays.
- **Statistics**: counters fall, connections count on while they are read, writes
  fail. Right: every byte once; all pages add up to the same.
- **Configuration generation**: five sources have a word on the same keys. Right: the
  application's settings win; the DNS can resolve; what nobody replaced is kept.
- **Deep links**: the lock is let go of during an import. Right: no source is
  imported twice at a time, and a request stays until its result is there.

The hazards, each at its line and with the properties that cover it, are in
`PROJECT.json`.

## 2 The modules

An action is a step that the code performs without giving others a chance to
act on the same state: a critical section, a file write, or a call of another
process. Histories ("history", "ghost" in the declarations) are written and never
read by the actions; properties use them to name their exceptions.

### SidecarCore, CoreSupervisor

One action per critical section of `CoreHandle`'s mutex. A process *is* the
generation it was spawned under, since `spawn_core` increments it each time and
a `u64` does not wrap. `child`, `generation`, `manualStop`, `restarts` and
`version` are the fields; `live` and `loops` are the operating system's
processes and the event loops that still wait for `Terminated`; `relaunch`
holds the event loops between the unlock of `on_terminated` and `spawn_core`.
`command` is the thread under `config_lock`, `quit` is `tray::quit`,
`refresher` the version task. `Instant::now()` is a counter; the pruning of
the window is modelled as the code does it, from the oldest, stopping at the first
that is recent.

`CoreSupervisor` is what the rest of the program relies on: a core is started
when asked, recovered only while it is wanted, and not otherwise. `SidecarCore`
implements it with *running* = the child is alive, *wanted* = a child is
tracked or a restart of the current generation is pending, *asked* = a start
has passed its check. Stop and automatic restart race exactly at that mapping:
a relaunch of an older generation would be a step from "not wanted" to
"running", which the abstract specification does not have.

### ServiceCore

One action per operation of the manager under its mutex. Deadlines are kept as
distances: `restartIn` to `restart_at`, `sinceCrash` from `last_crash_time`,
capped where the code no longer tells values apart. `requests` are the pipe's
instances; a start is admitted by the policy before it waits for the manager.
The process of the service is up, stopping, stopped, deaf (its pipe server
failed) or down; `strays` counts cores that outlived their manager.

### CoreHosting

A command is `plan`, the calls it has still to make, and `rescue`, the calls
that replace them when one fails: `Go` expands a call into the calls it makes,
`Fail` turns to the rescue. `was` is what `apply_tun` captures for its
rollback, and "mayRepair" delimits the calls after whose IPC failure it repairs
the service and goes on. Between two calls the core may end and be restarted,
the service may stop, requests in `late` may be served, and the application may
quit or die. The races inside the handle and inside the manager are reduced here
to their outcomes, which SidecarCore and ServiceCore justify.

### SystemProxy

Settings are the proxy's switch, the guard's switch and the port; the other
settings take the same path. `save_settings_inner` is a plan of its steps with
`tried`, the effects its rollback must undo. A guard loop sleeps, finds itself
current, looks and writes, each in an action of its own, so another thread acts
between them; `generation` is `guard_gen`. The step `undoFiles` is
`FileTransaction::rollback`; when it fails, the proxy and the guard are still put
right (`UndoProxy`), but the core is not reloaded, which is `files_restored` in the code.

### ProfileStore

`disk` maps files to contents; a command (`cmd`) is the list of writes it is
going to do, then build, reload, commit, or undo of every captured and written
file. Contents are a source and a quality: "bad" text parses but fails the
build or the core's check. `Build` returns the texts of the configuration in
the order the code applies them, and the name of the profile if there is an
enhancer to be handed it (`HandedName`). `update_meta` renames the current profile
without a build, so its scripts go on under the old name until the next one;
`renamed` notes that, and `RuntimeFollowsIndex` excepts the name, and nothing else, for
that time. `fetches` are downloads that wait for the
lock with what they read before; `torn` notes in which window the application died.

### Updates

`session` is `Session`; `job` the admitted operation with what it remembers; one
step per await, file or call. `helper` is the elevated process with steps of its
own, which goes on when the application dies. Two releases of the application are
enough to tell "shown" from "verified", one release of the core beside the
bundled one enough to switch back and forth.

### ServiceManager

`tasks` holds the two that may be at work in the manager, `init` and the holder of
`operation_running`, one step per call. `generation` is that of `HealthChecker`, odd
while its thread goes on; a failed check is first in `failing`, then in `repairs`,
because the thread looks at its generation before it reports and the report is a
task of its own. `helpers` are the elevated processes: the one the operation waits
for, and another one, left behind by an application that ended or asked for by a
command outside the manager. `entry`, `binary`, `process` are what SCM, the
protected directory and the host are at.

The two histories name what the properties except, and both exceptions are
behaviours of the code. `blurred`: `init` does not take `operation_running`, so it
may overlap an operation and give the last verdict; and a repair that was spawned
before a check was stopped may begin after it. `crossed`: an uninstall beside another
helper may remove the files of a service the other one has just registered.

### BackupArchive, BackupRestore, WebDavSync

A backup is a function from paths to contents and its id. `restore` is the record of
the one command that is long enough to be seen half done: a step per file, then the
settings in memory, then the reload, then the commit, or the rollback with its own
failures and the last try of `FileTransaction::drop`. Which files are still to be written
or put back is a set, `left`; `Turn` gives their order (index, bodies, settings,
runtime.yaml; the bodies come from a map, in any order). Beside it the core dies
and is relaunched without the lock, and the application dies between any two steps.
`torn` and `dropped` are histories: a restore was cut short, and the archive has since lost
the backup of what was there before.
`WebDavSync` shares the archive: a call reads a backup under the lock, lets go of it,
and a PUT leaves the server with the file, with half of it, or as it was, whatever
the answer says; only what was read back equal counts as stored.

### TrafficStats

mihomo reads its totals before the counters of single connections, so a poll is two
steps. `collector` is `Accumulator`; `flush` is what the loop and the exit hold
between taking the pending buckets and the end of the transaction; `table` is
`traffic_minute`. Ghosts keep what really went through the core. `blind` marks the
restart of a core whose counters have overtaken the old ones before the next poll:
the code cannot see it. `Rankings` are the answers `rank_since` may give: the keys with
the most bytes, `RankLimit` of them (ten in the code), and any of equal ones. A ranking
that is cut off does not add up to the total, so `PagesAgree` says that it does with
what the limit leaves out, that the summary counts all keys, and that up to ten keys are listed in full.

### RuntimeBuild

`build` as it is: one action per stage, in the order of the code, over documents of
tagged values (`Map`, `List`, `Scalar`, `Null`). `Merge3` is the deep merge with its
prepend and append keys. A script is a document it returns; that it fails or does not
return a mapping is the refusal. Three tables of the code (the keys of the settings, the
order of keys, which key splices into which list) are constants. A merge enters the keys of the
patch in that order, one at a time (`Entered`). `LastWord` is the position that the
override leaves the switch of the resolver in: without TUN, `enable_dns` does not
win over an override that says `enable: false`.

### PendingImports

The queue, its ids and the windows whose import is under way. The order of the queue
is only displayed, so the queue is a set.

### ProfileUpdater

`pass` is what is left of the copy of the index that the loop works from, `failures` its
memory, `updating` the update of the loop and the one by hand. An update is three steps
here: the download without the lock, the write of the entry with the time under it,
and the commit or the undoing. The loop reads the index without the lock, so it sees
entries that are undone afterwards. `streak` is the ghost that the loop's memory is
measured by. A pass takes its entries in any order. A restart of the application begins
as `UpdaterStarts` does, with nothing remembered.

### MC modules

`MCSidecarCore` adds bounds, `MCServiceCore`, `MCSystemProxy` and
`MCProfileStore` add symmetry; they change no definition. `CoreHosting` and
`Updates` are checked as they are: their bounds are constants. `MCData` gives
values to the constants of seven modules that share no variable but the archive, and
checks them in one run: the variable `part` picks one of them at the start, and the
others stay as they begin. Each part is the module's own Init and its own actions,
so the run is the union of seven runs.

## 3 The runs

| Run | Shows | Bounds, and why they are enough |
|---|---|---|
| `sidecar` | `OwnedProcess`, `StoppedIsFinal`, `CrashLoopIsCut`, refinement of `CoreSupervisor`, `SelfHealing`; every call may fail | 8 generations: a restart, a crash with an automatic restart, and a quit, each of which uses one or two; budget 2 in a window of 1 tick and a clock up to 2, so that restarts both expire and accumulate. Environment steps need 4 generations of room, so that what is started can end: the bound cuts off no step of the system |
| `sidecar_version` | violation of `VersionEventuallyKnown` (see Findings) | 6 generations, no failures |
| `service_core` | `RestartsAreBudgeted` (`RetryOnlyWhenDown` and `CrashBudget`), `StopHolds`, `ShutdownStopsCore`, `CrashIsHealed` | 3 requests at once (a start, a stop and a status), budget of 2 crashes, backoff 2 and quiet time 3, so that a quiet time can end during and after a backoff; one stray core when the service boots |
| `hosting` | `TunExcludesSidecar`, `SettingsAgree`, `RollbackRestores`, `StopStops` | none: the state is finite; every failure is on, and any number of them happen |
| `hosting_start` | violation of `StartIsIdempotent` | one failure: the refresh after a start |
| `proxy` | `SettingsTakeEffect` (`GuardAsConfigured` and `ProxyAsConfigured`), `PortsAgree` | 2 ports (old and new), 3 guard generations: the current one and two that have not noticed; failures of the save's steps |
| `proxy_live` | `GuardRepairs`, under all failures but that of setting the proxy | 1 port: the repair does not depend on it |
| `proxy_exit` | violation of `ExitLeavesProxyOff` | 1 port, no failures |
| `profiles` | `OneCurrent`, `ProfilesHaveFiles`, `CoreRunsRuntime`, `UpdatesMatchTheirUrl` | 2 profiles and 2 urls (the smallest with a successor and a changed url), 1 download, 2 failures or deaths (`MaxMishaps`), the second only while no download waits and no editor is open (`MaxBeside`) |
| `enhancers` | `EnhancersHaveFiles`, `RuntimeFollowsIndex`, `RollbackRestores` | 1 profile with one own and one built-in enhancer, the same globally, good and bad texts, 2 names (a rename has somewhere to go), 1 failure or death |
| `updates` | `ReadyIsTheOneShown`, `CoreRunsSelected`, `AllOrNothing`, `CancelledLeavesNothing`, `OperationsEnd` | 2 releases, 2 cores, 2 failures, damages or deaths (`MaxMishaps`); the second only while no release of the application is known (`MaxAppMishaps`), as the two kinds of update share nothing but the session |
| `data` | the twelve properties of the parts below | see below; a behaviour is one of a part |

The parts of `data`:

| Part | Shows | Bounds, and why they are enough |
|---|---|---|
| restore | `RestoreIsWhole`, `OldConfigurationIsKept`, `CoreRunsRestored` | 2 configurations that differ in every file, one of them with a profile the other has not; 3 backups: the one restored, the one the restore takes first and one more; 2 failures, deaths or damages, so a rollback fails as well. Ids are taken in order, as they differ in nothing else, and only the second configuration comes as an imported backup |
| sync | `CopiesAgree` | 2 ids, 2 texts, 2 calls at a time, 2 lost answers or cut-off files, one other machine |
| traffic | `CountedOnce`, `PagesAgree` | 2 connections with different keys, one of them in both directions, both in the same one, 2 bytes in all, 2 controllers, 2 minutes with a retention of one, 1 failure or death. A ranking lists one key instead of ten, so that a second key is left out. The clock stands still until something is counted and while the application is down, only a core that has carried something ends, and only an application that has seen something dies or gets another controller: before that, it could as well have begun so. The first byte goes up, since nothing tells the directions apart |
| build | `RuntimeObeys`, `RestIsKept` | 4 documents (rich, odd, none, no mapping), 7 chains of enhancers, all settings with two TUN, sniffer and DNS switches, 2 DNS modes, 5 overrides: 8960 builds from start to end |
| imports | `OneImportAtATime` | 3 sources, 2 windows, a queue of 2 instead of 8, 5 ids, up to 2 links per start |
| manager | `ReadyIsWatched`, `RegisteredHasFiles` | all installations a machine may have at the start, operations while the check's generation is below 2, 1 hang, restart of the application or helper outside the manager |
| updater | `RetriesBackOff` | 1 subscription, since nothing in the loop relates two of them but the time that one takes from the other (`Wait` between the copy and its turn); intervals of 3 and 5, the first delay is 2, so the second is 3 or 4 and the interval limits it; 6 ticks, enough for three failures in a row. Every write and every failure of the loop advances the clock, as two reads of milliseconds seconds apart do |

The types of a module are part of the invariant of its proofs, where it has proofs;
`TypeOK` of the other modules can be added to a configuration as an INVARIANT.
`CHECK_DEADLOCK FALSE` stands where the system may stop:
after the application's exit (`sidecar`) or when the bounds on generations,
failures or ids are used up (`profiles`, `enhancers`, `updates`), and in `data`
also where a build is done.

What the properties except is part of what the runs show, and each exception is
named in the property's comment: a restart
granted before a switch to TUN (`revived`), a rollback that failed itself
(`spoiled`, `torn`), the last write of a replaced guard loop (`foreign`), a core
restarted in the middle of a save that then fails (`raced`), a failed spawn that is
never retried (`failed`), the histories of `ServiceManager`, `BackupRestore` and
`TrafficStats` described in section 2. Without its exception each of these properties has a
counterexample that the code can produce.

## 4 Fairness

Only liveness properties use it.

- `SidecarCore`: weak fairness of each step of a thread that is under way
  (commands, event loops, pending restarts, the version task). These are
  threads and tokio tasks that block on nothing but the handle's mutex, held
  briefly. Users, crashes and time owe nothing.
- `ServiceCore`: weak fairness of the monitor, a tokio interval of one second,
  and of time. `CrashIsHealed` assumes that spawning does not fail for ever.
- `SystemProxy`: weak fairness of each guard loop, a task with a timer, and of
  the running command.
- `Updates`: weak fairness of the operation and of the helper. Each of their waits
  has a time limit in the code, so an unanswered call becomes a failed one.

`Spec` of each module is without fairness, and all theorems are about `Spec`.

## 5 The proofs

TLAPS checks them from the modules' assumptions on their constants only
(`SidecarAssumption`, `HostingAssumption`, `NoneIsNoSnapshot`, `ServiceAssumption`,
`ManagerBounds`, `ProxyAssumption`, `NamesAreDistinct`,
`BoundsAreNaturals`, `SettingsAreShaped`, `DocumentsAreParsed`, `PrefixesAreOrdered`, `QueueBounds`, `MarksDiffer`,
`TextsAreReadable`, `MissingIsNoContent`, `ConfigurationsAreWhole`, `MishapsAreBounded`,
`SyncMishapsAreBounded`, `TrafficBounds`, `UpdaterBounds`): constants that mark an absence are no values,
bounds are numbers, the connections of a core are finitely many, and what a configuration, a document or a backup consists of has its shape. TLC
evaluates those assumptions in the runs.

**SidecarCoreProofs**, for any budget, any window, any failures, any number of
generations and any time:

- `TypeCorrect`, `NoProcessIsLost` (`OwnedProcess`), `StopIsFinal`
  (`StoppedIsFinal`): the inductive invariant `Inv` adds to the type invariant
  that the tracked child carries the current generation (`ChildIsCurrent`), that
  no generation above the current one has been given out
  (`GenerationsGivenOut`), and that the current generation is alive, awaited or
  pending only as the tracked child or as a restart not yet stopped
  (`CurrentIsTracked`). `OwnedProcess` alone is not inductive: an event loop of
  an older process could clear the child of a newer one, were it not known that
  the generations differ.
- `BudgetHolds` (`CrashLoopIsCut`): the invariant `WindowInv` says that
  `restarts` is a suffix of all restarts granted since the last explicit start,
  and that what was pruned is older than the window, so that a full series of
  recent grants would still be in `restarts`.
- `ImplementsCoreSupervisor`: every step maps to a step of `CoreSupervisor` or
  to a stutter under the mapping in `SidecarCore`.

**ServiceCoreProofs**, for any number of requests, any backoff, quiet time and
budget: `TypeCorrect`, `RetriesAreJustified` (`RetryOnlyWhenDown`),
`BudgetHolds` (`CrashBudget`), both as `RestartsKeepToTheBudget`
(`RestartsAreBudgeted`), `StopIsFinal` (`StopHolds`),
`ShutdownLeavesNoCore` (`ShutdownStopsCore`). The invariants support each other:
that a crash counted over budget schedules no retry is needed for the
budget, and that a process is there only when configured
(`ProcessIsConfigured`) for the retry.

**UpdatesProofs**, for any sets of releases and cores and any number of
mishaps: `TypeCorrect`, `InstallerIsTheOneShown`, `SelectedCoreRuns`,
`CancellationHolds`, `OperationsAreAllOrNothing` (`AllOrNothing`). `Inv` has three
parts. `SessionInv` ties the phase to the operation, gives each operation the fields its steps read, and says that an
operation that downloads still downloads what the page shows. `MachineInv` types the files,
the helper and the core. `CoreInv` adds to `CoreRunsSelected` that no core runs
at the steps where the selection is about to change, which is what makes it
inductive. `OperationsAreAllOrNothing` has an invariant of its own, `ChangeInv`: what an
operation remembers of the state before (`found`) is in order (`FoundInOrder`), and at
each of its steps the selection, the running core and the service's copy are what that
step leaves to be done or undone (`StepFollows`, in three parts: switching
(`UpdateFollows`), taking it back (`RollbackFollows`), and while the elevated helper is at
work (`HelperFollows`)). TLC checked both before they were proved.

**HostingProofs** has two parts, the service's manager and the hosts of the core.

*ServiceManager*, for any number of operations, restarts and helpers:
`RegistrationHasFiles` (`RegisteredHasFiles`) and `ReadyMeansWatched`
(`ReadyIsWatched`). `FilesInv` follows the helpers: the files are there when a helper is
about to register the service, and no service is registered when one is about to
remove them, unless helpers have crossed. `WatchInv` says how a verdict is withdrawn:
every operation but a refresh takes "Ready" back before it stops the check, a
refresh gives a new verdict however it ends, and a repair keeps the check that asked
for it.

*CoreHosting*, for any choice of the calls that can fail: `HostingTypes`,
`TunHasNoSidecar` (`TunExcludesSidecar`), `TunIsTheSameEverywhere` (`SettingsAgree`),
`FailedSwitchesLeaveNothing` (`RollbackRestores`) and `StopLeavesNoCore` (`StopStops`).
Two of these properties speak of the time between commands, two of the step that ends
one, so `HostingInv` says what the rest of a command's plan still owes:

- *Plans.* A plan can grow at every step: a call puts others in its place, and a repair
  replaces those before "mayRepair". `RunsTo(rest)` says that it is any sequence of calls that
  only change hosts, and then one of a few fixed rests; `RunsGoesOn` and `RunsIsDone` are
  the two lemmas every step uses. `SpawnsFirst`: a plan has `startSidecar`
  only as its first call, the one that was decided on last, so what `start` saw of TUN still
  holds when the sidecar is spawned.
- *Stages* (`Stage`): a command that is no switch (`Ordinary`); a switch that has not touched the
  core (`Begun`) or has (`Moves`); its rollback with the settings ahead (`Undoes`) or done
  (`Restored`); a rollback that failed (`Broken`). Each says which rests are possible, what
  an error falls back on, and how memory and the two files stand to the target and to
  what the switch found.
- *Hosts.* A sidecar that no automatic restart accounts for (`Mine`) is the one that the switch
  found (`Own`), and `stopSidecar` is still to come when TUN is being switched on; from that
  call on a rollback has no sidecar and no restart (`Down`) until `restoreHost` brings one.
- *The snapshot* (`SnapshotInv`): what the switch found was in order itself, so restoring it
  gives back a state in which the properties hold. `StopInv`: a stop without an error has
  let go of the sidecar before it turns to the service.

`HostsGoOn` (what goes on by itself), `BeginKeeps` (which plans commands begin with) and
`CommandKeeps` (a step of a command, stage by stage) put it together.

**SystemProxyProofs**, for any ports, any number of guard generations and any subset of
the failures: `ProxyTypes`, `SettingsHold` (`SettingsTakeEffect`) and `PortsHold`
(`PortsAgree`). Both properties speak of the time between commands; the invariants
say what holds in the middle of one.

- *Plans.* Every plan, of a save, an installation or a rollback, runs through its
  steps in one order (`Rank`), so a plan is determined by the set of its steps:
  `First` takes the first step off, `Joined` puts two plans together, `SavePlanned`
  and `UndoPlan` say which steps a plan has. `PlanInv` says what the steps that are
  left tell of the past: while `undoFiles` is to come, a proxy that was touched will
  be applied again; once `undoMemory` is done, memory holds the old settings.
- *Guard.* `GuardInv`: the guard matches the settings, or `restartGuard` is still to
  come, or the installer is about to end the application. And until a command has touched
  the proxy, a loop of the current generation means that the settings it replaces
  had a guard. This is what makes the next part inductive: such a loop may write
  what the new settings say before `apply`, and a rollback would not undo that.
- *Proxy.* `ProxyInv`: the proxy suits the replaced settings until `apply` was tried, and
  the settings in memory once it is done. `ErrorKeeps` shows that every step that fails
  leaves a rollback which keeps all of this, `OrdinaryStep` the rest of the steps.
- *Ports.* `PortsInv`: the captured files agree with the replaced settings, the
  files with memory but for those still to be written, and the core has the old port
  until a reload was tried.

TLC checked the invariants on both configurations of the module before they were proved.

**ProfileStoreProofs**, for any profiles, names, enhancers, urls and texts, any number of
downloads, failures and deaths: `StoreKeepsInvariant`, `StoreIsTyped` and a theorem for
each property of the two runs (`OneCurrent`, `ProfilesHaveFiles`, `EnhancersHaveFiles`,
`RollbackRestores`, `CoreRunsRuntime`, `RuntimeFollowsIndex`, `UpdatesMatchTheirUrl`). None
of them is inductive, since in the middle of a command files and index disagree. `Inv`
says what the rest of the command at work will make of them:

- `StoreType`, `CommandType`: types, an index without repetitions, and the shape of the
  command's record in each phase.
- `Tracked`: what the transaction has captured, together with the writes that went past
  it, is all that differs from the store before the command, so an undo that goes through
  gives that store back.
- `BodiesKept`, `ScriptsKept`: every listed profile and item has its file, and keeps it
  wherever the plan is cut short. A plan is *safe* if a file is written before the index
  that lists it and removed after the index that no longer does; `delete_enhancer` is the
  one command whose plan is not, and is right in the end (`InTheEnd`), unless it is cut
  short.
- `CoreFollows`, `BuildFollows`, `UpdateFollows`: the core has the runtime.yaml on disk, or
  the one from before where a reload or a rollback that reloads is ahead; runtime.yaml is
  what the store gives, or a build is ahead, or nothing that the plan changes is read by
  a build (`SameSources`, `Spares`); the profile of a download that is being committed
  is still listed, with the url that it was downloaded from.

A command is judged once, when it takes the lock (`Planned`): each of the 13 commands
has a lemma saying that its plan is safe and covers what it changes. The steps then only
use up the plan. Where a sequence is involved (the first profile of an index, an index
without one entry), the argument takes the least index of a set instead of an induction.

**ConfigurationProofs** has two parts, the backups and how a configuration comes about.

*BackupRestore* and *WebDavSync*, for any profiles, configurations, ports, backups, calls
and mishaps:

- `RestoreIsSafe` (`RestoreInv`), and from it `RestoreIsAllOrNothing` (`RestoreIsWhole`),
  `OldConfigurationStays` (`OldConfigurationIsKept`) and `CoreRunsWhatIsRestored`
  (`CoreRunsRestored`). The invariant says that what the restore remembers is a whole store
  that agrees with the settings in memory then (`OldIsWhole`); that while it writes, the
  files that are not in `left` are those of the plan (`Written`) and memory follows only
  when all are (`Loaded`); that while it undoes, those not in `left` are the old ones unless
  an error is noted (`Undone`); that the backup it took first is in the archive
  (`OldIsKept`); and what a core can have read at each of these moments (`CoreFollows`).
- `BackupsAgree` (`CopiesAgree`): the archive never replaces a file, the server never
  replaces a whole one, and a call carries a copy of what one of them had.

*PendingImports*, *RuntimeBuild* and *ProfileUpdater*:

- `ImportsExclude` (`OneImportAtATime`), for any sources, windows and queue length. The
  invariant adds that ids are given out once and that no two requests of the queue
  share a source.
- `SettingsAreObeyed` (`RuntimeObeys`), for any documents, enhancers and settings of the
  right shape. The invariant has one part per stage, guarded by "this stage has run": what it
  has set is still there. The step of each stage shows that it keeps what earlier ones
  set, which is where the order matters. For the switch of the resolver that is
  `MergeSwitches`: a merge leaves a switch where the patch puts it, or where it was.
- `RestSurvives` (`RestIsKept`), for the same and any table of prefixes and order of keys.
  `RestInv` has two parts. `ListsInv`: the enhancers applied so far are the first `n` of the
  chain, and a list that no enhancer replaces is what it was in the profile, between
  something before and something after, and what those `n` prepended is in what comes before.
  `DnsInv`: from `Check` on, the section keeps what neither the settings nor the
  override name or extend, but for an empty list of servers once `Servers` has run. A merge enters one key after the other; `Merging` says what each key may
  change, and the lemmas `MergeLeaves` and `MergeGrows` follow it to the last key with the least
  key for which they would fail. Lists are put together with `Join`, which the provers see
  opened only in the few lemmas about where a part of a list is.
- `RetriesAreRarer` (`RetriesBackOff`), for any subscriptions, intervals and durations.
  `UpdaterInv` relates the ghost `streak` to the loop's memory: what is listed and has
  failed in a row is remembered with at least as many failures and with the time of the
  last one (`InMemory`), and what was deleted meanwhile is not looked at again (`LeftOut`);
  no entry and no copy of one is from the future (`EntriesAreOld`); a subscription is
  taken once per pass and not before it is due (`TakenOnce`). The delay
  doubles up to a cap of 16 doublings, so its powers are the 17 numbers that
  `Powers` evaluates one by one.

**TrafficProofs**, for any finite set of connections, any keys, numbers of minutes and
mishaps, any retentions and any bytes: `TrafficInvariant` (`TrafficInv`), and from it
`TrafficPagesAgree` (`PagesAgree`, for any limit of a ranking) and `TrafficCountedOnce`
(`CountedOnce`).

- *Sums.* Bytes are summed by a fold over a finite set. That a sum is what
  it is without one element plus that element, that equal functions have equal sums and that
  a larger set has a larger sum is shown by taking a smallest set for which it fails. On this rest
  the lemmas on buckets: `Inside(b, P)` is what the buckets `b` hold under the keys in
  `P`, and `Add`, `Merged`, `Recent` have a lemma each that says what they do to it, for the keys
  of a minute (`During`), of a dimension since a minute (`From`) and of one name (`Of`).
- *Attribution* (`Shared`): however the connections are ordered, what they get and what is left
  for "unattributed" add up to the growth of the total, and none gets more than its own growth.
- `DataInv`: wherever buckets are, in the table, pending, or taken by a writer, each dimension adds
  up to the total (`BalancedData`), and all of them together (`Whole`) hold for every minute
  what is owed to it (`Recorded`), unless a restart went unseen or the minute was purged. A
  retry puts back what it took, so this is independent of how often a write fails.
- `CounterInv`: a sample lags behind the counters, and a baseline behind the sample
  (`Monotone`); what is booked in all is at most what was carried up to the baseline, or up to
  the sample if there is none (`TotalBounded`), and what is booked under one name at most what its
  connections had carried when last seen (`KeysBounded`, with the `Level` of each). `CountedOnce` is not
  inductive without these: the growth over a baseline that was ahead of what is
  booked, or from zero for a connection seen before (`SeenBefore`), would count
  bytes a second time.

The traffic invariant, which the run does not have as a property, was checked with TLC on
the configuration of the run and by simulation with 4 bytes and two mishaps; `RestInv` on
that of the run, with the parts of a list written as positions. The
invariants of `ProfileStoreProofs`, of `CoreHosting`, of the restore and of the updater were checked
with TLC, on the configurations of the runs or larger ones, before they were proved.

Only liveness is model-checked without a proof (`SelfHealing`, `CrashIsHealed`,
`GuardRepairs`, `OperationsEnd`): it is beyond what the provers do. Every invariant that a passing run checks is a theorem.

## 6 Findings

1. *The version may stay unknown* (`sidecar_version`): `core.rs:673-674` says
   that the version is asked for until it is known. A task that finds no core
   running (703) is about to return; a start in this moment asks for a refresh,
   finds the in-flight flag set and does nothing, and then the task ends.
2. *`start` is not idempotent* (`hosting_start`): `core.rs:403` says so, but a
   core hosted by the service is not looked at (411) while TUN is off, and a
   sidecar is started beside it. It takes a service start whose core came up and
   whose refresh failed (`commands.rs:954-962`).
3. *Exit may leave the proxy on* (`proxy_exit`): `sysproxy_win.rs:28` says that
   the exit turns off a proxy that the application had turned on. A guard loop
   that wakes up between the clearing in `tray::quit` (172) and the exit finds the
   proxy drifted and turns it on again.

Not run as findings, because no line of the repository promises otherwise, but met
while modelling and worth knowing:

- A restore in which the application died can leave an index that lists a profile
  without its file. Then no backup can be taken (`backup.rs:349`), and as a restore
  begins with one (696), none of the older ones can be restored until the user has deleted
  those profiles: the action `Mend`.
- `apply_restore` reloads the core only if it ran when the restore began (701,
  616). A core that was down then and is relaunched meanwhile runs the old
  configuration: the exception of `CoreRunsRestored`.
- A core that restarts between two polls and whose counters have overtaken the old
  ones is taken for one that went on: part of its traffic is not counted (`blind`).
- `init` of the service manager runs beside operations (`blurred`), and an uninstall
  may run beside the helper of an earlier application (`crossed`).
- The loop of scheduled updates reads an index that an update by hand has written and
  may yet undo (1072): it forgets the failures of that subscription, so that the next one
  is shown again and tried at once. And a failure that ends after an update by hand
  has succeeded in the same pass counts as one more (1110), so the user is not told of
  the first of the new row. `RetriesBackOff` counts from the last write, kept or not,
  and bounds what is shown from above.
- A profile's new name reaches its scripts with the next build only: `update_meta`
  does not rebuild (`profiles.rs:784-789`, 1195-1199).
- `config_gen.rs:125` says of the name servers that the subscription's come before the
  user's override. `build_runtime_config` merges the override over the subscription's
  section (326-343), so the override wins where both name a list; the model follows the code.

## 7 What is not modelled

- *The text of configurations*: YAML and share links as text, what a script computes
  (it is a document it returns), the encoding of manifests and archives. The properties
  need to know which sources a build used and which of them has the last word on a key.
- *Subscription conversion, options and topology of a profile*: pure checks and
  conversions of text; a refused command changes nothing, and that is modelled.
- *Cryptography, archives, the registry, access control lists*: calls that succeed
  or fail.
- *The window*: React stores, streams and pages. Its settings are the backend's; two
  hazards of its stores (`app.ts:145`, `ws.ts:39`) are listed without a property.
- *Diagnostics, media tests, the mock*: probes or fixtures that change nothing.
- *Linux*: the service, the registry proxy and the elevated helpers exist on Windows
  only; the sidecar and the profile store are shared.

Every component with its reason is in `PROJECT.json`.

## 8 Plan

Done, in this order: what decides whether the user's traffic goes where it should (core
and its host), what the core runs (profiles), what changes the binaries (updates), what
keeps, copies and counts (backups, statistics), how the configuration is built, and the
service manager. What remains:

1. `SettingsStore` (window): the queue of optimistic patches, `loadAll` with its
   single flight, `settings-changed`. Question: does the window end up with the
   backend's settings? Abstract specification: a register that the window
   eventually copies.
2. `LiveStream`, with polling and the task queue; `ProfileUpdater` composed with
   `ProfileStore`, so that what an update writes is in one module with who asks for it.
3. Subscription conversion and topology checks as pure operators against a reference
   definition; recursion as recursive functions.
4. Proofs: the refinement named below.

Compositions: `CoreHosting` uses the outcomes of `SidecarCore` and
`ServiceCore`; a refinement of the sidecar half of `CoreHosting` by
`SidecarCore` would make that formal.

## 9 Running it

    tlc -workers 2 -config MCSidecarCore.cfg MCSidecarCore
    tlapm SidecarCoreProofs.tla

Each configuration names its module, save `CoreHosting*.cfg` (`CoreHosting`),
`MCSidecarCoreVersion.cfg` (`MCSidecarCore`), `MCSystemProxy*.cfg`
(`MCSystemProxy`) and `MCProfileStoreEnhancers.cfg` (`MCProfileStore`). `MCData` and
the largest of the others take two to four minutes on two workers. Each `*Proofs`
module is checked by itself.
