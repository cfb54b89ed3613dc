---------------------------- MODULE ServiceManager ----------------------------
(* The manager of the Windows service and what it starts: service_manager.rs,    *)
(* service.rs, the health check of nova-service-ipc/src/health.rs, and the       *)
(* elevated helpers bin/service_install.rs and bin/service_uninstall.rs.         *)
(* Commands go through run_operation, one at a time.  init, at start-up, does    *)
(* not; neither does the health check's thread, whose repairs are tasks of their *)
(* own.  A helper is a process: it goes on when the application that waits for   *)
(* it ends, beside the helpers of the next one.                                  *)
EXTENDS Integers

CONSTANTS
  MaxGeneration,    \* an operation begins only below this generation
  ServiceMishaps    \* bound on hangs of the service, restarts of the application, and
                    \* helpers that no operation asked for

ASSUME ManagerBounds == MaxGeneration \in Nat /\ ServiceMishaps \in Nat

VARIABLES
  entry,        \* the service in SCM: none, stale (another path or directory), or ours
  binary,       \* the installed host and core: none, of an old version, or new
  process,      \* the host that runs: none, or of which version
  hung,         \* it does not answer
  helpers,      \* slot -> [job, at]: the operation's helper, and another one
  status,       \* ServiceManager::status
  tasks,        \* who -> [kind, at]: init, and the holder of operation_running
  generation,   \* HealthChecker::generation: odd while its thread goes on
  failing,      \* generations whose thread got no answer and has not called on_unhealthy yet
  repairs,      \* handle_unhealthy has been spawned and has not begun
  blurred,      \* history: init or a late repair overlapped what else decided on the status
  crossed,      \* history: an uninstall helper overlapped another, and no install followed
  slips         \* mishaps so far

managerVars == <<entry, binary, process, hung, helpers, status, tasks, generation, failing,
                 repairs, blurred, crossed, slips>>
machine == <<entry, binary, process, hung>>
manager == <<status, tasks, generation, blurred>>

Slots == {"operation", "other"}
NoHelper == [job |-> "none", at |-> "ended"]
NoTask == [kind |-> "none", at |-> "done"]

Installed == entry # "none"
Runs == Installed /\ process # "none"
Responds == process # "none" /\ ~hung
\* diagnose_installation: a service that is registered elsewhere or has lost its files.
Diagnosed == Installed => entry = "ours" /\ binary # "none"
\* Not is_reinstall_needed, which takes no answer for another version.
VersionFits == Responds /\ process = "new"

Watched == generation % 2 = 1
StartCheck == generation' = IF Watched THEN generation ELSE generation + 1
StopCheck == generation' = IF Watched THEN generation + 1 ELSE generation

AtStep(t, step) == tasks[t].at = step
GoesOn(t, step) == tasks' = [tasks EXCEPT ![t].at = step]
End(t) == tasks' = [tasks EXCEPT ![t] = NoTask]
Operate(kind, step) == tasks' = [tasks EXCEPT !["operation"] = [kind |-> kind, at |-> step]]
Busy(t) == tasks[t] # NoTask

Works(h) == helpers[h] # NoHelper
Crosses(h, job) == \E o \in Slots \ {h} : Works(o) /\ "uninstall" \in {job, helpers[o].job}
Launch(h, job) ==
  /\ helpers' = [helpers EXCEPT ![h] = [job |-> job, at |-> "open"]]
  /\ crossed' = (crossed \/ Crosses(h, job))

(******************************** operations *********************************)

\* run_operation: when the flag is taken the caller gets an error and nothing changes.
Begins ==
  /\ ~Busy("operation") /\ generation < MaxGeneration
  /\ blurred' = Busy("init")
  /\ UNCHANGED <<machine, failing, repairs, slips>>

Install ==
  /\ Begins
  /\ status' = "InstallRequired"
  /\ StopCheck
  /\ Operate("install", "installing")
  /\ Launch("operation", "install")

\* ReinstallRequired and ForceReinstallRequired.
Reinstall ==
  /\ Begins
  /\ status' = "ReinstallRequired"
  /\ StopCheck
  /\ Operate("reinstall", "uninstalling")
  /\ Launch("operation", "uninstall")

Uninstall ==
  /\ Begins
  /\ StopCheck
  /\ IF Installed
     THEN /\ status' = "UninstallRequired"
          /\ Operate("uninstall", "removing")
          /\ Launch("operation", "uninstall")
     ELSE /\ status' = "Unavailable"
          /\ UNCHANGED <<tasks, helpers, crossed>>

Refresh ==
  /\ Begins
  /\ Operate("refresh", "inspect")
  /\ UNCHANGED <<status, generation, helpers, crossed>>

\* The reads init and refresh begin with.
Verdict ==
  IF ~Diagnosed THEN "NeedsReinstall"
  ELSE IF ~Installed THEN "InstallRequired"
  ELSE IF ~Runs THEN "Unavailable" ELSE "Ready"

Inspect(t) ==
  /\ AtStep(t, "inspect")
  /\ IF Verdict = "Ready" THEN GoesOn(t, "wait") /\ UNCHANGED status
                          ELSE End(t) /\ status' = Verdict
  /\ UNCHANGED <<machine, helpers, generation, failing, repairs, blurred, crossed, slips>>

\* wait_for_ipc.
GetsAnswer(t) ==
  /\ AtStep(t, "wait") /\ Responds
  /\ GoesOn(t, IF tasks[t].kind = "repair" THEN "ready" ELSE "version")
  /\ UNCHANGED <<machine, helpers, status, generation, failing, repairs, blurred, crossed, slips>>

GetsNoAnswer(t) ==
  /\ AtStep(t, "wait") /\ ~Responds
  /\ End(t)
  /\ status' = IF tasks[t].kind \in {"init", "refresh"} THEN "Unavailable" ELSE status
  /\ UNCHANGED <<machine, helpers, generation, failing, repairs, blurred, crossed, slips>>

\* After an install of another version the service is installed once more.
CompareVersion(t) ==
  /\ AtStep(t, "version")
  /\ \/ /\ VersionFits
        /\ GoesOn(t, "watch") /\ UNCHANGED <<status, generation, helpers, crossed>>
     \/ /\ ~VersionFits /\ tasks[t].kind = "install"
        /\ status' = "ReinstallRequired"
        /\ StopCheck
        /\ Operate("reinstall", "uninstalling")
        /\ Launch("operation", "uninstall")
     \/ /\ ~VersionFits /\ tasks[t].kind # "install"
        /\ End(t) /\ status' = "NeedsReinstall" /\ UNCHANGED <<generation, helpers, crossed>>
  /\ UNCHANGED <<machine, failing, repairs, blurred, slips>>

\* Mutant: a service that has been reinstalled is no longer watched.
WatchUnlessReinstalled(t) ==
  /\ AtStep(t, "watch")
  /\ IF tasks[t].kind = "reinstall" THEN UNCHANGED generation ELSE StartCheck
  /\ GoesOn(t, "ready")
  /\ UNCHANGED <<machine, helpers, status, failing, repairs, blurred, crossed, slips>>

Watch(t) ==
  /\ AtStep(t, "watch")
  /\ StartCheck
  /\ GoesOn(t, "ready")
  /\ UNCHANGED <<machine, helpers, status, failing, repairs, blurred, crossed, slips>>

BecomeReady(t) ==
  /\ AtStep(t, "ready")
  /\ status' = "Ready"
  /\ End(t)
  /\ UNCHANGED <<machine, helpers, generation, failing, repairs, blurred, crossed, slips>>

(****************************** health checks ********************************)

\* The thread of the present generation wakes up and gets no answer.  The wait of 30 s
\* between checks is far longer than what follows: one failure is pending at a time.
ProbeFails ==
  /\ Watched /\ ~Responds
  /\ failing = {} /\ repairs = 0
  /\ failing' = {generation}
  /\ UNCHANGED <<machine, helpers, manager, repairs, crossed, slips>>

\* on_unhealthy, if the check has not been stopped meanwhile.
Report(g) ==
  /\ g \in failing
  /\ failing' = failing \ {g}
  /\ repairs' = IF g = generation THEN repairs + 1 ELSE repairs
  /\ UNCHANGED <<machine, helpers, manager, crossed, slips>>

RepairRefused ==
  /\ repairs > 0 /\ Busy("operation")
  /\ repairs' = repairs - 1
  /\ UNCHANGED <<machine, helpers, manager, failing, crossed, slips>>

\* handle_unhealthy_inner.
Repair ==
  /\ repairs > 0 /\ ~Busy("operation")
  /\ repairs' = repairs - 1
  /\ blurred' = (blurred \/ Busy("init") \/ ~Watched)
  /\ IF Installed THEN status' = "Unavailable" /\ UNCHANGED generation
                  ELSE status' = "InstallRequired" /\ StopCheck
  /\ IF Installed /\ ~Runs THEN Operate("repair", "start") ELSE UNCHANGED tasks
  /\ UNCHANGED <<machine, helpers, failing, crossed, slips>>

CanStart == entry = "ours" /\ binary # "none"
ServiceStarts ==
  /\ process' = IF process = "none" THEN binary ELSE process
  /\ hung' = FALSE
  /\ UNCHANGED <<entry, binary>>

\* start_or_elevate: the helper is asked when the service cannot be started.
RepairStarts ==
  /\ AtStep("operation", "start") /\ CanStart
  /\ ServiceStarts
  /\ GoesOn("operation", "wait")
  /\ UNCHANGED <<helpers, status, generation, failing, repairs, blurred, crossed, slips>>

RepairElevates ==
  /\ AtStep("operation", "start")
  /\ GoesOn("operation", "starting")
  /\ Launch("operation", "install")
  /\ UNCHANGED <<machine, status, generation, failing, repairs, blurred, slips>>

(********************************* helpers ***********************************)

Helper(h, job, step) == helpers[h] = [job |-> job, at |-> step]
Goes(h, step) == helpers' = [helpers EXCEPT ![h].at = step]
OnlyHelpers == UNCHANGED <<manager, failing, repairs, slips>>

\* install_or_repair looks for the service; that it does not stop is not an error.
OpenInstall(h) ==
  /\ Helper(h, "install", "open")
  /\ \/ entry = "none" /\ Goes(h, "create") /\ UNCHANGED process
     \/ entry = "ours" /\ Goes(h, "replace") /\ process' \in {"none", process}
     \/ entry = "stale" /\ Goes(h, "delete") /\ process' \in {"none", process}
  /\ UNCHANGED <<entry, binary, hung, crossed>> /\ OnlyHelpers

\* Mutant: the files go before the service does.
OpenUninstallFilesFirst(h) ==
  /\ Helper(h, "uninstall", "open")
  /\ IF Installed THEN Goes(h, "delete") /\ process' = "none" /\ binary' = "none"
                  ELSE Goes(h, "remove") /\ UNCHANGED <<process, binary>>
  /\ UNCHANGED <<entry, hung, crossed>> /\ OnlyHelpers

OpenUninstall(h) ==
  /\ Helper(h, "uninstall", "open")
  /\ IF Installed THEN Goes(h, "delete") /\ process' = "none"
                  ELSE Goes(h, "remove") /\ UNCHANGED process
  /\ UNCHANGED <<entry, binary, hung, crossed>> /\ OnlyHelpers

\* A service that still runs goes when it stops; the wait for that is an error.
Unregister(h) ==
  /\ helpers[h].at = "delete" /\ Installed
  /\ entry' = "none"
  /\ Goes(h, IF process # "none" THEN "failed"
             ELSE IF helpers[h].job = "install" THEN "create" ELSE "remove")
  /\ UNCHANGED <<binary, process, hung, crossed>> /\ OnlyHelpers

\* prepare_managed_service_binary: the files of a process that runs cannot be replaced.
Prepare(h) ==
  /\ helpers[h].at \in {"replace", "create"} /\ process = "none"
  /\ binary' = "new"
  /\ crossed' = (crossed /\ \E o \in Slots \ {h} : Works(o))
  /\ Goes(h, IF helpers[h].at = "create" THEN "register" ELSE "start")
  /\ UNCHANGED <<entry, process, hung>> /\ OnlyHelpers

Register(h) ==
  /\ helpers[h].at = "register" /\ ~Installed
  /\ entry' = "ours"
  /\ Goes(h, "start")
  /\ UNCHANGED <<binary, process, hung, crossed>> /\ OnlyHelpers

HelperStarts(h) ==
  /\ helpers[h].at = "start" /\ CanStart
  /\ ServiceStarts
  /\ Goes(h, "succeeded")
  /\ UNCHANGED crossed /\ OnlyHelpers

RemoveFiles(h) ==
  /\ helpers[h].at = "remove" /\ process = "none"
  /\ binary' = "none"
  /\ Goes(h, "succeeded")
  /\ UNCHANGED <<entry, process, hung, crossed>> /\ OnlyHelpers

\* Any call of a helper fails, the user refuses it, or it is killed.
HelperFails(h) ==
  /\ Works(h) /\ helpers[h].at \notin {"succeeded", "failed"}
  /\ Goes(h, "failed")
  /\ UNCHANGED <<machine, crossed>> /\ OnlyHelpers

\* A reinstall goes on whether or not the old service could be uninstalled.
HelperEnds(h) ==
  /\ helpers[h].at \in {"succeeded", "failed"}
  /\ IF h = "operation" /\ AtStep(h, "uninstalling")
     THEN GoesOn(h, "installing") /\ Launch(h, "install") /\ UNCHANGED status
     ELSE /\ helpers' = [helpers EXCEPT ![h] = NoHelper]
          /\ UNCHANGED crossed
          /\ IF h = "other" THEN UNCHANGED <<status, tasks>>
             ELSE IF AtStep(h, "removing") \/ helpers[h].at = "failed"
             THEN /\ End(h)
                  /\ status' = IF helpers[h].at = "succeeded" THEN "Unavailable" ELSE status
             ELSE GoesOn(h, "wait") /\ UNCHANGED status
  /\ UNCHANGED <<machine, generation, failing, repairs, blurred, slips>>

(******************************* surroundings ********************************)

\* start_or_elevate again, in core::start_with_service: a command that does not go
\* through the manager.
CommandStarts ==
  /\ CanStart /\ ~Runs /\ ServiceStarts
  /\ UNCHANGED <<helpers, manager, failing, repairs, crossed, slips>>

CommandElevates ==
  /\ Installed /\ ~Runs /\ ~Works("other")
  /\ slips < ServiceMishaps /\ slips' = slips + 1
  /\ Launch("other", "install")
  /\ UNCHANGED <<machine, manager, failing, repairs>>

ServiceStops ==
  /\ process # "none"
  /\ process' = "none" /\ hung' = FALSE
  /\ UNCHANGED <<entry, binary, helpers, manager, failing, repairs, crossed, slips>>

ServiceHangs ==
  /\ process # "none" /\ ~hung /\ slips < ServiceMishaps
  /\ hung' = TRUE /\ slips' = slips + 1
  /\ UNCHANGED <<entry, binary, process, helpers, manager, failing, repairs, crossed>>

\* The application ends or is killed, and starts again; its helper goes on.
ApplicationRestarts ==
  /\ slips < ServiceMishaps
  /\ ~Works("operation") \/ ~Works("other")
  /\ slips' = slips + 1
  /\ helpers' = [operation |-> NoHelper,
                 other |-> IF Works("other") THEN helpers["other"] ELSE helpers["operation"]]
  /\ status' = "Unavailable"
  /\ tasks' = [init |-> [kind |-> "init", at |-> "inspect"], operation |-> NoTask]
  /\ generation' = 0 /\ failing' = {} /\ repairs' = 0 /\ blurred' = FALSE
  /\ UNCHANGED <<machine, crossed>>

(******************************* specification *******************************)

ManagerInit ==
  /\ entry \in {"none", "stale", "ours"} /\ binary \in {"none", "old", "new"}
  /\ process \in {"none", "old", "new"}
  /\ entry = "none" => binary = "none" /\ process = "none"
  /\ entry = "stale" => binary = "none" /\ process # "new"
  /\ entry = "ours" => binary # "none" /\ process \in {"none", binary}
  /\ hung = FALSE
  /\ helpers = [h \in Slots |-> NoHelper]
  /\ status = "Unavailable"
  /\ tasks = [init |-> [kind |-> "init", at |-> "inspect"], operation |-> NoTask]
  /\ generation = 0 /\ failing = {} /\ repairs = 0
  /\ blurred = FALSE /\ crossed = FALSE /\ slips = 0

ManagerNext ==
  \/ Install \/ Reinstall \/ Uninstall \/ Refresh
  \/ \E t \in {"init", "operation"} :
       Inspect(t) \/ GetsAnswer(t) \/ GetsNoAnswer(t) \/ CompareVersion(t) \/ Watch(t)
       \/ BecomeReady(t)
  \/ ProbeFails \/ (\E g \in failing : Report(g)) \/ RepairRefused \/ Repair
  \/ RepairStarts \/ RepairElevates
  \/ \E h \in Slots :
       OpenInstall(h) \/ OpenUninstall(h) \/ Unregister(h) \/ Prepare(h) \/ Register(h)
       \/ HelperStarts(h) \/ RemoveFiles(h) \/ HelperFails(h) \/ HelperEnds(h)
  \/ CommandStarts \/ CommandElevates \/ ServiceStops \/ ServiceHangs \/ ApplicationRestarts

ManagerSpec == ManagerInit /\ [][ManagerNext]_managerVars

(******************************** properties *********************************)

\* A service the manager calls ready is watched once the operation that found it
\* ready is over: each of install, reinstall and refresh starts the health check it
\* or an earlier one stopped (service_manager.rs:291, 342, 379), and a repair relies
\* on the check that asked for it (service_manager.rs:235).
ReadyIsWatched ==
  status = "Ready" /\ ~Busy("operation") /\ ~Busy("init") /\ ~blurred => Watched

\* However a helper is refused, fails or outlives its application, a service that is
\* registered has its files: they are installed before it is registered and removed
\* after it is gone (service_install.rs:367, service_uninstall.rs:132).  Only an
\* uninstall beside another helper can take the files of a service away.
RegisteredHasFiles == entry = "ours" /\ ~crossed => binary # "none"
=============================================================================
