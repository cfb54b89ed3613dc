---------------------------- MODULE CoreHosting ----------------------------
(***************************************************************************)
(* Who hosts the mihomo core: the application (a sidecar) or the Windows   *)
(* service (over IPC), and the commands that move it from one to the other *)
(* (src-tauri/src/core.rs and commands.rs).  Commands hold config_lock, so *)
(* one runs at a time; crashes, automatic restarts, the service and        *)
(* requests whose client timed out go on in between its steps.             *)
(*                                                                         *)
(* A command is the sequence of calls it has still to make.  A call that   *)
(* fails drops the rest and runs what the command does on errors; a call   *)
(* that is itself a sequence of calls puts them in its place.              *)
(*                                                                         *)
(* The handle's own races are in SidecarCore, the manager's in ServiceCore.*)
(***************************************************************************)
EXTENDS Naturals, Sequences

CONSTANTS
    Failures, \* calls that can fail
    None      \* no snapshot

ASSUME HostingAssumption ==
    Failures \subseteq {"kill", "spawn", "orphans", "scm", "ipc", "timeout",
                        "hosted", "installer", "stale", "runtime", "persist",
                        "reload", "confirm", "refresh", "rollback"}

VARIABLES
    sidecar,    \* the process in CoreHandle: none, alive, or dead but tracked
    retry,      \* on_terminated granted a restart that has not been tried
    loose,      \* a sidecar lives that no handle tracks
    service,    \* SCM's view of the service
    hosted,     \* the service's core; due: it crashed and will be restarted
    late,       \* requests the service still holds after their client gave up
    tun,        \* settings.tun in memory
    savedTun,   \* tun in settings.json
    runtimeTun, \* tun in the runtime configuration
    command,    \* the command that ran last, or runs
    plan,       \* the calls it has still to make
    rescue,     \* the calls it makes if one of those fails
    was,        \* what apply_tun remembers of the state before
    trouble,    \* none, failed, or broken: an error while handling an error
    spoiled,    \* history: a rollback of apply_tun failed
    revived     \* history: on_terminated spawned the sidecar under TUN or amid a command

hosts == <<sidecar, retry, revived, loose, service, hosted, late>>
settings == <<tun, savedTun, runtimeTun>>
control == <<command, plan, rescue, was, trouble, spoiled>>
vars == <<hosts, settings, control>>

Steps == {"start", "startSidecar", "startHosted", "startWithService",
          "startService", "ipcStart", "stopSidecar", "stopHosted", "killOrphans",
          "install", "reinstall", "uninstall", "refresh", "arm", "disarm",
          "capture", "apply", "touch", "ensureService", "persist", "reload",
          "mayRepair", "confirm", "tunOff", "restoreSettings", "stopNewService",
          "restoreHost"}

Snapshots == [tun : BOOLEAN, saved : BOOLEAN, runtime : BOOLEAN,
              sidecar : BOOLEAN, service : BOOLEAN, core : BOOLEAN,
              touched : BOOLEAN, revived : BOOLEAN]

ASSUME NoneIsNoSnapshot == None \notin Snapshots

TypeOK ==
    /\ sidecar \in {"none", "alive", "dead"}
    /\ retry \in BOOLEAN /\ loose \in BOOLEAN
    /\ service \in {"absent", "stopped", "running"}
    /\ hosted \in {"none", "alive", "due"}
    /\ hosted # "none" \/ late # {} => service = "running"
    /\ late \subseteq {"start", "stop"}
    /\ tun \in BOOLEAN /\ savedTun \in BOOLEAN /\ runtimeTun \in BOOLEAN
    /\ command \in {"boot", "start", "stop", "restart", "startService", "install",
                    "uninstall", "reinstall", "tunOn", "tunOff"}
    /\ plan \in Seq(Steps) /\ rescue \in Seq(Steps)
    /\ was \in Snapshots \cup {None}
    /\ trouble \in {"none", "failed", "broken"}
    /\ spoiled \in BOOLEAN /\ revived \in BOOLEAN

\* The application starts: profiles regenerate the runtime configuration from
\* the saved settings, then the core is started.
Init ==
    /\ sidecar = "none" /\ retry = FALSE /\ loose = FALSE
    /\ service \in {"absent", "stopped", "running"}
    /\ hosted = "none" /\ late = {}
    /\ tun \in BOOLEAN /\ savedTun = tun /\ runtimeTun = tun
    /\ command = "boot" /\ plan = <<"start">> /\ rescue = <<>>
    /\ was = None /\ trouble = "none" /\ spoiled = FALSE /\ revived = FALSE

Idle == plan = <<>>
Tracked == sidecar # "none"
CoreRuns == Tracked \/ hosted = "alive"

(***************************************************************************)
(* How a command proceeds                                                  *)
(***************************************************************************)

At(step) == plan # <<>> /\ Head(plan) = step

\* The call succeeds; calls it stands for come first.
Go(calls) ==
    /\ plan' = calls \o Tail(plan)
    /\ UNCHANGED <<command, rescue, was, trouble, spoiled>>

Fail ==
    /\ plan' = rescue
    /\ rescue' = <<>>
    /\ trouble' = IF trouble = "none" THEN "failed" ELSE "broken"
    /\ spoiled' = (spoiled \/ (was # None /\ trouble = "failed"))
    /\ UNCHANGED <<command, was>>

\* "mayRepair" stands after the calls whose IPC failure apply_tun answers by
\* repairing the service, which starts the core again.
Repairable == /\ service = "running"
              /\ \E i \in DOMAIN plan : plan[i] = "mayRepair"

AfterRepair == LET i == CHOOSE i \in DOMAIN plan : plan[i] = "mayRepair"
               IN  SubSeq(plan, i + 1, Len(plan))

FailIpc ==
    \/ ~Repairable /\ Fail
    \/ /\ Repairable
       /\ plan' = (IF Tracked THEN <<"stopSidecar">> ELSE <<>>) \o
                  <<"killOrphans", "reinstall", "start">> \o AfterRepair
       /\ UNCHANGED <<command, rescue, was, trouble, spoiled>>

(***************************************************************************)
(* core.rs: start and stop                                                 *)
(***************************************************************************)

Start ==
    /\ At("start")
    /\ \/ tun /\ Tracked /\ Go(<<"stopSidecar", "startHosted">>)
       \/ tun /\ ~Tracked /\ Go(<<"startHosted">>)
       \/ ~tun /\ Tracked /\ Go(<<>>)
       \/ ~tun /\ ~Tracked /\ Go(<<"startSidecar">>)
    /\ UNCHANGED <<hosts, settings>>

\* start with TUN, once no sidecar is tracked.
StartHosted ==
    /\ At("startHosted")
    /\ \/ service = "absent" /\ Fail
       \/ service = "stopped" /\ Go(<<"killOrphans", "startService", "ipcStart">>)
       \/ service = "running" /\ Go(<<"ipcStart">>)
    /\ UNCHANGED <<hosts, settings>>

StartWithService ==
    /\ At("startWithService")
    /\ \/ service = "absent" /\ Fail
       \/ /\ service # "absent"
          /\ Go(<<"stopSidecar", "killOrphans", "startService", "ipcStart">>)
    /\ UNCHANGED <<hosts, settings>>

\* start_sidecar: a restart that on_terminated granted is refused from now on.
StartSidecar ==
    /\ At("startSidecar")
    /\ \/ /\ Tracked
          /\ Go(<<>>)
          /\ UNCHANGED <<sidecar, retry, revived>>
       \/ /\ ~Tracked
          /\ sidecar' = "alive"
          /\ retry' = FALSE
          /\ revived' = (was # None /\ was.revived)
          /\ Go(<<>>)
       \/ /\ ~Tracked /\ "spawn" \in Failures
          /\ Fail
          /\ UNCHANGED <<sidecar, retry, revived>>
    /\ UNCHANGED <<loose, service, hosted, late, settings>>

\* Mutated form: a stop that does not set manual_stop.
StopSidecarKeepsRetry ==
    /\ At("stopSidecar")
    /\ sidecar' = "none"
    /\ Go(<<>>)
    /\ UNCHANGED <<retry, revived, loose, service, hosted, late, settings>>

\* stop_sidecar: the handle lets go, and no restart follows, even when the kill
\* fails.
StopSidecar ==
    /\ At("stopSidecar")
    /\ sidecar' = "none"
    /\ retry' = FALSE
    /\ revived' = FALSE
    /\ \/ Go(<<>>) /\ UNCHANGED loose
       \/ /\ sidecar = "alive" /\ "kill" \in Failures
          /\ loose' = TRUE
          /\ Fail
    /\ UNCHANGED <<service, hosted, late, settings>>

\* stop_orphan_sidecars: kills what it finds, the tracked process included;
\* its errors are only logged.
KillOrphans ==
    /\ At("killOrphans")
    /\ Go(<<>>)
    /\ \/ /\ loose' = FALSE
          /\ sidecar' = IF sidecar = "alive" THEN "dead" ELSE sidecar
       \/ /\ "orphans" \in Failures
          /\ UNCHANGED <<loose, sidecar>>
    /\ UNCHANGED <<retry, revived, service, hosted, late, settings>>

\* service::start_or_elevate, unless the service runs.
StartService ==
    /\ At("startService")
    /\ \/ service # "absent" /\ service' = "running" /\ Go(<<>>)
       \/ service # "running" /\ "scm" \in Failures /\ Fail /\ UNCHANGED service
       \/ service = "absent" /\ Fail /\ UNCHANGED service
    /\ UNCHANGED <<sidecar, retry, revived, loose, hosted, late, settings>>

\* The service cannot be reached, or its version does not match.
Unreachable == service # "running" \/ "ipc" \in Failures

\* The request arrived, and the client gave up before the answer.
GivesUp(request) ==
    /\ service = "running" /\ "timeout" \in Failures
    /\ late' = late \cup {request}
    /\ UNCHANGED hosted

\* wait_for_service_ipc_ready, the version check and start_core_via_service.
IpcStart ==
    /\ At("ipcStart")
    /\ \/ /\ service = "running"
          /\ hosted' = "alive"
          /\ Go(<<>>)
          /\ UNCHANGED late
       \/ /\ service = "running" /\ "hosted" \in Failures
          /\ hosted' \in {"none", hosted}
          /\ Fail
          /\ UNCHANGED late
       \/ Unreachable /\ FailIpc /\ UNCHANGED <<hosted, late>>
       \/ GivesUp("start") /\ FailIpc
    /\ UNCHANGED <<sidecar, retry, revived, loose, service, settings>>

\* The second half of stop.
StopHosted ==
    /\ At("stopHosted")
    /\ \/ /\ service # "running"
          /\ Go(<<>>)
          /\ UNCHANGED <<hosted, late>>
       \/ /\ service = "running"
          /\ hosted' = "none"
          /\ Go(<<>>)
          /\ UNCHANGED late
       \/ /\ service = "running" /\ "hosted" \in Failures
          /\ hosted' = IF hosted = "alive" THEN "alive" ELSE "none"
          /\ Fail
          /\ UNCHANGED late
       \/ service = "running" /\ Unreachable /\ FailIpc /\ UNCHANGED <<hosted, late>>
       \/ GivesUp("stop") /\ FailIpc
    /\ UNCHANGED <<sidecar, retry, revived, loose, service, settings>>

(***************************************************************************)
(* service_manager.rs: the operations that change the service              *)
(***************************************************************************)

\* The service stops, is removed or is started anew: what it held is gone.
ServiceBecomes(state) ==
    /\ service' = state
    /\ hosted' = "none"
    /\ late' = {}

\* An operation that ends in state, or stops short of it.
Operation(step, state, partial) ==
    /\ At(step)
    /\ \/ ServiceBecomes(state) /\ Go(<<>>)
       \/ /\ "installer" \in Failures
          /\ \/ UNCHANGED <<service, hosted, late>>
             \/ \E s \in partial : ServiceBecomes(s)
          /\ Fail
    /\ UNCHANGED <<sidecar, retry, revived, loose, settings>>

InstallService == Operation("install", "running", {"absent", "stopped", "running"})
ReinstallService == Operation("reinstall", "running", {"absent", "stopped", "running"})
UninstallService == Operation("uninstall", "absent", {"stopped"})

\* service_manager.refresh() looks, and can fail.
RefreshStatus ==
    /\ At("refresh")
    /\ \/ Go(<<>>)
       \/ "refresh" \in Failures /\ Fail
    /\ UNCHANGED <<hosts, settings>>

\* From here on, or no longer, an error is answered by core::start.
Arm ==
    /\ At("arm") \/ At("disarm")
    /\ plan' = Tail(plan)
    /\ rescue' = IF At("arm") THEN <<"start">> ELSE <<>>
    /\ UNCHANGED <<hosts, settings, command, was, trouble, spoiled>>

(***************************************************************************)
(* commands.rs: apply_tun_inner and rollback_tun_change                    *)
(***************************************************************************)

Target == command # "tunOff"

\* What the rollback needs (revived is history); from here on an error restores
\* the settings.  A service that does not answer has no core.
Capture ==
    /\ At("capture")
    /\ \E core \in {CoreRuns} \cup (IF "ipc" \in Failures THEN {Tracked} ELSE {}) :
        was' = [tun |-> tun, saved |-> savedTun, runtime |-> runtimeTun,
                sidecar |-> Tracked, service |-> service = "running",
                core |-> core, touched |-> FALSE, revived |-> revived]
    /\ plan' = Tail(plan)
    /\ rescue' = <<"restoreSettings">>
    /\ UNCHANGED <<hosts, settings, command, trouble, spoiled>>

\* The settings in memory, then regenerate_runtime, which can fail.
Apply ==
    /\ At("apply")
    /\ tun' = Target
    /\ \/ runtimeTun' = Target /\ Go(<<>>)
       \/ "runtime" \in Failures /\ UNCHANGED runtimeTun /\ Fail
    /\ UNCHANGED <<hosts, savedTun>>

\* Mutated form: the rollback never touches the core.
TouchForgotten ==
    /\ At("touch")
    /\ was' = [was EXCEPT !.touched = TRUE]
    /\ plan' = Tail(plan)
    /\ UNCHANGED <<hosts, settings, command, rescue, trouble, spoiled>>

\* core_touched: from here on an error also restores the core's host.
Touch ==
    /\ At("touch")
    /\ was' = [was EXCEPT !.touched = TRUE]
    /\ plan' = Tail(plan)
    /\ rescue' = <<"restoreSettings", "stopSidecar", "stopHosted",
                   "stopNewService", "restoreHost">>
    /\ UNCHANGED <<hosts, settings, command, trouble, spoiled>>

EnsureService ==
    /\ At("ensureService")
    /\ LET stop == IF was.sidecar THEN <<"stopSidecar">> ELSE <<>>
           start == IF was.service THEN <<>> ELSE <<"killOrphans", "startService">>
       IN  Go(stop \o start)
    /\ UNCHANGED <<hosts, settings>>

\* "the service is not running" is an error; then settings.json is written.
Persist ==
    /\ At("persist")
    /\ \/ (Target => service = "running") /\ savedTun' = tun /\ Go(<<>>)
       \/ Target /\ service # "running" /\ Fail /\ UNCHANGED savedTun
       \/ "persist" \in Failures /\ Fail /\ UNCHANGED savedTun
    /\ UNCHANGED <<hosts, tun, runtimeTun>>

\* reload_runtime when the service ran before, then start; restart if the
\* service is gone again.
Reload ==
    /\ At("reload")
    /\ \/ service = "running" /\ Go(<<"start", "mayRepair">>)
       \/ /\ service # "running"
          /\ Go(<<"stopSidecar", "stopHosted", "start", "mayRepair">>)
       \/ was.service /\ CoreRuns /\ "reload" \in Failures /\ Fail
    /\ UNCHANGED <<hosts, settings>>

MayRepair == At("mayRepair") /\ Go(<<>>) /\ UNCHANGED <<hosts, settings>>

Answers == sidecar = "alive" \/ hosted = "alive" \/ loose

\* wait_runtime_tun and wait_tun_adapter: a core has to answer.
Confirm ==
    /\ At("confirm")
    /\ \/ Answers /\ Go(<<>>)
       \/ ("confirm" \in Failures \/ ~Answers) /\ Fail
    /\ UNCHANGED <<hosts, settings>>

\* Mutated form: the files are restored, the settings in memory are not.
RestoreFilesOnly ==
    /\ At("restoreSettings")
    /\ savedTun' = was.saved /\ runtimeTun' = was.runtime
    /\ Go(<<>>)
    /\ UNCHANGED <<hosts, tun>>

\* The settings in memory, then each file; files that failed are tried again
\* when the transaction is dropped.
RestoreSettings ==
    /\ At("restoreSettings")
    /\ tun' = was.tun
    /\ \/ savedTun' = was.saved /\ runtimeTun' = was.runtime /\ Go(<<>>)
       \/ /\ "rollback" \in Failures
          /\ savedTun' \in {savedTun, was.saved}
          /\ runtimeTun' \in {runtimeTun, was.runtime}
          /\ Fail
    /\ UNCHANGED hosts

\* service::stop() when it did not run before.
StopNewService ==
    /\ At("stopNewService")
    /\ \/ /\ was.service \/ service # "running"
          /\ Go(<<>>)
          /\ UNCHANGED <<service, hosted, late>>
       \/ /\ ~was.service /\ service = "running"
          /\ ServiceBecomes("stopped")
          /\ Go(<<>>)
       \/ /\ ~was.service /\ service = "running" /\ "scm" \in Failures
          /\ Fail
          /\ UNCHANGED <<service, hosted, late>>
    /\ UNCHANGED <<sidecar, retry, revived, loose, settings>>

\* Mutated form: whatever core ran comes back as a sidecar.
RestoreAsSidecar ==
    /\ At("restoreHost")
    /\ \/ was.core /\ Go(<<"startSidecar">>)
       \/ ~was.core /\ Go(<<>>)
    /\ UNCHANGED <<hosts, settings>>

RestoreHost ==
    /\ At("restoreHost")
    /\ \/ was.sidecar /\ Go(<<"startSidecar">>)
       \/ ~was.sidecar /\ was.core /\ Go(<<"startWithService">>)
       \/ ~was.sidecar /\ ~was.core /\ Go(<<>>)
    /\ UNCHANGED <<hosts, settings>>

\* save_settings with tun off, by uninstall or by the user: it is all saved and
\* reloaded, or all rolled back.
TunOff ==
    /\ At("tunOff")
    /\ \/ tun' = FALSE /\ savedTun' = FALSE /\ runtimeTun' = FALSE /\ Go(<<>>)
       \/ tun /\ {"persist", "runtime"} \cap Failures # {} /\ Fail
          /\ UNCHANGED settings
    /\ UNCHANGED hosts

(***************************************************************************)
(* The commands                                                            *)
(***************************************************************************)

\* Commands that take a tracked sidecar down first start it again on errors.
Handover(calls) ==
    IF Tracked THEN <<"stopSidecar", "arm">> \o calls \o <<"disarm">> ELSE calls

TunOnPlan == <<"capture", "apply", "touch", "ensureService", "persist", "reload",
               "confirm">>

TunOffPlan == <<"capture", "apply", "persist", "touch", "stopSidecar",
                "stopHosted", "start", "confirm">>

UninstallPlan == <<"killOrphans", "uninstall">> \o
                 (IF tun THEN <<"tunOff">> ELSE <<>>)

RepairPlan == Handover(<<"killOrphans", "reinstall">>) \o <<"start">>

\* apply_tun repairs a registration that went stale first.
SwitchPlans ==
    {TunOnPlan} \cup
    (IF "stale" \in Failures THEN {RepairPlan \o TunOnPlan} ELSE {})

\* The calls of each command, as they follow from the state it begins in.
Plans(name) ==
    CASE name = "start" -> {<<"start">>}
      [] name = "stop" -> {<<"stopSidecar", "stopHosted">>}
      [] name = "restart" -> {<<"stopSidecar", "stopHosted", "start">>}
      [] name = "startService" ->
            IF tun THEN SwitchPlans
            ELSE {Handover(<<"startWithService", "refresh">>)}
      [] name = "install" ->
            {Handover(<<"killOrphans", "install">>) \o <<"startWithService">>}
      [] name = "uninstall" ->
            {<<"stopSidecar", "stopHosted", "disarm">> \o UninstallPlan}
      [] name = "reinstall" -> {RepairPlan}
      [] name = "tunOn" -> SwitchPlans
      [] name = "tunOff" -> {TunOffPlan, <<"tunOff">>}

\* uninstall ignores what core::stop returns.
Begin(name) ==
    /\ Idle
    /\ name \in {"startService", "tunOn"} => service # "absent"
    /\ command' = name
    /\ plan' \in Plans(name)
    /\ rescue' = IF name = "uninstall" THEN UninstallPlan ELSE <<>>
    /\ was' = None
    /\ trouble' = "none"
    /\ UNCHANGED <<hosts, settings, spoiled>>

(***************************************************************************)
(* What goes on by itself                                                  *)
(***************************************************************************)

\* The process ends; the handle notices in on_terminated, which may grant a
\* restart that a stop in between takes back.
SidecarEnds ==
    /\ sidecar = "alive"
    /\ sidecar' = "dead"
    /\ UNCHANGED <<retry, revived, loose, service, hosted, late, settings, control>>

OnTerminated ==
    /\ sidecar = "dead"
    /\ sidecar' = "none"
    /\ retry' \in BOOLEAN
    /\ UNCHANGED <<revived, loose, service, hosted, late, settings, control>>

Relaunch ==
    /\ retry
    /\ retry' = FALSE
    /\ sidecar' \in {"alive"} \cup (IF "spawn" \in Failures THEN {"none"} ELSE {})
    /\ revived' = (sidecar' = "alive" /\ (tun \/ ~Idle))
    /\ UNCHANGED <<loose, service, hosted, late, settings, control>>

LooseEnds ==
    /\ loose
    /\ loose' = FALSE
    /\ UNCHANGED <<sidecar, retry, revived, service, hosted, late, settings, control>>

HostedEnds ==
    /\ hosted = "alive"
    /\ hosted' \in {"due", "none"}
    /\ UNCHANGED <<sidecar, retry, revived, loose, service, late, settings, control>>

HostedRestarts ==
    /\ hosted = "due"
    /\ hosted' \in {"alive", "none"}
    /\ UNCHANGED <<sidecar, retry, revived, loose, service, late, settings, control>>

\* The service gets to a request whose client is gone.
ServeLate(request) ==
    /\ request \in late
    /\ late' = late \ {request}
    /\ hosted' = IF request = "start" THEN "alive" ELSE "none"
    /\ UNCHANGED <<sidecar, retry, revived, loose, service, settings, control>>

\* Somebody stops or starts the service.
ServiceChanges ==
    /\ \/ service = "running" /\ ServiceBecomes("stopped")
       \/ service = "stopped" /\ ServiceBecomes("running")
    /\ UNCHANGED <<sidecar, retry, revived, loose, settings, control>>

\* The application is killed and starts again; its sidecar goes on.
AppDies ==
    /\ loose' = (loose \/ sidecar = "alive")
    /\ sidecar' = "none" /\ retry' = FALSE /\ revived' = FALSE
    /\ tun' = savedTun /\ runtimeTun' = savedTun
    /\ command' = "boot" /\ plan' = <<"start">> /\ rescue' = <<>>
    /\ was' = None /\ trouble' = "none" /\ spoiled' = FALSE
    /\ UNCHANGED <<service, hosted, late, savedTun>>

\* tray::quit, which waits for no command: core::stop, whatever it returns, and
\* the end of the application, which kills its tracked sidecar.
Quit ==
    /\ loose' \in {loose} \cup
                  (IF sidecar = "alive" /\ "kill" \in Failures THEN {TRUE} ELSE {})
    /\ hosted' \in {"none"} \cup (IF "ipc" \in Failures THEN {hosted} ELSE {})
    /\ sidecar' = "none" /\ retry' = FALSE /\ revived' = FALSE
    /\ tun' = savedTun /\ runtimeTun' = savedTun
    /\ command' = "boot" /\ plan' = <<"start">> /\ rescue' = <<>>
    /\ was' = None /\ trouble' = "none" /\ spoiled' = FALSE
    /\ UNCHANGED <<service, late, savedTun>>

Command ==
    \/ Start \/ StartHosted \/ StartWithService \/ StartSidecar \/ StopSidecar
    \/ KillOrphans \/ StartService \/ IpcStart \/ StopHosted
    \/ InstallService \/ ReinstallService \/ UninstallService \/ RefreshStatus \/ Arm
    \/ Capture \/ Apply \/ Touch \/ EnsureService \/ Persist \/ Reload
    \/ MayRepair \/ Confirm \/ RestoreSettings \/ StopNewService \/ RestoreHost
    \/ TunOff

Surroundings ==
    \/ SidecarEnds \/ OnTerminated \/ Relaunch \/ LooseEnds
    \/ HostedEnds \/ HostedRestarts \/ ServiceChanges \/ AppDies \/ Quit
    \/ \E request \in late : ServeLate(request)

Names == {"start", "stop", "restart", "startService", "install", "uninstall",
          "reinstall", "tunOn", "tunOff"}

Next ==
    \/ \E name \in Names : Begin(name)
    \/ Command
    \/ Surroundings

Spec == Init /\ [][Next]_vars

(***************************************************************************)
(* Properties                                                              *)
(***************************************************************************)

\* With TUN on, only the service can open the TUN device, and the application
\* hosts no core of its own, whatever failed on the way.  The one exception is
\* a restart that on_terminated granted before the switch to TUN and that came
\* after start had looked at the handle (core.rs:411-415, 656-658).
TunExcludesSidecar == Idle /\ tun /\ ~spoiled /\ Tracked => revived

\* Between commands the settings in memory, in settings.json and in the runtime
\* configuration agree on TUN, also after failures and rollbacks.
SettingsAgree == Idle /\ ~spoiled => savedTun = tun /\ runtimeTun = tun

Ends == ~Idle /\ plan' = <<>>

\* A failed switch of TUN whose rollback went through leaves everything as it
\* found it: the settings, and once the core was touched, the host that ran it.
RolledBack ==
    /\ <<tun, savedTun, runtimeTun>>' = <<was.tun, was.saved, was.runtime>>
    /\ was.touched =>
          /\ was.sidecar => sidecar' = "alive"
          /\ was.core /\ ~was.sidecar => hosted' = "alive"
          /\ ~was.core => sidecar' = "none"

RollbackRestores ==
    [][Ends /\ was' # None /\ trouble' = "failed" => RolledBack]_vars

\* stop_core that returns Ok leaves neither host with a core or a restart of it:
\* what runs afterwards is a process whose kill had failed, or was lost to a
\* killed application, or was started by a request that had timed out.
StopStops ==
    [][Ends /\ command' = "stop" /\ trouble' = "none"
          => sidecar' = "none" /\ ~retry' /\ hosted' = "none"]_vars

\* core.rs:403 says that starting a core that already runs does nothing.
StartIsIdempotent ==
    [][StartSidecar /\ command \in {"start", "startService"} /\ CoreRuns
          => UNCHANGED hosts]_vars
=============================================================================
