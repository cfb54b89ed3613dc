---------------------------- MODULE HostingProofs ----------------------------
(* What holds of the service that can host the core, and of the commands that    *)
(* move the core between it and the application: first the service's manager,    *)
(* for any number of operations, restarts of the application and helpers that    *)
(* go on without it; then the hosts, for any choice of the calls that can fail.  *)
EXTENDS CoreHosting, ServiceManager, SequenceTheorems, TLAPS

(*****************************************************************************)
(* ServiceManager                                                            *)
(*****************************************************************************)

(****************************** the invariant ********************************)

Kinds == {"none", "init", "refresh", "install", "reinstall", "uninstall", "repair"}
TaskSteps == {"done", "inspect", "wait", "version", "watch", "ready", "installing",
              "uninstalling", "removing", "start", "starting"}
\* What each operation may be waiting for.
Sensible(t) ==
  /\ t.kind = "none" => t = NoTask
  /\ t.kind \in {"init", "refresh"} => t.at \in {"inspect", "wait", "version", "watch", "ready"}
  /\ t.kind = "install" => t.at \in {"installing", "wait", "version", "watch", "ready"}
  /\ t.kind = "reinstall" =>
       t.at \in {"uninstalling", "installing", "wait", "version", "watch", "ready"}
  /\ t.kind = "uninstall" => t.at = "removing"
  /\ t.kind = "repair" => t.at \in {"start", "starting", "wait", "ready"}

Jobs == {"none", "install", "uninstall"}
HelperSteps == {"ended", "open", "delete", "replace", "create", "register", "start", "remove",
                "succeeded", "failed"}
Orderly(h) ==
  /\ h.job = "none" => h = NoHelper
  /\ h.job = "install" => h.at \notin {"ended", "remove"}
  /\ h.job = "uninstall" => h.at \in {"open", "delete", "remove", "succeeded", "failed"}

\* The manager waits for the helper of the operation, and for no other.
Awaiting == {"installing", "uninstalling", "removing", "starting"}

ManagerTypes ==
  /\ tasks \in [{"init", "operation"} -> [kind : Kinds, at : TaskSteps]]
  /\ tasks["init"].kind \in {"none", "init"} /\ tasks["operation"].kind # "init"
  /\ \A t \in {"init", "operation"} : Sensible(tasks[t])
  /\ helpers \in [Slots -> [job : Jobs, at : HelperSteps]]
  /\ \A h \in Slots : Orderly(helpers[h])
  /\ Works("operation") => tasks["operation"].at \in Awaiting
  /\ generation \in Nat
  /\ blurred \in BOOLEAN /\ crossed \in BOOLEAN

\* Files come before the registration and go after it, unless helpers cross.
FilesInv ==
  /\ RegisteredHasFiles
  /\ \A h, o \in Slots : h # o /\ Works(h) /\ Works(o) /\ helpers[h].job = "uninstall" => crossed
  /\ \A h \in Slots : helpers[h].at = "register" /\ ~crossed => binary # "none"
  /\ \A h \in Slots : helpers[h].at = "remove" /\ ~crossed => entry # "ours"

\* An operation withdraws "Ready" before it stops the check, or gives a new verdict
\* at its end; a repair keeps the check that asked for it.
WatchInv ==
  /\ ReadyIsWatched
  /\ Busy("init") /\ Busy("operation") => blurred
  /\ ~blurred /\ Busy("operation") /\ tasks["operation"].kind # "refresh" => status # "Ready"
  /\ ~blurred /\ (AtStep("init", "ready") \/ AtStep("operation", "ready")
                  \/ tasks["operation"].kind = "repair") => Watched

ManagerInv == ManagerTypes /\ FilesInv /\ WatchInv

LEMMA Parity == ASSUME NEW g \in Nat PROVE (g % 2 = 1) <=> ((g + 1) % 2 # 1)
  BY SMT

\* What starting and stopping the check do to its generation.
LEMMA CheckStarts == ASSUME generation \in Nat, StartCheck PROVE Watched' /\ generation' \in Nat
  BY Parity DEF StartCheck, Watched

LEMMA CheckStops == ASSUME generation \in Nat, StopCheck PROVE generation' \in Nat
  BY DEF StopCheck

\* The manager begins with init alone, and no helper of it at work.
LEMMA ManagerStarts == ManagerInit => ManagerInv
<1> SUFFICES ASSUME ManagerInit PROVE ManagerInv
  OBVIOUS
<1>1. ManagerTypes
  <2>1. tasks \in [{"init", "operation"} -> [kind : Kinds, at : TaskSteps]]
    BY DEF ManagerInit, NoTask, Kinds, TaskSteps
  <2>2. tasks["init"].kind \in {"none", "init"} /\ tasks["operation"].kind # "init"
    BY DEF ManagerInit, NoTask
  <2>3. \A t \in {"init", "operation"} : Sensible(tasks[t])
    BY DEF ManagerInit, NoTask, Sensible
  <2>4. /\ helpers \in [Slots -> [job : Jobs, at : HelperSteps]]
        /\ \A h \in Slots : Orderly(helpers[h])
        /\ ~Works("operation")
    BY DEF ManagerInit, NoHelper, Jobs, HelperSteps, Orderly, Slots, Works
  <2> QED
    BY <2>1, <2>2, <2>3, <2>4 DEF ManagerInit, ManagerTypes
<1>2. FilesInv
  BY DEF ManagerInit, FilesInv, RegisteredHasFiles, Works, NoHelper, Slots
<1>3. WatchInv
  BY DEF ManagerInit, WatchInv, ReadyIsWatched, Busy, AtStep, NoTask
<1> QED
  BY <1>1, <1>2, <1>3 DEF ManagerInv

(******************************** the steps **********************************)

\* Steps of commands and of threads leave the service and the helpers alone, those of
\* helpers the manager.
LEMMA FilesFrame ==
  ASSUME FilesInv, UNCHANGED <<entry, binary, helpers, crossed>> PROVE FilesInv'
BY DEF FilesInv, RegisteredHasFiles, Works

LEMMA WatchFrame ==
  ASSUME WatchInv, UNCHANGED <<status, tasks, generation, blurred>> PROVE WatchInv'
BY DEF WatchInv, ReadyIsWatched, Busy, AtStep, Watched

LEMMA LaunchKeepsFiles ==
  ASSUME NEW h \in Slots, NEW job \in {"install", "uninstall"}, ManagerTypes, FilesInv,
         Launch(h, job), UNCHANGED <<entry, binary>>
  PROVE  FilesInv' /\ crossed' \in BOOLEAN
BY DEF FilesInv, RegisteredHasFiles, ManagerTypes, Launch, Crosses, Jobs, HelperSteps, Orderly,
   Works, Slots, NoHelper

LEMMA IdleIsDone ==
  ASSUME ManagerTypes, NEW t \in {"init", "operation"}, ~Busy(t)
  PROVE  tasks[t].kind = "none" /\ tasks[t].at = "done"
BY DEF Busy, NoTask

\* What an operation that begins has to do about the verdict.
LEMMA BeginKeepsWatch ==
  ASSUME ManagerInv, Begins, NEW kind, NEW step, Operate(kind, step),
         step \notin {"ready", "done"} /\ kind # "repair",
         kind = "refresh" \/ status' # "Ready"
  PROVE  WatchInv'
<1>1. tasks'["init"] = tasks["init"] /\ tasks'["operation"] = [kind |-> kind, at |-> step]
  BY DEF ManagerInv, ManagerTypes, Operate
<1>2. ~blurred' => tasks'["init"].kind = "none" /\ tasks'["init"].at = "done"
  BY <1>1, IdleIsDone DEF Begins, ManagerInv
<1>3. Busy("init")' => blurred'
  BY <1>1 DEF Begins, Busy
<1>4. Busy("operation")'
  BY <1>1 DEF Busy, NoTask
<1> QED
  BY <1>1, <1>2, <1>3, <1>4 DEF WatchInv, ReadyIsWatched, AtStep

\* Operations begin by withdrawing the verdict.
LEMMA InstallKeeps ==
  ASSUME ManagerInv, Install PROVE ManagerInv'
<1> USE DEF ManagerInv
<1>1. ManagerTypes'
  BY CheckStops DEF ManagerTypes, Install, Begins, machine, Operate, Launch, Crosses, Busy, Kinds,
     TaskSteps, Sensible, Jobs, HelperSteps, Orderly, Awaiting, Works, Slots, NoHelper, NoTask
<1>2. FilesInv'
  BY LaunchKeepsFiles DEF Install, Begins, machine, Slots
<1>3. WatchInv'
  BY BeginKeepsWatch DEF Install
<1> QED
  BY <1>1, <1>2, <1>3

\* So does a reinstall.
LEMMA ReinstallKeeps ==
  ASSUME ManagerInv, Reinstall PROVE ManagerInv'
<1> USE DEF ManagerInv
<1>1. ManagerTypes'
  BY CheckStops DEF ManagerTypes, Reinstall, Begins, machine, Operate, Launch, Crosses, Busy,
     Kinds, TaskSteps, Sensible, Jobs, HelperSteps, Orderly, Awaiting, Works, Slots, NoHelper,
     NoTask
<1>2. FilesInv'
  BY LaunchKeepsFiles DEF Reinstall, Begins, machine, Slots
<1>3. WatchInv'
  BY BeginKeepsWatch DEF Reinstall
<1> QED
  BY <1>1, <1>2, <1>3

\* So does an uninstall, which may have nothing to do.
LEMMA UninstallKeeps ==
  ASSUME ManagerInv, Uninstall PROVE ManagerInv'
<1> USE DEF ManagerInv
<1>1. ManagerTypes /\ FilesInv /\ WatchInv /\ Begins /\ generation' \in Nat
      /\ UNCHANGED <<entry, binary>> /\ blurred' = Busy("init")
  BY CheckStops DEF Uninstall, Begins, machine, ManagerTypes
<1>2. CASE Installed
  <2>1. /\ status' = "UninstallRequired"
        /\ Operate("uninstall", "removing")
        /\ Launch("operation", "uninstall")
    BY <1>2 DEF Uninstall
  <2>2. ManagerTypes'
    BY <1>1, <2>1 DEF ManagerTypes, Operate, Launch, Crosses, Busy, Kinds, TaskSteps, Sensible,
       Jobs, HelperSteps, Orderly, Awaiting, Works, Slots, NoHelper, NoTask
  <2>3. FilesInv'
    BY <1>1, <2>1, LaunchKeepsFiles DEF Slots
  <2>4. WatchInv'
    BY <1>1, <2>1, BeginKeepsWatch
  <2> QED
    BY <2>2, <2>3, <2>4
<1>3. CASE ~Installed
  <2>1. status' = "Unavailable" /\ UNCHANGED <<tasks, helpers, crossed>>
    BY <1>3 DEF Uninstall
  <2>2. ManagerTypes'
    BY <1>1, <2>1 DEF ManagerTypes, Busy, Works
  <2>3. FilesInv'
    BY <1>1, <2>1, FilesFrame
  <2>4. ~Busy("operation") /\ (~blurred' => ~Busy("init"))
    BY <1>1 DEF Begins
  <2>5. WatchInv'
    BY <1>1, <2>1, <2>4, IdleIsDone DEF WatchInv, ReadyIsWatched, AtStep, Busy
  <2> QED
    BY <2>2, <2>3, <2>5
<1> QED
  BY <1>2, <1>3

\* A refresh begins.
LEMMA RefreshKeeps ==
  ASSUME ManagerInv, Refresh PROVE ManagerInv'
<1> USE DEF ManagerInv
<1>1. ManagerTypes'
  BY DEF ManagerTypes, Refresh, Begins, machine, Operate, Busy, Kinds, TaskSteps, Sensible, Jobs,
     HelperSteps, Orderly, Awaiting, Works, Slots, NoHelper, NoTask
<1>2. FilesInv'
  BY FilesFrame DEF Refresh, Begins, machine, Operate, Busy
<1>3. WatchInv'
  BY BeginKeepsWatch DEF Refresh
<1> QED
  BY <1>1, <1>2, <1>3

\* The first reads.
LEMMA InspectKeeps ==
  ASSUME ManagerInv, NEW t \in {"init", "operation"}, Inspect(t) PROVE ManagerInv'
<1> USE DEF ManagerInv
<1>1. ManagerTypes'
  BY DEF ManagerTypes, Inspect, machine, End, GoesOn, AtStep, Verdict, Busy, Kinds, TaskSteps,
     Sensible, Jobs, HelperSteps, Orderly, Awaiting, Works, Slots, NoHelper, NoTask
<1>2. FilesInv'
  BY FilesFrame DEF Inspect, machine, End, GoesOn, AtStep, Verdict, Busy
<1>3. WatchInv'
  BY DEF WatchInv, ReadyIsWatched, ManagerTypes, Inspect, machine, End, GoesOn, AtStep, Verdict,
     Busy, Watched, Sensible, NoTask, Busy, AtStep
<1> QED
  BY <1>1, <1>2, <1>3

\* An answer of the service.
LEMMA GetsAnswerKeeps ==
  ASSUME ManagerInv, NEW t \in {"init", "operation"}, GetsAnswer(t) PROVE ManagerInv'
<1> USE DEF ManagerInv
<1>1. ManagerTypes'
  BY DEF ManagerTypes, GetsAnswer, machine, GoesOn, AtStep, Busy, Kinds, TaskSteps, Sensible,
     Jobs, HelperSteps, Orderly, Awaiting, Works, Slots, NoHelper, NoTask
<1>2. FilesInv'
  BY FilesFrame DEF GetsAnswer, machine, GoesOn, AtStep, Busy
<1>3. WatchInv'
  BY DEF WatchInv, ReadyIsWatched, ManagerTypes, GetsAnswer, machine, GoesOn, AtStep, Busy,
     Watched, Sensible, NoTask, Busy, AtStep
<1> QED
  BY <1>1, <1>2, <1>3

\* None.
LEMMA GetsNoAnswerKeeps ==
  ASSUME ManagerInv, NEW t \in {"init", "operation"}, GetsNoAnswer(t) PROVE ManagerInv'
<1> USE DEF ManagerInv
<1>1. ManagerTypes'
  BY DEF ManagerTypes, GetsNoAnswer, machine, End, AtStep, Busy, Kinds, TaskSteps, Sensible, Jobs,
     HelperSteps, Orderly, Awaiting, Works, Slots, NoHelper, NoTask
<1>2. FilesInv'
  BY FilesFrame DEF GetsNoAnswer, machine, End, AtStep, Busy
<1>3. WatchInv'
  BY DEF WatchInv, ReadyIsWatched, ManagerTypes, GetsNoAnswer, machine, End, AtStep, Busy,
     Watched, Sensible, NoTask, Busy, AtStep
<1> QED
  BY <1>1, <1>2, <1>3

\* The comparison of versions.
LEMMA CompareVersionKeeps ==
  ASSUME ManagerInv, NEW t \in {"init", "operation"}, CompareVersion(t) PROVE ManagerInv'
<1> USE DEF ManagerInv
<1>1. ManagerTypes /\ FilesInv /\ tasks[t].at = "version"
      /\ UNCHANGED <<entry, binary, process, hung, blurred>>
  BY DEF CompareVersion, AtStep, machine
<1>2. WatchInv'
  BY CheckStops DEF WatchInv, ReadyIsWatched, ManagerTypes, CompareVersion, machine, End, GoesOn,
     AtStep, Operate, Launch, Crosses, Busy, Watched, Sensible, NoTask
<1>3. CASE VersionFits \/ tasks[t].kind # "install"
  <2>1. UNCHANGED <<generation, helpers, crossed>>
        /\ \/ GoesOn(t, "watch") /\ UNCHANGED status
           \/ End(t) /\ status' = "NeedsReinstall"
    BY <1>3 DEF CompareVersion
  <2>2. ManagerTypes'
    BY <1>1, <2>1 DEF ManagerTypes, GoesOn, End, Kinds, TaskSteps, Sensible, Awaiting, Works,
       NoTask
  <2>3. FilesInv'
    BY <1>1, <2>1, FilesFrame
  <2> QED
    BY <2>2, <2>3, <1>2
<1>4. CASE ~VersionFits /\ tasks[t].kind = "install"
  <2>1. StopCheck /\ Operate("reinstall", "uninstalling") /\ Launch("operation", "uninstall")
        /\ t = "operation"
    BY <1>4 DEF CompareVersion, ManagerTypes
  <2>2. ManagerTypes'
    BY <1>1, <2>1, CheckStops DEF ManagerTypes, Operate, Launch, Crosses, Kinds, TaskSteps,
       Sensible, Jobs, HelperSteps, Orderly, Awaiting, Works, Slots, NoHelper, NoTask
  <2>3. FilesInv'
    BY <1>1, <2>1, LaunchKeepsFiles DEF Slots
  <2> QED
    BY <2>2, <2>3, <1>2
<1> QED
  BY <1>3, <1>4

\* The check starts.
LEMMA WatchKeeps ==
  ASSUME ManagerInv, NEW t \in {"init", "operation"}, Watch(t) PROVE ManagerInv'
<1> USE DEF ManagerInv
<1>1. ManagerTypes'
  BY CheckStarts DEF ManagerTypes, Watch, machine, GoesOn, AtStep, Busy, Kinds, TaskSteps,
     Sensible, Jobs, HelperSteps, Orderly, Awaiting, Works, Slots, NoHelper, NoTask
<1>2. FilesInv'
  BY FilesFrame DEF Watch, machine, GoesOn, AtStep, Busy
<1>3. WatchInv'
  BY CheckStarts DEF WatchInv, ReadyIsWatched, ManagerTypes, Watch, machine, GoesOn, AtStep, Busy,
     Sensible, NoTask, Busy, AtStep
<1> QED
  BY <1>1, <1>2, <1>3

\* The verdict.
LEMMA BecomeReadyKeeps ==
  ASSUME ManagerInv, NEW t \in {"init", "operation"}, BecomeReady(t) PROVE ManagerInv'
<1> USE DEF ManagerInv
<1>1. ManagerTypes'
  BY DEF ManagerTypes, BecomeReady, machine, End, AtStep, Busy, Kinds, TaskSteps, Sensible, Jobs,
     HelperSteps, Orderly, Awaiting, Works, Slots, NoHelper, NoTask
<1>2. FilesInv'
  BY FilesFrame DEF BecomeReady, machine, End, AtStep, Busy
<1>3. WatchInv'
  BY DEF WatchInv, ReadyIsWatched, ManagerTypes, BecomeReady, machine, End, AtStep, Busy, Watched,
     Sensible, NoTask, Busy, AtStep
<1> QED
  BY <1>1, <1>2, <1>3

\* What the check's thread does on its own decides nothing.
LEMMA ChecksKeep ==
  ASSUME ManagerInv, ProbeFails \/ (\E g \in failing : Report(g)) \/ RepairRefused PROVE ManagerInv'
<1> USE DEF ManagerInv
<1>1. ManagerTypes'
  BY DEF ManagerTypes, ProbeFails, Report, RepairRefused, machine, manager, Busy, Kinds,
     TaskSteps, Sensible, Jobs, HelperSteps, Orderly, Awaiting, Works, Slots, NoHelper, NoTask
<1>2. FilesInv'
  BY FilesFrame DEF ProbeFails, Report, RepairRefused, machine, manager, Busy
<1>3. WatchInv'
  BY WatchFrame DEF ProbeFails, Report, RepairRefused, machine, manager, Busy
<1> QED
  BY <1>1, <1>2, <1>3

\* A repair begins only where the check goes on, or what it finds is blurred.
LEMMA RepairKeeps ==
  ASSUME ManagerInv, Repair PROVE ManagerInv'
<1> USE DEF ManagerInv
<1>1. ManagerTypes'
  BY CheckStops DEF ManagerTypes, Repair, machine, Operate, Busy, Watched, Kinds, TaskSteps,
     Sensible, Jobs, HelperSteps, Orderly, Awaiting, Works, Slots, NoHelper, NoTask
<1>2. FilesInv'
  BY FilesFrame DEF Repair, machine, Operate, Busy, Watched
<1>3. WatchInv'
  <2>1. ~Busy("operation") /\ (~blurred' => ~blurred /\ ~Busy("init") /\ Watched)
    BY DEF Repair
  <2>2. status' # "Ready"
    BY DEF Repair
  <2>3. ~blurred' => tasks'["init"].at # "ready"
    BY <2>1, IdleIsDone DEF Repair, Operate, ManagerTypes
  <2>4. tasks'["operation"].at # "ready"
    BY <2>1, IdleIsDone DEF Repair, Operate, ManagerTypes
  <2>5. Busy("init")' = Busy("init") /\ (Busy("init") => blurred')
    BY DEF Repair, Operate, Busy, ManagerTypes
  <2>6. tasks'["operation"].kind = "repair" => Installed
    BY <2>1, IdleIsDone DEF Repair, Operate
  <2>7. Installed => generation' = generation
    BY DEF Repair
  <2> QED
    BY <2>1, <2>2, <2>3, <2>4, <2>5, <2>6, <2>7 DEF WatchInv, ReadyIsWatched, AtStep, Watched
<1> QED
  BY <1>1, <1>2, <1>3

\* The service is started.
LEMMA RepairStartsKeeps ==
  ASSUME ManagerInv, RepairStarts PROVE ManagerInv'
<1> USE DEF ManagerInv
<1>1. ManagerTypes'
  BY DEF ManagerTypes, RepairStarts, ServiceStarts, CanStart, GoesOn, AtStep, Busy, Kinds,
     TaskSteps, Sensible, Jobs, HelperSteps, Orderly, Awaiting, Works, Slots, NoHelper, NoTask
<1>2. FilesInv'
  BY FilesFrame DEF RepairStarts, ServiceStarts, CanStart, GoesOn, AtStep, Busy
<1>3. WatchInv'
  BY DEF WatchInv, ReadyIsWatched, ManagerTypes, RepairStarts, ServiceStarts, CanStart, GoesOn,
     AtStep, Busy, Sensible, NoTask, Watched
<1> QED
  BY <1>1, <1>2, <1>3

\* Or a helper is.
LEMMA RepairElevatesKeeps ==
  ASSUME ManagerInv, RepairElevates PROVE ManagerInv'
<1> USE DEF ManagerInv
<1>1. ManagerTypes'
  BY DEF ManagerTypes, RepairElevates, machine, GoesOn, AtStep, Launch, Crosses, Busy, Kinds,
     TaskSteps, Sensible, Jobs, HelperSteps, Orderly, Awaiting, Works, Slots, NoHelper, NoTask
<1>2. FilesInv'
  BY DEF FilesInv, RegisteredHasFiles, ManagerTypes, RepairElevates, machine, GoesOn, AtStep,
     Launch, Crosses, Busy, Jobs, HelperSteps, Orderly, Works, Slots, NoHelper
<1>3. WatchInv'
  BY DEF WatchInv, ReadyIsWatched, ManagerTypes, RepairElevates, machine, GoesOn, AtStep, Launch,
     Crosses, Busy, Sensible, NoTask, Watched
<1> QED
  BY <1>1, <1>2, <1>3

\* A helper begins to install,
LEMMA OpenInstallKeeps ==
  ASSUME ManagerInv, NEW h \in Slots, OpenInstall(h) PROVE ManagerInv'
<1> USE DEF ManagerInv
<1>1. ManagerTypes'
  BY DEF ManagerTypes, OpenInstall, OnlyHelpers, manager, Goes, Helper, machine, Kinds, TaskSteps,
     Sensible, Jobs, HelperSteps, Orderly, Awaiting, Works, Slots, NoHelper, NoTask
<1>2. FilesInv'
  BY DEF FilesInv, RegisteredHasFiles, ManagerTypes, OpenInstall, OnlyHelpers, manager, Goes,
     Helper, machine, Jobs, HelperSteps, Orderly, Works, Slots, NoHelper
<1>3. WatchInv'
  BY WatchFrame DEF OpenInstall, OnlyHelpers, manager, Goes, Helper, machine
<1> QED
  BY <1>1, <1>2, <1>3

\* or to uninstall.
LEMMA OpenUninstallKeeps ==
  ASSUME ManagerInv, NEW h \in Slots, OpenUninstall(h) PROVE ManagerInv'
<1> USE DEF ManagerInv
<1>1. ManagerTypes'
  BY DEF ManagerTypes, OpenUninstall, OnlyHelpers, manager, Goes, Helper, Installed, Kinds,
     TaskSteps, Sensible, Jobs, HelperSteps, Orderly, Awaiting, Works, Slots, NoHelper, NoTask
<1>2. FilesInv'
  BY DEF FilesInv, RegisteredHasFiles, ManagerTypes, OpenUninstall, OnlyHelpers, manager, Goes,
     Helper, Installed, Jobs, HelperSteps, Orderly, Works, Slots, NoHelper
<1>3. WatchInv'
  BY WatchFrame DEF OpenUninstall, OnlyHelpers, manager, Goes, Helper, Installed
<1> QED
  BY <1>1, <1>2, <1>3

\* The service is gone once it is marked for deletion.
LEMMA UnregisterKeeps ==
  ASSUME ManagerInv, NEW h \in Slots, Unregister(h) PROVE ManagerInv'
<1> USE DEF ManagerInv
<1>1. ManagerTypes'
  BY DEF ManagerTypes, Unregister, OnlyHelpers, manager, Goes, Helper, Installed, Kinds,
     TaskSteps, Sensible, Jobs, HelperSteps, Orderly, Awaiting, Works, Slots, NoHelper, NoTask
<1>2. FilesInv'
  BY DEF FilesInv, RegisteredHasFiles, ManagerTypes, Unregister, OnlyHelpers, manager, Goes,
     Helper, Installed, Jobs, HelperSteps, Orderly, Works, Slots, NoHelper
<1>3. WatchInv'
  BY WatchFrame DEF Unregister, OnlyHelpers, manager, Goes, Helper, Installed
<1> QED
  BY <1>1, <1>2, <1>3

\* The files are there before the service is registered.
LEMMA PrepareKeeps ==
  ASSUME ManagerInv, NEW h \in Slots, Prepare(h) PROVE ManagerInv'
<1> USE DEF ManagerInv
<1>1. ManagerTypes'
  BY DEF ManagerTypes, Prepare, OnlyHelpers, manager, Goes, Helper, Kinds, TaskSteps, Sensible,
     Jobs, HelperSteps, Orderly, Awaiting, Works, Slots, NoHelper, NoTask
<1>2. FilesInv'
  BY DEF FilesInv, RegisteredHasFiles, ManagerTypes, Prepare, OnlyHelpers, manager, Goes, Helper,
     Jobs, HelperSteps, Orderly, Works, Slots, NoHelper
<1>3. WatchInv'
  BY WatchFrame DEF Prepare, OnlyHelpers, manager, Goes, Helper
<1> QED
  BY <1>1, <1>2, <1>3

\* An uninstall beside this helper has crossed it.
LEMMA RegisterKeeps ==
  ASSUME ManagerInv, NEW h \in Slots, Register(h) PROVE ManagerInv'
<1> USE DEF ManagerInv
<1>1. ManagerTypes'
  BY DEF ManagerTypes, Register, OnlyHelpers, manager, Goes, Helper, Installed, Kinds, TaskSteps,
     Sensible, Jobs, HelperSteps, Orderly, Awaiting, Works, Slots, NoHelper, NoTask
<1>2. FilesInv'
  BY DEF FilesInv, RegisteredHasFiles, ManagerTypes, Register, OnlyHelpers, manager, Goes, Helper,
     Installed, Jobs, HelperSteps, Orderly, Works, Slots, NoHelper
<1>3. WatchInv'
  BY WatchFrame DEF Register, OnlyHelpers, manager, Goes, Helper, Installed
<1> QED
  BY <1>1, <1>2, <1>3

\* A start changes neither files nor registration.
LEMMA HelperStartsKeeps ==
  ASSUME ManagerInv, NEW h \in Slots, HelperStarts(h) PROVE ManagerInv'
<1> USE DEF ManagerInv
<1>1. ManagerTypes'
  BY DEF ManagerTypes, HelperStarts, OnlyHelpers, manager, Goes, Helper, ServiceStarts, CanStart,
     Kinds, TaskSteps, Sensible, Jobs, HelperSteps, Orderly, Awaiting, Works, Slots, NoHelper,
     NoTask
<1>2. FilesInv'
  BY DEF FilesInv, RegisteredHasFiles, ManagerTypes, HelperStarts, OnlyHelpers, manager, Goes,
     Helper, ServiceStarts, CanStart, Jobs, HelperSteps, Orderly, Works, Slots, NoHelper
<1>3. WatchInv'
  BY WatchFrame DEF HelperStarts, OnlyHelpers, manager, Goes, Helper, ServiceStarts, CanStart
<1> QED
  BY <1>1, <1>2, <1>3

\* No other helper can have registered the service since it was deleted.
LEMMA RemoveFilesKeeps ==
  ASSUME ManagerInv, NEW h \in Slots, RemoveFiles(h) PROVE ManagerInv'
<1> USE DEF ManagerInv
<1>1. ManagerTypes'
  BY DEF ManagerTypes, RemoveFiles, OnlyHelpers, manager, Goes, Helper, Kinds, TaskSteps,
     Sensible, Jobs, HelperSteps, Orderly, Awaiting, Works, Slots, NoHelper, NoTask
<1>2. FilesInv'
  BY DEF FilesInv, RegisteredHasFiles, ManagerTypes, RemoveFiles, OnlyHelpers, manager, Goes,
     Helper, Jobs, HelperSteps, Orderly, Works, Slots, NoHelper
<1>3. WatchInv'
  BY WatchFrame DEF RemoveFiles, OnlyHelpers, manager, Goes, Helper
<1> QED
  BY <1>1, <1>2, <1>3

\* A helper fails.
LEMMA HelperFailsKeeps ==
  ASSUME ManagerInv, NEW h \in Slots, HelperFails(h) PROVE ManagerInv'
<1> USE DEF ManagerInv
<1>1. ManagerTypes'
  BY DEF ManagerTypes, HelperFails, OnlyHelpers, manager, Goes, Helper, machine, Kinds, TaskSteps,
     Sensible, Jobs, HelperSteps, Orderly, Awaiting, Works, Slots, NoHelper, NoTask
<1>2. FilesInv'
  BY DEF FilesInv, RegisteredHasFiles, ManagerTypes, HelperFails, OnlyHelpers, manager, Goes,
     Helper, machine, Jobs, HelperSteps, Orderly, Works, Slots, NoHelper
<1>3. WatchInv'
  BY WatchFrame DEF HelperFails, OnlyHelpers, manager, Goes, Helper, machine
<1> QED
  BY <1>1, <1>2, <1>3

\* The manager takes note of how its helper ended.
LEMMA HelperEndsKeeps ==
  ASSUME ManagerInv, NEW h \in Slots, HelperEnds(h) PROVE ManagerInv'
<1> USE DEF ManagerInv
<1>1. /\ ManagerTypes /\ FilesInv /\ WatchInv
      /\ helpers[h].at \in {"succeeded", "failed"} /\ Works(h)
      /\ UNCHANGED <<entry, binary, generation, blurred>>
  BY DEF HelperEnds, machine, Works, NoHelper
<1>2. CASE h = "operation" /\ AtStep(h, "uninstalling")
  <2>1. GoesOn(h, "installing") /\ Launch(h, "install") /\ UNCHANGED status
    BY <1>2 DEF HelperEnds
  <2>2. ManagerTypes'
    BY <1>1, <1>2, <2>1 DEF ManagerTypes, GoesOn, AtStep, Launch, Crosses, Kinds, TaskSteps,
       Sensible, Jobs, HelperSteps, Orderly, Awaiting, Works, Slots, NoHelper, NoTask
  <2>3. FilesInv'
    BY <1>1, <2>1, LaunchKeepsFiles
  <2>4. WatchInv'
    BY <1>1, <1>2, <2>1 DEF WatchInv, ReadyIsWatched, ManagerTypes, GoesOn, AtStep, Busy,
       Sensible, NoTask, Watched
  <2> QED
    BY <2>2, <2>3, <2>4
<1>3. CASE ~(h = "operation" /\ AtStep(h, "uninstalling"))
  <2>1. helpers' = [helpers EXCEPT ![h] = NoHelper] /\ UNCHANGED crossed
    BY <1>3 DEF HelperEnds
  <2>2. FilesInv'
    BY <1>1, <2>1 DEF FilesInv, RegisteredHasFiles, ManagerTypes, Works, NoHelper, Slots
  <2>3. CASE h = "other"
    <3>1. UNCHANGED <<status, tasks>>
      BY <1>3, <2>3 DEF HelperEnds
    <3>2. ManagerTypes'
      BY <1>1, <2>1, <2>3, <3>1 DEF ManagerTypes, Works, Jobs, HelperSteps, Orderly, NoHelper, Slots
    <3> QED
      BY <1>1, <2>2, <3>1, <3>2, WatchFrame
  <2>4. CASE h = "operation"
    <3>1. /\ tasks["operation"].at \in Awaiting
          /\ tasks["operation"].kind \notin {"none", "refresh"}
          /\ Busy("operation")
      BY <1>1, <2>4 DEF ManagerTypes, Sensible, Awaiting, Busy, NoTask
    <3>2. \/ End(h) /\ status' \in {"Unavailable", status}
          \/ ~AtStep(h, "removing") /\ GoesOn(h, "wait") /\ UNCHANGED status
      BY <1>3, <2>4 DEF HelperEnds
    <3>3. ManagerTypes'
      BY <1>1, <1>3, <2>1, <2>4, <3>1, <3>2 DEF ManagerTypes, GoesOn, End, AtStep, Kinds,
         TaskSteps, Sensible, Jobs, HelperSteps, Orderly, Awaiting, Works, Slots, NoHelper, NoTask
    <3>4. WatchInv'
      BY <1>1, <2>4, <3>1, <3>2 DEF WatchInv, ReadyIsWatched, ManagerTypes, GoesOn, End, AtStep,
         Busy, Sensible, NoTask, Watched
    <3> QED
      BY <2>2, <3>3, <3>4
  <2> QED
    BY <2>3, <2>4 DEF Slots
<1> QED
  BY <1>2, <1>3

\* The service starts, stops or hangs.
LEMMA SurroundingsKeep ==
  ASSUME ManagerInv, CommandStarts \/ ServiceStops \/ ServiceHangs PROVE ManagerInv'
<1> USE DEF ManagerInv
<1>1. ManagerTypes'
  BY DEF ManagerTypes, CommandStarts, ServiceStops, ServiceHangs, ServiceStarts, CanStart,
     manager, Kinds, TaskSteps, Sensible, Jobs, HelperSteps, Orderly, Awaiting, Works, Slots,
     NoHelper, NoTask
<1>2. FilesInv'
  BY FilesFrame DEF CommandStarts, ServiceStops, ServiceHangs, ServiceStarts, CanStart, manager
<1>3. WatchInv'
  BY WatchFrame DEF CommandStarts, ServiceStops, ServiceHangs, ServiceStarts, CanStart, manager
<1> QED
  BY <1>1, <1>2, <1>3

\* A helper that no operation asked for.
LEMMA CommandElevatesKeeps ==
  ASSUME ManagerInv, CommandElevates PROVE ManagerInv'
<1> USE DEF ManagerInv
<1>1. ManagerTypes'
  BY DEF ManagerTypes, CommandElevates, machine, manager, Launch, Crosses, Kinds, TaskSteps,
     Sensible, Jobs, HelperSteps, Orderly, Awaiting, Works, Slots, NoHelper, NoTask
<1>2. FilesInv'
  BY DEF FilesInv, RegisteredHasFiles, ManagerTypes, CommandElevates, machine, manager, Launch,
     Crosses, Jobs, HelperSteps, Orderly, Works, Slots, NoHelper
<1>3. WatchInv'
  BY WatchFrame DEF CommandElevates, machine, manager, Launch, Crosses
<1> QED
  BY <1>1, <1>2, <1>3

\* The helper of the operation becomes one that nobody waits for.
LEMMA RestartKeeps ==
  ASSUME ManagerInv, ApplicationRestarts PROVE ManagerInv'
<1> USE DEF ManagerInv
<1>1. ManagerTypes'
  <2>1. tasks' = [init |-> [kind |-> "init", at |-> "inspect"], operation |-> NoTask]
        /\ generation' = 0 /\ blurred' = FALSE /\ crossed' \in BOOLEAN
    BY DEF ApplicationRestarts, ManagerTypes
  <2>2. /\ tasks' \in [{"init", "operation"} -> [kind : Kinds, at : TaskSteps]]
        /\ tasks'["init"].kind = "init" /\ tasks'["operation"].kind = "none"
    BY <2>1 DEF NoTask, Kinds, TaskSteps
  <2>3. \A t \in {"init", "operation"} : Sensible(tasks'[t])
    BY <2>1 DEF NoTask, Sensible
  <2>4. /\ helpers' \in [Slots -> [job : Jobs, at : HelperSteps]]
        /\ \A h \in Slots : Orderly(helpers'[h])
        /\ helpers'["operation"] = NoHelper
    BY DEF ApplicationRestarts, ManagerTypes, Slots, NoHelper, Jobs, HelperSteps, Orderly
  <2> QED
    BY <2>1, <2>2, <2>3, <2>4 DEF ManagerTypes, Works
<1>2. FilesInv'
  BY DEF FilesInv, RegisteredHasFiles, ManagerTypes, ApplicationRestarts, machine, Jobs,
     HelperSteps, Orderly, Works, Slots, NoHelper
<1>3. WatchInv'
  BY DEF WatchInv, ReadyIsWatched, ManagerTypes, ApplicationRestarts, machine, Sensible, NoTask,
     Busy, AtStep, Watched
<1> QED
  BY <1>1, <1>2, <1>3

(******************************** theorems ***********************************)

LEMMA ManagerSteps == ManagerInv /\ [ManagerNext]_managerVars => ManagerInv'
<1> SUFFICES ASSUME ManagerInv, [ManagerNext]_managerVars PROVE ManagerInv'
  OBVIOUS
<1>1. CASE Install \/ Reinstall \/ Uninstall \/ Refresh
  BY <1>1, InstallKeeps, ReinstallKeeps, UninstallKeeps, RefreshKeeps
<1>2. CASE \E t \in {"init", "operation"} :
             Inspect(t) \/ GetsAnswer(t) \/ GetsNoAnswer(t) \/ CompareVersion(t) \/ Watch(t)
             \/ BecomeReady(t)
  BY <1>2, InspectKeeps, GetsAnswerKeeps, GetsNoAnswerKeeps, CompareVersionKeeps, WatchKeeps,
     BecomeReadyKeeps
<1>3. CASE ProbeFails \/ (\E g \in failing : Report(g)) \/ RepairRefused
  BY <1>3, ChecksKeep
<1>4. CASE Repair \/ RepairStarts \/ RepairElevates
  BY <1>4, RepairKeeps, RepairStartsKeeps, RepairElevatesKeeps
<1>5. CASE \E h \in Slots :
             OpenInstall(h) \/ OpenUninstall(h) \/ Unregister(h) \/ Prepare(h) \/ Register(h)
             \/ HelperStarts(h) \/ RemoveFiles(h) \/ HelperFails(h) \/ HelperEnds(h)
  BY <1>5, OpenInstallKeeps, OpenUninstallKeeps, UnregisterKeeps, PrepareKeeps, RegisterKeeps,
     HelperStartsKeeps, RemoveFilesKeeps, HelperFailsKeeps, HelperEndsKeeps
<1>6. CASE CommandStarts \/ CommandElevates \/ ServiceStops \/ ServiceHangs \/ ApplicationRestarts
  BY <1>6, SurroundingsKeep, CommandElevatesKeeps, RestartKeeps
<1>7. CASE UNCHANGED managerVars
  <2>1. UNCHANGED <<entry, binary, helpers, crossed, status, tasks, generation, blurred>>
    BY <1>7 DEF managerVars
  <2>2. ManagerTypes'
    BY <2>1 DEF ManagerInv, ManagerTypes, Works
  <2> QED
    BY <2>1, <2>2, FilesFrame, WatchFrame DEF ManagerInv
<1> QED
  BY <1>1, <1>2, <1>3, <1>4, <1>5, <1>6, <1>7 DEF ManagerNext

LEMMA ManagerIsSafe == ManagerSpec => []ManagerInv
  BY ManagerStarts, ManagerSteps, PTL DEF ManagerSpec

\* A registered service has its files, however many helpers ran, failed or were left
\* behind, in service_install.rs and service_uninstall.rs.
THEOREM RegistrationHasFiles == ManagerSpec => []RegisteredHasFiles
<1>1. ManagerInv => RegisteredHasFiles
  BY DEF ManagerInv, FilesInv
<1> QED
  BY <1>1, ManagerIsSafe, PTL

\* What the manager shows as ready is watched, whatever operations, repairs and restarts
\* of service_manager.rs came before.
THEOREM ReadyMeansWatched == ManagerSpec => []ReadyIsWatched
<1>1. ManagerInv => ReadyIsWatched
  BY DEF ManagerInv, WatchInv
<1> QED
  BY <1>1, ManagerIsSafe, PTL

(*****************************************************************************)
(* CoreHosting                                                               *)
(*****************************************************************************)

(******************************* the invariant *******************************)

\* The rest of a switch of TUN, step by step, and of its rollback.
On1 == <<"apply", "touch", "ensureService", "persist", "reload", "confirm">>
On2 == <<"touch", "ensureService", "persist", "reload", "confirm">>
On3 == <<"ensureService", "persist", "reload", "confirm">>
On4 == <<"persist", "reload", "confirm">>
On5 == <<"reload", "confirm">>
On6 == <<"mayRepair", "confirm">>
Confirming == <<"confirm">>
Off1 == <<"apply", "persist", "touch", "stopSidecar", "stopHosted", "start", "confirm">>
Off2 == <<"persist", "touch", "stopSidecar", "stopHosted", "start", "confirm">>
Off3 == <<"touch", "stopSidecar", "stopHosted", "start", "confirm">>
Saving == <<"tunOff">>
Nothing == <<>>

FilesBack == <<"restoreSettings">>
AllBack == <<"restoreSettings", "stopSidecar", "stopHosted", "stopNewService", "restoreHost">>
HostBack1 == <<"stopSidecar", "stopHosted", "stopNewService", "restoreHost">>
HostBack2 == <<"stopHosted", "stopNewService", "restoreHost">>
HostBack3 == <<"stopNewService", "restoreHost">>
HostBack4 == <<"restoreHost">>
Spawning == <<"startSidecar">>
Serving1 == <<"startWithService">>
Serving2 == <<"stopSidecar", "killOrphans", "startService", "ipcStart">>
Serving3 == <<"killOrphans", "startService", "ipcStart">>
Serving4 == <<"startService", "ipcStart">>
Serving5 == <<"ipcStart">>

\* Calls that change hosts and may stand before the rest of any of these plans.
Calls == {"start", "startSidecar", "startHosted", "startWithService", "startService",
          "ipcStart", "stopSidecar", "stopHosted", "killOrphans", "install", "reinstall",
          "uninstall", "refresh"}
CallsNow == IF was = None THEN Calls \cup {"arm", "disarm"} ELSE Calls
RunsTo(rest) == \E calls \in Seq(CallsNow) : plan = calls \o rest
Avoids(step) == plan \in Seq(Steps \ {step})

\* A sidecar that no automatic restart accounts for, and none that can come back.
Mine == Tracked /\ ~revived
Down == ~Tracked /\ ~retry
Own  == Mine => was.sidecar /\ ~was.revived

Agree  == savedTun = tun /\ runtimeTun = tun
Before == tun = was.tun /\ savedTun = was.saved /\ runtimeTun = was.runtime

\* start_sidecar is never called later than next: whether to spawn is decided last.
SpawnsFirst == plan # <<>> => Tail(plan) \in Seq(Steps \ {"startSidecar"})

\* What a switch remembers was in order, unless an earlier rollback had failed.
SnapshotInv ==
  was # None =>
    /\ was.sidecar => was.core
    /\ ~spoiled => was.saved = was.tun /\ was.runtime = was.tun
    /\ ~spoiled /\ was.tun /\ was.sidecar => was.revived

\* Commands other than a switch, and a switch that has not begun.
Rescues == {<<>>, <<"start">>, <<"killOrphans", "uninstall">>,
            <<"killOrphans", "uninstall", "tunOff">>}
Ordinary ==
  /\ was = None
  /\ \/ RunsTo(Nothing) \/ RunsTo(Saving)
     \/ trouble = "none" /\ command # "tunOff" /\ RunsTo(TunOnPlan)
     \/ trouble = "none" /\ command = "tunOff" /\ plan = TunOffPlan
  /\ rescue \in Rescues
  /\ ~spoiled => Agree
  /\ ~spoiled /\ tun => Avoids("startSidecar") /\ ~Mine

\* A switch that has not touched the core.
Begun ==
  /\ was # None /\ trouble = "none" /\ ~was.touched /\ rescue = FilesBack /\ Own
  /\ \/ plan = On1 /\ Target /\ Before
     \/ plan = On2 /\ Target /\ tun = Target /\ runtimeTun = tun
     \/ plan = Off1 /\ ~Target /\ Before
     \/ plan = Off2 /\ ~Target /\ tun = Target /\ runtimeTun = tun
     \/ plan = Off3 /\ ~Target /\ tun = Target /\ Agree

\* One that has: with TUN coming on, a sidecar of the application is still to be stopped.
MovesOn ==
  /\ Own /\ Avoids("startSidecar")
  /\ \/ plan = On3
     \/ /\ Mine => ~Avoids("stopSidecar")
        /\ \/ RunsTo(On4)
           \/ savedTun = tun /\ (plan = On5 \/ RunsTo(On6) \/ RunsTo(Confirming) \/ plan = Nothing)
MovesOff == savedTun = tun /\ (RunsTo(Confirming) \/ plan = Nothing)
Moves ==
  /\ was # None /\ trouble = "none" /\ was.touched /\ rescue = AllBack
  /\ tun = Target /\ runtimeTun = tun
  /\ IF Target THEN MovesOn ELSE MovesOff

\* Its rollback: the settings, then the host.
Undoes ==
  /\ was # None /\ trouble = "failed" /\ rescue = <<>>
  /\ IF was.touched THEN plan = AllBack ELSE plan = FilesBack /\ Own
Restored ==
  /\ was # None /\ trouble = "failed" /\ rescue = <<>> /\ Before
  /\ \/ plan = Nothing /\ (~spoiled /\ tun => ~Mine)
     \/ plan = HostBack1 /\ was.touched
     \/ plan \in {HostBack2, HostBack3, HostBack4} /\ was.touched /\ Down
     \/ plan = Spawning /\ was.sidecar /\ Down
     \/ /\ plan \in {Serving1, Serving2, Serving3, Serving4, Serving5}
        /\ ~was.sidecar /\ was.core /\ Down

\* An error while handling an error.
Broken == was # None /\ trouble = "broken" /\ rescue = <<>> /\ plan = Nothing /\ spoiled

\* stop_core that has met no error yet.
StopInv ==
  command = "stop" =>
    /\ was = None
    /\ \/ trouble # "none"
       \/ plan = <<"stopSidecar", "stopHosted">>
       \/ plan = <<"stopHosted">> /\ Down
       \/ plan = <<>>

Stage == Ordinary \/ Begun \/ Moves \/ Undoes \/ Restored \/ Broken
HostingInv == TypeOK /\ SpawnsFirst /\ SnapshotInv /\ Stage /\ StopInv

(********************************* sequences *********************************)

LEMMA TwoAreOneAndOne ==
  ASSUME NEW a, NEW b
  PROVE  <<a, b>> = <<a>> \o <<b>>
<1> DEFINE S == {a, b}
           s == <<a, b>>
           t == <<a>> \o <<b>>
<1>1. s \in Seq(S) /\ Len(s) = 2 /\ s[1] = a /\ s[2] = b
  OBVIOUS
<1>2. <<a>> \in Seq(S) /\ <<b>> \in Seq(S) /\ Len(<<a>>) = 1 /\ Len(<<b>>) = 1
  OBVIOUS
<1>3. t \in Seq(S) /\ Len(t) = 2 /\ t[1] = a /\ t[2] = b
  BY <1>2, ConcatProperties
<1> HIDE DEF s, t
<1>4. \A i \in 1 .. 2 : s[i] = t[i]
  BY <1>1, <1>3
<1>5. s = t
  BY <1>1, <1>3, <1>4, SeqEqual
<1> QED
  BY <1>5 DEF s, t

LEMMA ThreeAreTwoAndOne ==
  ASSUME NEW a, NEW b, NEW c
  PROVE  <<a, b, c>> = <<a, b>> \o <<c>>
<1> DEFINE S == {a, b, c}
           s == <<a, b, c>>
           t == <<a, b>> \o <<c>>
<1>1. s \in Seq(S) /\ Len(s) = 3 /\ s[1] = a /\ s[2] = b /\ s[3] = c
  OBVIOUS
<1>2. /\ <<a, b>> \in Seq(S) /\ <<c>> \in Seq(S)
      /\ Len(<<a, b>>) = 2 /\ Len(<<c>>) = 1
  OBVIOUS
<1>3. t \in Seq(S) /\ Len(t) = 3 /\ t[1] = a /\ t[2] = b /\ t[3] = c
  BY <1>2, ConcatProperties
<1> HIDE DEF s, t
<1>4. \A i \in 1 .. 3 : s[i] = t[i]
  BY <1>1, <1>3
<1>5. s = t
  BY <1>1, <1>3, <1>4, SeqEqual
<1> QED
  BY <1>5 DEF s, t

LEMMA FourAreThreeAndOne ==
  ASSUME NEW a, NEW b, NEW c, NEW d
  PROVE  <<a, b, c, d>> = <<a, b, c>> \o <<d>>
<1> DEFINE S == {a, b, c, d}
           s == <<a, b, c, d>>
           t == <<a, b, c>> \o <<d>>
<1>1. s \in Seq(S) /\ Len(s) = 4 /\ s[1] = a /\ s[2] = b /\ s[3] = c /\ s[4] = d
  OBVIOUS
<1>2. /\ <<a, b, c>> \in Seq(S) /\ <<d>> \in Seq(S)
      /\ Len(<<a, b, c>>) = 3 /\ Len(<<d>>) = 1
  OBVIOUS
<1>3. t \in Seq(S) /\ Len(t) = 4 /\ t[1] = a /\ t[2] = b /\ t[3] = c /\ t[4] = d
  BY <1>2, ConcatProperties
<1> HIDE DEF s, t
<1>4. \A i \in 1 .. 4 : s[i] = t[i]
  BY <1>1, <1>3
<1>5. s = t
  BY <1>1, <1>3, <1>4, SeqEqual
<1> QED
  BY <1>5 DEF s, t

\* What follows the element before the last.
LEMMA RestIsLast ==
  ASSUME NEW S, NEW p \in Seq(S), NEW a \in S, NEW b \in S
  PROVE  SubSeq(p \o <<a, b>>, Len(p) + 2, Len(p \o <<a, b>>)) = <<b>>
<1> DEFINE t == <<a, b>>
           q == SubSeq(p \o t, Len(p) + 2, Len(p \o t))
<1>1. t \in Seq(S) /\ Len(t) = 2 /\ t[2] = b
  OBVIOUS
<1> HIDE DEF t
<1>a. p \o t \in Seq(S) /\ Len(p \o t) = Len(p) + Len(t)
  BY <1>1, ConcatProperties
<1>2. Len(p \o t) = Len(p) + 2 /\ Len(p) \in Nat /\ p \o t \in Seq(S)
  BY <1>1, <1>a
<1>3. (p \o t)[Len(p) + 2] = b
  BY <1>1, <1>2, ConcatProperties
<1>4. \A i \in Len(p) + 2 .. Len(p \o t) : (p \o t)[i] \in S
  BY <1>2, ElementOfSeq
<1>5. q \in Seq(S) /\ Len(q) = 1 /\ q[1] = b
  BY <1>2, <1>3, <1>4, SubSeqProperties
<1> HIDE DEF q
<1>6. q = <<b>>
  BY <1>5
<1> QED
  BY <1>6 DEF q, t

LEMMA FirstOfConcat ==
  ASSUME NEW S, NEW p \in Seq(S), NEW t \in Seq(S), p # <<>>
  PROVE  /\ Head(p \o t) = Head(p) /\ Tail(p \o t) = Tail(p) \o t
         /\ Tail(p) \in Seq(S) /\ Head(p) \in S
  OBVIOUS

LEMMA ConcatIsIn ==
  ASSUME NEW S, NEW p \in Seq(S), NEW t \in Seq(S)
  PROVE  p \o t \in Seq(S)
  OBVIOUS

LEMMA EndOfConcatIsIn ==
  ASSUME NEW S, NEW T, NEW p \in Seq(S), NEW q \in Seq(S), p \o q \in Seq(T)
  PROVE  q \in Seq(T)
<1>1. /\ Len(p) \in Nat /\ Len(q) \in Nat /\ Len(p \o q) = Len(p) + Len(q)
      /\ \A i \in 1 .. Len(p) + Len(q) :
           (p \o q)[i] = IF i <= Len(p) THEN p[i] ELSE q[i - Len(p)]
  BY ConcatProperties
<1>2. ASSUME NEW i \in 1 .. Len(q) PROVE q[i] \in T
  <2>1. Len(p) + i \in 1 .. Len(p) + Len(q) /\ ~(Len(p) + i <= Len(p)) /\ (Len(p) + i) - Len(p) = i
    BY <1>1
  <2>2. q[i] = (p \o q)[Len(p) + i]
    BY <1>1, <2>1
  <2> QED
    BY <1>1, <2>1, <2>2, ElementOfSeq
<1> QED
  BY <1>2, SeqDef

LEMMA StartOfConcatIsIn ==
  ASSUME NEW S, NEW T, NEW p \in Seq(S), NEW q \in Seq(S), p \o q \in Seq(T)
  PROVE  p \in Seq(T)
<1>1. \A i \in 1 .. Len(p) : p[i] = (p \o q)[i] /\ i \in 1 .. Len(p \o q)
  BY ConcatProperties
<1>2. \A i \in 1 .. Len(p) : p[i] \in T
  BY <1>1, ElementOfSeq
<1> QED
  BY <1>2, SeqDef

LEMMA FirstAndRestAreIn ==
  ASSUME NEW S, NEW T, NEW p \in Seq(S), p # <<>>, Head(p) \in T, Tail(p) \in Seq(T)
  PROVE  p \in Seq(T)
  OBVIOUS

LEMMA LargerSeq ==
  ASSUME NEW S, NEW T, S \subseteq T, NEW p \in Seq(S)
  PROVE  p \in Seq(T)
  OBVIOUS

(***************************** calls before a rest ****************************)

LEMMA CallsAreSteps ==
  /\ Calls \subseteq Steps /\ CallsNow \subseteq Steps /\ Calls \subseteq CallsNow
  /\ Calls \subseteq Steps \ {"mayRepair"} /\ CallsNow \subseteq Steps \ {"mayRepair"}
  BY DEF Calls, CallsNow, Steps

\* A plan that runs towards a rest is a sequence of steps, and the first step is one of
\* the calls before the rest or the first of the rest.
LEMMA RunsGoesOn ==
  ASSUME NEW rest \in Seq(Steps), RunsTo(rest), plan # <<>>, Head(plan) \in CallsNow,
         rest = <<>> \/ Head(rest) \notin CallsNow,
         NEW calls \in Seq(CallsNow), plan' = calls \o Tail(plan), was' = was
  PROVE  RunsTo(rest)'
<1>1. PICK p \in Seq(CallsNow) : plan = p \o rest
  BY DEF RunsTo
<1>2. p # <<>>
  BY <1>1
<1>3. p \in Seq(Steps) /\ calls \in Seq(Steps)
  BY CallsAreSteps, LargerSeq
<1>4. Tail(p) \in Seq(CallsNow) /\ Tail(p) \in Seq(Steps)
  BY <1>2, <1>3
<1>t. Tail(plan) = Tail(p) \o rest
  BY <1>1, <1>2, <1>3, FirstOfConcat
<1>5. plan' = (calls \o Tail(p)) \o rest
  <2>1. (calls \o Tail(p)) \o rest = calls \o (Tail(p) \o rest)
    BY <1>3, <1>4, ConcatAssociative
  <2> QED
    BY <2>1, <1>t
<1>6. calls \o Tail(p) \in Seq(CallsNow)
  BY <1>4, ConcatIsIn
<1>7. CallsNow' = CallsNow
  BY DEF CallsNow
<1> QED
  BY <1>5, <1>6, <1>7 DEF RunsTo

LEMMA RunsIsDone ==
  ASSUME NEW rest \in Seq(Steps), RunsTo(rest), plan = <<>> \/ Head(plan) \notin CallsNow
  PROVE  plan = rest
<1>1. PICK p \in Seq(CallsNow) : plan = p \o rest
  BY DEF RunsTo
<1>2. p \in Seq(Steps)
  BY CallsAreSteps, LargerSeq
<1>3. CASE p = <<>>
  BY <1>1, <1>3
<1>4. CASE p # <<>>
  <2>1. Head(p) \in CallsNow /\ Head(plan) = Head(p)
    BY <1>1, <1>2, <1>4, FirstOfConcat
  <2>2. plan # <<>>
    BY <1>1, <1>2, <1>4, ConcatSimplifications
  <2> QED
    BY <2>1, <2>2
<1> QED
  BY <1>3, <1>4

LEMMA RunsFrom ==
  ASSUME NEW rest \in Seq(Steps), NEW calls \in Seq(Calls), plan' = calls \o rest
  PROVE  RunsTo(rest)'
<1>1. Calls \subseteq CallsNow'
  BY DEF CallsNow
<1>2. calls \in Seq(CallsNow')
  BY <1>1, LargerSeq
<1> QED
  BY <1>2 DEF RunsTo

LEMMA RunsAvoids ==
  ASSUME NEW rest, NEW step, rest \in Seq(Steps \ {step}), step \notin CallsNow, RunsTo(rest)
  PROVE  Avoids(step)
<1>1. PICK p \in Seq(CallsNow) : plan = p \o rest
  BY DEF RunsTo
<1>2. CallsNow \subseteq Steps \ {step}
  BY CallsAreSteps
<1>3. p \in Seq(Steps \ {step})
  BY <1>2, LargerSeq
<1> QED
  BY <1>1, <1>3, ConcatIsIn DEF Avoids

\* A step that a plan has is there until it is its turn.
LEMMA AvoidsGoesOn ==
  ASSUME NEW step, Avoids(step), plan # <<>>,
         NEW calls \in Seq(Steps \ {step}), plan' = calls \o Tail(plan)
  PROVE  Avoids(step)'
<1>1. Tail(plan) \in Seq(Steps \ {step})
  BY DEF Avoids
<1> QED
  BY <1>1, ConcatIsIn DEF Avoids

LEMMA StepStays ==
  ASSUME NEW step \in Steps, plan \in Seq(Steps), plan # <<>>, ~Avoids(step), Head(plan) # step,
         NEW calls \in Seq(Steps), plan' = calls \o Tail(plan)
  PROVE  ~Avoids(step)'
<1>1. SUFFICES ASSUME plan' \in Seq(Steps \ {step}) PROVE FALSE
  BY DEF Avoids
<1>2. Tail(plan) \in Seq(Steps) /\ Head(plan) \in Steps
  OBVIOUS
<1>3. Tail(plan) \in Seq(Steps \ {step})
  BY <1>1, <1>2, EndOfConcatIsIn
<1>4. plan \in Seq(Steps \ {step})
  BY <1>2, <1>3, FirstAndRestAreIn
<1> QED
  BY <1>4 DEF Avoids

LEMMA SpawnStaysFirst ==
  ASSUME plan # <<>>, SpawnsFirst,
         NEW calls, calls \in Seq(Steps \ {"startSidecar"}) \/ calls = <<"startSidecar">>,
         plan' = calls \o Tail(plan)
  PROVE  SpawnsFirst'
<1>1. Tail(plan) \in Seq(Steps \ {"startSidecar"})
  BY DEF SpawnsFirst
<1>2. CASE calls \in Seq(Steps \ {"startSidecar"})
  <2>1. plan' \in Seq(Steps \ {"startSidecar"})
    BY <1>1, <1>2, ConcatIsIn
  <2> QED
    BY <2>1 DEF SpawnsFirst
<1>3. CASE calls = <<"startSidecar">>
  <2>1. calls \in Seq({"startSidecar"} \cup Steps) /\ calls # <<>> /\ Tail(calls) = <<>>
    BY <1>3
  <2>2. Tail(plan) \in Seq({"startSidecar"} \cup Steps)
    BY <1>1, LargerSeq
  <2>3. Tail(plan') = Tail(calls) \o Tail(plan)
    BY <2>1, <2>2, FirstOfConcat
  <2>4. Tail(plan') = Tail(plan)
    BY <2>1, <2>2, <2>3, ConcatEmptySeq
  <2> QED
    BY <1>1, <2>4 DEF SpawnsFirst
<1> QED
  BY <1>2, <1>3

\* What apply_tun goes on with after a repair.
LEMMA RepairLeadsToConfirm ==
  ASSUME RunsTo(On6)
  PROVE  AfterRepair = Confirming
<1>1. PICK p \in Seq(CallsNow) : plan = p \o <<"mayRepair", "confirm">>
  BY DEF RunsTo, On6
<1>2. p \in Seq(Steps) /\ p \in Seq(Steps \ {"mayRepair"})
  BY CallsAreSteps, LargerSeq
<1> DEFINE t == <<"mayRepair", "confirm">>
<1>3. t \in Seq(Steps) /\ Len(t) = 2 /\ t[1] = "mayRepair" /\ t[2] = "confirm"
  BY DEF Steps
<1> HIDE DEF t
<1>4. Len(plan) = Len(p) + 2 /\ Len(p) \in Nat /\ plan \in Seq(Steps)
  BY <1>1, <1>2, <1>3, ConcatProperties DEF t
<1>5. \A i \in 1 .. Len(plan) : plan[i] = IF i <= Len(p) THEN p[i] ELSE t[i - Len(p)]
  BY <1>1, <1>2, <1>3, <1>4, ConcatProperties DEF t
<1>6. \A i \in 1 .. Len(p) : p[i] # "mayRepair"
  BY <1>2, ElementOfSeq
<1>7. DOMAIN plan = 1 .. Len(plan)
  BY <1>4
<1>8. \A i \in DOMAIN plan : plan[i] = "mayRepair" <=> i = Len(p) + 1
  BY <1>3, <1>4, <1>5, <1>6, <1>7
<1>9. (CHOOSE i \in DOMAIN plan : plan[i] = "mayRepair") = Len(p) + 1
  BY <1>4, <1>7, <1>8
<1>10. AfterRepair = SubSeq(plan, (Len(p) + 1) + 1, Len(plan))
  BY <1>9 DEF AfterRepair
<1>11. (Len(p) + 1) + 1 = Len(p) + 2
  BY <1>4
<1>12. "mayRepair" \in Steps /\ "confirm" \in Steps
  BY DEF Steps
<1>13. SubSeq(plan, Len(p) + 2, Len(plan)) = <<"confirm">>
  BY <1>1, <1>2, <1>12, RestIsLast
<1> QED
  BY <1>10, <1>11, <1>13 DEF Confirming

LEMMA NoRepair ==
  ASSUME Avoids("mayRepair")
  PROVE  ~Repairable
<1>1. \A i \in 1 .. Len(plan) : plan[i] # "mayRepair"
  BY ElementOfSeq DEF Avoids
<1>2. DOMAIN plan = 1 .. Len(plan)
  BY DEF Avoids
<1> QED
  BY <1>1, <1>2 DEF Repairable

(******************************* what calls do *******************************)

HostsTyped ==
  /\ sidecar \in {"none", "alive", "dead"}
  /\ retry \in BOOLEAN /\ loose \in BOOLEAN /\ revived \in BOOLEAN
  /\ service \in {"absent", "stopped", "running"}
  /\ hosted \in {"none", "alive", "due"}
  /\ hosted # "none" \/ late # {} => service = "running"
  /\ late \subseteq {"start", "stop"}
SettingsTyped == tun \in BOOLEAN /\ savedTun \in BOOLEAN /\ runtimeTun \in BOOLEAN
ControlTyped ==
  /\ command \in {"boot", "start", "stop", "restart", "startService", "install",
                  "uninstall", "reinstall", "tunOn", "tunOff"}
  /\ plan \in Seq(Steps) /\ rescue \in Seq(Steps)
  /\ was \in Snapshots \cup {None}
  /\ trouble \in {"none", "failed", "broken"}
  /\ spoiled \in BOOLEAN

LEMMA TypesAre == TypeOK <=> HostsTyped /\ SettingsTyped /\ ControlTyped
  BY DEF TypeOK, HostsTyped, SettingsTyped, ControlTyped

LEMMA TypesAreThen == TypeOK' <=> HostsTyped' /\ SettingsTyped' /\ ControlTyped'
  BY DEF TypeOK, HostsTyped, SettingsTyped, ControlTyped

\* A call other than start_sidecar: it goes on, fails, or is answered by a repair; it
\* changes no settings, and no sidecar comes up.
Plain == Calls \ {"startSidecar"}
Continues == \E calls \in Seq(Plain) : Go(calls)
Repairs ==
  /\ Repairable
  /\ \E calls \in Seq(Plain) :
       /\ plan' = calls \o AfterRepair
       /\ Mine => calls \notin Seq(Steps \ {"stopSidecar"})
  /\ UNCHANGED <<command, rescue, was, trouble, spoiled>>
IsCall ==
  /\ plan # <<>> /\ Head(plan) \in Plain
  /\ Continues \/ Fail \/ Repairs
  /\ HostsTyped' /\ UNCHANGED settings
  /\ Mine' => Mine /\ Head(plan) # "stopSidecar"
  /\ Down => Down'
\* core::start decides to start a sidecar.
Decides ==
  /\ At("start") /\ ~tun /\ ~Tracked
  /\ Go(Spawning) /\ UNCHANGED <<hosts, settings>>

LEMMA CallGoesOn ==
  ASSUME NEW calls \in Seq(Plain), Go(calls)
  PROVE  Continues
  BY DEF Continues

LEMMA PlainCalls ==
  /\ <<>> \in Seq(Plain)
  /\ <<"stopSidecar", "startHosted">> \in Seq(Plain) /\ <<"startHosted">> \in Seq(Plain)
  /\ <<"killOrphans", "startService", "ipcStart">> \in Seq(Plain)
  /\ <<"ipcStart">> \in Seq(Plain)
  /\ <<"stopSidecar", "killOrphans", "startService", "ipcStart">> \in Seq(Plain)
  BY DEF Plain, Calls

LEMMA StartIs ==
  ASSUME TypeOK, Start
  PROVE  IsCall \/ Decides
<1>1. plan # <<>> /\ Head(plan) = "start" /\ "start" \in Plain /\ "start" # "stopSidecar"
  BY DEF Start, At, Plain, Calls
<1>2. HostsTyped' /\ UNCHANGED settings /\ (Mine' <=> Mine) /\ (Down' <=> Down)
  BY TypesAre DEF Start, HostsTyped, hosts, Mine, Down, Tracked
<1>3. Continues \/ Decides
  BY PlainCalls, CallGoesOn, <1>1 DEF Start, Decides, Spawning
<1> QED
  BY <1>1, <1>2, <1>3 DEF IsCall

LEMMA StartHostedIs ==
  ASSUME TypeOK, StartHosted
  PROVE  IsCall
<1>1. plan # <<>> /\ Head(plan) = "startHosted" /\ "startHosted" \in Plain
  BY DEF StartHosted, At, Plain, Calls
<1>2. HostsTyped' /\ UNCHANGED settings /\ (Mine' <=> Mine) /\ (Down' <=> Down)
  BY TypesAre DEF StartHosted, HostsTyped, hosts, Mine, Down, Tracked
<1>3. Continues \/ Fail
  BY PlainCalls, CallGoesOn DEF StartHosted
<1> QED
  BY <1>1, <1>2, <1>3 DEF IsCall

LEMMA StartWithServiceIs ==
  ASSUME TypeOK, StartWithService
  PROVE  IsCall
<1>1. plan # <<>> /\ Head(plan) = "startWithService" /\ "startWithService" \in Plain
  BY DEF StartWithService, At, Plain, Calls
<1>2. HostsTyped' /\ UNCHANGED settings /\ (Mine' <=> Mine) /\ (Down' <=> Down)
  BY TypesAre DEF StartWithService, HostsTyped, hosts, Mine, Down, Tracked
<1>3. Continues \/ Fail
  BY PlainCalls, CallGoesOn DEF StartWithService
<1> QED
  BY <1>1, <1>2, <1>3 DEF IsCall

LEMMA StopSidecarIs ==
  ASSUME TypeOK, StopSidecar
  PROVE  IsCall /\ Down'
<1>1. plan # <<>> /\ Head(plan) = "stopSidecar" /\ "stopSidecar" \in Plain
  BY DEF StopSidecar, At, Plain, Calls
<1>2. HostsTyped' /\ UNCHANGED settings /\ ~Mine' /\ Down'
  BY TypesAre DEF StopSidecar, HostsTyped, settings, Mine, Down, Tracked
<1>3. Continues \/ Fail
  BY PlainCalls, CallGoesOn DEF StopSidecar
<1> QED
  BY <1>1, <1>2, <1>3 DEF IsCall

LEMMA KillOrphansIs ==
  ASSUME TypeOK, KillOrphans
  PROVE  IsCall
<1>1. plan # <<>> /\ Head(plan) = "killOrphans" /\ "killOrphans" \in Plain
  BY DEF KillOrphans, At, Plain, Calls
<1>2. HostsTyped' /\ UNCHANGED settings /\ (Mine' => Mine) /\ (Down => Down')
  BY TypesAre DEF KillOrphans, HostsTyped, settings, Mine, Down, Tracked
<1>3. Continues
  BY PlainCalls, CallGoesOn DEF KillOrphans
<1> QED
  BY <1>1, <1>2, <1>3 DEF IsCall

LEMMA StartServiceIs ==
  ASSUME TypeOK, StartService
  PROVE  IsCall
<1>1. plan # <<>> /\ Head(plan) = "startService" /\ "startService" \in Plain
  BY DEF StartService, At, Plain, Calls
<1>2. HostsTyped' /\ UNCHANGED settings /\ (Mine' <=> Mine) /\ (Down' <=> Down)
  BY TypesAre DEF StartService, HostsTyped, settings, Mine, Down, Tracked
<1>3. Continues \/ Fail
  BY PlainCalls, CallGoesOn DEF StartService
<1> QED
  BY <1>1, <1>2, <1>3 DEF IsCall

\* The answer to a failed request: an error, or the repair of the service.
LEMMA FailIpcIs ==
  ASSUME FailIpc
  PROVE  Fail \/ Repairs
<1>1. SUFFICES ASSUME Repairable,
                      plan' = (IF Tracked THEN <<"stopSidecar">> ELSE <<>>) \o
                              <<"killOrphans", "reinstall", "start">> \o AfterRepair,
                      UNCHANGED <<command, rescue, was, trouble, spoiled>>
               PROVE  Repairs
  BY DEF FailIpc
<1> DEFINE first == IF Tracked THEN <<"stopSidecar">> ELSE <<>>
           then == <<"killOrphans", "reinstall", "start">>
<1>2. first \in Seq(Plain) /\ then \in Seq(Plain)
  <2>1. <<>> \in Seq(Plain) /\ <<"stopSidecar">> \in Seq(Plain) /\ then \in Seq(Plain)
    BY DEF Plain, Calls
  <2> QED
    BY <2>1
<1>3. first \in Seq(Steps) /\ then \in Seq(Steps)
  BY <1>2, LargerSeq, CallsAreSteps DEF Plain
<1>4. first \o then \in Seq(Plain)
  BY <1>2, ConcatIsIn
<1>5. ASSUME Mine, first \o then \in Seq(Steps \ {"stopSidecar"}) PROVE FALSE
  <2>1. first = <<"stopSidecar">>
    BY <1>5 DEF Mine
  <2>2. first \in Seq(Steps \ {"stopSidecar"})
    BY <1>3, <1>5, StartOfConcatIsIn
  <2> QED
    BY <2>1, <2>2
<1> QED
  BY <1>1, <1>4, <1>5 DEF Repairs

LEMMA IpcStartIs ==
  ASSUME TypeOK, IpcStart
  PROVE  IsCall
<1>1. plan # <<>> /\ Head(plan) = "ipcStart" /\ "ipcStart" \in Plain
  BY DEF IpcStart, At, Plain, Calls
<1>2. UNCHANGED settings /\ (Mine' <=> Mine) /\ (Down' <=> Down)
  BY DEF IpcStart, settings, Mine, Down, Tracked
<1>3. HostsTyped'
  BY TypesAre DEF IpcStart, HostsTyped, GivesUp
<1>4. Continues \/ Fail \/ Repairs
  BY PlainCalls, CallGoesOn, FailIpcIs DEF IpcStart
<1> QED
  BY <1>1, <1>2, <1>3, <1>4 DEF IsCall

LEMMA StopHostedIs ==
  ASSUME TypeOK, StopHosted
  PROVE  IsCall
<1>1. plan # <<>> /\ Head(plan) = "stopHosted" /\ "stopHosted" \in Plain
  BY DEF StopHosted, At, Plain, Calls
<1>2. UNCHANGED settings /\ (Mine' <=> Mine) /\ (Down' <=> Down)
  BY DEF StopHosted, settings, Mine, Down, Tracked
<1>3. HostsTyped'
  BY TypesAre DEF StopHosted, HostsTyped, GivesUp
<1>4. Continues \/ Fail \/ Repairs
  BY PlainCalls, CallGoesOn, FailIpcIs DEF StopHosted
<1> QED
  BY <1>1, <1>2, <1>3, <1>4 DEF IsCall

LEMMA OperationIs ==
  ASSUME TypeOK, NEW step \in Plain, NEW state \in {"absent", "stopped", "running"},
         NEW partial \in SUBSET {"absent", "stopped", "running"},
         Operation(step, state, partial), step # "stopSidecar"
  PROVE  IsCall
<1>1. plan # <<>> /\ Head(plan) = step
  BY DEF Operation, At
<1>2. UNCHANGED settings /\ (Mine' <=> Mine) /\ (Down' <=> Down)
  BY DEF Operation, settings, Mine, Down, Tracked
<1>3. HostsTyped'
  BY TypesAre DEF Operation, HostsTyped, ServiceBecomes
<1>4. Continues \/ Fail
  BY PlainCalls, CallGoesOn DEF Operation
<1> QED
  BY <1>1, <1>2, <1>3, <1>4 DEF IsCall

LEMMA RefreshIs ==
  ASSUME TypeOK, RefreshStatus
  PROVE  IsCall
<1>1. plan # <<>> /\ Head(plan) = "refresh" /\ "refresh" \in Plain
  BY DEF RefreshStatus, At, Plain, Calls
<1>2. HostsTyped' /\ UNCHANGED settings /\ (Mine' <=> Mine) /\ (Down' <=> Down)
  BY TypesAre DEF RefreshStatus, HostsTyped, hosts, Mine, Down, Tracked
<1>3. Continues \/ Fail
  BY PlainCalls, CallGoesOn DEF RefreshStatus
<1> QED
  BY <1>1, <1>2, <1>3 DEF IsCall

LEMMA CallsAre ==
  ASSUME TypeOK,
         \/ Start \/ StartHosted \/ StartWithService \/ StopSidecar \/ KillOrphans
         \/ StartService \/ IpcStart \/ StopHosted
         \/ InstallService \/ ReinstallService \/ UninstallService \/ RefreshStatus
  PROVE  IsCall \/ Decides
<1>1. InstallService => IsCall
  BY OperationIs DEF InstallService, Plain, Calls
<1>2. ReinstallService => IsCall
  BY OperationIs DEF ReinstallService, Plain, Calls
<1>3. UninstallService => IsCall
  BY OperationIs DEF UninstallService, Plain, Calls
<1> QED
  BY <1>1, <1>2, <1>3, StartIs, StartHostedIs, StartWithServiceIs, StopSidecarIs, KillOrphansIs,
     StartServiceIs, IpcStartIs, StopHostedIs, RefreshIs

(***************************** types of the control ***************************)

LEMMA PlainIsIn ==
  /\ Plain \subseteq Steps /\ Plain \subseteq CallsNow /\ Plain \subseteq Calls
  /\ Plain \subseteq Steps \ {"startSidecar"}
  BY CallsAreSteps DEF Plain

LEMMA AfterRepairIsTyped ==
  ASSUME TypeOK, Repairable
  PROVE  AfterRepair \in Seq(Steps)
<1> DEFINE i == CHOOSE j \in DOMAIN plan : plan[j] = "mayRepair"
<1>1. plan \in Seq(Steps) /\ i \in DOMAIN plan
  BY DEF TypeOK, Repairable
<1>2. DOMAIN plan = 1 .. Len(plan) /\ Len(plan) \in Nat
  BY <1>1
<1> HIDE DEF i
<1>3. \A j \in i + 1 .. Len(plan) : plan[j] \in Steps
  BY <1>1, <1>2, ElementOfSeq
<1>4. SubSeq(plan, i + 1, Len(plan)) \in Seq(Steps)
  BY <1>1, <1>2, <1>3, SubSeqProperties
<1> QED
  BY <1>4 DEF AfterRepair, i

LEMMA GoIsTyped ==
  ASSUME ControlTyped, plan # <<>>, NEW calls \in Seq(Steps), Go(calls)
  PROVE  ControlTyped'
<1>1. plan' \in Seq(Steps)
  <2>1. plan \in Seq(Steps) /\ plan' = calls \o Tail(plan)
    BY DEF ControlTyped, Go
  <2>2. Tail(plan) \in Seq(Steps)
    BY <2>1
  <2> QED
    BY <2>1, <2>2, ConcatIsIn
<1> QED
  BY <1>1 DEF ControlTyped, Go

LEMMA FailIsTyped ==
  ASSUME ControlTyped, Fail
  PROVE  ControlTyped' /\ trouble' # "none" /\ (~spoiled' => ~spoiled)
<1>1. rescue' \in Seq(Steps) /\ plan' \in Seq(Steps)
  BY DEF ControlTyped, Fail
<1> QED
  BY <1>1 DEF ControlTyped, Fail

LEMMA CallIsTyped ==
  ASSUME TypeOK, IsCall
  PROVE  TypeOK'
<1>1. ControlTyped /\ SettingsTyped
  BY TypesAre
<1>2. HostsTyped' /\ SettingsTyped'
  BY <1>1 DEF IsCall, SettingsTyped, settings
<1>3. CASE Continues
  <2>1. PICK calls \in Seq(Plain) : Go(calls)
    BY <1>3 DEF Continues
  <2>2. calls \in Seq(Steps)
    BY PlainIsIn, LargerSeq
  <2> QED
    BY <1>1, <1>2, <2>1, <2>2, GoIsTyped, TypesAreThen DEF IsCall
<1>4. CASE Fail
  BY <1>1, <1>2, <1>4, FailIsTyped, TypesAreThen
<1>5. CASE Repairs
  <2>1. PICK calls \in Seq(Plain) : plan' = calls \o AfterRepair
    BY <1>5 DEF Repairs
  <2>2. calls \in Seq(Steps)
    BY PlainIsIn, LargerSeq
  <2>3. AfterRepair \in Seq(Steps)
    BY <1>5, AfterRepairIsTyped DEF Repairs
  <2>4. plan' \in Seq(Steps)
    BY <2>1, <2>2, <2>3, ConcatIsIn
  <2>5. ControlTyped'
    BY <1>1, <1>5, <2>4 DEF ControlTyped, Repairs
  <2> QED
    BY <1>2, <2>5, TypesAreThen
<1> QED
  BY <1>3, <1>4, <1>5 DEF IsCall

(***************************** commands but a switch **************************)

LEMMA RestsAreTyped ==
  /\ Nothing \in Seq(Steps) /\ Saving \in Seq(Steps)
  /\ TunOnPlan \in Seq(Steps) /\ TunOffPlan \in Seq(Steps)
  /\ On4 \in Seq(Steps) /\ On6 \in Seq(Steps) /\ Confirming \in Seq(Steps)
  /\ Nothing = <<>>
  /\ Head(Saving) = "tunOff" /\ Head(TunOnPlan) = "capture" /\ Head(TunOffPlan) = "capture"
  /\ Head(On4) = "persist" /\ Head(On6) = "mayRepair" /\ Head(Confirming) = "confirm"
  BY DEF Nothing, Saving, TunOnPlan, TunOffPlan, On4, On6, Confirming, Steps

LEMMA KeysAreNoCalls ==
  {"tunOff", "capture", "persist", "mayRepair", "confirm"} \cap CallsNow = {}
  BY DEF CallsNow, Calls

\* The plans that an ordinary command can have left.
OrdinaryPlan ==
  \/ RunsTo(Nothing) \/ RunsTo(Saving)
  \/ trouble = "none" /\ command # "tunOff" /\ RunsTo(TunOnPlan)
  \/ trouble = "none" /\ command = "tunOff" /\ plan = TunOffPlan

LEMMA RescueRuns ==
  ASSUME NEW r \in Rescues, plan' = r
  PROVE  /\ RunsTo(Nothing)' \/ RunsTo(Saving)'
         /\ Avoids("startSidecar")' /\ SpawnsFirst'
<1>1. /\ <<>> \in Seq(Calls) /\ <<"start">> \in Seq(Calls)
      /\ <<"killOrphans", "uninstall">> \in Seq(Calls)
  BY DEF Calls
<1>2. \/ r = <<>> \o Nothing \/ r = <<"start">> \o Nothing
      \/ r = <<"killOrphans", "uninstall">> \o Nothing
      \/ r = <<"killOrphans", "uninstall">> \o Saving
  BY <1>1, ThreeAreTwoAndOne, ConcatEmptySeq DEF Rescues, Nothing, Saving
<1>3. RunsTo(Nothing)' \/ RunsTo(Saving)'
  BY <1>1, <1>2, RunsFrom, RestsAreTyped
<1>4. r \in Seq(Steps \ {"startSidecar"})
  <2> DEFINE S == Steps \ {"startSidecar"}
  <2>1. "start" \in S /\ "killOrphans" \in S /\ "uninstall" \in S /\ "tunOff" \in S
    BY DEF Steps
  <2> HIDE DEF S
  <2>2. /\ <<>> \in Seq(S) /\ <<"start">> \in Seq(S) /\ <<"killOrphans", "uninstall">> \in Seq(S)
        /\ <<"killOrphans", "uninstall", "tunOff">> \in Seq(S)
    BY <2>1
  <2> QED
    BY <2>2 DEF Rescues, S
<1>5. r # <<>> => Tail(r) \in Seq(Steps \ {"startSidecar"})
  BY <1>4
<1> QED
  BY <1>3, <1>4, <1>5 DEF Avoids, SpawnsFirst

LEMMA OrdinaryPlanGoesOn ==
  ASSUME was = None, OrdinaryPlan, plan # <<>>, Head(plan) \in CallsNow,
         NEW calls \in Seq(CallsNow), plan' = calls \o Tail(plan),
         UNCHANGED <<command, was, trouble>>
  PROVE  OrdinaryPlan'
<1>1. plan # TunOffPlan
  BY RestsAreTyped, KeysAreNoCalls
<1>2. ASSUME NEW rest \in {Nothing, Saving, TunOnPlan}, RunsTo(rest) PROVE RunsTo(rest)'
  BY <1>2, RestsAreTyped, KeysAreNoCalls, RunsGoesOn
<1> QED
  BY <1>1, <1>2 DEF OrdinaryPlan

\* No repair is promised outside a switch.
LEMMA OrdinaryHasNoRepair ==
  ASSUME OrdinaryPlan
  PROVE  Avoids("mayRepair")
<1>1. "mayRepair" \notin CallsNow
  BY KeysAreNoCalls
<1>2. /\ Nothing \in Seq(Steps \ {"mayRepair"}) /\ Saving \in Seq(Steps \ {"mayRepair"})
      /\ TunOnPlan \in Seq(Steps \ {"mayRepair"}) /\ TunOffPlan \in Seq(Steps \ {"mayRepair"})
  BY DEF Nothing, Saving, TunOnPlan, TunOffPlan, Steps
<1> QED
  BY <1>1, <1>2, RunsAvoids DEF OrdinaryPlan, Avoids

LEMMA OrdinaryIs ==
  Ordinary <=>
    /\ was = None /\ OrdinaryPlan /\ rescue \in Rescues
    /\ ~spoiled => Agree
    /\ ~spoiled /\ tun => Avoids("startSidecar") /\ ~Mine
  BY DEF Ordinary, OrdinaryPlan

LEMMA OrdinaryIsThen ==
  Ordinary' <=>
    /\ was' = None /\ OrdinaryPlan' /\ rescue' \in Rescues
    /\ ~spoiled' => Agree'
    /\ ~spoiled' /\ tun' => Avoids("startSidecar")' /\ ~Mine'
  BY DEF Ordinary, OrdinaryPlan

\* An error of an ordinary command.
LEMMA OrdinaryFails ==
  ASSUME TypeOK, Ordinary, Fail, ~spoiled => UNCHANGED settings, ~spoiled /\ tun => (Mine' => Mine)
  PROVE  Ordinary' /\ SpawnsFirst' /\ trouble' # "none"
<1>1. was = None /\ rescue \in Rescues
  BY DEF Ordinary
<1>2. /\ RunsTo(Nothing)' \/ RunsTo(Saving)'
      /\ Avoids("startSidecar")' /\ SpawnsFirst'
  BY <1>1, RescueRuns DEF Fail
<1>3. was' = None /\ rescue' \in Rescues /\ trouble' # "none" /\ (~spoiled' => ~spoiled)
  BY <1>1 DEF Fail, Rescues, TypeOK
<1>4. ~spoiled' => Agree' /\ (tun' => ~Mine')
  BY <1>3, OrdinaryIs DEF settings, Agree
<1> QED
  BY <1>2, <1>3, <1>4, OrdinaryIsThen DEF OrdinaryPlan

LEMMA OrdinaryCalls ==
  ASSUME TypeOK, SpawnsFirst, Ordinary, IsCall
  PROVE  Ordinary' /\ SpawnsFirst' /\ command' = command /\ (trouble # "none" => trouble' # "none")
<1>1. was = None /\ OrdinaryPlan /\ plan # <<>> /\ Head(plan) \in Plain /\ UNCHANGED settings
      /\ (Mine' => Mine)
  BY OrdinaryIs DEF IsCall
<1>2. CASE Fail
  BY <1>1, <1>2, OrdinaryFails DEF Fail
<1>3. CASE Repairs
  BY <1>1, <1>3, OrdinaryHasNoRepair, NoRepair DEF Repairs
<1>4. CASE Continues
  <2>1. PICK calls \in Seq(Plain) : Go(calls)
    BY <1>4 DEF Continues
  <2>2. /\ calls \in Seq(CallsNow) /\ calls \in Seq(Steps \ {"startSidecar"})
        /\ Head(plan) \in CallsNow
    BY <1>1, PlainIsIn, LargerSeq
  <2>3. plan' = calls \o Tail(plan) /\ UNCHANGED <<command, rescue, was, trouble, spoiled>>
    BY <2>1 DEF Go
  <2>4. OrdinaryPlan'
    BY <1>1, <2>2, <2>3, OrdinaryPlanGoesOn
  <2>5. SpawnsFirst'
    BY <1>1, <2>2, <2>3, SpawnStaysFirst
  <2>6. Avoids("startSidecar") => Avoids("startSidecar")'
    BY <1>1, <2>2, <2>3, AvoidsGoesOn
  <2>7. UNCHANGED <<tun, savedTun, runtimeTun>>
    BY <1>1 DEF settings
  <2>8. Agree => Agree'
    BY <2>7 DEF Agree
  <2> QED
    BY <1>1, <2>3, <2>4, <2>5, <2>6, <2>7, <2>8, OrdinaryIs, OrdinaryIsThen
<1> QED
  BY <1>2, <1>3, <1>4 DEF IsCall

LEMMA OrdinaryDecides ==
  ASSUME TypeOK, SpawnsFirst, Ordinary, Decides
  PROVE  Ordinary' /\ SpawnsFirst' /\ TypeOK' /\ command' = command /\ trouble' = trouble
<1>1. /\ was = None /\ OrdinaryPlan /\ plan # <<>> /\ Head(plan) = "start" /\ UNCHANGED settings
      /\ ~tun /\ UNCHANGED hosts
  BY OrdinaryIs DEF Decides, At
<1>2. Spawning \in Seq(CallsNow) /\ Spawning \in Seq(Steps) /\ Head(plan) \in CallsNow
  BY <1>1 DEF Spawning, CallsNow, Calls, Steps
<1>3. plan' = Spawning \o Tail(plan) /\ UNCHANGED <<command, rescue, was, trouble, spoiled>>
  BY DEF Decides, Go
<1>4. OrdinaryPlan'
  BY <1>1, <1>2, <1>3, OrdinaryPlanGoesOn
<1>5. SpawnsFirst'
  BY <1>1, <1>3, SpawnStaysFirst DEF Spawning
<1>6. UNCHANGED <<tun, savedTun, runtimeTun>>
  BY <1>1 DEF settings
<1>7. Agree => Agree'
  BY <1>6 DEF Agree
<1>8. TypeOK'
  <2>1. ControlTyped'
    BY <1>1, <1>2, GoIsTyped, TypesAre DEF Decides
  <2>2. HostsTyped' /\ SettingsTyped'
    BY <1>1, TypesAre DEF HostsTyped, SettingsTyped, hosts, settings
  <2> QED
    BY <2>1, <2>2, TypesAreThen
<1> QED
  BY <1>1, <1>3, <1>4, <1>5, <1>6, <1>7, <1>8, OrdinaryIs, OrdinaryIsThen

\* Each of the remaining steps of an ordinary command.
LEMMA OrdinarySpawns ==
  ASSUME TypeOK, SpawnsFirst, Ordinary, StartSidecar
  PROVE  /\ Ordinary' /\ SpawnsFirst' /\ TypeOK' /\ command' = command
         /\ trouble # "none" => trouble' # "none"
<1>1. was = None /\ OrdinaryPlan /\ plan # <<>> /\ Head(plan) = "startSidecar" /\ UNCHANGED settings
  BY OrdinaryIs DEF StartSidecar, At
<1>2. ~Avoids("startSidecar")
  BY <1>1 DEF Avoids
<1>3. spoiled \/ ~tun
  BY <1>2, OrdinaryIs DEF TypeOK
<1>4. HostsTyped' /\ SettingsTyped'
  BY <1>1, TypesAre DEF StartSidecar, HostsTyped, SettingsTyped, settings, Snapshots
<1>5. CASE Fail
  <2>1. Ordinary' /\ SpawnsFirst' /\ trouble' # "none"
    BY <1>1, <1>3, <1>5, OrdinaryFails
  <2>2. ControlTyped'
    BY <1>5, FailIsTyped, TypesAre
  <2> QED
    BY <1>4, <1>5, <2>1, <2>2, TypesAreThen DEF Fail
<1>6. CASE Go(<<>>)
  <2>1. <<>> \in Seq(CallsNow) /\ <<>> \in Seq(Steps) /\ <<>> \in Seq(Steps \ {"startSidecar"})
        /\ Head(plan) \in CallsNow
    BY <1>1 DEF CallsNow, Calls
  <2>2. plan' = <<>> \o Tail(plan) /\ UNCHANGED <<command, rescue, was, trouble, spoiled>>
    BY <1>6 DEF Go
  <2>3. OrdinaryPlan' /\ SpawnsFirst'
    BY <1>1, <2>1, <2>2, OrdinaryPlanGoesOn, SpawnStaysFirst
  <2>4. ControlTyped'
    BY <1>1, <1>6, <2>1, GoIsTyped, TypesAre
  <2>5. UNCHANGED <<tun, savedTun, runtimeTun>>
    BY <1>1 DEF settings
  <2>6. Agree => Agree'
    BY <2>5 DEF Agree
  <2> QED
    BY <1>1, <1>3, <1>4, <2>2, <2>3, <2>4, <2>5, <2>6, OrdinaryIs, OrdinaryIsThen, TypesAreThen
<1> QED
  BY <1>5, <1>6 DEF StartSidecar

LEMMA OrdinaryArms ==
  ASSUME TypeOK, SpawnsFirst, Ordinary, Arm
  PROVE  Ordinary' /\ SpawnsFirst' /\ TypeOK' /\ command' = command /\ trouble' = trouble
<1>1. /\ was = None /\ OrdinaryPlan /\ plan # <<>> /\ Head(plan) \in {"arm", "disarm"}
      /\ UNCHANGED <<hosts, settings, command, was, trouble, spoiled>>
      /\ plan' = Tail(plan) /\ rescue' \in {<<"start">>, <<>>}
  BY OrdinaryIs DEF Arm, At
<1>2. plan \in Seq(Steps) /\ Tail(plan) \in Seq(Steps) /\ plan' = <<>> \o Tail(plan)
  BY <1>1, ConcatEmptySeq DEF TypeOK
<1>3. <<>> \in Seq(CallsNow) /\ <<>> \in Seq(Steps \ {"startSidecar"}) /\ Head(plan) \in CallsNow
  BY <1>1 DEF CallsNow
<1>4. OrdinaryPlan' /\ SpawnsFirst' /\ (Avoids("startSidecar") => Avoids("startSidecar")')
  BY <1>1, <1>2, <1>3, OrdinaryPlanGoesOn, SpawnStaysFirst, AvoidsGoesOn
<1>5. rescue' \in Rescues /\ rescue' \in Seq(Steps)
  <2>1. <<"start">> \in Seq(Steps) /\ <<>> \in Seq(Steps)
    BY DEF Steps
  <2> QED
    BY <1>1, <2>1 DEF Rescues
<1>6. HostsTyped' /\ SettingsTyped' /\ (Mine' <=> Mine)
  BY <1>1, TypesAre DEF HostsTyped, SettingsTyped, hosts, settings, Mine, Tracked
<1>7. ControlTyped'
  BY <1>1, <1>2, <1>5, TypesAre DEF ControlTyped
<1>8. UNCHANGED <<tun, savedTun, runtimeTun>>
  BY <1>1 DEF settings
<1>9. Agree => Agree'
  BY <1>8 DEF Agree
<1> QED
  BY <1>1, <1>4, <1>5, <1>6, <1>7, <1>8, <1>9, OrdinaryIs, OrdinaryIsThen, TypesAreThen

LEMMA OrdinaryTurnsOff ==
  ASSUME TypeOK, SpawnsFirst, Ordinary, TunOff
  PROVE  /\ Ordinary' /\ SpawnsFirst' /\ TypeOK' /\ command' = command
         /\ trouble # "none" => trouble' # "none"
<1>1. was = None /\ OrdinaryPlan /\ plan # <<>> /\ Head(plan) = "tunOff" /\ UNCHANGED hosts
  BY OrdinaryIs DEF TunOff, At
<1>2. plan = Saving
  <2>1. ~(Head(plan) \in CallsNow)
    BY <1>1, KeysAreNoCalls
  <2> QED
    BY <1>1, <2>1, RunsIsDone, RestsAreTyped DEF OrdinaryPlan
<1>3. HostsTyped' /\ SettingsTyped' /\ (Mine' <=> Mine)
  <2>1. HostsTyped' /\ (Mine' <=> Mine)
    BY <1>1, TypesAre DEF HostsTyped, hosts, Mine, Tracked
  <2>2. SettingsTyped'
    BY TypesAre DEF TunOff, SettingsTyped, settings
  <2> QED
    BY <2>1, <2>2
<1>4. CASE Fail /\ UNCHANGED settings
  <2>1. Ordinary' /\ SpawnsFirst' /\ trouble' # "none"
    BY <1>3, <1>4, OrdinaryFails
  <2>2. ControlTyped'
    BY <1>4, FailIsTyped, TypesAre
  <2> QED
    BY <1>3, <1>4, <2>1, <2>2, TypesAreThen DEF Fail
<1>5. CASE tun' = FALSE /\ savedTun' = FALSE /\ runtimeTun' = FALSE /\ Go(<<>>)
  <2>1. plan' = <<>> \o Nothing /\ UNCHANGED <<command, rescue, was, trouble, spoiled>>
    BY <1>2, <1>5 DEF Go, Saving, Nothing
  <2>2. RunsTo(Nothing)'
    <3>1. <<>> \in Seq(Calls)
      OBVIOUS
    <3> QED
      BY <2>1, <3>1, RunsFrom, RestsAreTyped
  <2>3. plan' = <<>>
    BY <2>1 DEF Nothing
  <2>4. ControlTyped' /\ SpawnsFirst'
    BY <2>1, <2>3, TypesAre DEF ControlTyped, SpawnsFirst
  <2>5. Agree'
    BY <1>5 DEF Agree
  <2> QED
    BY <1>1, <1>3, <1>5, <2>1, <2>2, <2>4, <2>5, OrdinaryIs, OrdinaryIsThen, TypesAreThen
       DEF OrdinaryPlan
<1> QED
  BY <1>4, <1>5 DEF TunOff

LEMMA SwitchBegins ==
  ASSUME TypeOK, SpawnsFirst, Ordinary, Capture
  PROVE  Begun' /\ SpawnsFirst' /\ TypeOK' /\ SnapshotInv' /\ command' = command
<1>1. /\ was = None /\ OrdinaryPlan /\ plan # <<>> /\ Head(plan) = "capture"
      /\ UNCHANGED <<hosts, settings, command, trouble, spoiled>>
      /\ plan' = Tail(plan) /\ rescue' = FilesBack
  BY OrdinaryIs DEF Capture, At, FilesBack
<1>2. PICK core \in {CoreRuns, Tracked} :
        was' = [tun |-> tun, saved |-> savedTun, runtime |-> runtimeTun,
                sidecar |-> Tracked, service |-> service = "running",
                core |-> core, touched |-> FALSE, revived |-> revived]
  BY DEF Capture
<1>3. \/ trouble = "none" /\ command # "tunOff" /\ plan = TunOnPlan
      \/ trouble = "none" /\ command = "tunOff" /\ plan = TunOffPlan
  <2>1. ~(Head(plan) \in CallsNow)
    BY <1>1, KeysAreNoCalls
  <2> QED
    BY <1>1, <2>1, RunsIsDone, RestsAreTyped DEF OrdinaryPlan
<1>4. (plan = TunOnPlan => plan' = On1) /\ (plan = TunOffPlan => plan' = Off1)
  <2>1. Tail(TunOnPlan) = On1
    BY DEF TunOnPlan, On1
  <2>2. Tail(TunOffPlan) = Off1
    BY DEF TunOffPlan, Off1
  <2> QED
    BY <1>1, <2>1, <2>2
<1>5. was' \in Snapshots /\ was' # None
  <2>1. was' \in Snapshots
    BY <1>2, TypesAre DEF Snapshots, SettingsTyped, HostsTyped, Tracked, CoreRuns
  <2> QED
    BY <2>1, NoneIsNoSnapshot
<1>6. UNCHANGED <<sidecar, retry, revived, tun, savedTun, runtimeTun>>
  BY <1>1 DEF hosts, settings
<1>7. /\ ~was'.touched /\ was'.tun = tun /\ was'.saved = savedTun /\ was'.runtime = runtimeTun
      /\ was'.sidecar = Tracked /\ was'.revived = revived /\ (was'.sidecar => was'.core)
  BY <1>2 DEF CoreRuns
<1>8. Own' /\ Before'
  BY <1>6, <1>7 DEF Own, Before, Mine, Tracked
<1>9. SnapshotInv'
  BY <1>1, <1>5, <1>7, OrdinaryIs DEF SnapshotInv, Agree, Mine
<1>10. HostsTyped' /\ SettingsTyped'
  BY <1>1, TypesAre DEF HostsTyped, SettingsTyped, hosts, settings
<1>11. On1 \in Seq(Steps \ {"startSidecar"}) /\ Off1 \in Seq(Steps \ {"startSidecar"})
       /\ FilesBack \in Seq(Steps) /\ On1 \in Seq(Steps) /\ Off1 \in Seq(Steps)
  BY DEF On1, Off1, FilesBack, Steps
<1>12. ControlTyped' /\ SpawnsFirst'
  BY <1>1, <1>3, <1>4, <1>5, <1>11, TypesAre DEF ControlTyped, SpawnsFirst
<1>13. Begun'
  BY <1>1, <1>3, <1>4, <1>5, <1>7, <1>8 DEF Begun, Target
<1> QED
  BY <1>1, <1>9, <1>10, <1>12, <1>13, TypesAreThen

(************************ a switch: what it does step by step ******************)

LEMMA RestsOfSwitches ==
  /\ On1 \in Seq(Steps) /\ On2 \in Seq(Steps) /\ On3 \in Seq(Steps) /\ On5 \in Seq(Steps)
  /\ Off2 \in Seq(Steps) /\ Off3 \in Seq(Steps)
  /\ FilesBack \in Seq(Steps) /\ AllBack \in Seq(Steps)
  /\ Head(On1) = "apply" /\ Head(On2) = "touch" /\ Head(On3) = "ensureService"
  /\ Head(On5) = "reload"
  /\ Head(Off1) = "apply" /\ Head(Off2) = "persist" /\ Head(Off3) = "touch"
  /\ Tail(On1) = On2 /\ Tail(On2) = On3 /\ Tail(On3) = On4 /\ Tail(On4) = On5
  /\ Tail(On5) = Confirming /\ Tail(On6) = Confirming /\ Tail(Confirming) = Nothing
  /\ Tail(Off1) = Off2 /\ Tail(Off2) = Off3
  BY DEF On1, On2, On3, On4, On5, On6, Confirming, Off1, Off2, Off3, FilesBack, AllBack, Nothing,
         Steps

LEMMA SwitchesSpawnNothing ==
  LET S == Steps \ {"startSidecar"} IN
  /\ On2 \in Seq(S) /\ On3 \in Seq(S) /\ On4 \in Seq(S) /\ On5 \in Seq(S) /\ On6 \in Seq(S)
  /\ Confirming \in Seq(S) /\ Off2 \in Seq(S) /\ Off3 \in Seq(S) /\ Nothing \in Seq(S)
  /\ FilesBack \in Seq(S) /\ AllBack \in Seq(S)
  BY DEF On2, On3, On4, On5, On6, Confirming, Off2, Off3, Nothing, FilesBack, AllBack, Steps

\* A step that leaves the rest of the plan to do.
LEMMA NextInPlan ==
  ASSUME Go(<<>>), NEW rest \in Seq(Steps), Tail(plan) = rest
  PROVE  plan' = rest
  BY ConcatEmptySeq DEF Go

LEMMA SnapshotStays ==
  ASSUME SnapshotInv, was' = was, ~spoiled' => ~spoiled
  PROVE  SnapshotInv'
  BY DEF SnapshotInv

\* What a step of a switch keeps; command is there because of StopInv.
SwitchKeeps == TypeOK' /\ SpawnsFirst' /\ SnapshotInv' /\ was' # None /\ command' = command

LEMMA SwitchGoes ==
  ASSUME TypeOK, SnapshotInv, was # None, HostsTyped', SettingsTyped',
         NEW rest \in Seq(Steps), rest \in Seq(Steps \ {"startSidecar"}),
         Go(<<>>), Tail(plan) = rest
  PROVE  SwitchKeeps /\ plan' = rest /\ UNCHANGED <<rescue, was, trouble, spoiled>>
<1>1. plan' = rest
  BY NextInPlan
<1>2. UNCHANGED <<command, rescue, was, trouble, spoiled>>
  BY DEF Go
<1>3. ControlTyped'
  BY <1>1, <1>2, TypesAre DEF ControlTyped
<1>4. SpawnsFirst'
  BY <1>1 DEF SpawnsFirst
<1> QED
  BY <1>1, <1>2, <1>3, <1>4, SnapshotStays, TypesAreThen DEF SwitchKeeps

LEMMA SwitchFails ==
  ASSUME TypeOK, SnapshotInv, was # None, HostsTyped', SettingsTyped', Fail,
         \/ Begun /\ (Mine' => Mine)
         \/ Moves
  PROVE  SwitchKeeps /\ Undoes'
<1>1. /\ plan' = rescue /\ rescue' = <<>> /\ trouble' = "failed" /\ was' = was
      /\ command' = command /\ (~spoiled' => ~spoiled)
  BY DEF Fail, Begun, Moves, TypeOK
<1>2. rescue \in Seq(Steps \ {"startSidecar"})
  BY SwitchesSpawnNothing DEF Begun, Moves
<1>3. SpawnsFirst'
  BY <1>1, <1>2 DEF SpawnsFirst
<1>4. TypeOK'
  BY FailIsTyped, TypesAre, TypesAreThen
<1>5. Undoes'
  BY <1>1 DEF Begun, Moves, Undoes, Own
<1> QED
  BY <1>1, <1>3, <1>4, <1>5, SnapshotStays DEF SwitchKeeps

LEMMA SameHosts ==
  ASSUME TypeOK, UNCHANGED hosts
  PROVE  HostsTyped' /\ (Mine' <=> Mine) /\ (Down' <=> Down)
  BY TypesAre DEF HostsTyped, hosts, Mine, Down, Tracked

LEMMA SwitchApplies ==
  ASSUME TypeOK, SnapshotInv, Begun, Apply
  PROVE  SwitchKeeps /\ (Begun' \/ Undoes')
<1>1. /\ was # None /\ Head(plan) = "apply" /\ UNCHANGED hosts /\ UNCHANGED savedTun
      /\ tun' = Target
  BY DEF Begun, Apply, At
<1>2. \/ plan = On1 /\ Target
      \/ plan = Off1 /\ ~Target
  BY <1>1, RestsOfSwitches DEF Begun
<1>3. HostsTyped' /\ (Mine' <=> Mine)
  BY <1>1, SameHosts
<1>4. SettingsTyped'
  BY TypesAre DEF Apply, SettingsTyped, Target
<1>5. CASE Fail
  BY <1>1, <1>3, <1>4, <1>5, SwitchFails
<1>6. CASE runtimeTun' = Target /\ Go(<<>>)
  <2>1. \/ Target /\ Tail(plan) = On2
        \/ ~Target /\ Tail(plan) = Off2
    BY <1>2, RestsOfSwitches
  <2>2. /\ SwitchKeeps /\ UNCHANGED <<rescue, was, trouble, spoiled>>
        /\ \/ Target /\ plan' = On2
           \/ ~Target /\ plan' = Off2
    BY <1>1, <1>3, <1>4, <1>6, <2>1, SwitchGoes, RestsOfSwitches, SwitchesSpawnNothing
  <2>3. Target' <=> Target
    BY <2>2 DEF SwitchKeeps, Target
  <2>4. Begun'
    BY <1>1, <1>3, <1>6, <2>2, <2>3 DEF Begun, Own
  <2> QED
    BY <2>2, <2>4
<1> QED
  BY <1>5, <1>6 DEF Apply

\* settings.json is written before the core is touched, or after.
LEMMA SwitchPersists ==
  ASSUME TypeOK, SnapshotInv, Begun \/ Moves, Persist
  PROVE  SwitchKeeps /\ (Begun' \/ Moves' \/ Undoes')
<1>1. /\ was # None /\ plan # <<>> /\ Head(plan) = "persist" /\ UNCHANGED hosts
      /\ UNCHANGED <<tun, runtimeTun>>
  BY DEF Begun, Moves, Persist, At
<1>2. Head(plan) \notin CallsNow
  BY <1>1, KeysAreNoCalls
<1>3. HostsTyped' /\ (Mine' <=> Mine)
  BY <1>1, SameHosts
<1>4. SettingsTyped'
  BY TypesAre DEF Persist, SettingsTyped
<1>5. CASE Fail
  BY <1>1, <1>3, <1>4, <1>5, SwitchFails
<1>6. CASE savedTun' = tun /\ Go(<<>>) /\ Begun
  <2>1. plan = Off2 /\ ~Target
    BY <1>1, <1>6, RestsOfSwitches DEF Begun
  <2>2. SwitchKeeps /\ plan' = Off3 /\ UNCHANGED <<rescue, was, trouble, spoiled>>
    BY <1>1, <1>3, <1>4, <1>6, <2>1, SwitchGoes, RestsOfSwitches, SwitchesSpawnNothing
  <2>3. Target' <=> Target
    BY <2>2 DEF SwitchKeeps, Target
  <2>4. tun = Target /\ runtimeTun = tun
    BY <1>6, <2>1, RestsOfSwitches DEF Begun
  <2>5. Begun'
    BY <1>1, <1>3, <1>6, <2>1, <2>2, <2>3, <2>4 DEF Begun, Own, Agree
  <2> QED
    BY <2>2, <2>5
<1>7. CASE savedTun' = tun /\ Go(<<>>) /\ Moves
  <2>1. plan = On4 /\ Target /\ Own /\ (Mine => ~Avoids("stopSidecar"))
    BY <1>1, <1>2, <1>7, RunsIsDone, RestsAreTyped, RestsOfSwitches DEF Moves, MovesOn, MovesOff
  <2>2. ~Mine
    BY <2>1 DEF Avoids, On4, Steps
  <2>3. SwitchKeeps /\ plan' = On5 /\ UNCHANGED <<rescue, was, trouble, spoiled>>
    BY <1>1, <1>3, <1>4, <1>7, <2>1, SwitchGoes, RestsOfSwitches, SwitchesSpawnNothing
  <2>4. Target' <=> Target
    BY <2>3 DEF SwitchKeeps, Target
  <2>5. Avoids("startSidecar")'
    BY <2>3, SwitchesSpawnNothing DEF Avoids
  <2>6. MovesOn'
    BY <1>1, <1>3, <1>7, <2>2, <2>3, <2>5 DEF MovesOn, Own
  <2> QED
    BY <1>1, <1>7, <2>1, <2>3, <2>4, <2>6 DEF Moves
<1> QED
  BY <1>5, <1>6, <1>7 DEF Persist

LEMMA SwitchTouches ==
  ASSUME TypeOK, SnapshotInv, Begun, Touch
  PROVE  SwitchKeeps /\ Moves'
<1>1. /\ was # None /\ Head(plan) = "touch"
      /\ UNCHANGED <<hosts, settings, command, trouble, spoiled>>
      /\ plan' = Tail(plan) /\ rescue' = AllBack /\ was' = [was EXCEPT !.touched = TRUE]
  BY DEF Begun, Touch, At, AllBack
<1>2. HostsTyped' /\ (Mine' <=> Mine)
  BY <1>1, SameHosts
<1>3. UNCHANGED <<tun, savedTun, runtimeTun>>
  BY <1>1 DEF settings
<1>4. SettingsTyped'
  BY <1>3, TypesAre DEF SettingsTyped
<1>5. was \in Snapshots
  BY <1>1 DEF TypeOK
<1>6. /\ was' \in Snapshots /\ was'.touched
      /\ was'.tun = was.tun /\ was'.saved = was.saved /\ was'.runtime = was.runtime
      /\ was'.sidecar = was.sidecar /\ was'.core = was.core /\ was'.revived = was.revived
  BY <1>1, <1>5 DEF Snapshots
<1>7. was' # None
  BY <1>6, NoneIsNoSnapshot
<1>8. SnapshotInv'
  BY <1>1, <1>6, <1>7 DEF SnapshotInv
<1>9. Own'
  BY <1>2, <1>6 DEF Begun, Own
<1>10. Target' <=> Target
  BY <1>1 DEF Target
<1>11. CASE plan = On2 /\ Target /\ tun = Target /\ runtimeTun = tun
  <2>2. plan' = On3 /\ Avoids("startSidecar")' /\ SpawnsFirst'
    BY <1>1, <1>11, RestsOfSwitches, SwitchesSpawnNothing DEF Avoids, SpawnsFirst
  <2>3. ControlTyped'
    BY <1>1, <1>6, <2>2, TypesAre, RestsOfSwitches DEF ControlTyped
  <2>4. MovesOn'
    BY <1>9, <2>2 DEF MovesOn
  <2>5. Moves'
    BY <1>1, <1>3, <1>6, <1>7, <1>10, <1>11, <2>4 DEF Moves, Begun
  <2> QED
    BY <1>1, <1>2, <1>4, <1>7, <1>8, <2>2, <2>3, <2>5, TypesAreThen DEF SwitchKeeps
<1>12. CASE plan = Off3 /\ ~Target /\ tun = Target /\ Agree
  <2>2. plan' = <<"stopSidecar", "stopHosted", "start", "confirm">>
    BY <1>1, <1>12 DEF Off3
  <2>3. plan' \in Seq(Steps) /\ SpawnsFirst'
    BY <2>2 DEF Steps, SpawnsFirst
  <2>4. plan' = <<"stopSidecar", "stopHosted", "start">> \o Confirming
    BY <2>2, FourAreThreeAndOne DEF Confirming
  <2>5. <<"stopSidecar", "stopHosted", "start">> \in Seq(Calls)
    BY DEF Calls
  <2>6. RunsTo(Confirming)'
    BY <2>4, <2>5, RunsFrom, RestsAreTyped
  <2>7. ControlTyped'
    BY <1>1, <1>6, <2>3, TypesAre, RestsOfSwitches DEF ControlTyped
  <2>8. MovesOff'
    BY <1>3, <1>12, <2>6 DEF MovesOff, Agree
  <2>9. Moves'
    BY <1>1, <1>3, <1>6, <1>7, <1>10, <1>12, <2>8 DEF Moves, Begun, Agree
  <2> QED
    BY <1>1, <1>2, <1>4, <1>7, <1>8, <2>3, <2>7, <2>9, TypesAreThen DEF SwitchKeeps
<1> QED
  BY <1>1, <1>11, <1>12, RestsOfSwitches DEF Begun

LEMMA TargetStays ==
  ASSUME command' = command
  PROVE  Target' <=> Target
  BY DEF Target

\* The parts of a plan before the core is restarted.
LEMMA SwitchEnsures ==
  ASSUME TypeOK, SnapshotInv, Moves, EnsureService
  PROVE  SwitchKeeps /\ Moves'
<1>1. was # None /\ plan # <<>> /\ Head(plan) = "ensureService" /\ UNCHANGED <<hosts, settings>>
  BY DEF Moves, EnsureService, At
<1>2. Head(plan) \notin CallsNow
  BY <1>1 DEF CallsNow, Calls
<1>3. plan = On3 /\ Target /\ Own
  BY <1>1, <1>2, RunsIsDone, RestsAreTyped, RestsOfSwitches DEF Moves, MovesOn, MovesOff
<1> DEFINE stop == IF was.sidecar THEN <<"stopSidecar">> ELSE <<>>
           start == IF was.service THEN <<>> ELSE <<"killOrphans", "startService">>
           calls == stop \o start
<1>4. Go(calls)
  BY DEF EnsureService
<1>5. stop \in Seq(Plain) /\ start \in Seq(Plain)
  <2>1. /\ <<>> \in Seq(Plain) /\ <<"stopSidecar">> \in Seq(Plain)
        /\ <<"killOrphans", "startService">> \in Seq(Plain)
    BY DEF Plain, Calls
  <2> QED
    BY <2>1
<1>6. was.sidecar => stop = <<"stopSidecar">>
  OBVIOUS
<1> HIDE DEF stop, start
<1>7. calls \in Seq(Plain)
  BY <1>5, ConcatIsIn
<1>8. /\ plan' = calls \o On4 /\ UNCHANGED <<command, rescue, was, trouble, spoiled>>
  BY <1>3, <1>4, RestsOfSwitches DEF Go
<1>9. stop \in Seq(Steps) /\ start \in Seq(Steps) /\ calls \in Seq(Steps) /\ calls \in Seq(Calls)
      /\ calls \in Seq(Steps \ {"startSidecar"})
  BY <1>5, <1>7, PlainIsIn, LargerSeq
<1>10. plan' \in Seq(Steps \ {"startSidecar"})
  BY <1>8, <1>9, SwitchesSpawnNothing, ConcatIsIn
<1>11. RunsTo(On4)'
  BY <1>8, <1>9, RunsFrom, RestsAreTyped
<1>12. ASSUME Mine, plan' \in Seq(Steps \ {"stopSidecar"}) PROVE FALSE
  <2>1. was.sidecar
    BY <1>3, <1>12 DEF Own
  <2>2. calls \in Seq(Steps \ {"stopSidecar"})
    BY <1>8, <1>9, <1>12, RestsAreTyped, StartOfConcatIsIn
  <2>3. stop \in Seq(Steps \ {"stopSidecar"})
    BY <1>9, <2>2, StartOfConcatIsIn
  <2> QED
    BY <1>6, <2>1, <2>3
<1>13. HostsTyped' /\ (Mine' <=> Mine)
  BY <1>1, SameHosts
<1>14. UNCHANGED <<tun, savedTun, runtimeTun>> /\ SettingsTyped'
  BY <1>1, TypesAre DEF settings, SettingsTyped
<1>15. MovesOn'
  BY <1>3, <1>8, <1>10, <1>11, <1>12, <1>13 DEF MovesOn, Own, Avoids
<1>16. Moves'
  BY <1>3, <1>8, <1>14, <1>15, TargetStays DEF Moves
<1>17. ControlTyped'
  BY <1>1, <1>4, <1>9, GoIsTyped, TypesAre
<1>18. SpawnsFirst'
  BY <1>10 DEF SpawnsFirst
<1> QED
  BY <1>1, <1>8, <1>13, <1>14, <1>16, <1>17, <1>18, SnapshotStays, TypesAreThen DEF SwitchKeeps

LEMMA SwitchReloads ==
  ASSUME TypeOK, SnapshotInv, Moves, Reload
  PROVE  SwitchKeeps /\ (Moves' \/ Undoes')
<1>1. was # None /\ plan # <<>> /\ Head(plan) = "reload" /\ UNCHANGED <<hosts, settings>>
  BY DEF Moves, Reload, At
<1>2. Head(plan) \notin CallsNow
  BY <1>1 DEF CallsNow, Calls
<1>3. plan = On5 /\ Target /\ savedTun = tun /\ Own /\ (Mine => ~Avoids("stopSidecar"))
  BY <1>1, <1>2, RunsIsDone, RestsAreTyped, RestsOfSwitches DEF Moves, MovesOn, MovesOff
<1>4. ~Mine
  BY <1>3 DEF Avoids, On5, Steps
<1>5. HostsTyped' /\ (Mine' <=> Mine)
  BY <1>1, SameHosts
<1>6. UNCHANGED <<tun, savedTun, runtimeTun>> /\ SettingsTyped'
  BY <1>1, TypesAre DEF settings, SettingsTyped
<1>7. CASE Fail
  BY <1>1, <1>5, <1>6, <1>7, SwitchFails
<1>8. ASSUME NEW calls \in Seq(Plain), Go(calls \o <<"mayRepair">>)
      PROVE  SwitchKeeps /\ Moves'
  <2> DEFINE last == <<"mayRepair">>
  <2>1. calls \in Seq(Steps) /\ calls \in Seq(Calls) /\ calls \in Seq(Steps \ {"startSidecar"})
    BY PlainIsIn, LargerSeq
  <2>2. last \in Seq(Steps)
    BY DEF Steps
  <2>3. last \o Confirming = On6
    BY TwoAreOneAndOne DEF Confirming, On6
  <2>4. /\ plan' = (calls \o last) \o Confirming
        /\ UNCHANGED <<command, rescue, was, trouble, spoiled>>
    BY <1>3, <1>8, RestsOfSwitches DEF Go
  <2> HIDE DEF last
  <2>5. plan' = calls \o On6
    <3>1. Confirming \in Seq(Steps)
      BY RestsAreTyped
    <3>2. (calls \o last) \o Confirming = calls \o (last \o Confirming)
      BY <2>1, <2>2, <3>1, ConcatAssociative
    <3> QED
      BY <2>3, <2>4, <3>2
  <2>6. RunsTo(On6)'
    BY <2>1, <2>5, RunsFrom, RestsAreTyped
  <2>7. plan' \in Seq(Steps \ {"startSidecar"}) /\ plan' \in Seq(Steps)
    BY <2>1, <2>5, SwitchesSpawnNothing, RestsAreTyped, ConcatIsIn
  <2>8. ControlTyped' /\ SpawnsFirst'
    BY <2>4, <2>7, TypesAre DEF ControlTyped, SpawnsFirst
  <2>9. MovesOn'
    BY <1>3, <1>4, <1>5, <1>6, <2>4, <2>6, <2>7 DEF MovesOn, Own, Avoids
  <2>10. Moves'
    BY <1>3, <1>6, <2>4, <2>9, TargetStays DEF Moves
  <2> QED
    BY <1>1, <1>5, <1>6, <2>4, <2>8, <2>10, SnapshotStays, TypesAreThen DEF SwitchKeeps
<1>9. CASE Go(<<"start", "mayRepair">>)
  <2>1. <<"start">> \in Seq(Plain)
    BY DEF Plain, Calls
  <2>2. <<"start", "mayRepair">> = <<"start">> \o <<"mayRepair">>
    BY TwoAreOneAndOne
  <2> QED
    BY <1>8, <1>9, <2>1, <2>2
<1>10. CASE Go(<<"stopSidecar", "stopHosted", "start", "mayRepair">>)
  <2>1. <<"stopSidecar", "stopHosted", "start">> \in Seq(Plain)
    BY DEF Plain, Calls
  <2>2. <<"stopSidecar", "stopHosted", "start", "mayRepair">>
          = <<"stopSidecar", "stopHosted", "start">> \o <<"mayRepair">>
    BY FourAreThreeAndOne
  <2> QED
    BY <1>8, <1>10, <2>1, <2>2
<1> QED
  BY <1>7, <1>9, <1>10 DEF Reload

LEMMA SwitchMayRepair ==
  ASSUME TypeOK, SnapshotInv, Moves, MayRepair
  PROVE  SwitchKeeps /\ Moves'
<1>1. /\ was # None /\ plan # <<>> /\ Head(plan) = "mayRepair" /\ UNCHANGED <<hosts, settings>>
      /\ Go(<<>>)
  BY DEF Moves, MayRepair, At
<1>2. Head(plan) \notin CallsNow
  BY <1>1 DEF CallsNow, Calls
<1>3. plan = On6 /\ Target /\ savedTun = tun /\ Own /\ (Mine => ~Avoids("stopSidecar"))
  BY <1>1, <1>2, RunsIsDone, RestsAreTyped, RestsOfSwitches DEF Moves, MovesOn, MovesOff
<1>4. ~Mine
  BY <1>3 DEF Avoids, On6, Steps
<1>5. HostsTyped' /\ (Mine' <=> Mine)
  BY <1>1, SameHosts
<1>6. UNCHANGED <<tun, savedTun, runtimeTun>> /\ SettingsTyped'
  BY <1>1, TypesAre DEF settings, SettingsTyped
<1>7. SwitchKeeps /\ plan' = Confirming /\ UNCHANGED <<rescue, was, trouble, spoiled>>
  BY <1>1, <1>3, <1>5, <1>6, SwitchGoes, RestsOfSwitches, RestsAreTyped, SwitchesSpawnNothing
<1>8. RunsTo(Confirming)'
  <2>1. <<>> \in Seq(Calls) /\ plan' = <<>> \o Confirming
    BY <1>7, RestsAreTyped, ConcatEmptySeq
  <2> QED
    BY <2>1, RunsFrom, RestsAreTyped
<1>9. Avoids("startSidecar")'
  BY <1>7, SwitchesSpawnNothing DEF Avoids
<1>10. MovesOn'
  BY <1>3, <1>4, <1>5, <1>6, <1>7, <1>8, <1>9 DEF MovesOn, Own
<1>11. Moves'
  BY <1>3, <1>6, <1>7, <1>10, TargetStays DEF Moves, SwitchKeeps
<1> QED
  BY <1>7, <1>11

LEMMA SwitchConfirms ==
  ASSUME TypeOK, SnapshotInv, Moves, Confirm
  PROVE  SwitchKeeps /\ (Moves' \/ Undoes')
<1>1. was # None /\ plan # <<>> /\ Head(plan) = "confirm" /\ UNCHANGED <<hosts, settings>>
  BY DEF Moves, Confirm, At
<1>2. Head(plan) \notin CallsNow
  BY <1>1, KeysAreNoCalls
<1>3. /\ plan = Confirming /\ savedTun = tun
      /\ Target => Own /\ (Mine => ~Avoids("stopSidecar"))
  BY <1>1, <1>2, RunsIsDone, RestsAreTyped, RestsOfSwitches DEF Moves, MovesOn, MovesOff
<1>4. Target => ~Mine
  BY <1>3 DEF Avoids, Confirming, Steps
<1>5. HostsTyped' /\ (Mine' <=> Mine)
  BY <1>1, SameHosts
<1>6. UNCHANGED <<tun, savedTun, runtimeTun>> /\ SettingsTyped'
  BY <1>1, TypesAre DEF settings, SettingsTyped
<1>7. CASE Fail
  BY <1>1, <1>5, <1>6, <1>7, SwitchFails
<1>8. CASE Go(<<>>)
  <2>1. SwitchKeeps /\ plan' = Nothing /\ UNCHANGED <<rescue, was, trouble, spoiled>>
    BY <1>1, <1>3, <1>5, <1>6, <1>8, SwitchGoes, RestsOfSwitches, RestsAreTyped,
       SwitchesSpawnNothing
  <2>2. Avoids("startSidecar")'
    BY <2>1, SwitchesSpawnNothing DEF Avoids
  <2>3. Target => MovesOn'
    BY <1>3, <1>4, <1>5, <1>6, <2>1, <2>2 DEF MovesOn, Own
  <2>4. MovesOff'
    BY <1>3, <1>6, <2>1 DEF MovesOff
  <2>5. tun' = Target' /\ runtimeTun' = tun' /\ (Target' <=> Target)
    BY <1>6, <2>1 DEF Moves, Target, SwitchKeeps
  <2>6. IF Target' THEN MovesOn' ELSE MovesOff'
    BY <2>3, <2>4, <2>5
  <2>7. Moves'
    BY <2>1, <2>5, <2>6 DEF Moves, SwitchKeeps
  <2> QED
    BY <2>1, <2>7
<1> QED
  BY <1>7, <1>8 DEF Confirm

\* The calls of a switch.
LEMMA MovesAre ==
  ASSUME Moves
  PROVE  /\ was # None /\ trouble = "none" /\ was.touched /\ rescue = AllBack
         /\ runtimeTun = tun /\ (tun <=> Target)
  BY DEF Moves

LEMMA MovesAgain ==
  ASSUME Moves, UNCHANGED <<command, rescue, was, trouble, tun, runtimeTun>>,
         IF Target THEN MovesOn' ELSE MovesOff'
  PROVE  Moves'
<1>1. Target' <=> Target
  BY TargetStays
<1>2. tun' = Target'
  BY DEF Moves, Target
<1> QED
  BY <1>1, <1>2 DEF Moves

LEMMA RestGoesOn ==
  ASSUME NEW rest \in {On4, On6, Confirming}, RunsTo(rest), plan # <<>>, Head(plan) \in CallsNow,
         NEW calls \in Seq(CallsNow), plan' = calls \o Tail(plan), was' = was
  PROVE  RunsTo(rest)'
  BY RunsGoesOn, RestsAreTyped, KeysAreNoCalls

LEMMA SwitchCalls ==
  ASSUME TypeOK, SpawnsFirst, SnapshotInv, Moves, IsCall
  PROVE  SwitchKeeps /\ (Moves' \/ Undoes')
<1>1. /\ plan # <<>> /\ Head(plan) \in Plain /\ HostsTyped' /\ UNCHANGED settings
      /\ (Mine' => Mine /\ Head(plan) # "stopSidecar")
  BY DEF IsCall
<1>2. UNCHANGED <<tun, savedTun, runtimeTun>> /\ SettingsTyped'
  BY <1>1, TypesAre DEF settings, SettingsTyped
<1>3. TypeOK'
  BY CallIsTyped
<1>4. Head(plan) \in CallsNow /\ Head(plan) \in Calls /\ Head(plan) \in Steps
  BY <1>1, PlainIsIn
<1>5. plan # On3 /\ plan # On5
  BY <1>4, RestsOfSwitches DEF Calls
<1>6. CASE Fail
  BY <1>1, <1>2, <1>6, MovesAre, SwitchFails
<1>7. CASE Continues
  <2>1. PICK calls \in Seq(Plain) : Go(calls)
    BY <1>7 DEF Continues
  <2>2. calls \in Seq(CallsNow) /\ calls \in Seq(Steps \ {"startSidecar"}) /\ calls \in Seq(Steps)
    BY PlainIsIn, LargerSeq
  <2>3. plan' = calls \o Tail(plan) /\ UNCHANGED <<command, rescue, was, trouble, spoiled>>
    BY <2>1 DEF Go
  <2>4. SpawnsFirst'
    BY <1>1, <2>2, <2>3, SpawnStaysFirst
  <2>5. ASSUME NEW rest \in {On4, On6, Confirming}, RunsTo(rest) PROVE RunsTo(rest)'
    BY <1>1, <1>4, <2>2, <2>3, <2>5, RestGoesOn
  <2>6. SwitchKeeps
    BY <1>3, <2>3, <2>4, MovesAre, SnapshotStays DEF SwitchKeeps
  <2>7. ASSUME Target PROVE MovesOn'
    <3>1. /\ Own /\ Avoids("startSidecar") /\ (Mine => ~Avoids("stopSidecar"))
          /\ \/ RunsTo(On4)
             \/ savedTun = tun /\ (RunsTo(On6) \/ RunsTo(Confirming))
      BY <1>1, <1>5, <2>7 DEF Moves, MovesOn, Nothing
    <3>2. Own'
      BY <1>1, <2>3, <3>1 DEF Own
    <3>3. Avoids("startSidecar")'
      BY <1>1, <2>2, <2>3, <3>1, AvoidsGoesOn
    <3>4. ASSUME Mine' PROVE ~Avoids("stopSidecar")'
      <4>1. ~Avoids("stopSidecar") /\ Head(plan) # "stopSidecar"
        BY <1>1, <3>1, <3>4
      <4>2. "stopSidecar" \in Steps /\ plan \in Seq(Steps)
        BY DEF Steps, TypeOK
      <4> QED
        BY <1>1, <2>2, <2>3, <4>1, <4>2, StepStays
    <3> QED
      BY <1>2, <2>5, <3>1, <3>2, <3>3, <3>4 DEF MovesOn
  <2>8. ASSUME ~Target PROVE MovesOff'
    BY <1>1, <1>2, <2>5, <2>8 DEF Moves, MovesOff, Nothing
  <2>9. Moves'
    BY <1>2, <2>3, <2>7, <2>8, MovesAgain
  <2> QED
    BY <2>6, <2>9
<1>8. CASE Repairs
  <2>1. ~Avoids("mayRepair")
    BY <1>8, NoRepair DEF Repairs
  <2>2. Target /\ Own /\ RunsTo(On6) /\ savedTun = tun
    <3>1. "mayRepair" \notin CallsNow
      BY KeysAreNoCalls
    <3>2. On4 \in Seq(Steps \ {"mayRepair"}) /\ Confirming \in Seq(Steps \ {"mayRepair"})
      BY DEF On4, Confirming, Steps
    <3>3. ~RunsTo(On4) /\ ~RunsTo(Confirming)
      BY <2>1, <3>1, <3>2, RunsAvoids
    <3> QED
      BY <1>1, <1>5, <3>3 DEF Moves, MovesOn, MovesOff, Nothing
  <2>3. PICK calls \in Seq(Plain) :
           /\ plan' = calls \o Confirming
           /\ Mine => calls \notin Seq(Steps \ {"stopSidecar"})
    BY <1>8, <2>2, RepairLeadsToConfirm DEF Repairs
  <2>4. UNCHANGED <<command, rescue, was, trouble, spoiled>>
    BY <1>8 DEF Repairs
  <2>5. calls \in Seq(Calls) /\ calls \in Seq(Steps \ {"startSidecar"}) /\ calls \in Seq(Steps)
    BY PlainIsIn, LargerSeq
  <2>6. RunsTo(Confirming)'
    BY <2>3, <2>5, RunsFrom, RestsAreTyped
  <2>7. plan' \in Seq(Steps \ {"startSidecar"})
    BY <2>3, <2>5, SwitchesSpawnNothing, ConcatIsIn
  <2>8. SpawnsFirst' /\ Avoids("startSidecar")'
    BY <2>7 DEF SpawnsFirst, Avoids
  <2>9. ASSUME Mine' PROVE ~Avoids("stopSidecar")'
    <3>1. calls \notin Seq(Steps \ {"stopSidecar"})
      BY <1>1, <2>3, <2>9
    <3>2. Confirming \in Seq(Steps)
      BY RestsAreTyped
    <3>3. plan' \notin Seq(Steps \ {"stopSidecar"})
      BY <2>3, <2>5, <3>1, <3>2, StartOfConcatIsIn
    <3> QED
      BY <3>3 DEF Avoids
  <2>10. MovesOn'
    BY <1>1, <1>2, <2>2, <2>4, <2>6, <2>8, <2>9 DEF MovesOn, Own
  <2>11. Moves'
    BY <1>2, <2>2, <2>4, <2>10, MovesAgain
  <2> QED
    BY <1>3, <2>4, <2>8, <2>11, MovesAre, SnapshotStays DEF SwitchKeeps
<1> QED
  BY <1>6, <1>7, <1>8 DEF IsCall

LEMMA SwitchDecides ==
  ASSUME TypeOK, SpawnsFirst, SnapshotInv, Moves, Decides
  PROVE  SwitchKeeps /\ Moves'
<1>1. /\ plan # <<>> /\ Head(plan) = "start" /\ UNCHANGED <<hosts, settings>> /\ ~tun
      /\ Go(Spawning)
  BY DEF Decides, At
<1>2. ~Target /\ savedTun = tun /\ RunsTo(Confirming)
  BY <1>1, MovesAre DEF Moves, MovesOff, Nothing
<1>3. plan' = Spawning \o Tail(plan) /\ UNCHANGED <<command, rescue, was, trouble, spoiled>>
  BY <1>1 DEF Go
<1>4. Spawning \in Seq(CallsNow) /\ Spawning \in Seq(Steps) /\ Head(plan) \in CallsNow
  <2>1. "startSidecar" \in CallsNow /\ "startSidecar" \in Steps /\ "start" \in CallsNow
    BY DEF CallsNow, Calls, Steps
  <2> QED
    BY <1>1, <2>1 DEF Spawning
<1>5. RunsTo(Confirming)'
  BY <1>1, <1>2, <1>3, <1>4, RestGoesOn
<1>6. SpawnsFirst'
  BY <1>1, <1>3, SpawnStaysFirst DEF Spawning
<1>7. UNCHANGED <<tun, savedTun, runtimeTun>> /\ HostsTyped' /\ SettingsTyped'
  BY <1>1, SameHosts, TypesAre DEF settings, SettingsTyped
<1>8. ControlTyped'
  BY <1>1, <1>4, GoIsTyped, TypesAre
<1>9. Moves'
  BY <1>2, <1>3, <1>5, <1>7, MovesAgain DEF MovesOff
<1> QED
  BY <1>3, <1>6, <1>7, <1>8, <1>9, MovesAre, SnapshotStays, TypesAreThen DEF SwitchKeeps

LEMMA SpawningIsTyped ==
  ASSUME TypeOK, StartSidecar
  PROVE  HostsTyped' /\ SettingsTyped' /\ UNCHANGED <<tun, savedTun, runtimeTun>>
<1>1. UNCHANGED <<tun, savedTun, runtimeTun>>
  BY DEF StartSidecar, settings
<1>2. revived' \in BOOLEAN
  BY DEF StartSidecar, TypeOK, Snapshots
<1>3. HostsTyped'
  BY <1>2, TypesAre DEF StartSidecar, HostsTyped
<1> QED
  BY <1>1, <1>3, TypesAre DEF SettingsTyped

LEMMA SwitchSpawns ==
  ASSUME TypeOK, SpawnsFirst, SnapshotInv, Moves, StartSidecar
  PROVE  SwitchKeeps /\ (Moves' \/ Undoes')
<1>1. plan # <<>> /\ Head(plan) = "startSidecar"
  BY DEF StartSidecar, At
<1>2. ~Avoids("startSidecar")
  BY <1>1 DEF Avoids
<1>3. ~Target /\ savedTun = tun /\ RunsTo(Confirming)
  BY <1>1, <1>2 DEF Moves, MovesOn, MovesOff, Nothing
<1>4. HostsTyped' /\ SettingsTyped' /\ UNCHANGED <<tun, savedTun, runtimeTun>>
  BY SpawningIsTyped
<1>5. CASE Fail
  BY <1>4, <1>5, MovesAre, SwitchFails
<1>6. CASE Go(<<>>)
  <2>1. plan' = <<>> \o Tail(plan) /\ UNCHANGED <<command, rescue, was, trouble, spoiled>>
    BY <1>6 DEF Go
  <2>2. <<>> \in Seq(CallsNow) /\ <<>> \in Seq(Steps) /\ <<>> \in Seq(Steps \ {"startSidecar"})
        /\ Head(plan) \in CallsNow
    BY <1>1 DEF CallsNow, Calls
  <2>3. RunsTo(Confirming)'
    BY <1>1, <1>3, <2>1, <2>2, RestGoesOn
  <2>4. SpawnsFirst'
    BY <1>1, <2>1, <2>2, SpawnStaysFirst
  <2>5. ControlTyped'
    BY <1>1, <1>6, <2>2, GoIsTyped, TypesAre
  <2>6. Moves'
    BY <1>3, <1>4, <2>1, <2>3, MovesAgain DEF MovesOff
  <2> QED
    BY <1>4, <2>1, <2>4, <2>5, <2>6, MovesAre, SnapshotStays, TypesAreThen DEF SwitchKeeps
<1> QED
  BY <1>5, <1>6 DEF StartSidecar

(**************************** a switch: its rollback ***************************)

LEMMA RestsOfRollbacks ==
  /\ Head(FilesBack) = "restoreSettings" /\ Head(AllBack) = "restoreSettings"
  /\ Head(HostBack1) = "stopSidecar" /\ Head(HostBack2) = "stopHosted"
  /\ Head(HostBack3) = "stopNewService" /\ Head(HostBack4) = "restoreHost"
  /\ Head(Spawning) = "startSidecar" /\ Head(Serving1) = "startWithService"
  /\ Head(Serving2) = "stopSidecar" /\ Head(Serving3) = "killOrphans"
  /\ Head(Serving4) = "startService" /\ Head(Serving5) = "ipcStart"
  /\ Tail(FilesBack) = Nothing /\ Tail(AllBack) = HostBack1
  /\ Tail(HostBack1) = HostBack2 /\ Tail(HostBack2) = HostBack3
  /\ Tail(HostBack3) = HostBack4 /\ Tail(HostBack4) = Nothing
  /\ Tail(Spawning) = Nothing /\ Tail(Serving1) = Nothing
  /\ Tail(Serving2) = Serving3 /\ Tail(Serving3) = Serving4
  /\ Tail(Serving4) = Serving5 /\ Tail(Serving5) = Nothing
  BY DEF FilesBack, AllBack, HostBack1, HostBack2, HostBack3, HostBack4, Spawning, Serving1,
         Serving2, Serving3, Serving4, Serving5, Nothing

\* What a rollback may go on with.
RollbackRests == {Nothing, HostBack1, HostBack2, HostBack3, HostBack4, Serving1, Serving2,
                  Serving3, Serving4, Serving5}

LEMMA RollbackIsTyped ==
  \A rest \in RollbackRests : rest \in Seq(Steps \ {"startSidecar"}) /\ rest \in Seq(Steps)
<1> DEFINE S == Steps \ {"startSidecar"}
<1>1. /\ Nothing \in Seq(S) /\ HostBack1 \in Seq(S) /\ HostBack2 \in Seq(S)
      /\ HostBack3 \in Seq(S) /\ HostBack4 \in Seq(S)
  BY DEF Nothing, HostBack1, HostBack2, HostBack3, HostBack4, Steps
<1>2. /\ Serving1 \in Seq(S) /\ Serving2 \in Seq(S) /\ Serving3 \in Seq(S)
      /\ Serving4 \in Seq(S) /\ Serving5 \in Seq(S)
  BY DEF Serving1, Serving2, Serving3, Serving4, Serving5, Steps
<1>3. S \subseteq Steps
  OBVIOUS
<1> HIDE DEF S
<1>4. \A rest \in RollbackRests : rest \in Seq(S)
  BY <1>1, <1>2 DEF RollbackRests
<1>5. \A rest \in RollbackRests : rest \in Seq(Steps)
  BY <1>3, <1>4, LargerSeq
<1> QED
  BY <1>4, <1>5 DEF S

LEMMA RollbackHasNoRepair ==
  ASSUME plan \in RollbackRests
  PROVE  ~Repairable
<1> DEFINE S == Steps \ {"mayRepair"}
<1>1. /\ Nothing \in Seq(S) /\ HostBack1 \in Seq(S) /\ HostBack2 \in Seq(S)
      /\ HostBack3 \in Seq(S) /\ HostBack4 \in Seq(S)
  BY DEF Nothing, HostBack1, HostBack2, HostBack3, HostBack4, Steps
<1>2. /\ Serving1 \in Seq(S) /\ Serving2 \in Seq(S) /\ Serving3 \in Seq(S)
      /\ Serving4 \in Seq(S) /\ Serving5 \in Seq(S)
  BY DEF Serving1, Serving2, Serving3, Serving4, Serving5, Steps
<1> HIDE DEF S
<1>3. plan \in Seq(S)
  BY <1>1, <1>2 DEF RollbackRests
<1> QED
  BY <1>3, NoRepair DEF Avoids, S

LEMMA RollbackFails ==
  ASSUME TypeOK, SnapshotInv, Undoes \/ Restored, Fail, HostsTyped', SettingsTyped'
  PROVE  SwitchKeeps /\ Broken'
<1>1. /\ was # None /\ trouble = "failed" /\ rescue = <<>>
  BY DEF Undoes, Restored
<1>2. /\ plan' = <<>> /\ rescue' = <<>> /\ trouble' = "broken" /\ was' = was
      /\ command' = command /\ spoiled'
  BY <1>1 DEF Fail
<1>3. TypeOK'
  BY FailIsTyped, TypesAre, TypesAreThen
<1> QED
  BY <1>1, <1>2, <1>3, SnapshotStays DEF SwitchKeeps, Broken, Nothing, SpawnsFirst

LEMMA RollbackGoes ==
  ASSUME TypeOK, SnapshotInv, was # None, HostsTyped', SettingsTyped',
         NEW rest \in RollbackRests, Go(<<>>), Tail(plan) = rest
  PROVE  SwitchKeeps /\ plan' = rest /\ UNCHANGED <<rescue, was, trouble, spoiled>>
  BY RollbackIsTyped, SwitchGoes

\* A rollback that goes on, and what it leaves at its end.
Undone == Restored' /\ (plan' = <<>> => RolledBack)

LEMMA RestoresSettings ==
  ASSUME TypeOK, SnapshotInv, Undoes, RestoreSettings
  PROVE  SwitchKeeps /\ (Undone \/ Broken')
<1>1. was # None /\ trouble = "failed" /\ rescue = <<>> /\ was \in Snapshots /\ UNCHANGED hosts
  BY DEF Undoes, RestoreSettings, TypeOK
<1>2. HostsTyped' /\ (Mine' <=> Mine)
  BY <1>1, SameHosts
<1>3. tun' = was.tun /\ was.tun \in BOOLEAN /\ was.saved \in BOOLEAN /\ was.runtime \in BOOLEAN
  BY <1>1 DEF RestoreSettings, Snapshots
<1>4. SettingsTyped'
  BY <1>3, TypesAre DEF RestoreSettings, SettingsTyped
<1>5. CASE Fail
  BY <1>2, <1>4, <1>5, RollbackFails
<1>6. CASE savedTun' = was.saved /\ runtimeTun' = was.runtime /\ Go(<<>>)
  <2>1. Tail(plan) \in RollbackRests
    BY RestsOfRollbacks DEF Undoes, RollbackRests
  <2>2. SwitchKeeps /\ plan' = Tail(plan) /\ UNCHANGED <<rescue, was, trouble, spoiled>>
    BY <1>1, <1>2, <1>4, <1>6, <2>1, RollbackGoes
  <2>3. Before'
    BY <1>3, <1>6, <2>2 DEF Before
  <2>4. CASE was.touched
    <3>1. plan' = HostBack1
      BY <2>2, <2>4, RestsOfRollbacks DEF Undoes
    <3>2. Restored'
      BY <1>1, <2>2, <2>3, <2>4, <3>1 DEF Restored
    <3>3. plan' # <<>>
      BY <3>1 DEF HostBack1
    <3> QED
      BY <2>2, <3>2, <3>3 DEF Undone
  <2>5. CASE ~was.touched
    <3>1. plan' = Nothing /\ Own
      BY <2>2, <2>5, RestsOfRollbacks DEF Undoes
    <3>2. ~spoiled' /\ tun' => ~Mine'
      BY <1>1, <1>2, <1>3, <2>2, <3>1 DEF SnapshotInv, Own
    <3>3. Restored'
      BY <1>1, <2>2, <2>3, <3>1, <3>2 DEF Restored
    <3>4. RolledBack
      BY <1>3, <1>6, <2>5 DEF RolledBack
    <3> QED
      BY <2>2, <3>3, <3>4 DEF Undone
  <2> QED
    BY <2>4, <2>5
<1> QED
  BY <1>5, <1>6 DEF RestoreSettings

LEMMA RestoredIs ==
  ASSUME Restored, plan # <<>>
  PROVE  /\ was # None /\ trouble = "failed" /\ rescue = <<>> /\ Before
         /\ \/ plan = HostBack1 /\ was.touched
            \/ plan \in {HostBack2, HostBack3, HostBack4} /\ was.touched /\ Down
            \/ plan = Spawning /\ was.sidecar /\ Down
            \/ /\ plan \in {Serving1, Serving2, Serving3, Serving4, Serving5}
               /\ ~was.sidecar /\ was.core /\ Down
  BY DEF Restored, Nothing

LEMMA RestsAreNotEmpty ==
  /\ HostBack2 # <<>> /\ HostBack3 # <<>> /\ HostBack4 # <<>> /\ Spawning # <<>>
  /\ Serving1 # <<>> /\ Serving2 # <<>> /\ Serving3 # <<>> /\ Serving4 # <<>> /\ Serving5 # <<>>
  BY DEF HostBack2, HostBack3, HostBack4, Spawning, Serving1, Serving2, Serving3, Serving4,
         Serving5

\* A call of the rollback that leaves its rest to do.
LEMMA RollbackCalls ==
  ASSUME TypeOK, SnapshotInv, Restored, plan # <<>>, Go(<<>>) \/ Fail \/ Repairs,
         HostsTyped', UNCHANGED settings, Down \/ Head(plan) = "stopSidecar" => Down',
         Head(plan) \in {"stopSidecar", "stopHosted", "stopNewService", "killOrphans",
                         "startService", "ipcStart"},
         Head(plan) = "ipcStart" /\ Go(<<>>) => hosted' = "alive"
  PROVE  SwitchKeeps /\ (Undone \/ Broken')
<1>1. /\ was # None /\ trouble = "failed" /\ rescue = <<>> /\ Before
      /\ \/ plan \in {HostBack1, HostBack2, HostBack3} /\ was.touched
         \/ plan \in {Serving2, Serving3, Serving4, Serving5} /\ ~was.sidecar /\ was.core
  BY RestoredIs, RestsOfRollbacks
<1>2. UNCHANGED <<tun, savedTun, runtimeTun>> /\ SettingsTyped'
  BY TypesAre DEF settings, SettingsTyped
<1>3. Down'
  BY RestoredIs, RestsOfRollbacks
<1>4. CASE Fail
  BY <1>2, <1>4, RollbackFails
<1>5. CASE Repairs
  BY <1>1, <1>5, RollbackHasNoRepair DEF RollbackRests, Repairs
<1>6. CASE Go(<<>>)
  <2>1. /\ Tail(plan) \in RollbackRests
        /\ \/ Tail(plan) \in {HostBack2, HostBack3, HostBack4} /\ was.touched
           \/ Tail(plan) \in {Serving3, Serving4, Serving5} /\ ~was.sidecar /\ was.core
           \/ Tail(plan) = Nothing /\ Head(plan) = "ipcStart" /\ ~was.sidecar /\ was.core
    BY <1>1, RestsOfRollbacks DEF RollbackRests
  <2>2. SwitchKeeps /\ plan' = Tail(plan) /\ UNCHANGED <<rescue, was, trouble, spoiled>>
    BY <1>1, <1>2, <1>6, <2>1, RollbackGoes
  <2>3. Before'
    BY <1>1, <1>2, <2>2 DEF Before
  <2>4. ~Mine'
    BY <1>3 DEF Mine, Down
  <2>5. Restored'
    BY <1>1, <1>3, <2>1, <2>2, <2>3, <2>4 DEF Restored
  <2>6. ASSUME plan' = <<>> PROVE RolledBack
    <3>1. Head(plan) = "ipcStart" /\ ~was.sidecar /\ was.core
      BY <2>1, <2>2, <2>6, RestsAreNotEmpty
    <3>2. hosted' = "alive"
      BY <1>6, <3>1
    <3> QED
      BY <1>1, <1>2, <3>1, <3>2 DEF RolledBack, Before
  <2> QED
    BY <2>2, <2>5, <2>6 DEF Undone
<1> QED
  BY <1>4, <1>5, <1>6

LEMMA LaterOf ==
  ASSUME NEW rest \in RollbackRests \cup {Spawning}, Go(rest), Tail(plan) = Nothing
  PROVE  plan' = rest
<1>1. Spawning \in Seq(Steps)
  BY DEF Spawning, Steps
<1>2. rest \in Seq(Steps)
  BY <1>1, RollbackIsTyped
<1> QED
  BY <1>2, ConcatEmptySeq DEF Go, Nothing

LEMMA RestoresHost ==
  ASSUME TypeOK, SnapshotInv, Restored, RestoreHost
  PROVE  SwitchKeeps /\ (Undone \/ Broken')
<1>1. /\ plan # <<>> /\ Head(plan) = "restoreHost" /\ UNCHANGED <<hosts, settings>>
  BY DEF RestoreHost, At
<1>2. /\ was # None /\ trouble = "failed" /\ rescue = <<>> /\ Before
      /\ was.touched /\ Down /\ Tail(plan) = Nothing
  BY <1>1, RestoredIs, RestsOfRollbacks
<1>3. UNCHANGED <<tun, savedTun, runtimeTun>> /\ HostsTyped' /\ SettingsTyped' /\ Down'
  BY <1>1, <1>2, SameHosts, TypesAre DEF settings, SettingsTyped
<1>4. was \in Snapshots /\ was.sidecar \in BOOLEAN /\ was.core \in BOOLEAN
  BY <1>2 DEF TypeOK, Snapshots
<1>5. CASE was.sidecar /\ Go(Spawning)
  <2>1. plan' = Spawning /\ UNCHANGED <<command, rescue, was, trouble, spoiled>>
    BY <1>2, <1>5, LaterOf DEF Go
  <2>2. /\ Spawning \in Seq(Steps) /\ Tail(Spawning) = <<>>
        /\ <<>> \in Seq(Steps \ {"startSidecar"})
    BY DEF Spawning, Steps
  <2>3. ControlTyped' /\ SpawnsFirst'
    BY <2>1, <2>2, TypesAre DEF ControlTyped, SpawnsFirst
  <2>4. Before'
    BY <1>2, <1>3, <2>1 DEF Before
  <2>5. Restored'
    BY <1>2, <1>3, <1>5, <2>1, <2>4 DEF Restored
  <2> QED
    BY <1>2, <1>3, <2>1, <2>3, <2>5, SnapshotStays, TypesAreThen, RestsAreNotEmpty
       DEF SwitchKeeps, Undone
<1>6. CASE ~was.sidecar /\ was.core /\ Go(Serving1)
  <2>1. plan' = Serving1 /\ UNCHANGED <<command, rescue, was, trouble, spoiled>>
    BY <1>2, <1>6, LaterOf DEF Go, RollbackRests
  <2>2. /\ Serving1 \in Seq(Steps) /\ Tail(Serving1) = <<>>
        /\ <<>> \in Seq(Steps \ {"startSidecar"})
    BY DEF Serving1, Steps
  <2>3. ControlTyped' /\ SpawnsFirst'
    BY <2>1, <2>2, TypesAre DEF ControlTyped, SpawnsFirst
  <2>4. Before'
    BY <1>2, <1>3, <2>1 DEF Before
  <2>5. Restored'
    BY <1>2, <1>3, <1>6, <2>1, <2>4 DEF Restored
  <2> QED
    BY <1>2, <1>3, <2>1, <2>3, <2>5, SnapshotStays, TypesAreThen, RestsAreNotEmpty
       DEF SwitchKeeps, Undone
<1>7. CASE ~was.sidecar /\ ~was.core /\ Go(<<>>)
  <2>1. /\ SwitchKeeps /\ plan' = Nothing /\ UNCHANGED <<rescue, was, trouble, spoiled>>
    BY <1>2, <1>3, <1>7, RollbackGoes DEF RollbackRests
  <2>2. Before' /\ ~Mine'
    BY <1>2, <1>3, <2>1 DEF Before, Mine, Down
  <2>3. Restored'
    BY <1>2, <2>1, <2>2 DEF Restored
  <2>4. RolledBack
    BY <1>2, <1>3, <1>7 DEF RolledBack, Before, Down, Tracked
  <2> QED
    BY <2>1, <2>3, <2>4 DEF Undone
<1> QED
  BY <1>5, <1>6, <1>7 DEF RestoreHost, Spawning, Serving1

LEMMA RestoresSidecar ==
  ASSUME TypeOK, SnapshotInv, Restored, StartSidecar
  PROVE  SwitchKeeps /\ (Undone \/ Broken')
<1>1. plan # <<>> /\ Head(plan) = "startSidecar"
  BY DEF StartSidecar, At
<1>2. /\ was # None /\ trouble = "failed" /\ rescue = <<>> /\ Before
      /\ was.sidecar /\ was.core /\ Down /\ Tail(plan) = Nothing
  BY <1>1, RestoredIs, RestsOfRollbacks DEF SnapshotInv
<1>3. HostsTyped' /\ SettingsTyped' /\ UNCHANGED <<tun, savedTun, runtimeTun>>
  BY SpawningIsTyped
<1>4. CASE Fail
  BY <1>3, <1>4, RollbackFails
<1>5. CASE sidecar' = "alive" /\ revived' = (was # None /\ was.revived) /\ Go(<<>>)
  <2>1. SwitchKeeps /\ plan' = Nothing /\ UNCHANGED <<rescue, was, trouble, spoiled>>
    BY <1>2, <1>3, <1>5, RollbackGoes DEF RollbackRests
  <2>2. Before'
    BY <1>2, <1>3, <2>1 DEF Before
  <2>3. ~spoiled' /\ tun' => ~Mine'
    BY <1>2, <1>3, <1>5, <2>1 DEF SnapshotInv, Before, Mine
  <2>4. Restored'
    BY <1>2, <2>1, <2>2, <2>3 DEF Restored
  <2>5. RolledBack
    BY <1>2, <1>3, <1>5 DEF RolledBack, Before
  <2> QED
    BY <2>1, <2>4, <2>5 DEF Undone
<1> QED
  BY <1>2, <1>4, <1>5 DEF StartSidecar, Down

LEMMA RestoresServing ==
  ASSUME TypeOK, SnapshotInv, Restored, StartWithService
  PROVE  SwitchKeeps /\ (Undone \/ Broken')
<1>1. plan # <<>> /\ Head(plan) = "startWithService" /\ UNCHANGED <<hosts, settings>>
  BY DEF StartWithService, At
<1>2. /\ was # None /\ trouble = "failed" /\ rescue = <<>> /\ Before
      /\ ~was.sidecar /\ was.core /\ Down /\ Tail(plan) = Nothing
  BY <1>1, RestoredIs, RestsOfRollbacks
<1>3. UNCHANGED <<tun, savedTun, runtimeTun>> /\ HostsTyped' /\ SettingsTyped' /\ Down'
  BY <1>1, <1>2, SameHosts, TypesAre DEF settings, SettingsTyped
<1>4. CASE Fail
  BY <1>3, <1>4, RollbackFails
<1>5. CASE Go(Serving2)
  <2>1. plan' = Serving2 /\ UNCHANGED <<command, rescue, was, trouble, spoiled>>
    BY <1>2, <1>5, LaterOf DEF Go, RollbackRests
  <2>2. plan' \in Seq(Steps \ {"startSidecar"}) /\ plan' \in Seq(Steps)
    BY <2>1, RollbackIsTyped DEF RollbackRests
  <2>3. ControlTyped' /\ SpawnsFirst'
    BY <2>1, <2>2, TypesAre DEF ControlTyped, SpawnsFirst
  <2>4. Before'
    BY <1>2, <1>3, <2>1 DEF Before
  <2>5. Restored'
    BY <1>2, <1>3, <2>1, <2>4 DEF Restored
  <2> QED
    BY <1>2, <1>3, <2>1, <2>3, <2>5, SnapshotStays, TypesAreThen, RestsAreNotEmpty
       DEF SwitchKeeps, Undone
<1> QED
  BY <1>4, <1>5 DEF StartWithService, Serving2

\* The call the rollback waits for is the only one it can make.
LEMMA RollbackSteps ==
  ASSUME TypeOK, SnapshotInv, Restored, Command
  PROVE  SwitchKeeps /\ (Undone \/ Broken')
<1>1. plan # <<>>
  BY DEF Command, At, Start, StartHosted, StartWithService, StartSidecar, StopSidecar, KillOrphans,
     StartService, IpcStart, StopHosted, InstallService, ReinstallService, UninstallService,
     Operation, RefreshStatus, Arm, Capture, Apply, Touch, EnsureService, Persist, Reload,
     MayRepair, Confirm, RestoreSettings, StopNewService, RestoreHost, TunOff
<1>2. Head(plan) \in {"stopSidecar", "stopHosted", "stopNewService", "restoreHost",
                      "startSidecar", "startWithService", "killOrphans", "startService",
                      "ipcStart"}
  BY <1>1, RestoredIs, RestsOfRollbacks
<1>3. CASE StopSidecar
  <2>1. Head(plan) = "stopSidecar" /\ (Go(<<>>) \/ Fail)
    BY <1>3 DEF StopSidecar, At
  <2>2. HostsTyped' /\ UNCHANGED settings /\ Down'
    BY <1>3, StopSidecarIs DEF IsCall
  <2> QED
    BY <1>1, <2>1, <2>2, RollbackCalls
<1>4. CASE StopHosted
  <2>1. Head(plan) = "stopHosted" /\ (Go(<<>>) \/ Fail \/ Repairs)
    BY <1>4, FailIpcIs DEF StopHosted, At
  <2>2. HostsTyped' /\ UNCHANGED settings /\ (Down => Down')
    BY <1>4, StopHostedIs DEF IsCall
  <2> QED
    BY <1>1, <2>1, <2>2, RollbackCalls
<1>5. CASE KillOrphans
  <2>1. Head(plan) = "killOrphans" /\ Go(<<>>)
    BY <1>5 DEF KillOrphans, At
  <2>2. HostsTyped' /\ UNCHANGED settings /\ (Down => Down')
    BY <1>5, KillOrphansIs DEF IsCall
  <2> QED
    BY <1>1, <2>1, <2>2, RollbackCalls
<1>6. CASE StartService
  <2>1. Head(plan) = "startService" /\ (Go(<<>>) \/ Fail)
    BY <1>6 DEF StartService, At
  <2>2. HostsTyped' /\ UNCHANGED settings /\ (Down => Down')
    BY <1>6, StartServiceIs DEF IsCall
  <2> QED
    BY <1>1, <2>1, <2>2, RollbackCalls
<1>7. CASE IpcStart
  <2>1. Head(plan) = "ipcStart" /\ ((Go(<<>>) /\ hosted' = "alive") \/ Fail \/ Repairs)
    BY <1>7, FailIpcIs DEF IpcStart, At
  <2>2. HostsTyped' /\ UNCHANGED settings /\ (Down => Down')
    BY <1>7, IpcStartIs DEF IsCall
  <2>3. CASE Go(<<>>) /\ hosted' = "alive"
    BY <1>1, <2>1, <2>2, <2>3, RollbackCalls
  <2>4. CASE Fail
    BY <2>2, <2>4, RollbackFails, TypesAre DEF settings, SettingsTyped
  <2>5. CASE Repairs
    BY <1>1, <2>1, <2>5, RestoredIs, RestsOfRollbacks, RollbackHasNoRepair
       DEF RollbackRests, Repairs
  <2> QED
    BY <2>1, <2>3, <2>4, <2>5
<1>8. CASE StopNewService
  <2>1. Head(plan) = "stopNewService" /\ (Go(<<>>) \/ Fail)
    BY <1>8 DEF StopNewService, At
  <2>2. UNCHANGED settings /\ (Down => Down')
    BY <1>8 DEF StopNewService, settings, Down, Tracked
  <2>3. HostsTyped'
    BY <1>8, TypesAre DEF StopNewService, HostsTyped, ServiceBecomes
  <2> QED
    BY <1>1, <2>1, <2>2, <2>3, RollbackCalls
<1>9. \/ StopSidecar \/ StopHosted \/ KillOrphans \/ StartService \/ IpcStart \/ StopNewService
      \/ RestoreHost \/ StartSidecar \/ StartWithService
  BY <1>2 DEF Command, At, Start, StartHosted, InstallService, ReinstallService,
     UninstallService, Operation, RefreshStatus, Arm, Capture, Apply, Touch, EnsureService,
     Persist, Reload, MayRepair, Confirm, RestoreSettings, TunOff
<1> QED
  BY <1>3, <1>4, <1>5, <1>6, <1>7, <1>8, <1>9, RestoresHost, RestoresSidecar, RestoresServing

(***************************** commands, stage by stage ************************)

LEMMA CommandActs ==
  ASSUME Command
  PROVE  plan # <<>>
  BY DEF Command, At, Start, StartHosted, StartWithService, StartSidecar, StopSidecar, KillOrphans,
     StartService, IpcStart, StopHosted, InstallService, ReinstallService, UninstallService,
     Operation, RefreshStatus, Arm, Capture, Apply, Touch, EnsureService, Persist, Reload,
     MayRepair, Confirm, RestoreSettings, StopNewService, RestoreHost, TunOff

\* Which action is next follows from the first step of the plan.
IsAnyCall ==
  \/ Start \/ StartHosted \/ StartWithService \/ StopSidecar \/ KillOrphans
  \/ StartService \/ IpcStart \/ StopHosted
  \/ InstallService \/ ReinstallService \/ UninstallService \/ RefreshStatus

LEMMA KeyActs ==
  ASSUME Command, ~IsAnyCall
  PROVE  \/ Head(plan) = "startSidecar" /\ StartSidecar
         \/ Head(plan) \in {"arm", "disarm"} /\ Arm
         \/ Head(plan) = "capture" /\ Capture
         \/ Head(plan) = "apply" /\ Apply
         \/ Head(plan) = "touch" /\ Touch
         \/ Head(plan) = "ensureService" /\ EnsureService
         \/ Head(plan) = "persist" /\ Persist
         \/ Head(plan) = "reload" /\ Reload
         \/ Head(plan) = "mayRepair" /\ MayRepair
         \/ Head(plan) = "confirm" /\ Confirm
         \/ Head(plan) = "restoreSettings" /\ RestoreSettings
         \/ Head(plan) = "stopNewService" /\ StopNewService
         \/ Head(plan) = "restoreHost" /\ RestoreHost
         \/ Head(plan) = "tunOff" /\ TunOff
  BY DEF Command, IsAnyCall, At, StartSidecar, Arm, Capture, Apply, Touch, EnsureService,
     Persist, Reload, MayRepair, Confirm, RestoreSettings, StopNewService, RestoreHost, TunOff

LEMMA CallActs ==
  ASSUME IsAnyCall
  PROVE  Head(plan) \in {"start", "startHosted", "startWithService", "stopSidecar", "killOrphans",
                         "startService", "ipcStart", "stopHosted", "install", "reinstall",
                         "uninstall", "refresh"}
  BY DEF IsAnyCall, At, Start, StartHosted, StartWithService, StopSidecar, KillOrphans,
     StartService, IpcStart, StopHosted, InstallService, ReinstallService, UninstallService,
     Operation, RefreshStatus

LEMMA CommandCalls ==
  ASSUME TypeOK, IsAnyCall
  PROVE  IsCall \/ Decides
  BY CallsAre DEF IsAnyCall

LEMMA OrdinaryHeads ==
  ASSUME Ordinary, plan # <<>>
  PROVE  Head(plan) \in CallsNow \cup {"tunOff", "capture"}
<1>1. ASSUME NEW rest \in {Nothing, Saving, TunOnPlan}, RunsTo(rest), Head(plan) \notin CallsNow
      PROVE  plan = rest
  BY <1>1, RunsIsDone, RestsAreTyped
<1> QED
  BY <1>1, RestsAreTyped DEF Ordinary

LEMMA OrdinarySteps ==
  ASSUME TypeOK, SpawnsFirst, SnapshotInv, Ordinary, Command
  PROVE  /\ TypeOK' /\ SpawnsFirst' /\ SnapshotInv' /\ command' = command
         /\ \/ Ordinary' /\ (trouble # "none" => trouble' # "none")
            \/ Begun' /\ trouble = "none" /\ Head(plan) = "capture"
<1>1. plan # <<>> /\ was = None
  BY CommandActs DEF Ordinary
<1>2. Ordinary' => SnapshotInv'
  BY DEF Ordinary, SnapshotInv
<1>3. CASE IsAnyCall
  <2>1. CASE IsCall
    BY <1>2, <2>1, OrdinaryCalls, CallIsTyped
  <2>2. CASE Decides
    BY <1>2, <2>2, OrdinaryDecides
  <2> QED
    BY <1>3, <2>1, <2>2, CommandCalls
<1>4. CASE ~IsAnyCall
  <2>1. Head(plan) \in CallsNow \cup {"tunOff", "capture"}
    BY <1>1, OrdinaryHeads
  <2>2. StartSidecar \/ Arm \/ TunOff \/ (Capture /\ Head(plan) = "capture")
    BY <1>4, <2>1, KeyActs DEF CallsNow, Calls
  <2>3. CASE StartSidecar
    BY <1>2, <2>3, OrdinarySpawns
  <2>4. CASE Arm
    BY <1>2, <2>4, OrdinaryArms
  <2>5. CASE TunOff
    BY <1>2, <2>5, OrdinaryTurnsOff
  <2>6. CASE Capture /\ Head(plan) = "capture"
    <3>1. trouble = "none"
      BY <2>6, SwitchBegins DEF Begun, Capture
    <3> QED
      BY <2>6, <3>1, SwitchBegins
  <2> QED
    BY <2>2, <2>3, <2>4, <2>5, <2>6
<1> QED
  BY <1>3, <1>4

LEMMA BegunSteps ==
  ASSUME TypeOK, SpawnsFirst, SnapshotInv, Begun, Command
  PROVE  SwitchKeeps /\ (Begun' \/ Moves' \/ Undoes')
<1>1. plan # <<>> /\ Head(plan) \in {"apply", "touch", "persist"}
  BY CommandActs, RestsOfSwitches DEF Begun
<1>2. ~IsAnyCall
  BY <1>1, CallActs
<1>3. Apply \/ Touch \/ Persist
  BY <1>1, <1>2, KeyActs
<1> QED
  BY <1>3, SwitchApplies, SwitchTouches, SwitchPersists

LEMMA MovesHeads ==
  ASSUME Moves, plan # <<>>
  PROVE  Head(plan) \in Calls \cup {"ensureService", "persist", "reload", "mayRepair", "confirm"}
<1>1. CallsNow = Calls
  BY MovesAre DEF CallsNow
<1>2. ASSUME NEW rest \in {On4, On6, Confirming}, RunsTo(rest), Head(plan) \notin CallsNow
      PROVE  plan = rest
  BY <1>2, RunsIsDone, RestsAreTyped
<1> QED
  BY <1>1, <1>2, RestsAreTyped, RestsOfSwitches DEF Moves, MovesOn, MovesOff, Nothing

LEMMA MovesSteps ==
  ASSUME TypeOK, SpawnsFirst, SnapshotInv, Moves, Command
  PROVE  SwitchKeeps /\ (Moves' \/ Undoes')
<1>1. plan # <<>>
  BY CommandActs
<1>2. CASE IsAnyCall
  BY <1>2, CommandCalls, SwitchCalls, SwitchDecides
<1>3. CASE ~IsAnyCall
  <2>1. StartSidecar \/ EnsureService \/ Persist \/ Reload \/ MayRepair \/ Confirm
    BY <1>1, <1>3, KeyActs, MovesHeads DEF Calls
  <2>2. CASE Persist
    <3>1. SwitchKeeps /\ (Begun' \/ Moves' \/ Undoes')
      BY <2>2, SwitchPersists
    <3>2. was' = was
      BY <2>2 DEF Persist, Go, Fail
    <3>3. ~Begun'
      BY <3>2, MovesAre DEF Begun
    <3> QED
      BY <3>1, <3>3
  <2> QED
    BY <2>1, <2>2, SwitchSpawns, SwitchEnsures, SwitchReloads, SwitchMayRepair, SwitchConfirms
<1> QED
  BY <1>2, <1>3

LEMMA UndoesSteps ==
  ASSUME TypeOK, SpawnsFirst, SnapshotInv, Undoes, Command
  PROVE  SwitchKeeps /\ (Undone \/ Broken')
<1>1. plan # <<>> /\ Head(plan) = "restoreSettings"
  BY CommandActs, RestsOfRollbacks DEF Undoes
<1>2. ~IsAnyCall
  BY <1>1, CallActs
<1>3. RestoreSettings
  BY <1>1, <1>2, KeyActs
<1> QED
  BY <1>3, RestoresSettings

(******************************** what ends a stop *****************************)

LEMMA StopEnds ==
  ASSUME TypeOK, StopInv, Stage, SpawnsFirst, SnapshotInv, Command, command = "stop"
  PROVE  /\ StopInv'
         /\ plan' = <<>> /\ trouble' = "none" => Down' /\ hosted' = "none"
<1>1. was = None /\ plan # <<>> /\ Ordinary
  BY CommandActs DEF StopInv, Stage, Begun, Moves, Undoes, Restored, Broken
<1>2. Target
  BY DEF Target
<1>3. CASE trouble # "none"
  <2>1. Ordinary' /\ trouble' # "none"
    BY <1>1, <1>3, OrdinarySteps
  <2>2. was' = None
    BY <2>1 DEF Ordinary
  <2> QED
    BY <2>1, <2>2 DEF StopInv
<1>4. CASE trouble = "none" /\ plan = <<"stopSidecar", "stopHosted">>
  <2>1. Head(plan) = "stopSidecar" /\ Tail(plan) = <<"stopHosted">>
    BY <1>4
  <2>2. StopSidecar
    BY <2>1 DEF Command, At, Start, StartHosted, StartWithService, StartSidecar, KillOrphans,
       StartService, IpcStart, StopHosted, InstallService, ReinstallService, UninstallService,
       Operation, RefreshStatus, Arm, Capture, Apply, Touch, EnsureService, Persist, Reload,
       MayRepair, Confirm, RestoreSettings, StopNewService, RestoreHost, TunOff
  <2>3. Down' /\ was' = None
    BY <1>1, <2>2, StopSidecarIs DEF StopSidecar, Go, Fail
  <2>4. CASE Fail
    BY <2>3, <2>4, FailIsTyped, TypesAre DEF StopInv
  <2>5. CASE Go(<<>>)
    <3>1. <<"stopHosted">> \in Seq({"stopHosted"})
      OBVIOUS
    <3>2. plan' = <<"stopHosted">>
      BY <2>1, <2>5, <3>1, ConcatEmptySeq DEF Go
    <3> QED
      BY <2>3, <3>2 DEF StopInv
  <2> QED
    BY <2>2, <2>4, <2>5 DEF StopSidecar
<1>5. CASE trouble = "none" /\ plan = <<"stopHosted">> /\ Down
  <2>1. Head(plan) = "stopHosted" /\ Tail(plan) = <<>>
    BY <1>5
  <2>2. StopHosted
    BY <2>1 DEF Command, At, Start, StartHosted, StartWithService, StartSidecar, KillOrphans,
       StartService, IpcStart, StopSidecar, InstallService, ReinstallService, UninstallService,
       Operation, RefreshStatus, Arm, Capture, Apply, Touch, EnsureService, Persist, Reload,
       MayRepair, Confirm, RestoreSettings, StopNewService, RestoreHost, TunOff
  <2>3. Down'
    BY <1>5, <2>2, StopHostedIs DEF IsCall
  <2>4. ~Repairable
    <3>1. <<"stopHosted">> \in Seq(Steps \ {"mayRepair"})
      BY DEF Steps
    <3> QED
      BY <1>5, <3>1, NoRepair DEF Avoids
  <2>5. CASE Fail
    BY <1>1, <2>5, FailIsTyped, TypesAre DEF StopInv, Fail
  <2>6. CASE Go(<<>>) /\ hosted' = "none"
    <3>1. plan' = <<>> /\ was' = None
      BY <1>1, <2>1, <2>6 DEF Go
    <3> QED
      BY <2>3, <2>6, <3>1 DEF StopInv
  <2> QED
    BY <2>2, <2>4, <2>5, <2>6 DEF StopHosted, FailIpc, TypeOK
<1> QED
  BY <1>1, <1>3, <1>4, <1>5 DEF StopInv

LEMMA StopStays ==
  ASSUME TypeOK, StopInv, Stage, SpawnsFirst, SnapshotInv, Command, command' = command
  PROVE  StopInv'
<1>1. CASE command = "stop"
  BY <1>1, StopEnds
<1>2. CASE command # "stop"
  BY <1>2 DEF StopInv
<1> QED
  BY <1>1, <1>2

(***************************** how commands begin ******************************)

\* What holds between commands, as TunExcludesSidecar and SettingsAgree say.
LEMMA IdleIs ==
  ASSUME TypeOK, SnapshotInv, Stage, Idle, ~spoiled
  PROVE  Agree /\ (tun => ~Mine)
<1>1. plan = <<>> /\ plan = Nothing
  BY DEF Idle, Nothing
<1>2. ~Begun /\ ~Undoes /\ ~Broken
  BY <1>1 DEF Begun, Undoes, Broken, On1, On2, Off1, Off2, Off3, AllBack, FilesBack
<1>3. CASE Ordinary
  BY <1>3 DEF Ordinary
<1>4. CASE Moves
  <2>1. runtimeTun = tun /\ (tun <=> Target) /\ (IF Target THEN MovesOn ELSE MovesOff)
    BY <1>4 DEF Moves, TypeOK, Target
  <2>2. ~RunsTo(On4) /\ plan # On3
    <3>1. RunsTo(On4) => plan = On4
      BY <1>1, RunsIsDone, RestsAreTyped
    <3> QED
      BY <1>1, <3>1 DEF On3, On4
  <2>3. Avoids("stopSidecar")
    BY <1>1 DEF Avoids
  <2> QED
    BY <2>1, <2>2, <2>3 DEF MovesOn, MovesOff, Agree
<1>5. CASE Restored
  <2>1. Before /\ was # None
    BY <1>5 DEF Restored
  <2>2. Agree
    BY <2>1 DEF Before, Agree, SnapshotInv
  <2>3. tun => ~Mine
    BY <1>1, <1>5 DEF Restored, HostBack1, HostBack2, HostBack3, HostBack4, Spawning,
       Serving1, Serving2, Serving3, Serving4, Serving5
  <2> QED
    BY <2>2, <2>3
<1> QED
  BY <1>2, <1>3, <1>4, <1>5 DEF Stage

\* The calls that a command begins with, none of which starts a sidecar.
Opening == (Calls \ {"startSidecar"}) \cup {"arm", "disarm"}

LEMMA OpensWith ==
  ASSUME NEW calls \in Seq(Opening), NEW rest \in {Nothing, Saving, TunOnPlan},
         plan' = calls \o rest, was' = None
  PROVE  RunsTo(rest)' /\ Avoids("startSidecar")'
<1>1. Opening \subseteq CallsNow' /\ Opening \subseteq Steps \ {"startSidecar"}
  BY CallsAreSteps DEF Opening, CallsNow, Steps, Calls
<1>2. calls \in Seq(CallsNow') /\ calls \in Seq(Steps \ {"startSidecar"})
  BY <1>1, LargerSeq
<1>3. rest \in Seq(Steps \ {"startSidecar"})
  <2> DEFINE S == Steps \ {"startSidecar"}
  <2>1. Nothing \in Seq(S) /\ Saving \in Seq(S) /\ TunOnPlan \in Seq(S)
    BY DEF Nothing, Saving, TunOnPlan, Steps
  <2> QED
    BY <2>1
<1>4. calls \o rest \in Seq(Steps \ {"startSidecar"})
  BY <1>2, <1>3, ConcatIsIn
<1>5. Avoids("startSidecar")'
  BY <1>4 DEF Avoids
<1> QED
  BY <1>2, <1>5 DEF RunsTo

LEMMA OpensOnly ==
  ASSUME NEW calls \in Seq(Opening), plan' = calls, was' = None
  PROVE  RunsTo(Nothing)' /\ Avoids("startSidecar")'
<1>1. plan' = calls \o Nothing
  BY ConcatEmptySeq DEF Nothing
<1> QED
  BY <1>1, OpensWith

LEMMA HandoverIs ==
  ASSUME NEW calls \in Seq(Opening)
  PROVE  Handover(calls) \in Seq(Opening)
<1>1. <<"stopSidecar", "arm">> \in Seq(Opening) /\ <<"disarm">> \in Seq(Opening)
  BY DEF Opening, Calls
<1>2. calls \o <<"disarm">> \in Seq(Opening)
  BY <1>1, ConcatIsIn
<1>3. <<"stopSidecar", "arm">> \o (calls \o <<"disarm">>) \in Seq(Opening)
  BY <1>1, <1>2, ConcatIsIn
<1>4. <<"stopSidecar", "arm">> \o calls \in Seq(Opening)
  BY <1>1, ConcatIsIn
<1>5. (<<"stopSidecar", "arm">> \o calls) \o <<"disarm">> \in Seq(Opening)
  BY <1>1, <1>4, ConcatIsIn
<1> QED
  BY <1>3, <1>5 DEF Handover

LEMMA RepairPlanIs ==
  RepairPlan \in Seq(Opening)
<1>1. <<"killOrphans", "reinstall">> \in Seq(Opening) /\ <<"start">> \in Seq(Opening)
  BY DEF Opening, Calls
<1>2. Handover(<<"killOrphans", "reinstall">>) \in Seq(Opening)
  BY <1>1, HandoverIs
<1> QED
  BY <1>1, <1>2, ConcatIsIn DEF RepairPlan

LEMMA SwitchPlansAre ==
  ASSUME plan' \in SwitchPlans, was' = None
  PROVE  RunsTo(TunOnPlan)' /\ Avoids("startSidecar")'
<1>1. <<>> \in Seq(Opening)
  OBVIOUS
<1>2. TunOnPlan = <<>> \o TunOnPlan
  BY RestsAreTyped, ConcatEmptySeq
<1>3. plan' = <<>> \o TunOnPlan \/ plan' = RepairPlan \o TunOnPlan
  BY <1>2 DEF SwitchPlans
<1> QED
  BY <1>1, <1>3, OpensWith, RepairPlanIs

\* What uninstall does after stop, with and without TUN.
LEMMA UninstallPlanIs ==
  /\ UninstallPlan \in Rescues
  /\ \E rest \in {Nothing, Saving} : UninstallPlan = <<"killOrphans", "uninstall">> \o rest
<1>1. CASE tun
  <2>1. UninstallPlan = <<"killOrphans", "uninstall">> \o Saving
    BY <1>1 DEF UninstallPlan, Saving
  <2> QED
    BY <2>1, ThreeAreTwoAndOne DEF Rescues, Saving
<1>2. CASE ~tun
  <2>1. UninstallPlan = <<"killOrphans", "uninstall">> \o Nothing
    BY <1>2 DEF UninstallPlan, Nothing
  <2>2. <<"killOrphans", "uninstall">> \in Seq(Calls)
    BY DEF Calls
  <2> QED
    BY <2>1, <2>2, ConcatEmptySeq DEF Rescues, Nothing
<1> QED
  BY <1>1, <1>2

LEMMA Opens ==
  ASSUME NEW name \in Names, Begin(name)
  PROVE  OrdinaryPlan' /\ Avoids("startSidecar")'
<1>1. was' = None /\ trouble' = "none" /\ command' = name /\ plan' \in Plans(name)
  BY DEF Begin
<1>2. /\ <<"start">> \in Seq(Opening) /\ <<"stopSidecar", "stopHosted">> \in Seq(Opening)
      /\ <<"stopSidecar", "stopHosted", "start">> \in Seq(Opening)
      /\ <<"startWithService", "refresh">> \in Seq(Opening)
      /\ <<"startWithService">> \in Seq(Opening)
      /\ <<"killOrphans", "install">> \in Seq(Opening)
      /\ <<"stopSidecar", "stopHosted", "disarm">> \in Seq(Opening)
      /\ <<"killOrphans", "uninstall">> \in Seq(Opening)
  BY DEF Opening, Calls
<1>3. CASE name = "start"
  <2>1. plan' = <<"start">>
    BY <1>1, <1>3 DEF Plans
  <2> QED
    BY <1>1, <1>2, <2>1, OpensOnly DEF OrdinaryPlan
<1>4. CASE name = "stop"
  <2>1. plan' = <<"stopSidecar", "stopHosted">>
    BY <1>1, <1>4 DEF Plans
  <2> QED
    BY <1>1, <1>2, <2>1, OpensOnly DEF OrdinaryPlan
<1>5. CASE name = "restart"
  <2>1. plan' = <<"stopSidecar", "stopHosted", "start">>
    BY <1>1, <1>5 DEF Plans
  <2> QED
    BY <1>1, <1>2, <2>1, OpensOnly DEF OrdinaryPlan
<1>6. CASE name = "startService"
  <2>1. plan' \in SwitchPlans \/ plan' = Handover(<<"startWithService", "refresh">>)
    BY <1>1, <1>6 DEF Plans
  <2>2. CASE plan' \in SwitchPlans
    BY <1>1, <1>6, <2>2, SwitchPlansAre DEF OrdinaryPlan
  <2>3. CASE plan' = Handover(<<"startWithService", "refresh">>)
    <3>1. plan' \in Seq(Opening)
      BY <1>2, <2>3, HandoverIs
    <3> QED
      BY <1>1, <3>1, OpensOnly DEF OrdinaryPlan
  <2> QED
    BY <2>1, <2>2, <2>3
<1>7. CASE name = "install"
  <2>1. plan' = Handover(<<"killOrphans", "install">>) \o <<"startWithService">>
    BY <1>1, <1>7 DEF Plans
  <2>2. Handover(<<"killOrphans", "install">>) \in Seq(Opening)
    BY <1>2, HandoverIs
  <2>3. plan' \in Seq(Opening)
    BY <1>2, <2>1, <2>2, ConcatIsIn
  <2> QED
    BY <1>1, <2>3, OpensOnly DEF OrdinaryPlan
<1>8. CASE name = "uninstall"
  <2>1. plan' = <<"stopSidecar", "stopHosted", "disarm">> \o UninstallPlan
    BY <1>1, <1>8 DEF Plans
  <2>2. PICK rest \in {Nothing, Saving} : UninstallPlan = <<"killOrphans", "uninstall">> \o rest
    BY UninstallPlanIs
  <2> DEFINE first == <<"stopSidecar", "stopHosted", "disarm">>
             then == <<"killOrphans", "uninstall">>
  <2>3. first \in Seq(Steps) /\ then \in Seq(Steps) /\ rest \in Seq(Steps)
    <3>1. first \in Seq(Steps) /\ then \in Seq(Steps)
      BY DEF Steps
    <3>2. Nothing \in Seq(Steps) /\ Saving \in Seq(Steps)
      BY RestsAreTyped
    <3> QED
      BY <3>1, <3>2
  <2>4. first \in Seq(Opening) /\ then \in Seq(Opening)
    BY <1>2
  <2>5. plan' = first \o (then \o rest)
    BY <2>1, <2>2
  <2> HIDE DEF first, then
  <2>6. first \o (then \o rest) = (first \o then) \o rest
    BY <2>3, ConcatAssociative
  <2>7. first \o then \in Seq(Opening)
    BY <2>4, ConcatIsIn
  <2>8. RunsTo(rest)' /\ Avoids("startSidecar")'
    BY <1>1, <2>5, <2>6, <2>7, OpensWith
  <2> QED
    BY <2>8 DEF OrdinaryPlan
<1>9. CASE name = "reinstall"
  <2>1. plan' = RepairPlan
    BY <1>1, <1>9 DEF Plans
  <2> QED
    BY <1>1, <2>1, OpensOnly, RepairPlanIs DEF OrdinaryPlan
<1>10. CASE name = "tunOn"
  <2>1. plan' \in SwitchPlans
    BY <1>1, <1>10 DEF Plans
  <2> QED
    BY <1>1, <1>10, <2>1, SwitchPlansAre DEF OrdinaryPlan
<1>11. CASE name = "tunOff"
  <2>1. plan' = TunOffPlan \/ plan' = Saving
    BY <1>1, <1>11 DEF Plans, Saving
  <2>2. CASE plan' = TunOffPlan
    <3>1. plan' \in Seq(Steps \ {"startSidecar"})
      BY <2>2 DEF TunOffPlan, Steps
    <3> QED
      BY <1>1, <1>11, <2>2, <3>1 DEF OrdinaryPlan, Avoids
  <2>3. CASE plan' = Saving
    <3>1. <<>> \in Seq(Opening) /\ plan' = <<>> \o Saving
      BY <2>3, RestsAreTyped, ConcatEmptySeq
    <3> QED
      BY <1>1, <3>1, OpensWith DEF OrdinaryPlan
  <2> QED
    BY <2>1, <2>2, <2>3
<1> QED
  BY <1>3, <1>4, <1>5, <1>6, <1>7, <1>8, <1>9, <1>10, <1>11 DEF Names

LEMMA BeginKeeps ==
  ASSUME HostingInv, NEW name \in Names, Begin(name)
  PROVE  HostingInv'
<1>1. TypeOK /\ SnapshotInv /\ Stage /\ Idle
  BY DEF HostingInv, Begin
<1>2. OrdinaryPlan' /\ Avoids("startSidecar")'
  BY Opens
<1>3. was' = None /\ trouble' = "none" /\ UNCHANGED <<hosts, settings, spoiled>> /\ command' = name
  BY DEF Begin
<1>4. rescue' \in Rescues /\ rescue' \in Seq(Steps)
  <2>1. rescue' \in Rescues
    BY UninstallPlanIs DEF Begin, Rescues
  <2>2. /\ <<>> \in Seq(Steps) /\ <<"start">> \in Seq(Steps)
        /\ <<"killOrphans", "uninstall">> \in Seq(Steps)
        /\ <<"killOrphans", "uninstall", "tunOff">> \in Seq(Steps)
    BY DEF Steps
  <2> QED
    BY <2>1, <2>2 DEF Rescues
<1>5. (Mine' <=> Mine) /\ (Agree' <=> Agree)
  BY <1>3 DEF hosts, settings, Mine, Agree, Tracked
<1>6. Ordinary'
  BY <1>1, <1>2, <1>3, <1>4, <1>5, IdleIs, OrdinaryIsThen DEF settings
<1>7. plan' \in Seq(Steps \ {"startSidecar"})
  BY <1>2 DEF Avoids
<1>8. SpawnsFirst'
  BY <1>7 DEF SpawnsFirst
<1>9. plan' \in Seq(Steps)
  BY <1>7
<1>10. TypeOK'
  <2>1. HostsTyped /\ SettingsTyped /\ ControlTyped
    BY <1>1, TypesAre
  <2>2. HostsTyped' /\ SettingsTyped'
    BY <1>3, <2>1 DEF HostsTyped, SettingsTyped, hosts, settings
  <2>3. ControlTyped'
    BY <1>3, <1>4, <1>9, <2>1 DEF ControlTyped, Names
  <2> QED
    BY <2>2, <2>3, TypesAreThen
<1>11. SnapshotInv'
  BY <1>3 DEF SnapshotInv
<1>12. StopInv'
  <2>1. name = "stop" => plan' = <<"stopSidecar", "stopHosted">>
    BY DEF Begin, Plans
  <2> QED
    BY <1>3, <2>1 DEF StopInv
<1> QED
  BY <1>6, <1>8, <1>10, <1>11, <1>12 DEF HostingInv, Stage

(************************* what goes on in between *****************************)

LEMMA RunsStays ==
  ASSUME UNCHANGED <<plan, was>>, NEW rest
  PROVE  RunsTo(rest)' <=> RunsTo(rest)
<1>1. CallsNow' = CallsNow
  BY DEF CallsNow
<1> QED
  BY <1>1 DEF RunsTo

\* The hosts change, and neither settings nor commands do: no sidecar that nothing
\* accounts for comes up, except between commands without TUN.
LEMMA HostsChange ==
  ASSUME HostingInv, HostsTyped', UNCHANGED <<settings, control>>,
         Mine' => Mine \/ (~tun /\ Idle), Down => Down'
  PROVE  HostingInv'
<1>1. /\ TypeOK /\ SpawnsFirst /\ SnapshotInv /\ Stage /\ StopInv
      /\ UNCHANGED <<tun, savedTun, runtimeTun>>
      /\ UNCHANGED <<command, plan, rescue, was, trouble, spoiled>>
  BY DEF HostingInv, settings, control
<1>2. TypeOK'
  <2>1. SettingsTyped /\ ControlTyped
    BY <1>1, TypesAre
  <2>2. SettingsTyped' /\ ControlTyped'
    BY <1>1, <2>1 DEF SettingsTyped, ControlTyped
  <2> QED
    BY <2>2, TypesAreThen
<1>3. SpawnsFirst' /\ SnapshotInv'
  BY <1>1 DEF SpawnsFirst, SnapshotInv
<1>4. StopInv'
  BY <1>1 DEF StopInv
<1>5. (Agree' <=> Agree) /\ (Before' <=> Before) /\ Target' = Target
  BY <1>1 DEF Agree, Before, Target
<1>6. \A step : Avoids(step)' <=> Avoids(step)
  BY <1>1 DEF Avoids
<1>7. /\ RunsTo(Nothing)' <=> RunsTo(Nothing)
      /\ RunsTo(Saving)' <=> RunsTo(Saving)
      /\ RunsTo(TunOnPlan)' <=> RunsTo(TunOnPlan)
      /\ RunsTo(On4)' <=> RunsTo(On4)
      /\ RunsTo(On6)' <=> RunsTo(On6)
      /\ RunsTo(Confirming)' <=> RunsTo(Confirming)
  BY <1>1, RunsStays
<1>8. ~Idle \/ tun => (Mine' => Mine) /\ (Own => Own')
  BY <1>1 DEF Own
<1>9. CASE Ordinary
  <2>1. ~spoiled /\ tun => ~Mine /\ ~Mine'
    BY <1>9 DEF Ordinary
  <2>2. OrdinaryPlan'
    BY <1>1, <1>7, <1>9, OrdinaryIs DEF OrdinaryPlan
  <2>3. Ordinary'
    BY <1>1, <1>5, <1>6, <1>9, <2>1, <2>2, OrdinaryIs, OrdinaryIsThen
  <2> QED
    BY <1>2, <1>3, <1>4, <2>3 DEF HostingInv, Stage
<1>10. CASE Begun
  <2>1. ~Idle
    BY <1>10 DEF Begun, Idle, On1, On2, Off1, Off2, Off3
  <2>2. Begun'
    <3>1. Own'
      BY <1>8, <1>10, <2>1 DEF Begun
    <3> QED
      BY <1>1, <1>5, <1>10, <3>1 DEF Begun
  <2> QED
    BY <1>2, <1>3, <1>4, <2>2 DEF HostingInv, Stage
<1>11. CASE Moves
  <2>1. was # None /\ (tun <=> Target) /\ (IF Target THEN MovesOn ELSE MovesOff)
    BY <1>11, MovesAre DEF Moves
  <2>2. CASE Target
    <3>1. MovesOn /\ (Mine' => Mine) /\ (Own => Own')
      BY <1>8, <2>1, <2>2
    <3>2. MovesOn'
      BY <1>1, <1>6, <1>7, <3>1 DEF MovesOn
    <3>3. Moves'
      BY <1>1, <1>5, <1>11, <2>2, <3>2, MovesAgain
    <3> QED
      BY <1>2, <1>3, <1>4, <3>3 DEF HostingInv, Stage
  <2>3. CASE ~Target
    <3>1. MovesOff'
      BY <1>1, <1>7, <2>1, <2>3 DEF MovesOff
    <3>2. Moves'
      BY <1>1, <1>5, <1>11, <2>3, <3>1, MovesAgain
    <3> QED
      BY <1>2, <1>3, <1>4, <3>2 DEF HostingInv, Stage
  <2> QED
    BY <2>2, <2>3
<1>12. CASE Undoes
  <2>1. ~Idle
    BY <1>12 DEF Undoes, Idle, AllBack, FilesBack
  <2>2. Undoes'
    BY <1>1, <1>8, <1>12, <2>1 DEF Undoes
  <2> QED
    BY <1>2, <1>3, <1>4, <2>2 DEF HostingInv, Stage
<1>13. CASE Restored
  <2>1. ~spoiled /\ tun /\ ~Mine => ~Mine'
    OBVIOUS
  <2>2. Restored'
    BY <1>1, <1>5, <1>13, <2>1 DEF Restored
  <2> QED
    BY <1>2, <1>3, <1>4, <2>2 DEF HostingInv, Stage
<1>14. CASE Broken
  <2>1. Broken'
    BY <1>1, <1>14 DEF Broken
  <2> QED
    BY <1>2, <1>3, <1>4, <2>1 DEF HostingInv, Stage
<1> QED
  BY <1>1, <1>9, <1>10, <1>11, <1>12, <1>13, <1>14 DEF Stage

\* The application starts, and knows no sidecar.
LEMMA BootKeeps ==
  ASSUME HostsTyped', SettingsTyped', Agree', ~Tracked',
         command' = "boot", plan' = <<"start">>, rescue' = <<>>, was' = None,
         trouble' = "none", spoiled' = FALSE
  PROVE  HostingInv'
<1>1. <<"start">> \in Seq(Opening) /\ <<"start">> \in Seq(Steps) /\ <<>> \in Seq(Steps)
  BY DEF Opening, Calls, Steps
<1>2. RunsTo(Nothing)' /\ Avoids("startSidecar")'
  BY <1>1, OpensOnly
<1>3. plan' \in Seq(Steps \ {"startSidecar"})
  BY <1>2 DEF Avoids
<1>4. ~Mine'
  BY DEF Mine
<1>5. Ordinary'
  BY <1>2, <1>4, OrdinaryIsThen DEF OrdinaryPlan, Rescues
<1>6. ControlTyped'
  BY <1>1 DEF ControlTyped
<1>7. TypeOK'
  BY <1>6, TypesAreThen
<1>8. SpawnsFirst'
  BY <1>3 DEF SpawnsFirst
<1>9. SnapshotInv' /\ StopInv'
  BY DEF SnapshotInv, StopInv
<1> QED
  BY <1>5, <1>7, <1>8, <1>9 DEF HostingInv, Stage

LEMMA HostsGoOn ==
  ASSUME HostingInv, Surroundings
  PROVE  /\ HostingInv'
         /\ UNCHANGED plan \/ plan' = <<"start">>
<1>1. HostsTyped /\ SettingsTyped
  BY TypesAre DEF HostingInv
<1>2. CASE SidecarEnds
  <2>1. HostsTyped' /\ (Mine' => Mine) /\ (Down => Down')
    BY <1>1, <1>2 DEF SidecarEnds, HostsTyped, Mine, Down, Tracked
  <2> QED
    BY <1>2, <2>1, HostsChange DEF SidecarEnds, settings, control
<1>3. CASE OnTerminated
  <2>1. HostsTyped' /\ ~Mine' /\ ~Down
    BY <1>1, <1>3 DEF OnTerminated, HostsTyped, Mine, Down, Tracked
  <2> QED
    BY <1>3, <2>1, HostsChange DEF OnTerminated, settings, control
<1>4. CASE Relaunch
  <2>1. HostsTyped' /\ (Mine' => ~tun /\ Idle) /\ ~Down
    BY <1>1, <1>4 DEF Relaunch, HostsTyped, SettingsTyped, Mine, Down, Tracked
  <2> QED
    BY <1>4, <2>1, HostsChange DEF Relaunch, settings, control
<1>5. CASE LooseEnds
  <2>1. HostsTyped' /\ (Mine' => Mine) /\ (Down => Down')
    BY <1>1, <1>5 DEF LooseEnds, HostsTyped, Mine, Down, Tracked
  <2> QED
    BY <1>5, <2>1, HostsChange DEF LooseEnds, settings, control
<1>6. CASE HostedEnds
  <2>1. HostsTyped' /\ (Mine' => Mine) /\ (Down => Down')
    BY <1>1, <1>6 DEF HostedEnds, HostsTyped, Mine, Down, Tracked
  <2> QED
    BY <1>6, <2>1, HostsChange DEF HostedEnds, settings, control
<1>7. CASE HostedRestarts
  <2>1. HostsTyped' /\ (Mine' => Mine) /\ (Down => Down')
    BY <1>1, <1>7 DEF HostedRestarts, HostsTyped, Mine, Down, Tracked
  <2> QED
    BY <1>7, <2>1, HostsChange DEF HostedRestarts, settings, control
<1>8. CASE ServiceChanges
  <2>1. HostsTyped' /\ (Mine' => Mine) /\ (Down => Down')
    BY <1>1, <1>8 DEF ServiceChanges, ServiceBecomes, HostsTyped, Mine, Down, Tracked
  <2> QED
    BY <1>8, <2>1, HostsChange DEF ServiceChanges, settings, control
<1>9. ASSUME NEW request \in late, ServeLate(request)
      PROVE  HostingInv' /\ UNCHANGED plan
  <2>1. HostsTyped' /\ (Mine' => Mine) /\ (Down => Down')
    BY <1>1, <1>9 DEF ServeLate, HostsTyped, Mine, Down, Tracked
  <2> QED
    BY <1>9, <2>1, HostsChange DEF ServeLate, settings, control
<1>10. CASE AppDies
  <2>1. HostsTyped' /\ SettingsTyped' /\ Agree' /\ ~Tracked'
    BY <1>1, <1>10 DEF AppDies, HostsTyped, SettingsTyped, Agree, Tracked
  <2> QED
    BY <1>10, <2>1, BootKeeps DEF AppDies
<1>11. CASE Quit
  <2>1. HostsTyped' /\ SettingsTyped' /\ Agree' /\ ~Tracked'
    BY <1>1, <1>11 DEF Quit, HostsTyped, SettingsTyped, Agree, Tracked
  <2> QED
    BY <1>11, <2>1, BootKeeps DEF Quit
<1> QED
  BY <1>2, <1>3, <1>4, <1>5, <1>6, <1>7, <1>8, <1>9, <1>10, <1>11 DEF Surroundings, control

(********************************* the theorems ********************************)

\* A step of a command keeps the invariant; at its end a switch that failed is rolled
\* back, or its rollback failed too.
LEMMA CommandKeeps ==
  ASSUME HostingInv, Command
  PROVE  /\ HostingInv' /\ command' = command
         /\ plan' = <<>> /\ was' # None /\ trouble' = "failed" => RolledBack
<1>1. TypeOK /\ SpawnsFirst /\ SnapshotInv /\ Stage /\ StopInv /\ plan # <<>>
  BY CommandActs DEF HostingInv
<1> DEFINE Result == plan' = <<>> /\ was' # None /\ trouble' = "failed" => RolledBack
<1>2. CASE Ordinary
  <2>1. /\ TypeOK' /\ SpawnsFirst' /\ SnapshotInv' /\ command' = command
        /\ Ordinary' \/ Begun'
    BY <1>1, <1>2, OrdinarySteps
  <2>2. Result
    BY <2>1 DEF Ordinary, Begun
  <2>3. StopInv'
    BY <1>1, <2>1, StopStays
  <2> QED
    BY <2>1, <2>2, <2>3 DEF HostingInv, Stage
<1>3. CASE Begun \/ Moves
  <2>1. SwitchKeeps /\ (Begun' \/ Moves' \/ Undoes')
    BY <1>1, <1>3, BegunSteps, MovesSteps
  <2>2. Undoes' => plan' # <<>>
    BY DEF Undoes, AllBack, FilesBack
  <2>3. Result
    BY <2>1, <2>2 DEF Begun, Moves
  <2>4. StopInv'
    BY <1>1, <2>1, StopStays DEF SwitchKeeps
  <2> QED
    BY <2>1, <2>3, <2>4 DEF HostingInv, Stage, SwitchKeeps
<1>4. CASE Undoes \/ Restored
  <2>1. SwitchKeeps /\ (Undone \/ Broken')
    BY <1>1, <1>4, UndoesSteps, RollbackSteps
  <2>2. Result
    BY <2>1 DEF Undone, Broken
  <2>3. StopInv'
    BY <1>1, <2>1, StopStays DEF SwitchKeeps
  <2> QED
    BY <2>1, <2>2, <2>3 DEF HostingInv, Stage, SwitchKeeps, Undone
<1>5. ~Broken
  BY <1>1 DEF Broken, Nothing
<1> QED
  BY <1>1, <1>2, <1>3, <1>4, <1>5 DEF Stage

LEMMA HostingInvInit ==
  ASSUME Init
  PROVE  HostingInv
<1>1. <<"start">> \in Seq(Calls) /\ <<"start">> \in Seq(Steps) /\ <<>> \in Seq(Steps)
  BY DEF Calls, Steps
<1>2. RunsTo(Nothing)
  <2>1. <<"start">> \in Seq(CallsNow)
    BY <1>1, CallsAreSteps, LargerSeq
  <2>2. plan = <<"start">> \o Nothing
    BY <1>1, ConcatEmptySeq DEF Init, Nothing
  <2> QED
    BY <2>1, <2>2 DEF RunsTo
<1>3. plan \in Seq(Steps \ {"startSidecar"})
  BY DEF Init, Steps
<1>4. Ordinary
  BY <1>2, <1>3 DEF Init, Ordinary, Agree, Avoids, Mine, Tracked, Rescues
<1>5. TypeOK
  BY <1>1 DEF Init, TypeOK
<1>6. SpawnsFirst
  BY <1>3 DEF SpawnsFirst
<1>7. SnapshotInv /\ StopInv
  BY DEF Init, SnapshotInv, StopInv
<1> QED
  BY <1>4, <1>5, <1>6, <1>7 DEF HostingInv, Stage

LEMMA HostingInvStep ==
  ASSUME HostingInv, [Next]_vars
  PROVE  HostingInv'
<1>1. CASE UNCHANGED vars
  <2>1. HostsTyped
    BY TypesAre DEF HostingInv
  <2>2. HostsTyped' /\ (Mine' <=> Mine) /\ (Down' <=> Down) /\ UNCHANGED <<settings, control>>
    BY <1>1, <2>1 DEF vars, hosts, settings, control, HostsTyped, Mine, Down, Tracked
  <2> QED
    BY <2>2, HostsChange
<1> QED
  BY <1>1, BeginKeeps, CommandKeeps, HostsGoOn DEF Next

LEMMA HostingInvAlways == Spec => []HostingInv
<1>1. Init => HostingInv
  BY HostingInvInit
<1>2. HostingInv /\ [Next]_vars => HostingInv'
  BY HostingInvStep
<1> QED
  BY <1>1, <1>2, PTL DEF Spec

\* Only the steps of commands end one.
LEMMA CommandsEnd ==
  ASSUME HostingInv, [Next]_vars, Ends
  PROVE  Command
<1>1. plan # <<>> /\ plan' = <<>>
  BY DEF Ends, Idle
<1>2. ~UNCHANGED vars
  BY <1>1 DEF vars, control
<1>3. \A name \in Names : ~Begin(name)
  BY <1>1 DEF Begin, Idle
<1>4. ~Surroundings
  BY <1>1, HostsGoOn
<1> QED
  BY <1>2, <1>3, <1>4 DEF Next

\* The variables keep their types, and hosts only what SCM's state allows: the service
\* has a core or a late request only while it runs.
THEOREM HostingTypes == Spec => []TypeOK
<1>1. HostingInv => TypeOK
  BY DEF HostingInv
<1> QED
  BY <1>1, HostingInvAlways, PTL

\* Between commands the application hosts no core of its own while TUN is on, unless an
\* automatic restart brought it up or a rollback had failed.
THEOREM TunHasNoSidecar == Spec => []TunExcludesSidecar
<1>1. HostingInv => TunExcludesSidecar
  BY IdleIs DEF HostingInv, TunExcludesSidecar, Mine
<1> QED
  BY <1>1, HostingInvAlways, PTL

\* Between commands memory, settings.json and the runtime configuration agree on TUN,
\* unless a rollback had failed.
THEOREM TunIsTheSameEverywhere == Spec => []SettingsAgree
<1>1. HostingInv => SettingsAgree
  BY IdleIs DEF HostingInv, SettingsAgree, Agree
<1> QED
  BY <1>1, HostingInvAlways, PTL

\* A switch of TUN that failed and was rolled back leaves the settings, and the host of
\* the core once it was touched, as it had found them.
THEOREM FailedSwitchesLeaveNothing == Spec => RollbackRestores
<1>1. HostingInv /\ [Next]_vars
        => [Ends /\ was' # None /\ trouble' = "failed" => RolledBack]_vars
  BY CommandsEnd, CommandKeeps DEF Ends
<1> QED
  BY <1>1, HostingInvAlways, PTL DEF Spec, RollbackRestores

\* stop_core that ends without an error leaves neither host with a core and no restart
\* granted, whatever ended or restarted while it ran.
THEOREM StopLeavesNoCore == Spec => StopStops
<1>1. HostingInv /\ [Next]_vars
        => [Ends /\ command' = "stop" /\ trouble' = "none"
              => sidecar' = "none" /\ ~retry' /\ hosted' = "none"]_vars
  <2>1. ASSUME HostingInv, [Next]_vars, Ends, command' = "stop", trouble' = "none"
        PROVE  sidecar' = "none" /\ ~retry' /\ hosted' = "none"
    <3>1. Command
      BY <2>1, CommandsEnd
    <3>2. command = "stop"
      BY <2>1, <3>1, CommandKeeps
    <3>3. Down' /\ hosted' = "none"
      BY <2>1, <3>1, <3>2, StopEnds DEF HostingInv, Ends
    <3> QED
      BY <3>3 DEF Down, Tracked
  <2> QED
    BY <2>1
<1> QED
  BY <1>1, HostingInvAlways, PTL DEF Spec, StopStops
=============================================================================
