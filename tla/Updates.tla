------------------------------- MODULE Updates -------------------------------
(* Updates of the app and of the mihomo core: the session of                   *)
(* src-tauri/src/updater.rs, the core cache and selection of core_update.rs,   *)
(* and the elevated helper of bin/service_install.rs that replaces the         *)
(* service's copy of the core.                                                 *)
(*                                                                             *)
(* The session admits one operation at a time; it is `job`, and it takes one   *)
(* step per await, per file and per call of another process.  Beside it run    *)
(* the user's cancellation, the other commands that hold config_lock, the      *)
(* helper, which outlives the app, and the death of either.                    *)
EXTENDS Integers, FiniteSets

CONSTANTS
  Releases,      \* candidates for the app, told apart by the installer's SHA256
  Cores,         \* official releases of mihomo: version and SHA256 of the ZIP
  Bundled,       \* the core that the app ships ("bundled")
  MaxMishaps,    \* bound on failing calls, damaged files and deaths of a process
  MaxAppMishaps, \* the same bound while an update of the app is known
  None           \* no value, or an absent file

ASSUME BoundsAreNaturals == {MaxMishaps, MaxAppMishaps} \subseteq Nat
ASSUME NamesAreDistinct == Bundled \notin Cores /\ None \notin Cores \cup Releases \cup {Bundled}

VARIABLES
  session,       \* Session: phase, candidates, cancellation, verified installer
  job,           \* the operation the session admitted
  cache,         \* updates/cores: which releases are there, and whether intact
  selected,      \* updates/core-selection.json
  service,       \* the Windows service: absent, stopped or running
  managed,       \* mihomo.exe in the service's protected directory
  backup,        \* mihomo.rollback.exe beside it
  helper,        \* the elevated helper at work
  core,          \* the running core: who hosts it and which binary it is
  alive,         \* the app runs
  mishaps        \* failing calls, damaged files and deaths so far

machine == <<cache, selected, service, managed, backup, core>>
vars == <<session, job, machine, helper, alive, mishaps>>

Ids == Cores \cup {Bundled}

(*********************************** session *********************************)

Busy == {"checking", "downloading", "verifying", "installing", "switching"}

NewSession == [phase |-> "idle", app |-> None, core |-> None, cancelled |-> FALSE,
               ready |-> None]

NoJob  == [op |-> "none", step |-> "none"]
NoCore == [by |-> "none", bin |-> None]
Running(by, bin) == [by |-> by, bin |-> bin]
Idle(h) == h = [op |-> "none", step |-> "none"]

\* A call fails, a file is damaged, or a process dies.
Room   == mishaps < MaxMishaps /\ (session.app = None \/ mishaps < MaxAppMishaps)
Mishap == Room /\ mishaps' = mishaps + 1

\* Session::begin, on the session as the caller prepared it.
Begin(phase, s, j) ==
  /\ alive /\ session.phase \notin Busy
  /\ session' = [s EXCEPT !.phase = phase, !.cancelled = FALSE]
  /\ job' = j
  /\ UNCHANGED <<machine, helper, alive, mishaps>>

\* Session::fail.
Failed(s) == [s EXCEPT !.phase = IF s.cancelled THEN "cancelled" ELSE "failed"]

\* The operation's last step stores its result in the session.
End(s) == session' = s /\ job' = NoJob

At(op, step) == alive /\ job.op = op /\ job.step = step
GoTo(step)   == job' = [job EXCEPT !.step = step]

(**************************** checks and downloads ***************************)

CheckApp  == Begin("checking", session, [op |-> "check_app", step |-> "ask"])
CheckCore == Begin("checking", session, [op |-> "check_core", step |-> "ask"])

\* Mutant: the verified installer is kept beside a newer candidate.
KeepReady(found) == session.ready

\* An installer that is not the one of this release is thrown away.
StillReady(found) == IF session.ready = found THEN session.ready ELSE None

\* Bound: a release is found only while mishaps beside it are within theirs.
Offered == IF mishaps <= MaxAppMishaps THEN Releases \cup {None} ELSE {None}

\* check_app_update: an answer, or an error that leaves the candidates alone.
CheckAppAnswered ==
  /\ At("check_app", "ask")
  /\ \/ \E found \in Offered :
          LET ready == StillReady(found)
          IN  End([session EXCEPT !.app = found, !.ready = ready,
                                  !.phase = IF ready = None THEN "idle" ELSE "ready"])
     \/ End(Failed(session))
  /\ UNCHANGED <<machine, helper, alive, mishaps>>

CheckCoreAnswered ==
  /\ At("check_core", "ask")
  /\ \/ \E found \in Cores : End([session EXCEPT !.core = found, !.phase = "idle"])
     \/ End(Failed(session))
  /\ UNCHANGED <<machine, helper, alive, mishaps>>

\* download_app_update: an installer downloaded before is gone from here on.
DownloadApp ==
  /\ session.app # None
  /\ Begin("downloading", [session EXCEPT !.ready = None],
           [op |-> "app", step |-> "fetch", what |-> session.app])

DownloadCore ==
  /\ session.core # None
  /\ Begin("downloading", session, [op |-> "core", step |-> "fetch", what |-> session.core])

Downloading(step) == At("app", step) \/ At("core", step)

\* update_io::download and the cancel.check after it.  Errors end the download,
\* with or without a cancellation.
Fetched ==
  /\ Downloading("fetch")
  /\ \/ ~session.cancelled /\ GoTo("fetched")
     \/ GoTo("failed")
  /\ UNCHANGED <<session, machine, helper, alive, mishaps>>

\* Mutant: what was fetched is stored without another look at the cancellation.
AppStoredAnyway ==
  /\ At("app", "fetched")
  /\ End([session EXCEPT !.ready = job.what, !.phase = "ready"])
  /\ UNCHANGED <<machine, helper, alive, mishaps>>

\* The download's end: a cancellation since its last check still counts.
AppStored ==
  /\ At("app", "fetched")
  /\ End(IF session.cancelled
         THEN Failed(session)
         ELSE [session EXCEPT !.ready = job.what, !.phase = "ready"])
  /\ UNCHANGED <<machine, helper, alive, mishaps>>

CoreFetched ==
  /\ At("core", "fetched")
  /\ session' = [session EXCEPT !.phase = "verifying"]
  /\ GoTo("cache")
  /\ UNCHANGED <<machine, helper, alive, mishaps>>

\* core_update::cache_download: unpacked beside the cache, then renamed into it.
\* Only a failed commit whose way back fails too leaves the cache without it.
CoreCached ==
  /\ At("core", "cache")
  /\ \/ /\ ~session.cancelled
        /\ cache' = [cache EXCEPT ![job.what] = "intact"]
        /\ GoTo("cached")
        /\ UNCHANGED mishaps
     \/ /\ GoTo("failed")
        /\ UNCHANGED <<cache, mishaps>>
     \/ /\ cache[job.what] = "damaged" /\ ~session.cancelled
        /\ Mishap
        /\ cache' = [cache EXCEPT ![job.what] = "absent"]
        /\ GoTo("failed")
  /\ UNCHANGED <<session, selected, service, managed, backup, core, helper, alive>>

DownloadEnds ==
  /\ \/ At("core", "cached") /\ End([session EXCEPT !.phase = "idle"])
     \/ Downloading("failed") /\ End(Failed(session))
  /\ UNCHANGED <<machine, helper, alive, mishaps>>

\* cancel_update: refused while a core is being verified, and otherwise only a
\* flag, except that a verified installer goes at once.
Cancel ==
  /\ alive /\ session.phase \in {"downloading", "ready"}
  /\ session' = IF session.phase = "ready"
                THEN [session EXCEPT !.cancelled = TRUE, !.ready = None, !.phase = "cancelled"]
                ELSE [session EXCEPT !.cancelled = TRUE]
  /\ UNCHANGED <<job, machine, helper, alive, mishaps>>

(************************* starting and stopping a core **********************)

\* selected_binary: the cached copy is verified each time it is used.
Available(id) == id \in Cores => cache[id] = "intact"

\* What becomes of the service before a core is started `by` it:
\* start_or_elevate may go through install_or_repair, which installs the
\* bundled core.
Reached(by) ==
  IF by = "sidecar" \/ service = "running"
  THEN {[service |-> service, managed |-> managed]}
  ELSE {[service |-> "running", managed |-> m] : m \in {managed, Bundled}}

\* Mutant: the service's copy is not compared with the selection.
RunnableUnverified(by, r) == Available(selected)

\* verify_managed_core: the service runs its own copy, and only if that copy is
\* the selected core.
Runnable(by, r) == Available(selected) /\ (by = "service" => r.managed = selected)

\* core::start or start_with_service succeeds.
StartCore(by) ==
  /\ by = "service" => service # "absent"
  /\ \E r \in Reached(by) :
        /\ Runnable(by, r)
        /\ service' = r.service /\ managed' = r.managed
        /\ core' = Running(by, IF by = "service" THEN r.managed ELSE selected)

\* It fails: for a reason this model knows, or for any other.
StartFails(by) ==
  \/ /\ by = "service" /\ service = "absent"
     /\ core' = NoCore
     /\ UNCHANGED <<service, managed, mishaps>>
  \/ /\ \E r \in Reached(by) :
           /\ service # "absent" \/ by = "sidecar"
           /\ service' = r.service /\ managed' = r.managed
           /\ Runnable(by, r) => Room
           /\ mishaps' = IF Runnable(by, r) THEN mishaps + 1 ELSE mishaps
     /\ core' = NoCore

\* core::stop: the sidecar, then the service's core if the service runs.
StopCore == core' = NoCore

\* Only the service's part can fail, or succeed without an answer.
StopFails ==
  /\ service = "running" /\ Mishap
  /\ core' \in {NoCore} \cup (IF core.by = "service" THEN {core} ELSE {})

\* The operations that hold config_lock from the step after "lock".
Locked == job.op \in {"install", "switch"} /\ job.step # "lock"

(*************************** other commands (external) ***********************)

\* Start and stop buttons, tun and the service's installation: commands that
\* take config_lock, each as one step.  (One elevated helper at a time: a bound.)
OtherCommand ==
  /\ alive /\ ~Locked
  /\ \/ /\ core = NoCore
        /\ \E by \in {"sidecar", "service"} : StartCore(by)
     \/ /\ core # NoCore /\ StopCore
        /\ UNCHANGED <<service, managed>>
     \/ /\ Idle(helper)                        \* install_or_repair
        /\ service' = "running" /\ managed' = Bundled
        /\ core' = IF core.by = "service" THEN NoCore ELSE core
     \/ /\ Idle(helper) /\ service # "absent"  \* uninstall
        /\ service' = "absent" /\ managed' = None
        /\ core' = IF core.by = "service" THEN NoCore ELSE core
  /\ UNCHANGED <<session, job, cache, selected, backup, helper, alive, mishaps>>

\* A cached core is damaged on disk.
CacheDamaged ==
  /\ Mishap
  /\ \E id \in Cores :
        cache[id] = "intact" /\ cache' = [cache EXCEPT ![id] = "damaged"]
  /\ UNCHANGED <<session, job, selected, service, managed, backup, helper, core, alive>>

AppDies ==
  /\ alive /\ job # NoJob /\ Mishap
  /\ alive' = FALSE /\ job' = NoJob /\ session' = NewSession
  /\ core' = IF core.by = "sidecar" THEN NoCore ELSE core
  /\ UNCHANGED <<cache, selected, service, managed, backup, helper>>

Launch ==
  /\ ~alive /\ alive' = TRUE
  /\ UNCHANGED <<session, job, machine, helper, mishaps>>

(******************* installing the app, switching the core ******************)

InstallApp ==
  /\ session.ready # None
  /\ Begin("installing", [session EXCEPT !.ready = None],
           [op |-> "install", step |-> "lock", to |-> session.ready])

SwitchCore(id) == Begin("switching", session, [op |-> "switch", step |-> "lock", to |-> id])

Holding(step) == At("install", step) \/ At("switch", step)

\* config_lock is taken, and what runs is read.  A service that does not answer
\* counts as one without a core.
Acquire ==
  /\ Holding("lock")
  /\ \E running \in BOOLEAN :
        /\ running => core # NoCore
        /\ IF ~running /\ core # NoCore
           THEN core.by = "service" /\ Mishap
           ELSE UNCHANGED mishaps
        /\ job' = [op |-> job.op, step |-> "verify", to |-> job.to,
                   selected |-> selected, managed |-> managed, core |-> core,
                   running |-> running, installed |-> service # "absent",
                   alone |-> Idle(helper), clean |-> TRUE, outcome |-> "none"]
  /\ UNCHANGED <<session, machine, helper, alive>>

EndAs(outcome) == job' = [job EXCEPT !.step = "end", !.outcome = outcome]

\* The installer is locked and hashed again; the core's copy is hashed.
Verify ==
  /\ Holding("verify")
  /\ \/ /\ job.op = "switch" => Available(job.to)
        /\ GoTo("stop")
        /\ UNCHANGED mishaps
     \/ /\ job.op = "switch" /\ ~Available(job.to)
        /\ EndAs("restored")
        /\ UNCHANGED mishaps
     \/ Mishap /\ EndAs("restored")
  /\ UNCHANGED <<session, machine, helper, alive>>

\* The service's own copy is replaced only where there is a service.
AfterStop(switched, plain) == IF job.installed THEN switched ELSE plain

Stop ==
  /\ Holding("stop")
  /\ \/ /\ StopCore
        /\ GoTo(IF job.op = "install" THEN "launch" ELSE AfterStop("replace", "select"))
        /\ UNCHANGED mishaps
     \/ StopFails /\ GoTo("resume")
  /\ UNCHANGED <<session, cache, selected, service, managed, backup, helper, alive>>

\* The installer runs and the app exits, or UAC was refused.
LaunchInstaller ==
  /\ At("install", "launch")
  /\ \/ /\ alive' = FALSE /\ job' = NoJob /\ session' = NewSession
        /\ UNCHANGED mishaps
     \/ /\ Mishap /\ GoTo("resume")
        /\ UNCHANGED <<alive, session>>
  /\ UNCHANGED <<machine, helper>>

\* resume_core: back to the host the core had, if it was seen running.
Resumed ==
  IF job.running
  THEN StartCore(job.core.by) /\ UNCHANGED mishaps
  ELSE UNCHANGED <<service, managed, core, mishaps>>

\* Only a core that was running can fail to come back.
ResumeFails == job.running /\ StartFails(job.core.by)

\* The way back from a change that did not happen.
Resume ==
  /\ Holding("resume")
  /\ \/ Resumed /\ EndAs(IF job.clean THEN "restored" ELSE "failed")
     \/ ResumeFails /\ EndAs("failed")
  /\ UNCHANGED <<session, cache, selected, backup, helper, alive>>

\* run_core_helper: one helper, which UAC may refuse.
RunHelper(op, refused) ==
  \/ /\ Idle(helper)
     /\ helper' = [op |-> op, step |-> IF op = "update" THEN "prepare" ELSE "halt",
                   id |-> job.to, was |-> FALSE, ok |-> TRUE, clean |-> TRUE]
     /\ GoTo("wait")
     /\ UNCHANGED mishaps
  \/ /\ Mishap /\ refused
     /\ UNCHANGED helper

Replace ==
  /\ At("switch", "replace")
  /\ RunHelper("update", GoTo("resume"))
  /\ UNCHANGED <<session, machine, alive>>

HelperAnswers ==
  /\ At("switch", "wait") /\ helper.step = "done"
  /\ helper' = NoJob
  /\ IF helper.op = "update"
     THEN job' = [job EXCEPT !.step = IF helper.ok THEN "select" ELSE "resume",
                             !.clean = helper.clean]
     ELSE IF helper.ok THEN GoTo("unselect") ELSE EndAs("failed")
  /\ UNCHANGED <<session, machine, alive, mishaps>>

\* core_update::select.
Select ==
  /\ At("switch", "select")
  /\ \/ selected' = job.to /\ GoTo("activate") /\ UNCHANGED mishaps
     \/ Mishap /\ GoTo("undo_stop") /\ UNCHANGED selected
  /\ UNCHANGED <<session, cache, service, managed, backup, core, helper, alive>>

\* validate_runtime with the new core, then the new core itself.
Activate ==
  /\ At("switch", "activate")
  /\ \/ Resumed /\ GoTo("health")
     \/ ResumeFails /\ GoTo("undo_stop")
     \/ Mishap /\ GoTo("undo_stop") /\ UNCHANGED <<service, managed, core>>
  /\ UNCHANGED <<session, cache, selected, backup, helper, alive>>

\* wait_for_core and wait_runtime_tun, both with a deadline.
Healthy ==
  /\ At("switch", "health")
  /\ \/ EndAs("switched") /\ UNCHANGED mishaps
     \/ job.running /\ Mishap /\ GoTo("undo_stop")
  /\ UNCHANGED <<session, machine, helper, alive>>

\* The rollback: stop, the service's old copy, the old selection, the old core.
UndoStop ==
  /\ At("switch", "undo_stop")
  /\ \/ StopCore /\ GoTo(AfterStop("undo_replace", "unselect")) /\ UNCHANGED mishaps
     \/ StopFails /\ EndAs("failed")
  /\ UNCHANGED <<session, cache, selected, service, managed, backup, helper, alive>>

UndoReplace ==
  /\ At("switch", "undo_replace")
  /\ RunHelper("rollback", EndAs("failed"))
  /\ UNCHANGED <<session, machine, alive>>

Unselect ==
  /\ At("switch", "unselect")
  /\ \/ selected' = job.selected /\ GoTo("undo_resume") /\ UNCHANGED mishaps
     \/ Mishap /\ EndAs("failed") /\ UNCHANGED selected
  /\ UNCHANGED <<session, cache, service, managed, backup, core, helper, alive>>

UndoResume ==
  /\ At("switch", "undo_resume")
  /\ \/ Resumed /\ EndAs("restored")
     \/ ResumeFails /\ EndAs("failed")
  /\ UNCHANGED <<session, cache, selected, backup, helper, alive>>

\* Mutant: an error is returned and the session keeps its phase.
FinishQuietly ==
  /\ Holding("end")
  /\ End(IF job.outcome = "switched" THEN [session EXCEPT !.phase = "idle"] ELSE session)
  /\ UNCHANGED <<machine, helper, alive, mishaps>>

Finish ==
  /\ Holding("end")
  /\ End(IF job.outcome = "switched" THEN [session EXCEPT !.phase = "idle"]
                                     ELSE Failed(session))
  /\ UNCHANGED <<machine, helper, alive, mishaps>>

(************************ the helper: update_managed_core *********************)

HelperAt(step) == helper.step = step
HelperGoes(step) == helper' = [helper EXCEPT !.step = step]
HelperFails(step) == helper' = [helper EXCEPT !.step = step, !.ok = FALSE]

\* A file that a running core was started from cannot be replaced.
InUse == core.by = "service"

\* prepare_managed: the release is looked up again and unpacked beside the old
\* core, before the service is touched.
HelperPrepares ==
  /\ HelperAt("prepare")
  /\ \/ service # "absent" /\ Available(helper.id) /\ HelperGoes("halt") /\ UNCHANGED mishaps
     \/ (service = "absent" \/ ~Available(helper.id)) /\ HelperFails("done") /\ UNCHANGED mishaps
     \/ Mishap /\ HelperFails("done")
  /\ UNCHANGED <<session, job, machine, alive>>

\* The service stops, and its core with it.
HelperHalts ==
  /\ HelperAt("halt")
  /\ \/ /\ helper' = [helper EXCEPT !.was = service = "running",
                        !.step = IF helper.op = "update" THEN "save" ELSE "restore"]
        /\ service' = "stopped"
        /\ core' = IF core.by = "service" THEN NoCore ELSE core
        /\ UNCHANGED mishaps
     \/ /\ Mishap /\ HelperFails("done")
        /\ UNCHANGED <<service, core>>
  /\ UNCHANGED <<session, job, cache, selected, managed, backup, alive>>

\* Mutant: the copy that a rollback needs is not renewed.
HelperSavesNothing ==
  /\ HelperAt("save")
  /\ HelperGoes("swap")
  /\ UNCHANGED <<session, job, machine, alive, mishaps>>

\* apply_to_directory: the old core is copied beside the new one and renamed.
HelperSaves ==
  /\ HelperAt("save")
  /\ \/ managed # None /\ backup' = managed /\ HelperGoes("swap") /\ UNCHANGED mishaps
     \/ managed = None /\ HelperFails("restart") /\ UNCHANGED <<backup, mishaps>>
     \/ Mishap /\ HelperFails("restart") /\ UNCHANGED backup
  /\ UNCHANGED <<session, job, cache, selected, service, managed, core, alive>>

\* The new core is renamed into place and its receipt written; either may fail.
HelperSwaps ==
  /\ HelperAt("swap")
  /\ \/ ~InUse /\ managed' = helper.id /\ HelperGoes("restart") /\ UNCHANGED mishaps
     \/ InUse /\ HelperFails("unswap") /\ UNCHANGED <<managed, mishaps>>
     \/ Mishap /\ HelperFails("unswap")
        /\ managed' \in {managed} \cup (IF InUse THEN {} ELSE {helper.id})
  /\ UNCHANGED <<session, job, cache, selected, service, backup, core, alive>>

\* rollback_directory, once a rename succeeds.
PutBack == managed' = backup /\ backup' = None

HelperUnswaps ==
  /\ HelperAt("unswap")
  /\ \/ ~InUse /\ PutBack /\ HelperGoes("restart") /\ UNCHANGED mishaps
     \/ /\ helper' = [helper EXCEPT !.step = "restart", !.clean = FALSE]
        /\ IF InUse THEN UNCHANGED mishaps ELSE Mishap
        /\ UNCHANGED <<managed, backup>>
  /\ UNCHANGED <<session, job, cache, selected, service, core, alive>>

\* rollback_managed on the app's request; its last step, the receipt, may fail
\* after the binary is back.
HelperRestores ==
  /\ HelperAt("restore")
  /\ \/ backup # None /\ ~InUse /\ PutBack /\ HelperGoes("restart") /\ UNCHANGED mishaps
     \/ backup # None /\ ~InUse /\ PutBack /\ HelperFails("restart") /\ Mishap
     \/ /\ HelperFails("restart")
        /\ IF backup = None \/ InUse THEN UNCHANGED mishaps ELSE Mishap
        /\ UNCHANGED <<managed, backup>>
  /\ UNCHANGED <<session, job, cache, selected, service, core, alive>>

\* The service runs again if it ran before.
HelperRestarts ==
  /\ HelperAt("restart")
  /\ \/ /\ service' = IF helper.was THEN "running" ELSE service
        /\ HelperGoes("done")
        /\ UNCHANGED mishaps
     \/ /\ helper.was /\ Mishap
        /\ HelperFails(IF helper.ok /\ helper.op = "update" THEN "again" ELSE "done")
        /\ UNCHANGED service
  /\ UNCHANGED <<session, job, cache, selected, managed, backup, core, alive>>

\* It did not start with the new core: the old one is put back and the service
\* started once more, whatever comes of either.
HelperTriesAgain ==
  /\ HelperAt("again")
  /\ \/ ~InUse /\ PutBack /\ HelperGoes("done") /\ UNCHANGED mishaps
     \/ /\ helper' = [helper EXCEPT !.step = "done", !.clean = FALSE]
        /\ IF InUse THEN UNCHANGED mishaps ELSE Mishap
        /\ UNCHANGED <<managed, backup>>
  /\ service' \in {service, "running"}
  /\ UNCHANGED <<session, job, cache, selected, core, alive>>

\* The helper is killed: the app sees it fail.
HelperDies ==
  /\ ~Idle(helper) /\ helper.step # "done" /\ Mishap
  /\ helper' = [helper EXCEPT !.step = "done", !.ok = FALSE, !.clean = FALSE]
  /\ UNCHANGED <<session, job, machine, alive>>

\* Nobody waits any more for a helper whose app died.
HelperLeaves ==
  /\ helper.step = "done" /\ ~At("switch", "wait")
  /\ helper' = NoJob
  /\ UNCHANGED <<session, job, machine, alive, mishaps>>

(******************************* specification *******************************)

\* Nothing downloaded; the service may be installed or not.
Init ==
  /\ session = NewSession /\ job = NoJob /\ helper = NoJob
  /\ cache = [id \in Cores |-> "absent"]
  /\ selected = Bundled
  /\ \/ service = "absent" /\ managed = None
     \/ service = "running" /\ managed = Bundled
  /\ backup = None /\ core = NoCore
  /\ alive = TRUE /\ mishaps = 0

UserRequest ==
  \/ CheckApp \/ CheckCore \/ DownloadApp \/ DownloadCore \/ Cancel \/ InstallApp
  \/ \E id \in Ids : SwitchCore(id)

JobStep ==
  \/ CheckAppAnswered \/ CheckCoreAnswered
  \/ Fetched \/ AppStored \/ CoreFetched \/ CoreCached \/ DownloadEnds
  \/ Acquire \/ Verify \/ Stop \/ LaunchInstaller \/ Resume
  \/ Replace \/ HelperAnswers \/ Select \/ Activate \/ Healthy
  \/ UndoStop \/ UndoReplace \/ Unselect \/ UndoResume \/ Finish

HelperStep ==
  \/ HelperPrepares \/ HelperHalts \/ HelperSaves \/ HelperSwaps \/ HelperUnswaps
  \/ HelperRestores \/ HelperRestarts \/ HelperTriesAgain \/ HelperLeaves

Environment == OtherCommand \/ CacheDamaged \/ AppDies \/ Launch \/ HelperDies

Next == UserRequest \/ JobStep \/ HelperStep \/ Environment

Spec == Init /\ [][Next]_vars

\* Every await and every call of the operations has a time limit, and the helper
\* waits for the service with one.
FairSpec == Spec /\ WF_vars(JobStep) /\ WF_vars(HelperStep)

(******************************** properties *********************************)

TypeOK ==
  /\ session \in [phase : Busy \cup {"idle", "ready", "failed", "cancelled"},
                  app : Releases \cup {None}, core : Cores \cup {None},
                  cancelled : BOOLEAN, ready : Releases \cup {None}]
  /\ cache \in [Cores -> {"absent", "intact", "damaged"}]
  /\ selected \in Ids
  /\ service \in {"absent", "stopped", "running"}
  /\ {managed, backup} \subseteq Ids \cup {None}
  /\ core = NoCore \/ core \in [by : {"sidecar", "service"}, bin : Ids]
  /\ alive \in BOOLEAN /\ mishaps \in 0..MaxMishaps
  \* The phase is busy exactly while an operation is at work.
  /\ (session.phase \in Busy) = (job # NoJob)

\* The installer that the confirmation would run is the one of the release that
\* the page shows: no check, download or failure leaves an older one behind
\* (check_app_update's same_ready, download_app_update).
ReadyIsTheOneShown == session.ready # None => session.ready = session.app

\* A download that the user cancelled leaves nothing: neither a verified
\* installer nor a core in the cache, however late the cancellation came
\* (Cancellation::check, cancel_update).
CancelledLeavesNothing ==
  [][session.cancelled /\ job # NoJob =>
       /\ session'.ready = None \/ session'.ready = session.ready
       /\ \A id \in Cores : cache'[id] = "intact" => cache[id] = "intact"]_vars

\* A running core is the selected one, in the app and in the service, through
\* switches, rollbacks, reinstallations of the service and deaths of the app and
\* its helper (verify_managed_core, switch_core).
CoreRunsSelected == core # NoCore => core.bin = selected

\* What an operation that ran under config_lock leaves.  After a success the new
\* core is selected, is the service's copy and runs where the old one ran; after
\* an error that does not speak of a failed rollback, everything is as it was.
\* A core that the service did not report is not brought back, and nothing is
\* claimed beside a helper that a dead app left at work (switch_core,
\* with_install_restore, update_managed_core).
AllOrNothing ==
  (Holding("end") /\ job.alone) =>
     CASE job.outcome = "switched" ->
            /\ selected = job.to
            /\ job.installed => managed = job.to
            /\ core = IF job.running THEN Running(job.core.by, job.to) ELSE NoCore
       [] job.outcome = "restored" ->
            /\ selected = job.selected /\ managed = job.managed
            /\ core = job.core \/ (core = NoCore /\ ~job.running)
       [] OTHER -> TRUE

\* Every operation ends: no phase stays busy and refuses all others for good
\* (Session::begin).
OperationsEnd == session.phase \in Busy ~> session.phase \notin Busy
=============================================================================
