---------------------------- MODULE SidecarCore ----------------------------
(***************************************************************************)
(* The mihomo sidecar as the application hosts it: CoreHandle and the      *)
(* functions of src-tauri/src/core.rs that change it.  The threads are:    *)
(*   - the command that holds AppState.config_lock (one at a time): start, *)
(*     stop or restart of the core, without TUN;                           *)
(*   - tray::quit, which stops the core without taking that lock;          *)
(*   - one event loop per process that was spawned (on_terminated);        *)
(*   - the task of refresh_version_async (single flight).                  *)
(* Every critical section of the handle's mutex is one action; what        *)
(* happens between two of them is a place where other threads run.         *)
(*                                                                         *)
(* A process is named by the generation it was spawned under: spawn_core   *)
(* increments the generation each time, and it never wraps (u64).          *)
(***************************************************************************)
EXTENDS Naturals, Sequences, FiniteSets

CONSTANTS
    NoCore,        \* the value of guard.child when there is no process
    RestartWindow, \* RESTART_WINDOW, in ticks of the clock
    RestartMax,    \* RESTART_MAX
    Failures       \* which calls to the outside can fail: spawn, kill, /version

ASSUME SidecarAssumption ==
    /\ NoCore \notin Nat
    /\ RestartWindow \in Nat
    /\ RestartMax \in Nat
    /\ Failures \subseteq {"spawn", "kill", "answer"}

VARIABLES
    child,      \* guard.child: the generation of the tracked process, or NoCore
    generation, \* guard.generation
    manualStop, \* guard.manual_stop
    restarts,   \* guard.restarts: times of the automatic restarts, oldest first
    version,    \* guard.version: the generation whose /version answer is cached
    live,       \* the processes alive in the operating system
    loops,      \* the event loops that have not yet received Terminated
    relaunch,   \* event loops between on_terminated's unlock and spawn_core
    command,    \* where the command that holds config_lock is
    quit,       \* where tray::quit is
    refresher,  \* where the refresh_version_async task is
    answer,     \* the process whose /version answer that task holds
    now,        \* Instant::now()
    unkilled,   \* history: processes whose kill failed after the handle let go
    failed,     \* history: the last automatic restart could not spawn
    granted     \* history: times restarts were granted since restarts.clear()

handle == <<child, generation, manualStop, restarts, version>>
processes == <<live, loops, relaunch, unkilled, failed>>
refreshing == <<refresher, answer>>
vars == <<handle, processes, refreshing, command, quit, now, granted>>

Generations == Nat \ {0}

TypeOK ==
    /\ child \in Generations \cup {NoCore}
    /\ generation \in Nat
    /\ manualStop \in BOOLEAN
    /\ restarts \in Seq(Nat)
    /\ version \in Generations \cup {NoCore}
    /\ live \subseteq Generations
    /\ loops \subseteq Generations
    /\ relaunch \subseteq Generations
    /\ unkilled \subseteq Generations
    /\ failed \in BOOLEAN
    /\ command \in {"idle", "check", "spawn", "settle"}
    /\ quit \in {"no", "stopped", "exited"}
    /\ refresher \in {"off", "sleeping", "service", "asking", "answered"}
    /\ answer \in Generations \cup {NoCore}
    /\ now \in Nat
    /\ granted \in Seq(Nat)

Init ==
    /\ child = NoCore
    /\ generation = 0
    /\ manualStop = FALSE
    /\ restarts = <<>>
    /\ version = NoCore
    /\ live = {}
    /\ loops = {}
    /\ relaunch = {}
    /\ unkilled = {}
    /\ failed = FALSE
    /\ command = "idle"
    /\ quit = "no"
    /\ refresher = "off"
    /\ answer = NoCore
    /\ now = 0
    /\ granted = <<>>

\* The program runs until app.exit(0).
Running == quit # "exited"

(***************************************************************************)
(* The critical sections of the handle's mutex                             *)
(***************************************************************************)

\* spawn_core past its guard: the new process becomes the tracked one.
SpawnProcess ==
    LET new == generation + 1
    IN /\ generation' = new
       /\ child' = new
       /\ version' = NoCore
       /\ manualStop' = FALSE
       /\ live' = live \cup {new}
       /\ loops' = loops \cup {new}
       /\ failed' = FALSE
       /\ UNCHANGED restarts

\* Mutated forms: no check of the generation, or of the next one.
RelaunchUnchecked(g) == child = NoCore

RelaunchOfNext(g) == child = NoCore /\ g + 1 = generation /\ ~manualStop

\* The guard of spawn_core(expected) for an automatic restart of generation g.
RelaunchAllowed(g) == child = NoCore /\ g = generation /\ ~manualStop

\* refresh_version_async: the in-flight flag admits one task.
StartRefresher ==
    /\ refresher' = IF refresher = "off" THEN "sleeping" ELSE refresher
    /\ UNCHANGED answer

\* Mutated form: a stop that keeps the generation.
StopKeepsGeneration(killed) ==
    /\ manualStop' = TRUE
    /\ version' = NoCore
    /\ child' = NoCore
    /\ live' = IF killed THEN live \ {child} ELSE live
    /\ unkilled' = IF killed THEN unkilled ELSE unkilled \cup ({child} \cap live)
    /\ UNCHANGED <<generation, restarts, loops, relaunch, failed>>

\* stop_sidecar.  The handle lets go of the process before kill() is called.
StopSidecar(killed) ==
    /\ manualStop' = TRUE
    /\ generation' = generation + 1
    /\ version' = NoCore
    /\ child' = NoCore
    /\ live' = IF killed THEN live \ {child} ELSE live
    /\ unkilled' = IF killed THEN unkilled ELSE unkilled \cup ({child} \cap live)
    /\ UNCHANGED <<restarts, loops, relaunch, failed>>

\* kill() is called, and can fail, only when there is a tracked process.
KillOutcomes == IF child # NoCore /\ "kill" \in Failures THEN BOOLEAN ELSE {TRUE}

(***************************************************************************)
(* Commands under config_lock                                              *)
(***************************************************************************)

RequestStart ==
    /\ Running
    /\ command = "idle"
    /\ command' = "check"
    /\ UNCHANGED <<handle, processes, refreshing, quit, now, granted>>

\* core::stop; its error goes to the user.
RequestStop ==
    /\ Running
    /\ command = "idle"
    /\ \E killed \in KillOutcomes : StopSidecar(killed)
    /\ UNCHANGED <<refreshing, command, quit, now, granted>>

\* core::restart: the start follows only a stop that succeeded.
RequestRestart ==
    /\ Running
    /\ command = "idle"
    /\ \E killed \in KillOutcomes :
          /\ StopSidecar(killed)
          /\ command' = IF killed THEN "check" ELSE "idle"
    /\ UNCHANGED <<refreshing, quit, now, granted>>

\* core::start: nothing to do when a process is tracked, dead or alive.
StartCheck ==
    /\ Running
    /\ command = "check"
    /\ command' = IF child # NoCore THEN "idle" ELSE "spawn"
    /\ UNCHANGED <<handle, processes, refreshing, quit, now, granted>>

\* start_sidecar, first half: spawn_core(None).
StartSpawn ==
    /\ Running
    /\ command = "spawn"
    /\ \/ /\ child # NoCore
          /\ command' = "settle"
          /\ UNCHANGED <<handle, live, loops, failed>>
       \/ /\ child = NoCore
          /\ SpawnProcess
          /\ command' = "settle"
       \/ /\ child = NoCore
          /\ "spawn" \in Failures
          /\ command' = "idle"
          /\ UNCHANGED <<handle, live, loops, failed>>
    /\ UNCHANGED <<relaunch, unkilled, refreshing, quit, now, granted>>

\* start_sidecar, second half, under a second lock of the handle.
StartSettle ==
    /\ Running
    /\ command = "settle"
    /\ manualStop' = FALSE
    /\ restarts' = <<>>
    /\ granted' = <<>>
    /\ StartRefresher
    /\ command' = "idle"
    /\ UNCHANGED <<child, generation, version, processes, quit, now>>

(***************************************************************************)
(* tray::quit, from the user interface's thread                            *)
(***************************************************************************)

QuitStop ==
    /\ quit = "no"
    /\ \E killed \in KillOutcomes : StopSidecar(killed)
    /\ quit' = "stopped"
    /\ UNCHANGED <<refreshing, command, now, granted>>

Exit ==
    /\ quit = "stopped"
    /\ quit' = "exited"
    /\ UNCHANGED <<handle, processes, refreshing, command, now, granted>>

(***************************************************************************)
(* Processes and their event loops                                         *)
(***************************************************************************)

\* The process exits by itself, or something else ends it.
Crash(g) ==
    /\ g \in live
    /\ live' = live \ {g}
    /\ UNCHANGED <<handle, loops, relaunch, unkilled, failed, refreshing, command,
                   quit, now, granted>>

\* Mutated form: a restart exactly RESTART_WINDOW old is dropped.
PopsEarly(k) ==
    /\ \A i \in 1 .. k : now - restarts[i] >= RestartWindow
    /\ k < Len(restarts) => now - restarts[k + 1] < RestartWindow

\* The loop that drops old restarts stops after k of them.
Pops(k) ==
    /\ \A i \in 1 .. k : now - restarts[i] > RestartWindow
    /\ k < Len(restarts) => now - restarts[k + 1] <= RestartWindow

Recent(k) == SubSeq(restarts, k + 1, Len(restarts))

\* on_terminated for a process that is still the handle's: forget it, and
\* grant a restart unless it was stopped or the window is full.
TerminatedCurrent(g) ==
    /\ child' = NoCore
    /\ version' = NoCore
    /\ \/ /\ manualStop
          /\ UNCHANGED <<restarts, relaunch, granted>>
       \/ /\ ~manualStop
          /\ \E k \in 0 .. Len(restarts) :
                /\ Pops(k)
                /\ \/ /\ Len(Recent(k)) >= RestartMax
                      /\ restarts' = Recent(k)
                      /\ UNCHANGED <<relaunch, granted>>
                   \/ /\ Len(Recent(k)) < RestartMax
                      /\ restarts' = Append(Recent(k), now)
                      /\ granted' = Append(granted, now)
                      /\ relaunch' = relaunch \cup {g}
    /\ UNCHANGED <<generation, manualStop>>

\* Mutated form: the exit of any process is taken for the tracked one's.
OnTerminatedUnchecked(g) ==
    /\ Running
    /\ g \in loops \ live
    /\ loops' = loops \ {g}
    /\ TerminatedCurrent(g)
    /\ UNCHANGED <<live, unkilled, failed, refreshing, command, quit, now>>

\* The event loop of g receives Terminated.
OnTerminated(g) ==
    /\ Running
    /\ g \in loops \ live
    /\ loops' = loops \ {g}
    /\ \/ /\ g = generation
          /\ TerminatedCurrent(g)
       \/ /\ g # generation
          /\ UNCHANGED <<handle, relaunch, granted>>
    /\ UNCHANGED <<live, unkilled, failed, refreshing, command, quit, now>>

\* on_terminated after the unlock: spawn_core(Some(g)); a refused or failed
\* spawn is only logged, and only a failed one starts no version refresh.
Relaunch(g) ==
    /\ Running
    /\ g \in relaunch
    /\ relaunch' = relaunch \ {g}
    /\ \/ /\ ~RelaunchAllowed(g)
          /\ UNCHANGED <<handle, live, loops, failed>>
          /\ StartRefresher
       \/ /\ RelaunchAllowed(g)
          /\ SpawnProcess
          /\ StartRefresher
       \/ /\ RelaunchAllowed(g)
          /\ "spawn" \in Failures
          /\ failed' = TRUE
          /\ UNCHANGED <<handle, live, loops, refreshing>>
    /\ UNCHANGED <<unkilled, command, quit, now, granted>>

(***************************************************************************)
(* refresh_version_async: sleep, check that a core runs, ask it, store     *)
(***************************************************************************)

\* Without a sidecar the task asks whether the service hosts a core.
RefreshCheck ==
    /\ Running
    /\ refresher = "sleeping"
    /\ refresher' = IF child # NoCore THEN "asking" ELSE "service"
    /\ UNCHANGED <<handle, processes, answer, command, quit, now, granted>>

\* No service hosts a core in this module: the task returns.
RefreshLeave ==
    /\ Running
    /\ refresher = "service"
    /\ refresher' = "off"
    /\ UNCHANGED <<handle, processes, answer, command, quit, now, granted>>

\* GET /version fails: the task sleeps again, or gives up after 30 attempts,
\* which takes a core that does not answer ("answer" in Failures).
RefreshFails ==
    /\ Running
    /\ refresher = "asking"
    /\ \/ /\ "answer" \in Failures
          /\ refresher' \in {"sleeping", "off"}
       \/ /\ live = {}
          /\ refresher' = "sleeping"
    /\ UNCHANGED <<handle, processes, answer, command, quit, now, granted>>

\* A live process answers.
RefreshAnswered ==
    /\ Running
    /\ refresher = "asking"
    /\ answer' \in live
    /\ refresher' = "answered"
    /\ UNCHANGED <<handle, processes, command, quit, now, granted>>

\* The answer is stored without a look at the generation.
RefreshStore ==
    /\ Running
    /\ refresher = "answered"
    /\ version' = answer
    /\ refresher' = "off"
    /\ answer' = NoCore
    /\ UNCHANGED <<child, generation, manualStop, restarts, processes, command,
                   quit, now, granted>>

Tick ==
    /\ now' = now + 1
    /\ UNCHANGED <<handle, processes, refreshing, command, quit, granted>>

\* What users and processes do: nothing obliges them to.
Environment ==
    \/ RequestStart \/ RequestStop \/ RequestRestart \/ QuitStop
    \/ \E g \in live : Crash(g)

\* What the program goes on to do by itself.
System ==
    \/ StartCheck \/ StartSpawn \/ StartSettle \/ Exit
    \/ \E g \in loops : OnTerminated(g)
    \/ \E g \in relaunch : Relaunch(g)
    \/ RefreshCheck \/ RefreshLeave \/ RefreshFails
    \/ RefreshAnswered \/ RefreshStore

Next == Environment \/ System \/ Tick

Spec == Init /\ [][Next]_vars

\* The threads of the program are scheduled; users, crashes and time are not
\* obliged to do anything.
Fairness ==
    /\ WF_vars(StartCheck) /\ WF_vars(StartSpawn) /\ WF_vars(StartSettle)
    /\ WF_vars(Exit)
    /\ WF_vars(\E g \in loops : OnTerminated(g))
    /\ WF_vars(\E g \in relaunch : Relaunch(g))
    /\ WF_vars(RefreshCheck) /\ WF_vars(RefreshLeave)
    /\ WF_vars(RefreshFails) /\ WF_vars(RefreshAnswered) /\ WF_vars(RefreshStore)

\* The supervisor this module implements: the core it owns is the tracked child
\* while that lives, and it wants one while it tracks one or is about to
\* restart the last one.
Supervisor == INSTANCE CoreSupervisor WITH
    running <- child \in live,
    wanted  <- child # NoCore \/ (generation \in relaunch /\ ~manualStop),
    asked   <- command = "spawn"

(***************************************************************************)
(* Properties                                                              *)
(***************************************************************************)

\* The handle never loses a process it did not fail to kill: whatever is alive
\* is the tracked child, or a process whose kill() returned an error after
\* stop_sidecar had already taken it out of the handle (core.rs:498).  At most
\* one mihomo therefore answers on the controller port.
OwnedProcess == live \subseteq {child} \cup unkilled

\* A stop leaves nothing behind that could undo it: no event loop or pending
\* restart of a stopped process still carries the handle's generation, so
\* what they find when they get the lock makes them give up.
StoppedIsFinal ==
    child = NoCore /\ manualStop => generation \notin live \cup loops \cup relaunch

\* The handle implements the supervisor: in particular a late event loop or a
\* pending restart never brings back a core that was stopped, and a second
\* process is never spawned beside a live one.
ImplementsSupervisor == Supervisor!Spec

\* A crash loop is cut: between two explicit starts, any RestartMax + 1
\* restarts in a row that on_terminated grants span more than RESTART_WINDOW.
CrashLoopIsCut ==
    \A i \in DOMAIN granted :
        i > RestartMax => granted[i] - granted[i - RestartMax] > RestartWindow

\* Self-healing: a tracked process that died is replaced by a live one, unless
\* somebody stopped the core, the program exits, the restart budget is used up,
\* or the restart could not spawn, which is only logged and never tried again.
SelfHealing ==
    (child # NoCore /\ child \notin live)
        ~> \/ child \in live
           \/ manualStop
           \/ ~Running
           \/ Len(restarts) >= RestartMax
           \/ failed

\* core.rs:673-674 says that the version is asked for until it is known: a core
\* that stays up gets a version.  (Only where a live core answers /version.)
VersionEventuallyKnown ==
    (child \in live /\ Running) ~> (version # NoCore \/ child \notin live \/ ~Running)

=============================================================================
