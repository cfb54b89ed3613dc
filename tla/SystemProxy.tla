---------------------------- MODULE SystemProxy ----------------------------
(***************************************************************************)
(* The system proxy of Windows and those who write it: the transaction of  *)
(* save_settings_inner (commands.rs), the guard loops of sysproxy_win.rs,  *)
(* tray::quit, the update installer (updater.rs), the start of the         *)
(* application, and the user.  Only commands hold config_lock.             *)
(*                                                                         *)
(* Of the settings three fields matter: the switch of the proxy, the guard *)
(* and the port the core listens on (mixed_port), which is the port the    *)
(* proxy points at.  A command is the sequence of steps it has still to    *)
(* make; a step that fails puts the steps of the rollback in their place.  *)
(***************************************************************************)
EXTENDS Naturals, Sequences

CONSTANTS
    Ports,    \* values of mixed_port
    Switches, \* values of the guard's switch
    Down,     \* no core runs
    None,     \* no command runs
    MaxGen,   \* bound: guard generations in one life of the application
    Failures  \* what can go wrong

ASSUME ProxyAssumption ==
    /\ Ports # {} /\ Down \notin Ports
    /\ Switches \subseteq BOOLEAN /\ Switches # {}
    /\ MaxGen \in Nat \ {0}
    /\ Failures \subseteq {"runtime", "persist", "set", "get", "reload", "hotkeys",
                           "rollback", "stop", "start", "launch", "drift", "kill"}

VARIABLES
    up,         \* the application runs
    settings,   \* in memory
    saved,      \* in settings.json
    runtime,    \* the port in the runtime configuration
    core,       \* the port the core listens on
    os,         \* the system proxy
    generation, \* guard_gen
    loops,      \* the guard loop of each generation
    plan,       \* the steps the running command has still to make
    before,     \* prev, the settings it replaces, and the files it captured
    tried,      \* steps whose effect its rollback has to undo
    trouble,    \* none, failed, or broken: an error in the rollback
    quit,       \* how far tray::quit is
    spoiled,    \* history: a rollback or a start failed
    foreign,    \* history: os is the user's, a killed application's, or was
                \* written by a guard loop that was out of date
    raced       \* history: the core was started amid a command

outside == <<runtime, core, os>>
guards == <<generation, loops>>
control == <<plan, before, tried, trouble>>
history == <<spoiled, foreign, raced>>
vars == <<up, settings, saved, outside, guards, control, quit, history>>

Settings == [proxy : BOOLEAN, guard : Switches, port : Ports]
Captures == [settings : Settings, saved : Settings, runtime : Ports]
Proxies == [on : BOOLEAN, port : Ports]
Generations == 1..MaxGen

Expected(s) == [on |-> s.proxy, port |-> s.port]
Guarded(s) == s.guard /\ s.proxy

NoLoop == [at |-> "none"]
Loops == {NoLoop} \cup [at : {"asleep", "current"}]
            \cup [at : {"looking", "drifted"}, want : Proxies]

Steps == {"regenerate", "persist", "apply", "restartGuard", "reload",
          "hotkeys", "undoMemory", "undoFiles", "stopCore", "retireGuard", "clear",
          "launch", "resume", "boot"}

TypeOK ==
    /\ up \in BOOLEAN
    /\ settings \in Settings /\ saved \in Settings
    /\ runtime \in Ports /\ core \in Ports \cup {Down}
    /\ os \in Proxies
    /\ generation \in 0..MaxGen
    /\ loops \in [Generations -> Loops]
    /\ \A g \in Generations : loops[g] # NoLoop => g <= generation
    /\ plan \in Seq(Steps)
    /\ IF plan = <<>> THEN before = None ELSE before \in Captures
    /\ tried \subseteq {"apply", "reload", "core"}
    /\ trouble \in {"none", "failed", "broken"}
    /\ quit \in {"no", "cleared", "stopped"}
    /\ spoiled \in BOOLEAN /\ foreign \in BOOLEAN /\ raced \in BOOLEAN

\* The application is down and left its proxy off.
Init ==
    /\ up = FALSE
    /\ settings \in Settings /\ saved = settings
    /\ runtime = settings.port /\ core = Down
    /\ os \in Proxies /\ ~os.on
    /\ generation = 0 /\ loops = [g \in Generations |-> NoLoop]
    /\ plan = <<>> /\ before = None /\ tried = {} /\ trouble = "none"
    /\ quit = "no"
    /\ spoiled = FALSE /\ foreign = FALSE /\ raced = FALSE

Idle == plan = <<>>
Now == [settings |-> settings, saved |-> saved, runtime |-> runtime]

(***************************************************************************)
(* sysproxy_win.rs                                                         *)
(***************************************************************************)

\* apply: set_system_proxy.
SetProxy(value) == os' = value /\ foreign' = FALSE

\* Mutated form: the new loop takes the number before the increment.
RestartGuardOld ==
    /\ generation < MaxGen
    /\ generation' = generation + 1
    /\ loops' = IF generation # 0 /\ Guarded(settings)
                THEN [loops EXCEPT ![generation] = [at |-> "asleep"]]
                ELSE loops

\* restart_guard: old loops notice that they are old, a new one starts if the
\* settings ask for it.
RestartGuard ==
    /\ generation < MaxGen
    /\ generation' = generation + 1
    /\ loops' = [loops EXCEPT ![generation + 1] =
                    IF Guarded(settings) THEN [at |-> "asleep"] ELSE NoLoop]

Moves(g, loop) == loops' = [loops EXCEPT ![g] = loop]

LoopOnly == UNCHANGED <<up, settings, saved, runtime, core, generation, control,
                        quit, spoiled, raced>>

\* The loop wakes up.
CheckGeneration(g) ==
    /\ loops[g].at = "asleep"
    /\ Moves(g, IF g = generation THEN [at |-> "current"] ELSE NoLoop)
    /\ LoopOnly /\ UNCHANGED <<os, foreign>>

CheckSettings(g) ==
    /\ loops[g].at = "current"
    /\ Moves(g, IF Guarded(settings)
                THEN [at |-> "looking", want |-> Expected(settings)] ELSE NoLoop)
    /\ LoopOnly /\ UNCHANGED <<os, foreign>>

\* A proxy that cannot be read counts as drifted.
Look(g) ==
    /\ loops[g].at = "looking"
    /\ LET want == loops[g].want IN
       \/ Moves(g, IF os = want THEN [at |-> "asleep"]
                   ELSE [at |-> "drifted", want |-> want])
       \/ "get" \in Failures /\ Moves(g, [at |-> "drifted", want |-> want])
    /\ LoopOnly /\ UNCHANGED <<os, foreign>>

OutOfDate(g) == foreign' = (g # generation \/ loops[g].want # Expected(settings))

Repair(g) ==
    /\ loops[g].at = "drifted"
    /\ Moves(g, [at |-> "asleep"])
    /\ \/ os' = loops[g].want /\ OutOfDate(g)
       \/ "set" \in Failures /\ UNCHANGED <<os, foreign>>
    /\ LoopOnly

Guard(g) == CheckGeneration(g) \/ CheckSettings(g) \/ Look(g) \/ Repair(g)

(***************************************************************************)
(* How a command proceeds                                                  *)
(***************************************************************************)

At(step) == plan # <<>> /\ Head(plan) = step

\* The command goes on with the steps that are left, or returns.
Goes(rest, effects, errors) ==
    /\ plan' = rest
    /\ IF rest = <<>> THEN before' = None /\ tried' = {} /\ trouble' = "none"
       ELSE before' = before /\ tried' = effects /\ trouble' = errors

Done == Goes(Tail(plan), tried, trouble) /\ UNCHANGED spoiled

\* The rollback has to undo what this step did, or may have done.
DoneTrying(what) == Goes(Tail(plan), tried \cup {what}, trouble) /\ UNCHANGED spoiled

\* Mutated form: the rollback leaves the proxy alone.
UndoWithoutProxy(effects) ==
    IF "core" \in effects THEN <<"resume", "restartGuard">>
    ELSE <<"undoMemory", "undoFiles", "restartGuard">>
         \o (IF "reload" \in effects THEN <<"reload">> ELSE <<>>)

\* Mutated form: the files are restored, the core is not told.
UndoWithoutReload(effects) ==
    IF "core" \in effects THEN <<"resume", "apply", "restartGuard">>
    ELSE <<"undoMemory", "undoFiles">>
         \o (IF "apply" \in effects THEN <<"apply">> ELSE <<>>)
         \o <<"restartGuard">>

\* The proxy, if the command touched it, and in any case the guard.
UndoProxy(effects) ==
    (IF "apply" \in effects THEN <<"apply">> ELSE <<>>) \o <<"restartGuard">>

\* What a command does after an error; only the installer has stopped the core.
Undo(effects) ==
    IF "core" \in effects THEN <<"resume", "apply", "restartGuard">>
    ELSE <<"undoMemory", "undoFiles">> \o UndoProxy(effects)
         \o (IF "reload" \in effects THEN <<"reload">> ELSE <<>>)

\* An error in the rollback is collected, and the rollback goes on.
FailsWith(effects) ==
    \/ trouble = "none" /\ Goes(Undo(effects), effects, "failed") /\ UNCHANGED spoiled
    \/ trouble # "none" /\ Goes(Tail(plan), effects, "broken") /\ spoiled' = TRUE

Fail == FailsWith(tried)
FailTrying(what) == FailsWith(tried \cup {what})

(***************************************************************************)
(* save_settings_inner                                                     *)
(***************************************************************************)

\* sys_proxy_changed is a change of any of the three fields, runtime_changed one
\* of the port; hotkeys may be part of the same request.
SavePlan(prev, next) ==
    (IF next.port # prev.port THEN <<"regenerate">> ELSE <<>>)
    \o <<"persist">>
    \o (IF next.proxy \/ prev.proxy THEN <<"apply">> ELSE <<>>)
    \o <<"restartGuard">>
    \o (IF next.port # prev.port THEN <<"reload">> ELSE <<>>)
    \o <<"hotkeys">>

\* The settings in memory are replaced before anything can fail.
Save(next) ==
    /\ up /\ Idle /\ next # settings
    /\ settings' = next
    /\ before' = Now
    /\ plan' = SavePlan(settings, next)
    /\ tried' = {} /\ trouble' = "none"
    /\ UNCHANGED <<up, saved, outside, guards, quit, history>>

Regenerate ==
    /\ At("regenerate")
    /\ \/ runtime' = settings.port /\ Done
       \/ "runtime" \in Failures /\ Fail /\ UNCHANGED runtime
    /\ UNCHANGED <<up, settings, saved, core, os, guards, quit, foreign, raced>>

Persist ==
    /\ At("persist")
    /\ \/ saved' = settings /\ Done
       \/ "persist" \in Failures /\ Fail /\ UNCHANGED saved
    /\ UNCHANGED <<up, settings, outside, guards, quit, foreign, raced>>

Apply ==
    /\ At("apply")
    /\ \/ SetProxy(Expected(settings)) /\ DoneTrying("apply")
       \/ "set" \in Failures /\ FailTrying("apply") /\ UNCHANGED <<os, foreign>>
    /\ UNCHANGED <<up, settings, saved, runtime, core, guards, quit, raced>>

Guards ==
    /\ At("restartGuard")
    /\ RestartGuard
    /\ Done
    /\ UNCHANGED <<up, settings, saved, outside, quit, foreign, raced>>

\* reload_runtime_with_auth: nothing to do without a core; the core may have
\* taken the configuration when the answer is lost.
Reload ==
    /\ At("reload")
    /\ \/ core = Down /\ DoneTrying("reload") /\ UNCHANGED <<core, raced>>
       \/ core # Down /\ core' = runtime /\ raced' = FALSE /\ DoneTrying("reload")
       \/ /\ core # Down /\ "reload" \in Failures
          /\ core' \in {core, runtime}
          /\ FailTrying("reload")
          /\ UNCHANGED raced
    /\ UNCHANGED <<up, settings, saved, runtime, os, guards, quit, foreign>>

Hotkeys ==
    /\ At("hotkeys")
    /\ Done \/ ("hotkeys" \in Failures /\ Fail)
    /\ UNCHANGED <<up, settings, saved, outside, guards, quit, foreign, raced>>

UndoMemory ==
    /\ At("undoMemory")
    /\ settings' = before.settings
    /\ Done
    /\ UNCHANGED <<up, saved, outside, guards, quit, foreign, raced>>

\* The files as captured.  Without them the core is not reloaded; what failed is
\* tried once more when the transaction is dropped.
UndoFiles ==
    /\ At("undoFiles")
    /\ \/ saved' = before.saved /\ runtime' = before.runtime /\ Done
       \/ /\ "rollback" \in Failures
          /\ saved' \in {saved, before.saved} /\ runtime' \in {runtime, before.runtime}
          /\ Goes(UndoProxy(tried), tried, "broken")
          /\ spoiled' = TRUE
    /\ UNCHANGED <<up, settings, core, os, guards, quit, foreign, raced>>

(***************************************************************************)
(* launch_installer                                                        *)
(***************************************************************************)

\* "core" among the effects says that this is the installer.
Install ==
    /\ up /\ Idle
    /\ before' = Now
    /\ plan' = <<"stopCore", "retireGuard", "clear", "launch">>
    /\ tried' = {"core"} /\ trouble' = "none"
    /\ UNCHANGED <<up, settings, saved, outside, guards, quit, history>>

\* core::stop can fail with the sidecar already stopped.
StopCore ==
    /\ At("stopCore")
    /\ \/ core' = Down /\ Done
       \/ "stop" \in Failures /\ core' \in {core, Down} /\ Fail
    /\ UNCHANGED <<up, settings, saved, runtime, os, guards, quit, foreign, raced>>

RetireGuard ==
    /\ At("retireGuard")
    /\ generation < MaxGen
    /\ generation' = generation + 1
    /\ Done
    /\ UNCHANGED <<up, settings, saved, outside, loops, quit, foreign, raced>>

\* clear_on_exit, whose errors are only logged.
Clears(s) ==
    \/ s.proxy /\ SetProxy([on |-> FALSE, port |-> s.port])
    \/ ~s.proxy /\ UNCHANGED <<os, foreign>>
    \/ "set" \in Failures /\ UNCHANGED <<os, foreign>>

Clear ==
    /\ At("clear")
    /\ Clears(before.settings)
    /\ Done
    /\ UNCHANGED <<up, settings, saved, runtime, core, guards, quit, raced>>

\* resume_core starts the core if it ran.
Resume ==
    /\ At("resume")
    /\ \/ core' \in {core, runtime} /\ Done
       \/ "start" \in Failures /\ Fail /\ UNCHANGED core
    /\ UNCHANGED <<up, settings, saved, runtime, os, guards, quit, foreign, raced>>

(***************************************************************************)
(* The life of the application                                             *)
(***************************************************************************)

\* The process ends, and its loops with it; the proxy stays as it is.
Gone(coreAfter) ==
    /\ up' = FALSE
    /\ core' = coreAfter
    /\ generation' = 0 /\ loops' = [g \in Generations |-> NoLoop]
    /\ plan' = <<>> /\ tried' = {} /\ trouble' = "none"
    /\ settings' = saved /\ before' = None
    /\ quit' = "no"
    /\ UNCHANGED <<saved, runtime, os, history>>

\* The installer runs, and the application exits.
Launch ==
    /\ At("launch")
    /\ \/ Gone(core)
       \/ /\ "launch" \in Failures /\ Fail
          /\ UNCHANGED <<up, settings, saved, outside, guards, quit, foreign, raced>>

Killed == up /\ "kill" \in Failures /\ \E c \in {core, Down} : Gone(c)

\* setup in main.rs: the proxy is set if the settings say so (errors are only
\* logged), the guard starts, and a task starts the core.
Boot ==
    /\ ~up
    /\ up' = TRUE
    /\ RestartGuard
    /\ \/ settings.proxy /\ SetProxy(Expected(settings)) /\ spoiled' = FALSE
       \/ settings.proxy /\ "set" \in Failures /\ spoiled' = TRUE
          /\ UNCHANGED <<os, foreign>>
       \/ ~settings.proxy /\ foreign' = os.on /\ spoiled' = FALSE /\ UNCHANGED os
    /\ plan' = <<"boot">> /\ before' = Now
    /\ raced' = FALSE
    /\ UNCHANGED <<settings, saved, runtime, core, tried, trouble, quit>>

\* initialize, regenerate_runtime and core::start.
BootCore ==
    /\ At("boot")
    /\ Goes(<<>>, tried, trouble)
    /\ \/ runtime' = settings.port /\ core' = settings.port /\ UNCHANGED spoiled
       \/ /\ {"runtime", "start"} \cap Failures # {}
          /\ runtime' \in {runtime, settings.port}
          /\ spoiled' = TRUE
          /\ UNCHANGED core
    /\ UNCHANGED <<up, settings, saved, os, guards, quit, foreign, raced>>

\* tray::quit takes no lock.
QuitOnly == UNCHANGED <<up, settings, saved, runtime, guards, control, spoiled, raced>>

QuitClear ==
    /\ up /\ quit = "no"
    /\ quit' = "cleared"
    /\ Clears(settings)
    /\ QuitOnly /\ UNCHANGED core

QuitStop ==
    /\ quit = "cleared"
    /\ quit' = "stopped"
    /\ core' \in {Down} \cup (IF "stop" \in Failures THEN {core} ELSE {})
    /\ QuitOnly /\ UNCHANGED <<os, foreign>>

Exit == quit = "stopped" /\ Gone(core)

(***************************************************************************)
(* What goes on by itself                                                  *)
(***************************************************************************)

CoreStops ==
    /\ core # Down
    /\ core' = Down /\ raced' = FALSE
    /\ UNCHANGED <<up, settings, saved, runtime, os, guards, control, quit, spoiled,
                   foreign>>

\* A crashed core is started again, also while a command runs.
CoreStarts ==
    /\ up /\ core = Down /\ quit = "no" /\ plan # <<"boot">>
    /\ core' = runtime /\ raced' = ~Idle
    /\ UNCHANGED <<up, settings, saved, runtime, os, guards, control, quit, spoiled,
                   foreign>>

Drift ==
    /\ "drift" \in Failures
    /\ os' \in Proxies \ {os}
    /\ foreign' = TRUE
    /\ UNCHANGED <<up, settings, saved, runtime, core, guards, control, quit,
                   spoiled, raced>>

Command ==
    \/ Regenerate \/ Persist \/ Apply \/ Guards \/ Reload \/ Hotkeys
    \/ UndoMemory \/ UndoFiles
    \/ StopCore \/ RetireGuard \/ Clear \/ Launch \/ Resume \/ BootCore

Next ==
    \/ \E next \in Settings : Save(next)
    \/ Install
    \/ Command
    \/ \E g \in Generations : Guard(g)
    \/ Boot \/ Killed
    \/ QuitClear \/ QuitStop \/ Exit
    \/ CoreStops \/ CoreStarts \/ Drift

Spec == Init /\ [][Next]_vars

\* Loops sleep for a finite time; the calls of a command return.
FairSpec ==
    /\ Spec
    /\ \A g \in Generations : WF_vars(Guard(g))
    /\ WF_vars(Command)

(***************************************************************************)
(* Properties                                                              *)
(***************************************************************************)

Settled == up /\ Idle /\ quit = "no"

\* Between commands a loop of the current generation runs exactly when the
\* settings ask for a guard: a loop that saw settings that were rolled back, and
\* left, has been replaced.
GuardAsConfigured ==
    Settled => ((\E g \in Generations : g = generation /\ loops[g] # NoLoop)
                <=> Guarded(settings))

\* Between commands the system proxy is what the settings say, or a guard will
\* see to it.  Excepted are the user's own changes, what a killed application
\* left, and the last write of a loop that was replaced, or whose settings were,
\* after it had looked (sysproxy_win.rs:59-79).
ProxyAsConfigured ==
    Settled /\ ~spoiled /\ ~foreign =>
        \/ IF settings.proxy THEN os = Expected(settings) ELSE ~os.on
        \/ Guarded(settings)

\* What the settings say of the system proxy is so, or a guard is at work on it: both
\* of the above, after saves, rollbacks, installations and quits in any order
\* (commands.rs:466, updater.rs:561).
SettingsTakeEffect == GuardAsConfigured /\ ProxyAsConfigured

\* Between commands settings.json, the runtime configuration and the core use the
\* port that the settings, and so the system proxy, name.  Excepted is a core
\* that was restarted while a command that failed later had its configuration in
\* place.
PortsAgree ==
    Settled /\ ~spoiled =>
        /\ saved = settings
        /\ runtime = settings.port
        /\ core \in {Down, settings.port} \/ raced

\* A system proxy that drifted is repaired while the guard is on.
GuardRepairs ==
    (Settled /\ Guarded(settings) /\ os # Expected(settings))
        ~> (os = Expected(settings) \/ ~Settled)

\* sysproxy_win.rs:28 says that the exit turns the proxy off if we had turned it
\* on.
ExitLeavesProxyOff == [][Exit /\ Idle /\ settings.proxy => ~os.on]_vars
=============================================================================
