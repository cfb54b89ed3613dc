---------------------------- MODULE ServiceCore ----------------------------
(***************************************************************************)
(* The mihomo core as the Windows service hosts it: CoreManager and the    *)
(* request handlers of crates/nova-service-ipc/src/server.rs, with the     *)
(* life of the service process (src-tauri/src/service_host.rs).            *)
(*                                                                         *)
(* The manager is behind one mutex, so each of its operations is one       *)
(* action.  Requests arrive over the pipe; a start request is checked      *)
(* against the policy before it queues for the mutex.  A client that times *)
(* out does not withdraw its request: it stays in its slot and is served.  *)
(*                                                                         *)
(* Clock readings are kept as distances, which is all the code compares:   *)
(* sinceCrash is now - last_crash_time, and restartIn is restart_at - now. *)
(***************************************************************************)
EXTENDS Naturals

CONSTANTS
    Slots,      \* pipe instances that can hold a request
    NoRetry,    \* the value of restart_at when no restart is scheduled
    Backoff,    \* seconds between a crash and the restart (10)
    QuietTime,  \* seconds without a crash after which the count restarts (300)
    MaxCrashes, \* crashes answered by a restart (5)
    Failures,   \* what can go wrong outside: spawn, kill, policy
    MaxStrays   \* bound: unmanaged cores that can exist before the service boots

ASSUME ServiceAssumption ==
    /\ NoRetry \notin Nat
    /\ Backoff \in Nat \ {0}
    /\ QuietTime \in Nat
    /\ MaxCrashes \in Nat
    /\ Failures \subseteq {"spawn", "kill", "policy"}
    /\ MaxStrays \in Nat

VARIABLES
    process,    \* manager.process: none, alive, or exited and not yet noticed
    configured, \* manager.config is set
    crashCount, \* manager.crash_count
    sinceCrash, \* seconds since last_crash_time; QuietTime + 1 stands for more
    restartIn,  \* seconds until restart_at, or NoRetry
    requests,   \* what each pipe instance is serving
    policyOk,   \* whether the policy accepts the configuration
    service,    \* the service process
    strays,     \* live cores that no manager holds a handle of
    lastDone    \* history: the last command that took effect in this manager

manager == <<process, configured, crashCount, sinceCrash, restartIn>>
vars == <<manager, requests, policyOk, service, strays, lastDone>>

Ages == 0 .. QuietTime + 1

TypeOK ==
    /\ process \in {"none", "alive", "exited"}
    /\ configured \in BOOLEAN
    /\ crashCount \in Nat
    /\ sinceCrash \in Ages
    /\ restartIn \in 0 .. Backoff \cup {NoRetry}
    /\ requests \in [Slots -> {"none", "start", "admitted", "stop", "status"}]
    /\ policyOk \in BOOLEAN
    /\ service \in {"up", "stopping", "stopped", "deaf", "down"}
    /\ strays \in Nat
    /\ lastDone \in {"none", "start", "stop"}

\* CoreManager::new, when the service process begins.
NewManager ==
    /\ process' = "none"
    /\ configured' = FALSE
    /\ crashCount' = 0
    /\ sinceCrash' = QuietTime + 1
    /\ restartIn' = NoRetry
    /\ lastDone' = "none"

Init ==
    /\ process = "none"
    /\ configured = FALSE
    /\ crashCount = 0
    /\ sinceCrash = QuietTime + 1
    /\ restartIn = NoRetry
    /\ requests = [s \in Slots |-> "none"]
    /\ policyOk = TRUE
    /\ service = "up"
    /\ strays = 0
    /\ lastDone = "none"

(***************************************************************************)
(* Operations of the manager, under its mutex                              *)
(***************************************************************************)

SpawnOutcomes == {"alive"} \cup (IF "spawn" \in Failures THEN {"none"} ELSE {})

KillFails == process = "alive" /\ "kill" \in Failures

RecordCrashShort ==
    /\ crashCount' = IF sinceCrash > QuietTime THEN 1 ELSE crashCount + 1
    /\ sinceCrash' = 0
    /\ restartIn' = IF crashCount' < MaxCrashes THEN Backoff ELSE NoRetry

\* record_crash
RecordCrash ==
    LET count == IF sinceCrash > QuietTime THEN 1 ELSE crashCount + 1
    IN /\ crashCount' = count
       /\ sinceCrash' = 0
       /\ restartIn' = IF count <= MaxCrashes THEN Backoff ELSE NoRetry

\* Mutated forms: a start that keeps the scheduled restart, or the count.
ManagerStartKeepsRetry ==
    /\ crashCount' = 0
    /\ sinceCrash' = QuietTime + 1
    /\ process' \in SpawnOutcomes
    /\ configured' = TRUE
    /\ lastDone' = "start"
    /\ UNCHANGED restartIn

\* start: forget the crashes, stop what runs, spawn.  A process that cannot be
\* killed is kept, and nothing is spawned.
ManagerStart ==
    /\ crashCount' = 0
    /\ sinceCrash' = QuietTime + 1
    /\ restartIn' = NoRetry
    /\ \/ /\ process' \in SpawnOutcomes
          /\ configured' = TRUE
       \/ /\ KillFails
          /\ UNCHANGED <<process, configured>>
    /\ lastDone' = "start"

\* Mutated form: a stop that only looks at the process.
ManagerStopKeepsRetry ==
    /\ process' = "none"
    /\ lastDone' = "stop"
    /\ UNCHANGED <<configured, crashCount, sinceCrash, restartIn>>

\* stop: cancels a scheduled restart too, even when the kill fails.
ManagerStop ==
    /\ restartIn' = NoRetry
    /\ \/ /\ process' = "none"
          /\ lastDone' = "stop"
       \/ /\ KillFails
          /\ UNCHANGED <<process, lastDone>>
    /\ UNCHANGED <<configured, crashCount, sinceCrash>>

\* is_running: an exit is noticed, and recorded as a crash.
NoticeExit ==
    /\ process = "exited"
    /\ process' = "none"
    /\ RecordCrash
    /\ UNCHANGED <<configured, lastDone>>

\* Mutated form: no look at restart_at.
RestartDueAlways == configured /\ crashCount <= MaxCrashes

\* should_auto_restart
RestartDue == configured /\ crashCount <= MaxCrashes /\ restartIn = 0

\* check_and_restart when no process runs; a failed spawn counts as a crash.
AutoRestart ==
    /\ process = "none"
    /\ RestartDue
    /\ \/ /\ process' = "alive"
          /\ restartIn' = NoRetry
          /\ UNCHANGED <<crashCount, sinceCrash>>
       \/ /\ "spawn" \in Failures
          /\ RecordCrash
          /\ UNCHANGED process
    /\ UNCHANGED <<configured, lastDone>>

(***************************************************************************)
(* Requests                                                                *)
(***************************************************************************)

\* The pipe is served from the boot of the service until its server fails or
\* the process ends.
Serving == service \notin {"deaf", "down"}

Done(s) == requests' = [requests EXCEPT ![s] = "none"]

Receive(s, command) ==
    /\ Serving
    /\ requests[s] = "none"
    /\ requests' = [requests EXCEPT ![s] = command]
    /\ UNCHANGED <<manager, policyOk, service, strays, lastDone>>

\* "start" is checked before the manager is locked; 403 ends the request.
AdmitStart(s) ==
    /\ requests[s] = "start"
    /\ requests' = [requests EXCEPT ![s] = IF policyOk THEN "admitted" ELSE "none"]
    /\ UNCHANGED <<manager, policyOk, service, strays, lastDone>>

ServeStart(s) ==
    /\ requests[s] = "admitted"
    /\ Done(s)
    /\ ManagerStart
    /\ UNCHANGED <<policyOk, service, strays>>

ServeStop(s) ==
    /\ requests[s] = "stop"
    /\ Done(s)
    /\ ManagerStop
    /\ UNCHANGED <<policyOk, service, strays>>

\* get_status
ServeStatus(s) ==
    /\ requests[s] = "status"
    /\ Done(s)
    /\ \/ NoticeExit
       \/ process # "exited" /\ UNCHANGED <<manager, lastDone>>
    /\ UNCHANGED <<policyOk, service, strays>>

(***************************************************************************)
(* The monitor, every second                                               *)
(***************************************************************************)

\* A configuration the policy no longer accepts is not restarted, now or later.
MonitorRefuses ==
    /\ Serving
    /\ configured /\ ~policyOk
    /\ restartIn' = NoRetry
    /\ UNCHANGED <<process, configured, crashCount, sinceCrash, requests,
                   policyOk, service, strays, lastDone>>

MonitorChecks ==
    /\ Serving
    /\ ~(configured /\ ~policyOk)
    /\ NoticeExit \/ AutoRestart
    /\ UNCHANGED <<requests, policyOk, service, strays>>

Tick ==
    /\ sinceCrash' = IF sinceCrash > QuietTime THEN sinceCrash ELSE sinceCrash + 1
    /\ restartIn' = IF restartIn \in {NoRetry, 0} THEN restartIn ELSE restartIn - 1
    /\ UNCHANGED <<process, configured, crashCount, requests, policyOk, service,
                   strays, lastDone>>

(***************************************************************************)
(* The outside: mihomo, the configuration directory, the service process   *)
(***************************************************************************)

CoreExits ==
    /\ process = "alive"
    /\ process' = "exited"
    /\ UNCHANGED <<configured, crashCount, sinceCrash, restartIn, requests,
                   policyOk, service, strays, lastDone>>

StrayExits ==
    /\ strays > 0
    /\ strays' = strays - 1
    /\ UNCHANGED <<manager, requests, policyOk, service, lastDone>>

PolicyChanges ==
    /\ "policy" \in Failures
    /\ policyOk' = ~policyOk
    /\ UNCHANGED <<manager, requests, service, strays, lastDone>>

\* The service control manager asks the service to stop.
ScmStop ==
    /\ service = "up"
    /\ service' = "stopping"
    /\ UNCHANGED <<manager, requests, policyOk, strays, lastDone>>

\* The service sends itself a stop and exits half a second later, whatever the
\* answer; other requests are served in between.
StopOnShutdown ==
    /\ service = "stopping"
    /\ service' = "stopped"
    /\ ManagerStop
    /\ UNCHANGED <<requests, policyOk, strays>>

\* The pipe server fails: its task ends, and dropping the manager stops the
\* core.  The stop that the service then sends itself reaches nobody.
ServerFails ==
    /\ Serving
    /\ service' = "deaf"
    /\ \/ UNCHANGED strays
       \/ KillFails /\ strays' = strays + 1
    /\ NewManager
    /\ requests' = [s \in Slots |-> "none"]
    /\ UNCHANGED policyOk

\* The process is gone, and with it the manager and its requests, but not the
\* core: nothing kills a Child when the process that spawned it ends.
ServiceGone ==
    /\ service' = "down"
    /\ strays' = strays + (IF process = "alive" THEN 1 ELSE 0)
    /\ NewManager
    /\ requests' = [s \in Slots |-> "none"]
    /\ UNCHANGED policyOk

ServiceExits == service \in {"stopped", "deaf"} /\ ServiceGone

ServiceDies == service # "down" /\ ServiceGone

ServiceBoots ==
    /\ service = "down"
    /\ strays <= MaxStrays
    /\ service' = "up"
    /\ UNCHANGED <<manager, requests, policyOk, strays, lastDone>>

Next ==
    \/ \E s \in Slots :
          \/ \E command \in {"start", "stop", "status"} : Receive(s, command)
          \/ AdmitStart(s) \/ ServeStart(s) \/ ServeStop(s) \/ ServeStatus(s)
    \/ MonitorRefuses \/ MonitorChecks \/ Tick
    \/ CoreExits \/ StrayExits \/ PolicyChanges
    \/ ScmStop \/ StopOnShutdown \/ ServerFails \/ ServiceExits \/ ServiceDies \/ ServiceBoots

Spec == Init /\ [][Next]_vars

\* The monitor is a task of the service's runtime, and time passes.
FairSpec == Spec /\ WF_vars(MonitorChecks) /\ WF_vars(Tick)

(***************************************************************************)
(* Properties                                                              *)
(***************************************************************************)

\* A restart is scheduled only while there is nothing running and the crash
\* budget is not used up: so a status request that sees the exit first does not
\* consume the retry, and a start or stop leaves none behind (the tests in
\* server.rs:605-636 check single steps of this).
RetryOnlyWhenDown ==
    restartIn # NoRetry =>
        process = "none" /\ configured /\ crashCount <= MaxCrashes

\* The budget: a core runs only while the crashes counted since the last start
\* request or quiet time are within MaxCrashes, and one more ends the series.
CrashBudget ==
    /\ crashCount <= MaxCrashes + 1
    /\ process # "none" => crashCount <= MaxCrashes

\* Restarts keep to the budget: both of the above, however monitor, status requests,
\* starts and stops take turns (server.rs:244-353).
RestartsAreBudgeted == RetryOnlyWhenDown /\ CrashBudget

\* A stop that took effect holds until a start request takes effect: no late
\* crash detection, status request or monitor pass brings the core back.
StopHolds ==
    lastDone = "stop" => process = "none" /\ restartIn = NoRetry

\* When the stop that the service sends itself on its way out took effect, no
\* core outlives it, however slowly it exits and even if it dies first: a core
\* is left behind only if that kill failed or a start was served after it.
ShutdownStopsCore == [][strays' > strays => lastDone # "stop"]_vars

\* A scheduled restart is tried, and the spawn fails.
RestartFails == process = "none" /\ process' = "none" /\ restartIn = 0 /\ restartIn' # 0

\* A core that crashes within the budget is restarted, unless somebody stops it,
\* a later start is answered with an error, failed restarts use up the budget,
\* or the policy or the service goes away.  (Only if spawning does not fail for
\* ever.)
CrashIsHealed ==
    <>[][~RestartFails]_vars =>
        ((process = "exited" /\ crashCount < MaxCrashes)
            ~> \/ process = "alive"
               \/ lastDone = "stop"
               \/ process = "none" /\ crashCount = 0
               \/ crashCount > MaxCrashes
               \/ ~policyOk
               \/ service # "up")
=============================================================================
