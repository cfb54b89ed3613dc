-------------------------- MODULE ServiceCoreProofs --------------------------
(***************************************************************************)
(* Proofs about ServiceCore, for every number of pipe instances, every     *)
(* backoff, quiet time and crash budget, and every choice of failures.     *)
(***************************************************************************)
EXTENDS ServiceCore, TLAPS

\* What is running, or ran, was started from a configuration.
ProcessIsConfigured == process # "none" => configured

\* None of RetryOnlyWhenDown, CrashBudget and StopHolds is inductive alone: a
\* restart that is due spawns a process, which the other two restrict, and a
\* crash that is noticed schedules a restart.
Inv ==
    /\ TypeOK
    /\ ProcessIsConfigured
    /\ RetryOnlyWhenDown
    /\ CrashBudget
    /\ StopHolds

\* The part of TypeOK that the manager's operations change.
ManagerTypeOK ==
    /\ process \in {"none", "alive", "exited"}
    /\ configured \in BOOLEAN
    /\ crashCount \in Nat
    /\ sinceCrash \in Ages
    /\ restartIn \in 0 .. Backoff \cup {NoRetry}
    /\ lastDone \in {"none", "start", "stop"}

ManagerInv ==
    /\ ManagerTypeOK
    /\ ProcessIsConfigured
    /\ RetryOnlyWhenDown
    /\ CrashBudget
    /\ StopHolds

OutsideTypeOK ==
    /\ requests \in [Slots -> {"none", "start", "admitted", "stop", "status"}]
    /\ policyOk \in BOOLEAN
    /\ service \in {"up", "stopping", "stopped", "deaf", "down"}
    /\ strays \in Nat

LEMMA InvParts == Inv <=> ManagerInv /\ OutsideTypeOK
  BY DEF Inv, ManagerInv, TypeOK, ManagerTypeOK, OutsideTypeOK

LEMMA InvPartsNext == Inv' <=> ManagerInv' /\ OutsideTypeOK'
  BY DEF Inv, ManagerInv, TypeOK, ManagerTypeOK, OutsideTypeOK,
         ProcessIsConfigured, RetryOnlyWhenDown, CrashBudget, StopHolds

LEMMA FreshAge == QuietTime + 1 \in Ages
  BY ServiceAssumption DEF Ages

LEMMA InitInv == Init => Inv
<1> SUFFICES ASSUME Init PROVE Inv
  OBVIOUS
<1>1. TypeOK
  <2>1. sinceCrash \in Ages /\ crashCount \in Nat /\ strays \in Nat
    BY FreshAge DEF Init
  <2>2. requests \in [Slots -> {"none", "start", "admitted", "stop", "status"}]
    BY DEF Init
  <2>3. QED
    BY <2>1, <2>2 DEF Init, TypeOK
<1>2. ProcessIsConfigured /\ RetryOnlyWhenDown /\ CrashBudget /\ StopHolds
  BY ServiceAssumption DEF Init, ProcessIsConfigured, RetryOnlyWhenDown,
     CrashBudget, StopHolds
<1>3. QED
  BY <1>1, <1>2 DEF Inv

\* A manager nobody touches keeps its invariant.
LEMMA SameManager ==
    ASSUME ManagerInv, UNCHANGED <<manager, lastDone>>
    PROVE  ManagerInv'
  BY DEF ManagerInv, manager, ManagerTypeOK, Ages, ProcessIsConfigured,
         RetryOnlyWhenDown, CrashBudget, StopHolds

LEMMA StartKeepsInv == ASSUME ManagerInv, ManagerStart PROVE ManagerInv'
<1>1. /\ crashCount' = 0 /\ sinceCrash' = QuietTime + 1 /\ restartIn' = NoRetry
      /\ lastDone' = "start"
  BY DEF ManagerStart
<1>2. \/ process' \in {"none", "alive"} /\ configured' = TRUE
      \/ UNCHANGED <<process, configured>>
  BY DEF ManagerStart, SpawnOutcomes
<1>3. ManagerTypeOK'
  BY <1>1, <1>2, FreshAge DEF ManagerInv, ManagerTypeOK
<1>4. ProcessIsConfigured'
  BY <1>2 DEF ManagerInv, ProcessIsConfigured
<1>5. RetryOnlyWhenDown' /\ CrashBudget' /\ StopHolds'
  BY <1>1, ServiceAssumption DEF RetryOnlyWhenDown, CrashBudget, StopHolds
<1>6. QED
  BY <1>3, <1>4, <1>5 DEF ManagerInv

LEMMA StopKeepsInv == ASSUME ManagerInv, ManagerStop PROVE ManagerInv'
  BY ServiceAssumption DEF ManagerInv, ManagerTypeOK, Ages, ManagerStop,
     KillFails, ProcessIsConfigured, RetryOnlyWhenDown, CrashBudget, StopHolds

LEMMA NewManagerInv == ASSUME NewManager PROVE ManagerInv'
<1>1. ManagerTypeOK'
  BY FreshAge DEF ManagerTypeOK, NewManager
<1>2. ProcessIsConfigured' /\ RetryOnlyWhenDown' /\ CrashBudget' /\ StopHolds'
  BY ServiceAssumption DEF NewManager, ProcessIsConfigured, RetryOnlyWhenDown,
     CrashBudget, StopHolds
<1>3. QED
  BY <1>1, <1>2 DEF ManagerInv

\* A crash is counted within the budget, and schedules a restart only there.
LEMMA CrashRecorded ==
    ASSUME ManagerInv, crashCount <= MaxCrashes, RecordCrash
    PROVE  /\ crashCount' \in Nat /\ crashCount' <= MaxCrashes + 1
           /\ sinceCrash' \in Ages
           /\ restartIn' \in 0 .. Backoff \cup {NoRetry}
           /\ restartIn' # NoRetry => crashCount' <= MaxCrashes
  BY ServiceAssumption DEF ManagerInv, ManagerTypeOK, Ages, RecordCrash

LEMMA NoticeKeepsInv == ASSUME ManagerInv, NoticeExit PROVE ManagerInv'
<1>1. crashCount <= MaxCrashes /\ configured /\ lastDone # "stop"
  BY DEF ManagerInv, NoticeExit, ProcessIsConfigured, CrashBudget, StopHolds
<1>2. RecordCrash /\ process' = "none" /\ UNCHANGED <<configured, lastDone>>
  BY DEF NoticeExit
<1>3. QED
  BY <1>1, <1>2, CrashRecorded DEF ManagerInv, ManagerTypeOK,
     ProcessIsConfigured, RetryOnlyWhenDown, CrashBudget, StopHolds

LEMMA RestartKeepsInv == ASSUME ManagerInv, AutoRestart PROVE ManagerInv'
<1>1. /\ process = "none" /\ configured /\ crashCount <= MaxCrashes
      /\ restartIn # NoRetry /\ lastDone # "stop"
  BY ServiceAssumption DEF ManagerInv, AutoRestart, RestartDue, StopHolds
<1>2. UNCHANGED <<configured, lastDone>>
  BY DEF AutoRestart
<1>3. CASE /\ process' = "alive" /\ restartIn' = NoRetry
           /\ UNCHANGED <<crashCount, sinceCrash>>
  BY <1>1, <1>2, <1>3, ServiceAssumption DEF ManagerInv, ManagerTypeOK,
     ProcessIsConfigured, RetryOnlyWhenDown, CrashBudget, StopHolds, Ages
<1>4. CASE RecordCrash /\ UNCHANGED process
  BY <1>1, <1>2, <1>4, CrashRecorded DEF ManagerInv, ManagerTypeOK,
     ProcessIsConfigured, RetryOnlyWhenDown, CrashBudget, StopHolds
<1>5. QED
  BY <1>3, <1>4 DEF AutoRestart

\* Time only brings a scheduled restart closer.
LEMMA TickKeepsInv == ASSUME ManagerInv, Tick PROVE ManagerInv'
  BY ServiceAssumption DEF ManagerInv, ManagerTypeOK, Ages, Tick,
     ProcessIsConfigured, RetryOnlyWhenDown, CrashBudget, StopHolds

\* Every step keeps the manager's invariant.
LEMMA ManagerStep == ASSUME Inv, Next PROVE ManagerInv'
<1>1. ManagerInv
  BY InvParts
<1>2. ASSUME NEW s \in Slots, NEW c \in {"start", "stop", "status"}, Receive(s, c)
      PROVE  ManagerInv'
  BY <1>1, <1>2, SameManager DEF Receive
<1>3. ASSUME NEW s \in Slots, AdmitStart(s) PROVE ManagerInv'
  BY <1>1, <1>3, SameManager DEF AdmitStart
<1>4. ASSUME NEW s \in Slots, ServeStart(s) PROVE ManagerInv'
  BY <1>1, <1>4, StartKeepsInv DEF ServeStart
<1>5. ASSUME NEW s \in Slots, ServeStop(s) PROVE ManagerInv'
  BY <1>1, <1>5, StopKeepsInv DEF ServeStop
<1>6. ASSUME NEW s \in Slots, ServeStatus(s) PROVE ManagerInv'
  BY <1>1, <1>6, NoticeKeepsInv, SameManager DEF ServeStatus
<1>7. CASE MonitorRefuses
  BY <1>1, <1>7, ServiceAssumption DEF MonitorRefuses, ManagerInv, ManagerTypeOK,
     Ages, ProcessIsConfigured, RetryOnlyWhenDown, CrashBudget, StopHolds
<1>8. CASE MonitorChecks
  BY <1>1, <1>8, NoticeKeepsInv, RestartKeepsInv DEF MonitorChecks
<1>9. CASE Tick
  BY <1>1, <1>9, TickKeepsInv
<1>10. CASE CoreExits
  BY <1>1, <1>10 DEF CoreExits, ManagerInv, ManagerTypeOK, Ages,
     ProcessIsConfigured, RetryOnlyWhenDown, CrashBudget, StopHolds
<1>11. CASE StrayExits \/ PolicyChanges \/ ScmStop \/ ServiceBoots
  BY <1>1, <1>11, SameManager DEF StrayExits, PolicyChanges, ScmStop, ServiceBoots
<1>12. CASE StopOnShutdown
  BY <1>1, <1>12, StopKeepsInv DEF StopOnShutdown
<1>13. CASE ServerFails \/ ServiceExits \/ ServiceDies
  BY <1>13, NewManagerInv DEF ServerFails, ServiceExits, ServiceDies, ServiceGone
<1>14. QED
  BY <1>2, <1>3, <1>4, <1>5, <1>6, <1>7, <1>8, <1>9, <1>10, <1>11, <1>12, <1>13
  DEF Next

\* Every step keeps the types of what is around the manager.
LEMMA OutsideStep == ASSUME Inv, Next PROVE OutsideTypeOK'
<1>1. OutsideTypeOK
  BY InvParts
<1>2. ASSUME NEW s \in Slots, NEW c \in {"start", "stop", "status"}, Receive(s, c)
      PROVE  OutsideTypeOK'
  BY <1>1, <1>2 DEF Receive, OutsideTypeOK
<1>3. ASSUME NEW s \in Slots,
             AdmitStart(s) \/ ServeStart(s) \/ ServeStop(s) \/ ServeStatus(s)
      PROVE  OutsideTypeOK'
  BY <1>1, <1>3 DEF AdmitStart, ServeStart, ServeStop, ServeStatus, Done,
     OutsideTypeOK
<1>4. CASE MonitorRefuses \/ MonitorChecks \/ Tick \/ CoreExits
  BY <1>1, <1>4 DEF MonitorRefuses, MonitorChecks, Tick, CoreExits, OutsideTypeOK
<1>5. CASE StrayExits \/ ScmStop \/ StopOnShutdown \/ ServiceBoots
  BY <1>1, <1>5 DEF StrayExits, ScmStop, StopOnShutdown, ServiceBoots,
     OutsideTypeOK
<1>6. CASE PolicyChanges
  BY <1>1, <1>6, Zenon DEF PolicyChanges, OutsideTypeOK
<1>7. CASE ServerFails \/ ServiceExits \/ ServiceDies
  BY <1>1, <1>7 DEF ServerFails, ServiceExits, ServiceDies, ServiceGone,
     OutsideTypeOK
<1>8. QED
  BY <1>2, <1>3, <1>4, <1>5, <1>6, <1>7 DEF Next

LEMMA StepInv == ASSUME Inv, [Next]_vars PROVE Inv'
<1>1. CASE Next
  BY <1>1, ManagerStep, OutsideStep, InvPartsNext
<1>2. CASE UNCHANGED vars
  BY <1>2 DEF vars, manager, Inv, TypeOK, Ages, ProcessIsConfigured,
     RetryOnlyWhenDown, CrashBudget, StopHolds
<1>3. QED
  BY <1>1, <1>2

\* The invariant holds in every reachable state.
THEOREM Invariance == Spec => []Inv
  BY InitInv, StepInv, PTL DEF Spec

\* The types of the manager, the requests and the service process.
THEOREM TypeCorrect == Spec => []TypeOK
  BY Invariance, PTL DEF Inv

\* restart_at is set only while nothing runs and the budget allows a restart
\* (server.rs:178-241, 334-353).
THEOREM RetriesAreJustified == Spec => []RetryOnlyWhenDown
  BY Invariance, PTL DEF Inv

\* A core runs only within the crash budget (server.rs:306-345).
THEOREM BudgetHolds == Spec => []CrashBudget
  BY Invariance, PTL DEF Inv

\* Both together: the restarts of the service's core keep to the budget
\* (server.rs:244-353).
THEOREM RestartsKeepToTheBudget == Spec => []RestartsAreBudgeted
  BY RetriesAreJustified, BudgetHolds, PTL DEF RestartsAreBudgeted

\* After a stop that took effect nothing restarts the core but a start request
\* (server.rs:220-241, 306-324).
THEOREM StopIsFinal == Spec => []StopHolds
  BY Invariance, PTL DEF Inv

\* No core is left behind by a service whose last stop took effect
\* (service_host.rs:180-190, server.rs:33-39).
THEOREM ShutdownLeavesNoCore == Spec => ShutdownStopsCore
<1>1. ASSUME Inv, Next, lastDone = "stop" PROVE ~(strays' > strays)
  <2>1. process = "none" /\ strays \in Nat
    BY <1>1 DEF Inv, StopHolds, TypeOK
  <2>2. ASSUME NEW s \in Slots,
               \/ \E c \in {"start", "stop", "status"} : Receive(s, c)
               \/ AdmitStart(s) \/ ServeStart(s) \/ ServeStop(s) \/ ServeStatus(s)
        PROVE  ~(strays' > strays)
    BY <2>1, <2>2 DEF Receive, AdmitStart, ServeStart, ServeStop, ServeStatus
  <2>3. CASE ServerFails \/ ServiceExits \/ ServiceDies
    BY <2>1, <2>3 DEF ServerFails, ServiceExits, ServiceDies, ServiceGone, KillFails
  <2>4. CASE \/ MonitorRefuses \/ MonitorChecks \/ Tick \/ CoreExits \/ StrayExits
             \/ PolicyChanges \/ ScmStop \/ StopOnShutdown \/ ServiceBoots
    BY <2>1, <2>4 DEF MonitorRefuses, MonitorChecks, Tick, CoreExits, StrayExits,
       PolicyChanges, ScmStop, StopOnShutdown, ServiceBoots
  <2>5. QED
    BY <1>1, <2>2, <2>3, <2>4 DEF Next
<1>2. ASSUME Inv, [Next]_vars
      PROVE  [strays' > strays => lastDone # "stop"]_vars
  BY <1>1, <1>2
<1>3. QED
  BY <1>2, Invariance, PTL DEF Spec, ShutdownStopsCore
=============================================================================
