------------------------- MODULE SidecarCoreProofs -------------------------
(***************************************************************************)
(* Proofs about SidecarCore, for every restart window, restart budget and  *)
(* choice of failures, and without any bound on generations or time.       *)
(***************************************************************************)
EXTENDS SidecarCore, SequenceTheorems, FiniteSetTheorems, TLAPS

\* The tracked process carries the current generation and is not stopped.
ChildIsCurrent == child # NoCore => child = generation /\ ~manualStop

\* Every process and every thread of a process carries a generation that was
\* given out; a process that lives has its event loop; a loop that granted a
\* restart is over.
GenerationsGivenOut ==
    /\ loops \cup relaunch \subseteq 1 .. generation
    /\ live \subseteq loops
    /\ relaunch \cap loops = {}

\* What carries the current generation agrees with the handle.
CurrentIsTracked ==
    /\ generation \in loops => child = generation
    /\ manualStop => generation \notin relaunch

Inv ==
    /\ TypeOK
    /\ ChildIsCurrent
    /\ GenerationsGivenOut
    /\ CurrentIsTracked
    /\ OwnedProcess

\* spawn_core keeps the invariant when nothing is tracked.
LEMMA SpawnKeepsInv ==
    ASSUME Inv, child = NoCore, SpawnProcess, unkilled' = unkilled,
           relaunch' \subseteq relaunch,
           command' \in {"idle", "check", "spawn", "settle"},
           quit' = quit, now' = now, granted' = granted,
           refresher' \in {"off", "sleeping", "service", "asking", "answered"},
           answer' = answer
    PROVE  Inv'
<1> USE SidecarAssumption DEF Inv, Generations
<1>1. TypeOK'
  <2>1. /\ child' \in Generations /\ generation' \in Nat
        /\ live' \subseteq Generations /\ loops' \subseteq Generations
        /\ version' \in Generations \cup {NoCore}
    BY DEF TypeOK, SpawnProcess
  <2>2. manualStop' \in BOOLEAN /\ restarts' \in Seq(Nat) /\ failed' \in BOOLEAN
    BY DEF TypeOK, SpawnProcess
  <2>3. /\ relaunch' \subseteq Generations /\ unkilled' \subseteq Generations
        /\ answer' \in Generations \cup {NoCore}
        /\ now' \in Nat /\ granted' \in Seq(Nat)
        /\ quit' \in {"no", "stopped", "exited"}
    BY DEF TypeOK
  <2>4. QED
    BY <2>1, <2>2, <2>3 DEF TypeOK
<1>2. ChildIsCurrent'
  BY DEF SpawnProcess, ChildIsCurrent
<1>3. GenerationsGivenOut'
  BY DEF SpawnProcess, GenerationsGivenOut, TypeOK
<1>4. CurrentIsTracked'
  BY DEF SpawnProcess, CurrentIsTracked, GenerationsGivenOut, TypeOK
<1>5. OwnedProcess'
  BY DEF SpawnProcess, OwnedProcess, TypeOK
<1>6. QED
  BY <1>1, <1>2, <1>3, <1>4, <1>5

\* stop_sidecar keeps the invariant, whether or not the kill succeeds.
LEMMA StopKeepsInv ==
    ASSUME Inv, NEW killed \in KillOutcomes, StopSidecar(killed),
           command' \in {"idle", "check", "spawn", "settle"},
           quit' \in {"no", "stopped", "exited"},
           UNCHANGED <<refreshing, now, granted>>
    PROVE  Inv'
<1> USE SidecarAssumption DEF Inv, Generations
<1>1. TypeOK'
  BY DEF TypeOK, StopSidecar, refreshing
<1>2. ChildIsCurrent'
  BY DEF StopSidecar, ChildIsCurrent
<1>3. GenerationsGivenOut'
  BY DEF StopSidecar, GenerationsGivenOut, TypeOK
<1>4. CurrentIsTracked'
  BY DEF StopSidecar, CurrentIsTracked, GenerationsGivenOut, TypeOK
<1>5. OwnedProcess'
  BY DEF StopSidecar, OwnedProcess, TypeOK
<1>6. QED
  BY <1>1, <1>2, <1>3, <1>4, <1>5

\* A step that leaves the handle and the processes alone keeps the invariant.
LEMMA OtherKeepsInv ==
    ASSUME Inv, UNCHANGED <<child, generation, manualStop, processes>>, TypeOK'
    PROVE  Inv'
  BY DEF Inv, processes, ChildIsCurrent, GenerationsGivenOut,
         CurrentIsTracked, OwnedProcess

\* Popping k restarts from the front leaves the others, in order.
LEMMA RecentProperties ==
    ASSUME TypeOK, NEW k \in 0 .. Len(restarts)
    PROVE  /\ Recent(k) \in Seq(Nat)
           /\ Len(Recent(k)) = Len(restarts) - k
           /\ \A i \in 1 .. Len(restarts) - k : Recent(k)[i] = restarts[k + i]
<1>1. restarts \in Seq(Nat) /\ Len(restarts) \in Nat /\ k \in Nat
  BY LenProperties DEF TypeOK
<1>2. \A i \in k + 1 .. Len(restarts) : restarts[i] \in Nat
  BY <1>1, ElementOfSeq
<1>3. k + 1 \in Int /\ Len(restarts) \in Int
  BY <1>1
<1>4. /\ SubSeq(restarts, k + 1, Len(restarts)) \in Seq(Nat)
      /\ Len(SubSeq(restarts, k + 1, Len(restarts))) =
            IF k + 1 <= Len(restarts) THEN Len(restarts) - (k + 1) + 1 ELSE 0
      /\ \A i \in 1 .. Len(restarts) - (k + 1) + 1 :
            SubSeq(restarts, k + 1, Len(restarts))[i] = restarts[k + 1 + i - 1]
  BY <1>2, <1>3, SubSeqProperties
<1>5. QED
  BY <1>1, <1>4 DEF Recent

\* An event loop that receives Terminated keeps the invariant.
LEMMA OnTerminatedKeepsInv ==
    ASSUME Inv, NEW g \in loops, OnTerminated(g)
    PROVE  Inv'
<1> USE SidecarAssumption DEF Inv, Generations
<1>1. /\ UNCHANGED <<live, unkilled, failed, refresher, answer, command, quit, now>>
      /\ UNCHANGED <<generation, manualStop>>
      /\ loops' = loops \ {g} /\ g \notin live
      /\ relaunch' \in {relaunch, relaunch \cup {g}}
  BY DEF OnTerminated, TerminatedCurrent, refreshing, handle
<1>2. \/ g = generation /\ child' = NoCore /\ version' = NoCore
      \/ g # generation /\ child' = child /\ version' = version /\ relaunch' = relaunch
  BY DEF OnTerminated, TerminatedCurrent, handle
<1>3. restarts' \in Seq(Nat) /\ granted' \in Seq(Nat)
  <2>1. \A k \in 0 .. Len(restarts) :
           Recent(k) \in Seq(Nat) /\ Append(Recent(k), now) \in Seq(Nat)
    BY RecentProperties, AppendProperties DEF TypeOK
  <2>2. Append(granted, now) \in Seq(Nat)
    BY AppendProperties DEF TypeOK
  <2>3. QED
    BY <2>1, <2>2 DEF OnTerminated, TerminatedCurrent, handle, TypeOK
<1>4. manualStop /\ g = generation => relaunch' = relaunch
  BY DEF OnTerminated, TerminatedCurrent
<1>5. TypeOK'
  BY <1>1, <1>2, <1>3 DEF TypeOK
<1>6. ChildIsCurrent'
  BY <1>1, <1>2 DEF ChildIsCurrent
<1>7. GenerationsGivenOut'
  BY <1>1, <1>2 DEF GenerationsGivenOut
<1>8. CurrentIsTracked'
  BY <1>1, <1>2, <1>4 DEF CurrentIsTracked
<1>9. OwnedProcess'
  BY <1>1, <1>2 DEF OwnedProcess, ChildIsCurrent
<1>10. QED
  BY <1>5, <1>6, <1>7, <1>8, <1>9

\* A pending restart that gets its turn keeps the invariant.
LEMMA RelaunchKeepsInv ==
    ASSUME Inv, NEW g \in relaunch, Relaunch(g)
    PROVE  Inv'
<1> USE SidecarAssumption DEF Inv, Generations
<1>1. /\ relaunch' = relaunch \ {g}
      /\ UNCHANGED <<unkilled, command, quit, now, granted, answer>>
      /\ refresher' \in {refresher, "sleeping"}
  BY DEF Relaunch, StartRefresher, refreshing
<1>2. CASE UNCHANGED <<handle, live, loops>>
  <2>0. failed' \in BOOLEAN
    BY DEF Relaunch, SpawnProcess, TypeOK
  <2>1. TypeOK'
    BY <1>1, <1>2, <2>0 DEF TypeOK, handle
  <2>2. QED
    BY <1>1, <1>2, <2>1 DEF handle, ChildIsCurrent, GenerationsGivenOut,
       CurrentIsTracked, OwnedProcess
<1>3. CASE child = NoCore /\ SpawnProcess
  BY <1>1, <1>3, SpawnKeepsInv DEF TypeOK
<1>4. QED
  BY <1>2, <1>3 DEF Relaunch, RelaunchAllowed

\* The invariant is inductive.
LEMMA NextKeepsInv == Inv /\ [Next]_vars => Inv'
<1> SUFFICES ASSUME Inv, [Next]_vars PROVE Inv'
  OBVIOUS
<1> USE SidecarAssumption
<1>1. CASE RequestStart \/ StartCheck \/ Exit
  BY <1>1, OtherKeepsInv DEF RequestStart, StartCheck, Exit, handle, refreshing,
     processes, Inv, TypeOK
<1>2. CASE RequestStop \/ RequestRestart \/ QuitStop
  BY <1>2, StopKeepsInv DEF RequestStop, RequestRestart, QuitStop, Inv, TypeOK
<1>3. CASE StartSpawn
  <2>1. CASE child = NoCore /\ SpawnProcess
    <3>1. /\ UNCHANGED <<relaunch, unkilled, refresher, answer, quit, now, granted>>
          /\ command' \in {"settle", "idle"}
      BY <1>3 DEF StartSpawn, refreshing
    <3>2. refresher' \in {"off", "sleeping", "service", "asking", "answered"}
      BY <3>1 DEF Inv, TypeOK
    <3>3. QED
      BY <2>1, <3>1, <3>2, SpawnKeepsInv
  <2>2. CASE UNCHANGED <<handle, live, loops, failed>>
    BY <1>3, <2>2, OtherKeepsInv DEF StartSpawn, handle, refreshing, processes,
       Inv, TypeOK
  <2>3. QED
    BY <1>3, <2>1, <2>2 DEF StartSpawn
<1>4. CASE StartSettle
  <2>1. restarts' \in Seq(Nat) /\ granted' \in Seq(Nat)
    BY <1>4, EmptySeq DEF StartSettle
  <2>2. /\ UNCHANGED <<child, generation, version, live, loops, relaunch,
                       unkilled, failed, quit, now, answer>>
        /\ manualStop' = FALSE /\ command' = "idle"
        /\ refresher' \in {refresher, "sleeping"}
    BY <1>4 DEF StartSettle, StartRefresher, processes
  <2>3. TypeOK'
    BY <2>1, <2>2 DEF Inv, TypeOK
  <2>4. QED
    BY <2>2, <2>3 DEF Inv, ChildIsCurrent,
       GenerationsGivenOut, CurrentIsTracked, OwnedProcess
<1>5. CASE \E g \in live : Crash(g)
  <2>1. PICK g \in live : Crash(g)
    BY <1>5
  <2>2. TypeOK'
    BY <2>1 DEF Crash, handle, refreshing, Inv, TypeOK
  <2>3. QED
    BY <2>1, <2>2 DEF Crash, handle, Inv, ChildIsCurrent,
       GenerationsGivenOut, CurrentIsTracked, OwnedProcess
<1>6. CASE \E g \in loops : OnTerminated(g)
  BY <1>6, OnTerminatedKeepsInv
<1>7. CASE \E g \in relaunch : Relaunch(g)
  BY <1>7, RelaunchKeepsInv
<1>8. CASE RefreshCheck \/ RefreshLeave \/ RefreshFails
  BY <1>8, OtherKeepsInv DEF RefreshCheck, RefreshLeave, RefreshFails, handle,
     processes, Inv, TypeOK
<1>9. CASE RefreshAnswered
  BY <1>9, OtherKeepsInv DEF RefreshAnswered, handle, processes, Inv, TypeOK
<1>10. CASE RefreshStore
  BY <1>10, OtherKeepsInv DEF RefreshStore, processes, Inv, TypeOK
<1>11. CASE Tick
  <2>1. TypeOK'
    BY <1>11 DEF Tick, handle, refreshing, processes, Inv, TypeOK
  <2>2. QED
    BY <1>11, <2>1, OtherKeepsInv DEF Tick, handle
<1>12. CASE UNCHANGED vars
  <2>1. TypeOK'
    BY <1>12 DEF vars, handle, refreshing, processes, Inv, TypeOK
  <2>2. QED
    BY <1>12, <2>1, OtherKeepsInv DEF vars, handle
<1>13. QED
  BY <1>1, <1>2, <1>3, <1>4, <1>5, <1>6, <1>7, <1>8, <1>9, <1>10, <1>11, <1>12
     DEF Next, Environment, System

LEMMA InitInv == Init => Inv
<1> SUFFICES ASSUME Init PROVE Inv
  OBVIOUS
<1>1. restarts \in Seq(Nat) /\ granted \in Seq(Nat)
  BY EmptySeq DEF Init
<1>2. TypeOK
  BY <1>1 DEF Init, TypeOK
<1>3. QED
  BY <1>2 DEF Init, Inv, ChildIsCurrent, GenerationsGivenOut, CurrentIsTracked,
     OwnedProcess

\* The strengthened invariant holds in every reachable state.
THEOREM Invariance == Spec => []Inv
  BY InitInv, NextKeepsInv, PTL DEF Spec

\* The types of the handle, the processes and the threads.
THEOREM TypeCorrect == Spec => []TypeOK
  BY Invariance, PTL DEF Inv

\* Whatever is alive is the tracked child or survived a failed kill
\* (core.rs:491-502, 567-666).
THEOREM NoProcessIsLost == Spec => []OwnedProcess
  BY Invariance, PTL DEF Inv

\* After a stop, no event loop and no pending restart carries the handle's
\* generation (core.rs:491-502, 567-666).
THEOREM StopIsFinal == Spec => []StoppedIsFinal
<1>1. Inv => StoppedIsFinal
  BY SidecarAssumption DEF Inv, TypeOK, CurrentIsTracked, GenerationsGivenOut,
     StoppedIsFinal
<1>2. QED
  BY <1>1, Invariance, PTL

(***************************************************************************)
(* The restart budget                                                      *)
(***************************************************************************)

Popped == Len(granted) - Len(restarts)

\* The handle's restarts are the last ones granted, and the ones it dropped
\* have left the window.
WindowInv ==
    /\ Popped >= 0
    /\ \A i \in 1 .. Len(restarts) : restarts[i] = granted[Popped + i]
    /\ \A i \in 1 .. Popped : now - granted[i] > RestartWindow
    /\ CrashLoopIsCut

\* Granting a restart when fewer than RestartMax are recent keeps the budget.
LEMMA TerminatedKeepsWindow ==
    ASSUME TypeOK, WindowInv, NEW g, TerminatedCurrent(g), now' = now
    PROVE  WindowInv'
<1> USE SidecarAssumption
<1>1. /\ Len(restarts) \in Nat /\ Len(granted) \in Nat /\ now \in Nat
      /\ DOMAIN granted = 1 .. Len(granted)
      /\ \A i \in 1 .. Len(granted) : granted[i] \in Nat
  BY LenProperties, ElementOfSeq DEF TypeOK
<1>2. CASE UNCHANGED <<restarts, granted>>
  BY <1>2 DEF WindowInv, Popped, CrashLoopIsCut
<1>3. ASSUME NEW k \in 0 .. Len(restarts), Pops(k)
      PROVE  \A i \in 1 .. Len(granted) - (Len(restarts) - k) :
                now - granted[i] > RestartWindow
  <2>1. TAKE i \in 1 .. Len(granted) - (Len(restarts) - k)
  <2>2. CASE i <= Popped
    BY <2>2, <1>1 DEF WindowInv, Popped
  <2>3. CASE i > Popped
    <3>1. i - Popped \in 1 .. k /\ i = Popped + (i - Popped)
      BY <1>1, <2>3 DEF Popped
    <3>2. granted[i] = restarts[i - Popped]
      BY <1>1, <3>1 DEF WindowInv
    <3>3. QED
      BY <1>3, <3>1, <3>2 DEF Pops
  <2>4. QED
    BY <1>1, <2>2, <2>3 DEF Popped
<1>4. ASSUME NEW k \in 0 .. Len(restarts), Pops(k),
             restarts' = Recent(k), granted' = granted
      PROVE  WindowInv'
  <2>1. Popped' = Len(granted) - (Len(restarts) - k) /\ Len(restarts') = Len(restarts) - k
    BY <1>4, RecentProperties DEF Popped
  <2>2. \A i \in 1 .. Len(restarts') : restarts'[i] = granted'[Popped' + i]
    BY <1>1, <1>4, <2>1, RecentProperties DEF WindowInv, Popped
  <2>3. QED
    BY <1>1, <1>3, <1>4, <2>1, <2>2 DEF WindowInv, Popped, CrashLoopIsCut
<1>5. ASSUME NEW k \in 0 .. Len(restarts), Pops(k), Len(Recent(k)) < RestartMax,
             restarts' = Append(Recent(k), now), granted' = Append(granted, now)
      PROVE  WindowInv'
  <2> DEFINE n == Len(granted)
             r == Len(restarts) - k
  <2>1. /\ Len(Recent(k)) = r /\ Recent(k) \in Seq(Nat) /\ r \in Nat /\ n \in Nat
        /\ r < RestartMax
    BY <1>1, <1>5, RecentProperties
  <2>2. /\ Len(granted') = n + 1 /\ granted'[n + 1] = now
        /\ \A i \in 1 .. n : granted'[i] = granted[i]
        /\ DOMAIN granted' = 1 .. n + 1
    BY <1>1, <1>5, AppendProperties, LenProperties DEF TypeOK
  <2>3. /\ Len(restarts') = r + 1 /\ restarts'[r + 1] = now
        /\ \A i \in 1 .. r : restarts'[i] = Recent(k)[i]
    BY <1>1, <1>5, <2>1, AppendProperties
  <2>4. Popped' = n - r /\ Popped' >= 0 /\ Popped = n - Len(restarts)
    BY <1>1, <2>1, <2>2, <2>3 DEF Popped, WindowInv
  <2>5. \A i \in 1 .. Len(restarts') : restarts'[i] = granted'[Popped' + i]
    <3>1. TAKE i \in 1 .. Len(restarts')
    <3>2. CASE i = r + 1
      BY <2>1, <2>2, <2>3, <2>4, <3>2
    <3>3. CASE i \in 1 .. r
      <4>1. restarts'[i] = restarts[k + i]
        BY <2>3, <3>3, RecentProperties
      <4>2. restarts[k + i] = granted[Popped + (k + i)]
        BY <1>1, <2>1, <3>3 DEF WindowInv
      <4>3. Popped + (k + i) = Popped' + i /\ Popped' + i \in 1 .. n
        BY <1>1, <2>1, <2>4, <3>3
      <4>4. QED
        BY <2>2, <4>1, <4>2, <4>3
    <3>4. QED
      BY <2>1, <2>3, <3>2, <3>3
  <2>6. \A i \in 1 .. Popped' : now - granted[i] > RestartWindow
    BY <1>3, <1>5, <2>4
  <2>7. \A i \in 1 .. Popped' : now' - granted'[i] > RestartWindow
    BY <2>1, <2>2, <2>4, <2>6
  <2>8. CrashLoopIsCut'
    <3>1. SUFFICES ASSUME NEW i \in 1 .. n + 1, i > RestartMax
                   PROVE  granted'[i] - granted'[i - RestartMax] > RestartWindow
      BY <2>2 DEF CrashLoopIsCut
    <3>2. CASE i \in 1 .. n
      <4>1. granted[i] - granted[i - RestartMax] > RestartWindow
        BY <1>1, <3>1, <3>2 DEF WindowInv, CrashLoopIsCut
      <4>2. i - RestartMax \in 1 .. n
        BY <2>1, <3>1, <3>2
      <4>3. QED
        BY <2>2, <3>2, <4>1, <4>2
    <3>3. CASE i = n + 1
      <4>1. i - RestartMax \in 1 .. Popped' /\ i - RestartMax \in 1 .. n
        BY <2>1, <2>4, <3>1, <3>3
      <4>2. QED
        BY <2>2, <2>6, <3>3, <4>1
    <3>4. QED
      BY <3>2, <3>3
  <2>9. QED
    BY <2>4, <2>5, <2>7, <2>8 DEF WindowInv
<1>6. QED
  BY <1>2, <1>4, <1>5 DEF TerminatedCurrent

\* However crashes, commands and the clock interleave, a crash loop is cut
\* (core.rs:639-653).
THEOREM BudgetHolds == Spec => []CrashLoopIsCut
<1> USE SidecarAssumption
<1>1. Init => WindowInv
  BY EmptySeq DEF Init, WindowInv, Popped, CrashLoopIsCut
<1>2. TypeOK /\ WindowInv /\ [Next]_vars => WindowInv'
  <2> SUFFICES ASSUME TypeOK, WindowInv, [Next]_vars PROVE WindowInv'
    OBVIOUS
  <2>1. CASE UNCHANGED <<restarts, granted, now>>
    BY <2>1 DEF WindowInv, Popped, CrashLoopIsCut
  <2>2. CASE StartSettle
    <3>1. restarts' = <<>> /\ granted' = <<>> /\ Len(<<>>) = 0
      BY <2>2, EmptySeq DEF StartSettle
    <3>2. QED
      BY <3>1 DEF WindowInv, Popped, CrashLoopIsCut
  <2>3. CASE Tick
    <3>1. now' = now + 1 /\ UNCHANGED <<restarts, granted>>
      BY <2>3 DEF Tick, handle
    <3>2. /\ now \in Nat /\ Len(granted) \in Nat /\ Len(restarts) \in Nat
          /\ \A i \in 1 .. Len(granted) : granted[i] \in Nat
      BY LenProperties, ElementOfSeq DEF TypeOK
    <3>3. ASSUME NEW i \in 1 .. Popped
          PROVE  now' - granted[i] > RestartWindow
      <4>1. i \in 1 .. Len(granted) /\ now - granted[i] > RestartWindow
        BY <3>2 DEF WindowInv, Popped
      <4>2. QED
        BY <3>1, <3>2, <4>1
    <3>4. QED
      BY <3>1, <3>3 DEF WindowInv, Popped, CrashLoopIsCut
  <2>4. CASE \E g \in loops : OnTerminated(g)
    BY <2>1, <2>4, TerminatedKeepsWindow DEF OnTerminated, handle
  <2>5. QED
    BY <2>1, <2>2, <2>3, <2>4 DEF Next, Environment, System, vars, handle,
       RequestStart, RequestStop, RequestRestart, QuitStop, Crash, StartCheck,
       StartSpawn, Exit, Relaunch, RefreshCheck, RefreshLeave, RefreshFails,
       RefreshAnswered, RefreshStore, SpawnProcess, StopSidecar
<1>3. QED
  BY <1>1, <1>2, TypeCorrect, PTL DEF Spec, WindowInv

(***************************************************************************)
(* The handle implements the supervisor                                    *)
(***************************************************************************)

Owned == child \in live
Wanted == child # NoCore \/ (generation \in relaunch /\ ~manualStop)
Asked == command = "spawn"

\* stop_sidecar maps to the supervisor's Stop, whether or not the kill succeeds.
LEMMA StopMaps ==
    ASSUME Inv, NEW killed \in KillOutcomes, StopSidecar(killed),
           Asked' = Asked
    PROVE  Supervisor!Stop
<1>1. ~Owned'
  BY SidecarAssumption DEF StopSidecar, Owned, Inv, TypeOK, Generations
<1>2. ~Wanted'
  BY DEF StopSidecar, Wanted
<1>3. QED
  BY <1>1, <1>2 DEF Supervisor!Stop, Owned, Wanted, Asked

\* A step that neither changes what the supervisor sees nor asks is a stutter.
LEMMA StutterMaps ==
    ASSUME UNCHANGED <<child, generation, manualStop, live, relaunch>>
    PROVE  Owned' = Owned /\ Wanted' = Wanted
  BY DEF Owned, Wanted

\* The handle and its threads implement CoreSupervisor: no late event loop or
\* pending restart brings back a core that was stopped, and none is spawned
\* beside a live one (core.rs:478-502, 567-666).
THEOREM ImplementsCoreSupervisor == Spec => ImplementsSupervisor
<1> USE SidecarAssumption
<1>1. Init => Supervisor!Init
  BY DEF Init, Supervisor!Init
<1>2. Inv /\ Inv' /\ [Next]_vars => [Supervisor!Next]_(Supervisor!supervisorVars)
  <2> SUFFICES ASSUME Inv, Inv', [Next]_vars
               PROVE  \/ Supervisor!Next
                      \/ Owned' = Owned /\ Wanted' = Wanted /\ Asked' = Asked
    BY DEF Owned, Wanted, Asked, Supervisor!supervisorVars
  <2>1. CASE RequestStart \/ Exit
    BY <2>1, StutterMaps DEF RequestStart, Exit, handle, processes, Asked
  <2>2. CASE StartCheck
    BY <2>2, StutterMaps DEF StartCheck, handle, processes, Asked, Owned, Wanted,
       Supervisor!Next, Supervisor!Ask
  <2>3. CASE RequestStop \/ RequestRestart \/ QuitStop
    BY <2>3, StopMaps DEF RequestStop, RequestRestart, QuitStop, Asked,
       Supervisor!Next
  <2>4. CASE StartSpawn
    <3>1. CASE UNCHANGED <<handle, live, loops>>
      BY <2>4, <3>1, StutterMaps DEF StartSpawn, handle, Asked, Owned, Wanted,
         Supervisor!Next, Supervisor!Ask
    <3>2. CASE child = NoCore /\ SpawnProcess /\ command' = "settle"
      <4>1. ~Owned /\ Owned'
        BY <3>2 DEF Owned, SpawnProcess, Inv, TypeOK, Generations
      <4>2. Wanted' /\ Asked /\ ~Asked'
        BY <2>4, <3>2 DEF Wanted, Asked, SpawnProcess, StartSpawn, Inv, TypeOK
      <4>3. QED
        BY <4>1, <4>2 DEF Supervisor!Next, Supervisor!Start, Owned, Wanted, Asked
    <3>3. QED
      BY <2>4, <3>1, <3>2 DEF StartSpawn
  <2>5. CASE StartSettle
    <3>1. Owned' = Owned /\ Asked' = Asked
      BY <2>5 DEF StartSettle, processes, Owned, Asked
    <3>2. Wanted' = Wanted
      BY <2>5 DEF StartSettle, processes, Wanted, Inv,
         CurrentIsTracked
    <3>3. QED
      BY <3>1, <3>2
  <2>6. CASE \E g \in live : Crash(g)
    <3>1. PICK g \in live : Crash(g)
      BY <2>6
    <3>2. Wanted' = Wanted /\ Asked' = Asked
      BY <3>1 DEF Crash, handle, Wanted, Asked
    <3>3. CASE g = child
      BY <3>1, <3>2, <3>3 DEF Crash, handle, Owned, Wanted, Asked,
         Supervisor!Next, Supervisor!Crash
    <3>4. CASE g # child
      BY <3>1, <3>2, <3>4 DEF Crash, handle, Owned
    <3>5. QED
      BY <3>3, <3>4
  <2>7. CASE \E g \in loops : OnTerminated(g)
    <3>1. PICK g \in loops : OnTerminated(g)
      BY <2>7
    <3>2. Asked' = Asked
      BY <3>1 DEF OnTerminated, Asked
    <3>3. CASE g # generation
      BY <3>1, <3>2, <3>3, StutterMaps DEF OnTerminated, handle
    <3>4. CASE g = generation
      <4>1. child = g /\ ~Owned /\ Wanted
        BY <3>1, <3>4 DEF OnTerminated, Owned, Wanted, Inv, CurrentIsTracked,
           TypeOK, Generations
      <4>2. child' = NoCore /\ ~Owned'
        BY <3>1, <3>4 DEF OnTerminated, TerminatedCurrent, Owned, Inv, TypeOK,
           Generations
      <4>3. QED
        BY <3>2, <4>1, <4>2 DEF Supervisor!Next, Supervisor!GiveUp, Owned, Wanted,
           Asked
    <3>5. QED
      BY <3>3, <3>4
  <2>8. CASE \E g \in relaunch : Relaunch(g)
    <3>1. PICK g \in relaunch : Relaunch(g)
      BY <2>8
    <3>2. Asked' = Asked
      BY <3>1 DEF Relaunch, Asked
    <3>3. CASE ~RelaunchAllowed(g) /\ UNCHANGED <<handle, live, loops>>
      <4>1. Owned' = Owned /\ Wanted' = Wanted
        BY <3>1, <3>3 DEF Relaunch, handle, Owned, Wanted, RelaunchAllowed
      <4>2. QED
        BY <3>2, <4>1
    <3>4. CASE RelaunchAllowed(g) /\ SpawnProcess
      <4>1. ~Owned /\ Wanted
        BY <3>1, <3>4 DEF RelaunchAllowed, Owned, Wanted, Inv, TypeOK, Generations
      <4>2. Owned' /\ Wanted'
        BY <3>4 DEF SpawnProcess, Owned, Wanted, Inv, TypeOK
      <4>3. QED
        BY <3>2, <4>1, <4>2 DEF Supervisor!Next, Supervisor!Recover, Owned, Wanted,
           Asked
    <3>5. CASE RelaunchAllowed(g) /\ UNCHANGED <<handle, live, loops>>
      <4>1. ~Owned /\ Wanted /\ ~Owned'
        BY <3>1, <3>5 DEF RelaunchAllowed, handle, Owned, Wanted, Inv, TypeOK,
           Generations
      <4>2. ~Wanted'
        BY <3>1, <3>5 DEF Relaunch, RelaunchAllowed, handle, Wanted
      <4>3. QED
        BY <3>2, <4>1, <4>2 DEF Supervisor!Next, Supervisor!GiveUp, Owned, Wanted,
           Asked
    <3>6. QED
      BY <3>1, <3>3, <3>4, <3>5 DEF Relaunch
  <2>9. CASE RefreshCheck \/ RefreshLeave \/ RefreshFails \/ RefreshAnswered
    BY <2>9, StutterMaps DEF RefreshCheck, RefreshLeave, RefreshFails,
       RefreshAnswered, handle, processes, Asked
  <2>10. CASE RefreshStore \/ Tick \/ UNCHANGED vars
    BY <2>10, StutterMaps DEF RefreshStore, Tick, vars, handle, processes, Asked
  <2>11. QED
    BY <2>1, <2>2, <2>3, <2>4, <2>5, <2>6, <2>7, <2>8, <2>9, <2>10
       DEF Next, Environment, System
<1>3. QED
  BY <1>1, <1>2, Invariance, PTL DEF Spec, ImplementsSupervisor, Supervisor!Spec

=============================================================================
