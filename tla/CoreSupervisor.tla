-------------------------- MODULE CoreSupervisor --------------------------
(***************************************************************************)
(* What CoreHandle (src-tauri/src/core.rs) promises to the rest of the     *)
(* application: at most one core that it owns; a core that was stopped     *)
(* comes back only because somebody asks for it; a core that died by       *)
(* itself may come back as long as nobody stopped it and nobody gave up.   *)
(***************************************************************************)

VARIABLES
    running, \* the owned core is alive
    wanted,  \* the supervisor still intends to have a core running
    asked    \* a start command has passed its check and has not spawned yet

supervisorVars == <<running, wanted, asked>>

Init == ~running /\ ~wanted /\ ~asked

\* A command asks for the core, or stops asking.
Ask == asked' = ~asked /\ UNCHANGED <<running, wanted>>

\* The start that was asked for, at most once per request.
Start ==
    /\ asked
    /\ ~running
    /\ running'
    /\ wanted'
    /\ ~asked'

Stop == ~running' /\ ~wanted' /\ asked' = asked

\* A stop that belongs to a restart is followed by a start's check.
Crash == running /\ ~running' /\ UNCHANGED <<wanted, asked>>

\* The automatic restart.
Recover == wanted /\ ~running /\ running' /\ UNCHANGED <<wanted, asked>>

\* The budget is used up, or the automatic restart could not spawn.
GiveUp == wanted /\ ~running /\ ~wanted' /\ UNCHANGED <<running, asked>>

Next == Ask \/ Start \/ Stop \/ Crash \/ Recover \/ GiveUp

Spec == Init /\ [][Next]_supervisorVars
=============================================================================
