--------------------------- MODULE MCSidecarCore ---------------------------
(* Small instances of SidecarCore for TLC. *)
EXTENDS SidecarCore

CONSTANTS
    MaxGeneration, \* generations an execution reaches, at most
    MaxTime        \* the clock stops there

\* Users and crashes act while there is room for what they set off: a restart
\* (two generations), a quit and an automatic restart (one each).
MCNext ==
    \/ generation + 4 <= MaxGeneration /\ Environment
    \/ System
    \/ now < MaxTime /\ Tick

MCSpec == Init /\ [][MCNext]_vars

MCFairSpec == MCSpec /\ Fairness
=============================================================================
