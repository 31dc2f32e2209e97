----------------------------- MODULE ResetLine -----------------------------
(***************************************************************************)
(* What booting CPU1 promises (02-multi-cpu, cpu1_boot and                 *)
(* cpu1_hold_reset), seen from outside: first CPU1 may be stopped, then it *)
(* may start, and only a stopped CPU1 starts.  Neither step is sure to     *)
(* happen, and the start may come after cpu1_boot has returned: the reset  *)
(* and power managers answer late or never.  Cpu1Boot implements it with   *)
(* registers; DualHart relies on it.                                       *)
(***************************************************************************)
VARIABLES
    phase,  \* "hold" | "release" | "returned" | "parked"
    core    \* what CPU1 executes: nothing, an earlier boot's code, this boot's

vars == <<phase, core>>

Init == phase = "hold" /\ core \in {"held", "old"}

\* The asserted reset takes.
Stop == phase \in {"hold", "parked"} /\ core' = "held" /\ UNCHANGED phase

ToRelease == phase = "hold" /\ phase' = "release" /\ UNCHANGED core

\* The deasserted reset takes, or a CPU1 already released gets power.
Start ==
    /\ phase \in {"release", "returned"} /\ core = "held" /\ core' = "fresh"
    /\ UNCHANGED phase

\* A CPU1 that an earlier boot released without power gets it before this boot
\* has stopped it.
StartOld == phase = "hold" /\ core = "held" /\ core' = "old" /\ UNCHANGED phase

Return == phase = "release" /\ phase' = "returned" /\ UNCHANGED core

Park == phase = "returned" /\ phase' = "parked" /\ UNCHANGED core

\* CPU0 is loaded and started again; CPU1 is not touched.
Again ==
    /\ phase' = "hold"
    /\ core' = IF core = "fresh" THEN "old" ELSE core

Next == Stop \/ ToRelease \/ Start \/ StartOld \/ Return \/ Park \/ Again

Spec == Init /\ [][Next]_vars
=============================================================================
