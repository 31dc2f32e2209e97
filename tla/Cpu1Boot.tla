------------------------------ MODULE Cpu1Boot ------------------------------
(***************************************************************************)
(* 02-multi-cpu/boards/k230/cpu1.c: CPU0 powers CPU1, holds it in reset,   *)
(* sets its reset vector and releases it, against a reset manager that     *)
(* answers late or never.                                                  *)
(*                                                                         *)
(* A register is the set of its bits that read as 1.  The reset manager is *)
(* modelled from how the code uses it: a write to bit N of                 *)
(* CPU1_RST_CTL counts only with bit N + 16 set, bit 12 is cleared by      *)
(* writing 1, and bit 0 reads back the new value once it has taken.  It    *)
(* and the power manager answer at any later step or never; a request that *)
(* is open when the user parks or reloads, seconds later, has failed.  A   *)
(* core executes when it has power and its reset is released, whichever    *)
(* comes last.                                                             *)
(***************************************************************************)
EXTENDS Naturals

CONSTANTS PowerPolls, HoldPolls   \* 2000 and 500 in the code

ASSUME PowerPollsAssumption == PowerPolls \in Nat
ASSUME HoldPollsAssumption == HoldPolls \in Nat

VARIABLES
    pc, i,
    pre_hold_ok, assert_ok, released,   \* struct cpu1_boot_result
    \* hardware
    ctl,      \* CPU1_RST_CTL as it reads
    want,     \* bit 0 of CPU1_RST_CTL as last written
    lpi,      \* CPU1_PWR_LPI_STATE bit 1: CPU1 is powered
    rstvec,   \* CPU1_HART_RSTVEC: "entry" or not
    core      \* what CPU1 executes: nothing, what this boot's release or an
              \* earlier one's started, or what a junk vector points at

result == <<pre_hold_ok, assert_ok, released>>
hw == <<ctl, want, lpi, rstvec, core>>
vars == <<pc, i, result, hw>>

RESET == 0
DONE == 12
CtlBits == {RESET, DONE, 13}

BeforeDeassert == {"power_test", "power_poll", "power_commit", "hold_test",
                   "hold_poll", "vector", "clear_done", "assert",
                   "assert_wait", "deassert"}

\* A cold start (the register reads 0x2001), or a reload with CPU1 running or
\* held.
Init ==
    /\ pc = "power_test" /\ i = 0
    /\ pre_hold_ok = 0 /\ assert_ok = 0 /\ released = 0
    /\ \/ /\ ctl = {RESET, 13} /\ core = "held"
          /\ lpi \in {0, 1} /\ rstvec = "junk"
       \/ /\ ctl \in {{}, {DONE}} /\ core = "old" /\ lpi = 1 /\ rstvec = "entry"
       \/ /\ ctl \in {{RESET}, {RESET, DONE}} /\ core = "held"
          /\ lpi = 1 /\ rstvec = "entry"
    /\ want = IF RESET \in ctl THEN 1 ELSE 0

\* The word data is stored to CPU1_RST_CTL.
RstWrite(data) ==
    LET enabled == {n \in 0..15 : n + 16 \in data}
    IN  /\ want' = IF RESET \in enabled
                   THEN (IF RESET \in data THEN 1 ELSE 0) ELSE want
        /\ ctl' = IF DONE \in enabled /\ DONE \in data THEN ctl \ {DONE} ELSE ctl

rst_masked == ctl \intersect {RESET}

-----------------------------------------------------------------------------
(* cpu1_power_on                                                           *)

PowerTest ==
    /\ pc = "power_test" /\ i' = 0
    /\ pc' = IF lpi = 1 THEN "hold_test" ELSE "power_poll"
    /\ UNCHANGED <<result, hw>>

\* Mutant: the poll has no limit.
PowerPollForever ==
    /\ pc = "power_poll" /\ lpi = 1 /\ pc' = "power_commit"
    /\ UNCHANGED <<i, result, hw>>

\* limit is the loop's condition on i.
PollPower(limit) ==
    /\ pc = "power_poll"
    /\ IF limit /\ lpi = 0
       THEN i' = i + 1 /\ UNCHANGED pc
       ELSE pc' = "power_commit" /\ UNCHANGED i
    /\ UNCHANGED <<result, hw>>

PowerPoll == PollPower(i < PowerPolls)

\* Whether the power came is not looked at.
PowerCommit ==
    /\ pc = "power_commit" /\ pc' = "hold_test"
    /\ UNCHANGED <<i, result, hw>>

(* force_hold_reset                                                        *)

HoldTest ==
    /\ pc = "hold_test" /\ i' = 0
    /\ IF RESET \in ctl
       THEN /\ pc' = "vector" /\ pre_hold_ok' = 1 /\ UNCHANGED <<ctl, want>>
       ELSE /\ pc' = "hold_poll" /\ RstWrite(rst_masked \union {RESET, 16})
            /\ UNCHANGED pre_hold_ok
    /\ UNCHANGED <<assert_ok, released, lpi, rstvec, core>>

HoldPoll ==
    /\ pc = "hold_poll"
    /\ \/ /\ i < HoldPolls /\ RESET \in ctl
          /\ pc' = "vector" /\ pre_hold_ok' = 1 /\ UNCHANGED i
       \/ /\ i < HoldPolls /\ RESET \notin ctl
          /\ i' = i + 1 /\ UNCHANGED <<pc, pre_hold_ok>>
       \/ /\ i = HoldPolls
          /\ pc' = "vector" /\ pre_hold_ok' = 0 /\ UNCHANGED i
    /\ UNCHANGED <<assert_ok, released, hw>>

(* cpu1_boot, from the reset vector on                                     *)

\* Mutant: CPU1_HART_RSTVEC is not written.
NoVector ==
    /\ pc = "vector" /\ pc' = "clear_done" /\ UNCHANGED <<i, result, hw>>

SetVector ==
    /\ pc = "vector" /\ pc' = "clear_done" /\ rstvec' = "entry"
    /\ UNCHANGED <<i, result, ctl, want, lpi, core>>

WriteCtl(from, to, data) ==
    /\ pc = from /\ pc' = to /\ RstWrite(rst_masked \union data)
    /\ UNCHANGED <<i, result, lpi, rstvec, core>>

\* Mutant: bit 0 is left out of the word and its write enable is set.
ClearDoneReleases ==
    /\ pc = "clear_done" /\ pc' = "assert" /\ RstWrite({DONE, 28, 16})
    /\ UNCHANGED <<i, result, lpi, rstvec, core>>

ClearDone == WriteCtl("clear_done", "assert", {DONE, 28})
Assert == WriteCtl("assert", "assert_wait", {RESET, 16})

\* Mutant: the register is not read back.
TrustAssert ==
    /\ pc = "assert_wait" /\ pc' = "deassert" /\ assert_ok' = 1
    /\ UNCHANGED <<i, pre_hold_ok, released, hw>>

ReadAssert ==
    /\ pc = "assert_wait" /\ pc' = "deassert"
    /\ assert_ok' = IF RESET \in ctl THEN 1 ELSE 0
    /\ UNCHANGED <<i, pre_hold_ok, released, hw>>

\* The release is written whether or not the assert took.
Deassert ==
    /\ pc = "deassert" /\ pc' = "release_wait"
    /\ RstWrite((rst_masked \ {RESET}) \union {16})
    /\ UNCHANGED <<i, result, lpi, rstvec, core>>

ReadReleased ==
    /\ pc = "release_wait" /\ pc' = "returned"
    /\ released' = IF RESET \in ctl THEN 0 ELSE 1
    /\ UNCHANGED <<i, pre_hold_ok, assert_ok, hw>>

(* cpu1_hold_reset, from the menu; and a reload, which boots CPU1 again    *)

Park == WriteCtl("returned", "parked", {RESET, 16})

Reload ==
    /\ pc \in {"returned", "parked"} /\ pc' = "power_test" /\ i' = 0
    /\ pre_hold_ok' = 0 /\ assert_ok' = 0 /\ released' = 0
    /\ core' = IF core = "fresh" THEN "old" ELSE core
    /\ want' = IF RESET \in ctl THEN 1 ELSE 0
    /\ UNCHANGED <<ctl, lpi, rstvec>>

-----------------------------------------------------------------------------
(* The power and reset managers                                            *)

\* What a CPU1 fetches that a release of boot b lets go.
Fetch(b) == IF rstvec = "entry" THEN b ELSE "lost"

\* The requested power comes.  A CPU1 whose reset is not asserted starts at
\* once, by the release of this boot or of one before it.
PowerUp ==
    /\ lpi = 0 /\ pc \notin {"power_test", "parked"} /\ lpi' = 1
    /\ core' = IF RESET \in ctl THEN core
               ELSE Fetch(IF pc \in BeforeDeassert THEN "old" ELSE "fresh")
    /\ UNCHANGED <<pc, i, result, ctl, want, rstvec>>

AssertTakes ==
    /\ want = 1 /\ RESET \notin ctl
    /\ ctl' = ctl \union {RESET} /\ core' = "held"
    /\ UNCHANGED <<pc, i, result, want, lpi, rstvec>>

\* Bit 0 was written as 0, whenever and by whatever word.
DeassertTakes ==
    /\ want = 0 /\ RESET \in ctl
    /\ ctl' = ctl \ {RESET}
    /\ core' = IF lpi = 0 THEN core ELSE Fetch("fresh")
    /\ UNCHANGED <<pc, i, result, want, lpi, rstvec>>

\* The done bit follows a release by an unknown time.
DoneRises ==
    /\ core = "fresh" /\ DONE \notin ctl /\ ctl' = ctl \union {DONE}
    /\ UNCHANGED <<pc, i, result, want, lpi, rstvec, core>>

Cpu0 == \/ PowerTest \/ PowerPoll \/ PowerCommit \/ HoldTest \/ HoldPoll
        \/ SetVector \/ ClearDone \/ Assert \/ ReadAssert \/ Deassert
        \/ ReadReleased

Hardware == PowerUp \/ AssertTakes \/ DeassertTakes \/ DoneRises

Next == Cpu0 \/ Park \/ Reload \/ Hardware

Spec == Init /\ [][Next]_vars

\* CPU0 keeps executing; the hardware need not answer, nor the user ask.
FairSpec == Spec /\ WF_vars(Cpu0)

-----------------------------------------------------------------------------
TypeOK ==
    /\ pc \in BeforeDeassert \union {"release_wait", "returned", "parked"}
    /\ i \in Nat
    /\ pc = "power_poll" => i <= PowerPolls
    /\ pc = "hold_poll" => i <= HoldPolls
    /\ pre_hold_ok \in {0, 1} /\ assert_ok \in {0, 1} /\ released \in {0, 1}
    /\ ctl \subseteq CtlBits /\ want \in {0, 1} /\ lpi \in {0, 1}
    /\ rstvec \in {"junk", "entry"} /\ core \in {"held", "old", "fresh", "lost"}

\* CPU1 never runs from a reset vector this code has not set, however late its
\* power, its hold and its release come.
VectorFirst == core # "lost"

\* What the silence of report_boot_result is worth.  It looks at the two
\* read-backs of the reset bit alone: when both are good, CPU1 was stopped and
\* was let go by this boot, so that it executes this boot's code or, without
\* power, nothing; never what an earlier boot started.  Of a power-on poll that
\* timed out it says nothing: that is left to the wait for alive.
ReadBacksVouch ==
    pc = "returned" /\ assert_ok = 1 /\ released = 1
        => core = "fresh" \/ (core = "held" /\ lpi = 0)

\* The registers implement the abstract reset line.
phase == CASE pc \in BeforeDeassert -> "hold"
           [] pc = "release_wait" -> "release"
           [] OTHER -> pc
Line == INSTANCE ResetLine
LineSpec == Line!Spec

\* cpu1_boot returns even if the hardware never answers.
BootReturns == pc = "power_test" ~> pc = "returned"

=============================================================================
