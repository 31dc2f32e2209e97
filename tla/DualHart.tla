------------------------------ MODULE DualHart ------------------------------
(***************************************************************************)
(* 02-multi-cpu: CPU0 (main.c) boots CPU1 (hart1_main.c) and then drives   *)
(* it from a menu.  The two harts share a block of SRAM (shmem.c) and one  *)
(* CLINT software-interrupt bit (clint.c).                                 *)
(*                                                                         *)
(* One action is one access to a shared word, or one stretch of code that  *)
(* ends before the next access.  The shared words are volatile and fenced, *)
(* and memory is sequentially consistent.  tick, entry_pc and seq are      *)
(* written and never read by the code, so they are left out.               *)
(***************************************************************************)
EXTENDS Naturals

CONSTANTS
    MaxIpi,       \* bound: IPIs the user sends
    MaxSpurious,  \* bound: times wfi resumes with no interrupt pending
    MaxReload,    \* bound: times J-Link reloads CPU0 without a power cycle
    JunkCounts    \* what the counters of the uninitialised SRAM may hold

ASSUME MaxIpiAssumption == MaxIpi \in Nat
ASSUME MaxSpuriousAssumption == MaxSpurious \in Nat
ASSUME MaxReloadAssumption == MaxReload \in Nat
ASSUME JunkCountsAssumption == JunkCounts \subseteq Nat

Modes == {"RUNNING", "SOFT_LOOP", "WFI_SLEEP"}
States == Modes \union {"RESET", "UNKNOWN"}
UserCmds == {"GO_RUNNING", "GO_SOFT_LOOP", "GO_WFI"}
Cmds == UserCmds \union {"NONE", "JUNK"}

VARIABLES
    \* struct cpu1_shmem
    alive, state, cmd, wake_count, ipi_seen, console_ready,
    msip,      \* CLINT MSIP of hart 1
    \* CPU0
    pc0,
    verdict,   \* what CPU0 has printed about CPU1
    \* CPU1, which has power (Cpu1Boot models that it may not)
    pc1,       \* "held" iff CPU1_RST_CTL bit 0 reads 1
    mode, got, \* locals of hart1_main (got is its cmd)
    tmp,       \* register of a read-modify-write of a counter
    msie,      \* mie.MSIE of CPU1
    \* history
    stale,     \* 1: CPU1 was not reset since CPU0 last started
    sent, spur,  \* IPIs and spurious resumptions since CPU0 last started with
                 \* CPU1 held
    reloads

shmem == <<alive, state, cmd, wake_count, ipi_seen, console_ready>>
counts == <<wake_count, ipi_seen>>
local1 == <<mode, got, tmp, msie>>
hist == <<stale, sent, spur, reloads>>
cpu0 == <<pc0, verdict>>
vars == <<shmem, msip, cpu0, pc1, local1, hist>>

\* Where CPU1 is between its reset and the wait for the console.
StartUp == {"entry", "mark", "boot_clear"}
\* Where CPU1 writes to the UART.
Saying == {"say_wfi", "say_wake", "say_ipi", "say_tick"}
\* From publishing WFI_SLEEP to publishing RUNNING again.
Asleep == {"say_wfi", "sleep_clear", "wfi", "wake_clear", "wake_read",
           "wake_write"}
ProgramCounters1 ==
    {"held", "console", "console_delay", "loop", "take", "sleep", "soft",
     "soft_poll", "seen_read", "seen_write", "soft_clear", "run", "run_poll",
     "run_delay"} \union StartUp \union Saying \union Asleep
\* CPU0 in shmem_init, then on its way to releasing CPU1, then until it opens
\* the console to CPU1, and after.
Initialising == {"shmem_init", "init_state", "init_cmd", "init_wake",
                 "init_seen", "init_console"}
BeforeRelease == Initialising \union {"ipi_clear", "banner", "hold"}
Booting == BeforeRelease \union {"release", "wait", "report", "ready"}
Serving == {"help", "menu", "probe", "parked"}

Init ==
    /\ alive \in {0, 1} /\ state \in States /\ cmd \in Cmds
    /\ wake_count \in JunkCounts /\ ipi_seen \in JunkCounts
    /\ console_ready \in {0, 1}
    /\ msip \in {0, 1}
    /\ pc0 = "shmem_init" /\ verdict = "none"
    /\ pc1 = "held" /\ mode = "RUNNING" /\ got = "NONE" /\ tmp = 0 /\ msie = 0
    /\ stale = 0 /\ sent = 0 /\ spur = 0 /\ reloads = 0

-----------------------------------------------------------------------------
(* Stretches of code that touch one shared word or none                    *)

\* CPU0 prints, waits or maintains its caches.
Local0(from, to) ==
    /\ pc0 = from /\ pc0' = to
    /\ UNCHANGED <<shmem, msip, verdict, pc1, local1, hist>>

\* CPU1 prints or computes.
Local1(from, to) ==
    /\ pc1 = from /\ pc1' = to
    /\ UNCHANGED <<shmem, msip, cpu0, local1, hist>>

SetState(from, st, to) ==
    /\ pc1 = from /\ pc1' = to /\ state' = st
    /\ UNCHANGED <<alive, cmd, counts, console_ready, msip, cpu0, local1, hist>>

ClearMsip(from, to) ==
    /\ pc1 = from /\ pc1' = to /\ msip' = 0
    /\ UNCHANGED <<shmem, cpu0, local1, hist>>

-----------------------------------------------------------------------------
(* CPU0: main()                                                            *)

\* Mutant: the call is missing.
NoShmemInit == Local0("shmem_init", "ipi_clear")

\* After a reload the CPU1 of before may still run between any two stores.
ShmemInit ==
    /\ \/ /\ pc0 = "shmem_init" /\ pc0' = "init_state" /\ alive' = 0
          /\ UNCHANGED <<state, cmd, counts, console_ready>>
       \/ /\ pc0 = "init_state" /\ pc0' = "init_cmd" /\ state' = "RESET"
          /\ UNCHANGED <<alive, cmd, counts, console_ready>>
       \/ /\ pc0 = "init_cmd" /\ pc0' = "init_wake" /\ cmd' = "NONE"
          /\ UNCHANGED <<alive, state, counts, console_ready>>
       \/ /\ pc0 = "init_wake" /\ pc0' = "init_seen" /\ wake_count' = 0
          /\ UNCHANGED <<alive, state, cmd, ipi_seen, console_ready>>
       \/ /\ pc0 = "init_seen" /\ pc0' = "init_console" /\ ipi_seen' = 0
          /\ UNCHANGED <<alive, state, cmd, wake_count, console_ready>>
       \/ /\ pc0 = "init_console" /\ pc0' = "ipi_clear" /\ console_ready' = 0
          /\ UNCHANGED <<alive, state, cmd, counts>>
    /\ UNCHANGED <<msip, verdict, pc1, local1, hist>>

IpiClear ==
    /\ pc0 = "ipi_clear" /\ pc0' = "banner"
    /\ msip' = 0
    /\ UNCHANGED <<shmem, verdict, pc1, local1, hist>>

\* Escape sequences, print_boot_banner and the cache flushes.
Banner == Local0("banner", "hold")

\* cpu1_boot: CPU0 goes on whether or not the reset manager answers.
\* Mutant: cpu1_boot returns without releasing CPU1.
HoldReturns == Local0("hold", "wait")
HoldDone == Local0("hold", "release")
ReleaseDone == Local0("release", "wait")

\* The asserted reset, of cpu1_boot or of park_for_jlink, takes.
HoldTakes ==
    /\ pc0 \in {"hold", "parked"} /\ pc1 # "held" /\ pc1' = "held"
    /\ UNCHANGED <<shmem, msip, cpu0, local1, hist>>

\* The released reset takes, in cpu1_boot or long after it: CPU1 starts at
\* _hart1_entry, and hart1_main will have a fresh frame.
ReleaseTakes ==
    /\ pc0 \notin BeforeRelease \union {"parked"}
    /\ pc1 = "held" /\ pc1' = "entry"
    /\ mode' = "RUNNING" /\ got' = "NONE" /\ tmp' = 0 /\ msie' = 0
    /\ stale' = 0
    /\ UNCHANGED <<shmem, msip, cpu0, sent, spur, reloads>>

WaitAlive ==
    /\ pc0 = "wait" /\ alive = 1
    /\ pc0' = "report" /\ verdict' = "ok"
    /\ UNCHANGED <<shmem, msip, pc1, local1, hist>>

\* Mutant: no limit on the polls.
WaitForever == FALSE
\* The 800 polls are used up.  How long CPU1 takes to start is not modelled,
\* so this may happen whenever alive is still 0.
WaitGiveUp ==
    /\ pc0 = "wait" /\ alive = 0
    /\ pc0' = "report" /\ verdict' = "no_shmem"
    /\ UNCHANGED <<shmem, msip, pc1, local1, hist>>

Report == Local0("report", "ready")

ConsoleReady ==
    /\ pc0 = "ready" /\ pc0' = "help"
    /\ console_ready' = 1
    /\ UNCHANGED <<alive, state, cmd, counts, msip, verdict, pc1, local1, hist>>

PrintHelp == Local0("help", "menu")

\* Keys 1, 2 and 3.  A command CPU1 has not read yet is overwritten.
MenuCmd(k) ==
    /\ pc0 = "menu" /\ cmd' = k
    /\ UNCHANGED <<alive, state, counts, console_ready, msip, cpu0, pc1,
                   local1, hist>>

\* Key i.  A CPU1 in hard reset is skipped.
MenuIpi ==
    /\ pc0 = "menu" /\ pc1 # "held" /\ sent < MaxIpi
    /\ pc0' = "probe" /\ msip' = 1 /\ sent' = sent + 1
    /\ UNCHANGED <<shmem, verdict, pc1, local1, stale, spur, reloads>>

ProbeDone == Local0("probe", "menu")

\* Key c.
MenuClear ==
    /\ pc0 = "menu" /\ msip' = 0
    /\ UNCHANGED <<shmem, cpu0, pc1, local1, hist>>

\* Key q.  cpu1_hold_reset does not look whether the reset took.
MenuPark == Local0("menu", "parked")

Parked == pc0 = "parked" /\ UNCHANGED vars

-----------------------------------------------------------------------------
(* CPU1: _hart1_entry and hart1_main()                                     *)

\* start.S publishes alive before hart1_main does.
Entry ==
    /\ pc1 = "entry" /\ pc1' = "mark" /\ alive' = 1
    /\ UNCHANGED <<state, cmd, counts, console_ready, msip, cpu0, local1, hist>>

MarkAlive ==
    /\ pc1 = "mark" /\ pc1' = "boot_clear"
    /\ alive' = 1 /\ state' = "RUNNING"
    /\ UNCHANGED <<cmd, counts, console_ready, msip, cpu0, local1, hist>>

\* Mutant: MSIE is left disabled.
BootWithoutMsie == ClearMsip("boot_clear", "console")
BootClear ==
    /\ pc1 = "boot_clear" /\ pc1' = "console"
    /\ msie' = 1 /\ msip' = 0
    /\ UNCHANGED <<shmem, cpu0, mode, got, tmp, hist>>

\* Mutant: CPU1 does not wait for the console.
SkipConsole == Local1("console", "loop")
WaitConsole ==
    /\ pc1 = "console"
    /\ pc1' = IF console_ready = 0 THEN "console_delay" ELSE "loop"
    /\ UNCHANGED <<shmem, msip, cpu0, local1, hist>>

\* delay_ms spins on mcycle, which is taken to count on CPU1.
ConsoleDelay == Local1("console_delay", "console")

\* Where an iteration of the loop goes once its command is dealt with.
Branch(m) == CASE m = "WFI_SLEEP" -> "sleep"
               [] m = "SOFT_LOOP" -> "soft"
               [] OTHER -> "run"

ModeAfter(c, m) == CASE c = "GO_RUNNING" -> "RUNNING"
                     [] c = "GO_SOFT_LOOP" -> "SOFT_LOOP"
                     [] c = "GO_WFI" -> "WFI_SLEEP"
                     [] OTHER -> m

ReadCmd ==
    /\ pc1 = "loop" /\ got' = cmd
    /\ pc1' = IF cmd = "NONE" THEN Branch(mode) ELSE "take"
    /\ UNCHANGED <<shmem, msip, cpu0, mode, tmp, msie, hist>>

TakeCmd ==
    /\ pc1 = "take" /\ cmd' = "NONE" /\ got' = "NONE"
    /\ mode' = ModeAfter(got, mode) /\ pc1' = Branch(mode')
    /\ UNCHANGED <<alive, state, counts, console_ready, msip, cpu0, tmp, msie,
                   hist>>

\* Mutant: WFI_SLEEP is not published.
SleepUnpublished == Local1("sleep", "say_wfi")
Sleep == SetState("sleep", "WFI_SLEEP", "say_wfi")
SayWfi == Local1("say_wfi", "sleep_clear")
SleepClear == ClearMsip("sleep_clear", "wfi")

\* wfi resumes on a pending interrupt that mie enables.
Wake ==
    /\ pc1 = "wfi" /\ msip = 1 /\ msie = 1
    /\ pc1' = "wake_clear"
    /\ UNCHANGED <<shmem, msip, cpu0, local1, hist>>

\* wfi is a hint: it may resume for no reason.
WakeSpurious ==
    /\ pc1 = "wfi" /\ spur < MaxSpurious
    /\ pc1' = "wake_clear" /\ spur' = spur + 1
    /\ UNCHANGED <<shmem, msip, cpu0, local1, stale, sent, reloads>>

WakeClear == ClearMsip("wake_clear", "wake_read")

WakeRead ==
    /\ pc1 = "wake_read" /\ pc1' = "wake_write" /\ tmp' = wake_count
    /\ UNCHANGED <<shmem, msip, cpu0, mode, got, msie, hist>>

WakeWrite ==
    /\ pc1 = "wake_write" /\ pc1' = "say_wake"
    /\ wake_count' = tmp + 1 /\ state' = "RUNNING"
    /\ UNCHANGED <<alive, cmd, ipi_seen, console_ready, msip, cpu0, local1, hist>>

SayWake ==
    /\ pc1 = "say_wake" /\ pc1' = "loop" /\ mode' = "RUNNING"
    /\ UNCHANGED <<shmem, msip, cpu0, got, tmp, msie, hist>>

Soft == SetState("soft", "SOFT_LOOP", "soft_poll")

\* Mutant: the soft loop never goes back for a command.
SoftPollSpins ==
    /\ pc1 = "soft_poll" /\ pc1' = IF msip = 1 THEN "seen_read" ELSE "soft"
    /\ UNCHANGED <<shmem, msip, cpu0, local1, hist>>
\* mip.MSIP mirrors the CLINT bit, so the two tests are one.
SoftPoll ==
    /\ pc1 = "soft_poll"
    /\ pc1' = IF msip = 1 THEN "seen_read" ELSE "loop"
    /\ UNCHANGED <<shmem, msip, cpu0, local1, hist>>

SeenRead ==
    /\ pc1 = "seen_read" /\ pc1' = "seen_write" /\ tmp' = ipi_seen
    /\ UNCHANGED <<shmem, msip, cpu0, mode, got, msie, hist>>

SeenWrite ==
    /\ pc1 = "seen_write" /\ pc1' = "soft_clear" /\ ipi_seen' = tmp + 1
    /\ UNCHANGED <<alive, state, cmd, wake_count, console_ready, msip, cpu0,
                   local1, hist>>

SoftClear == ClearMsip("soft_clear", "say_ipi")
SayIpi == Local1("say_ipi", "loop")

Run == SetState("run", "RUNNING", "say_tick")
SayTick == Local1("say_tick", "run_poll")

\* Up to 40 waits of 50 ms, cut short by a command.
RunPoll ==
    /\ pc1 = "run_poll"
    /\ pc1' = IF cmd = "NONE" THEN "run_delay" ELSE "loop"
    /\ UNCHANGED <<shmem, msip, cpu0, local1, hist>>

RunDelay ==
    /\ pc1 = "run_delay" /\ pc1' \in {"run_poll", "loop"}
    /\ UNCHANGED <<shmem, msip, cpu0, local1, hist>>

-----------------------------------------------------------------------------
\* J-Link loads the image again and restarts CPU0 at _start.  SRAM and CPU1
\* are left as they are.  A download takes seconds and CPU1 starts in
\* microseconds: CPU1 is past its start-up code by then, and a release that has
\* not taken has failed.
Reload ==
    /\ reloads < MaxReload /\ pc1 \notin StartUp
    /\ reloads' = reloads + 1
    /\ pc0' = "shmem_init" /\ verdict' = "none"
    /\ IF pc1 = "held"
       THEN stale' = 0 /\ sent' = 0 /\ spur' = 0
       ELSE stale' = 1 /\ UNCHANGED <<sent, spur>>
    /\ UNCHANGED <<shmem, msip, pc1, local1>>

Cpu0Boot == \/ ShmemInit \/ IpiClear \/ Banner \/ HoldDone \/ ReleaseDone
            \/ WaitAlive \/ WaitGiveUp \/ Report \/ ConsoleReady \/ PrintHelp
            \/ ProbeDone

Menu == \/ \E k \in UserCmds : MenuCmd(k)
        \/ MenuIpi \/ MenuClear \/ MenuPark

Cpu1 == \/ Entry \/ MarkAlive \/ BootClear \/ WaitConsole \/ ConsoleDelay
        \/ ReadCmd \/ TakeCmd
        \/ Sleep \/ SayWfi \/ SleepClear \/ Wake \/ WakeClear \/ WakeRead
        \/ WakeWrite \/ SayWake
        \/ Soft \/ SoftPoll \/ SeenRead \/ SeenWrite \/ SoftClear \/ SayIpi
        \/ Run \/ SayTick \/ RunPoll \/ RunDelay

\* What the hardware and the developer at the J-Link may do or not do.
Environment == HoldTakes \/ ReleaseTakes \/ WakeSpurious \/ Reload

Next == Cpu0Boot \/ Menu \/ Parked \/ Cpu1 \/ Environment

Spec == Init /\ [][Next]_vars

\* Each hart keeps executing.  Keys, reloads, spurious resumptions and the reset
\* manager's answers may never come.
FairSpec == Spec /\ WF_vars(Cpu0Boot) /\ WF_vars(Cpu1)

-----------------------------------------------------------------------------
TypeOK ==
    /\ alive \in {0, 1} /\ state \in States /\ cmd \in Cmds
    /\ wake_count \in Nat /\ ipi_seen \in Nat /\ console_ready \in {0, 1}
    /\ msip \in {0, 1}
    /\ pc0 \in Booting \union Serving /\ verdict \in {"none", "ok", "no_shmem"}
    /\ pc1 \in ProgramCounters1 /\ mode \in Modes /\ got \in Cmds
    /\ tmp \in Nat /\ msie \in {0, 1}
    /\ stale \in {0, 1}
    /\ sent \in 0..MaxIpi /\ spur \in 0..MaxSpurious /\ reloads \in 0..MaxReload

\* No wake or IPI is counted that was not sent (or was not a spurious
\* resumption): each pending bit is consumed once, by the wake path or the
\* soft loop, whatever keys, clears, reloads and resets fall in between.  A boot
\* that found CPU1 held counts only its own IPIs; one that found it running may
\* start with the counts that CPU1 stored back after shmem_init had cleared
\* them, and those are counts of real IPIs too.
NoPhantomIpi == pc0 \notin Initialising => wake_count + ipi_seen <= sent + spur

\* The state word, the only way CPU0 has to know whether CPU1 sleeps, says
\* WFI_SLEEP exactly while a CPU1 of this boot is on its sleeping path.
SleepPublished ==
    stale = 0 /\ pc1 \notin {"held", "entry", "mark"}
        => (state = "WFI_SLEEP" <=> pc1 \in Asleep)

\* A CPU1 started by this boot stays off the UART until CPU0 has opened the
\* console, though console_ready may hold 1 from before.
QuietUntilReady == stale = 0 /\ pc1 \in Saying => pc0 \in Serving

\* "cpu1: ok" is printed only for a CPU1 that this boot reset and started; an
\* alive magic left in SRAM or by an earlier CPU1 does not count.
OkMeansStarted ==
    verdict = "ok" /\ pc0 # "parked"
        => stale = 0 /\ pc1 \notin {"held", "entry"}

\* Before the first key of this boot, CPU1 obeys nothing: a command word left
\* in SRAM or posted to an earlier CPU1 is never executed.
NoOldCommand ==
    stale = 0 /\ pc1 # "held" /\ pc0 \in {"release", "wait", "report", "ready", "help"}
        => cmd = "NONE" /\ got = "NONE" /\ mode = "RUNNING"

\* The boot as this module sees it: what Cpu1Boot implements is what DualHart
\* relies on.
Line == INSTANCE ResetLine WITH
    phase <- CASE pc0 \in BeforeRelease -> "hold"
               [] pc0 \in {"release", "parked"} -> pc0
               [] OTHER -> "returned",
    core <- IF pc1 = "held" THEN "held" ELSE IF stale = 1 THEN "old" ELSE "fresh"

\* CPU1 is stopped and started only as the reset line allows: a stale CPU1 is
\* never taken for a new one, none is stopped while CPU0 serves keys, and none
\* starts that was not stopped first.
LineSpec == Line!Spec

\* CPU1 never waits for the console for ever.
ConsoleOpens == pc1 \in {"console", "console_delay"} ~> pc1 \in {"loop", "held"}

\* A command is taken by a CPU1 that neither is held nor sleeps in wfi.
CommandTaken == cmd \in UserCmds ~> (cmd = "NONE" \/ pc1 \in {"wfi", "held"})

\* An IPI pending at a CPU1 that sleeps in wfi or polls in the soft loop is
\* answered.
IpiConsumed ==
    (msip = 1 /\ pc1 \in {"wfi", "soft", "soft_poll"})
        ~> (msip = 0 \/ pc1 = "held")

\* Expected of the code and violated: a command is cleared only by a CPU1 that
\* has read it.
CommandNotLost ==
    [][(cmd \in UserCmds /\ cmd' = "NONE") => (got = cmd \/ pc0 = "init_cmd")]_vars

=============================================================================
