----------------------------- MODULE Stopwatch -----------------------------
(***************************************************************************)
(* 08-timer: the main loop (main.c) and the machine-timer interrupt        *)
(* (timer.c, trap.c) share g_ticks, g_running and the CLINT compare        *)
(* register on one hart.                                                   *)
(*                                                                         *)
(* One action of the main program is one access to a word the interrupt    *)
(* also uses.  The handler runs with interrupts off, so it is one action.  *)
(* The 64-bit CLINT accesses are whole: ClintTimer shows that they are.    *)
(***************************************************************************)
EXTENDS Integers

CONSTANTS
    TIMER_PERIOD,
    MaxTime,     \* bound: last value of mtime
    Parked,      \* the compare value ~0ULL, which mtime never reaches
    Redraw       \* the tick value ~0u: 13 years of ticks away

ASSUME PeriodAssumption == TIMER_PERIOD \in Nat \ {0}
ASSUME TimeAssumption ==
    /\ MaxTime \in Nat /\ Parked \in Nat /\ MaxTime < Parked
    /\ Redraw \in Nat /\ MaxTime < Redraw

VARIABLES
    g_ticks, g_running, g_cmp,
    mtimecmp, mtie, mie,   \* CLINT, mie.MTIE, mstatus.MIE
    mtime,
    pc, key,               \* main: where it is, the key it handles
    last,                  \* local of main
    t,                     \* local of draw_clock
    shown, shown_run,      \* what the terminal shows
    base, ticks0           \* history: mtime and g_ticks at the last start

timer == <<g_ticks, g_running, g_cmp>>
csr == <<mtie, mie>>
screen == <<shown, shown_run>>
hist == <<base, ticks0>>
vars == <<timer, mtimecmp, csr, mtime, pc, key, last, t, screen, hist>>

Keys == {"s", "p", "r", "h", "other"}
None == "none"

\* After uart_init and trap_init; the compare register often resets to 0.
Init ==
    /\ g_ticks = 0 /\ g_running = 0 /\ g_cmp = 0
    /\ mtimecmp \in {0, Parked} /\ mtie = 0 /\ mie = 0 /\ mtime = 0
    /\ pc = "timer_init" /\ key = None /\ last = Redraw /\ t = 0
    /\ shown = Redraw /\ shown_run = 0 /\ base = 0 /\ ticks0 = 0

Time ==
    /\ mtime < MaxTime /\ mtime' = mtime + 1
    /\ UNCHANGED <<timer, mtimecmp, csr, pc, key, last, t, screen, hist>>

\* An action of main that changes no shared word.
Local(from, to) ==
    /\ pc = from /\ pc' = to
    /\ UNCHANGED <<timer, mtimecmp, csr, mtime, key, last, t, screen, hist>>

-----------------------------------------------------------------------------
(* The interrupt: trap_handler and timer_on_irq                            *)

Mtip == mtime >= mtimecmp

\* The handler counts the period that ended and asks for the next one.
OnIrq(next) ==
    /\ Mtip /\ mtie = 1 /\ mie = 1
    /\ g_cmp' = next /\ mtimecmp' = next
    /\ g_ticks' = IF g_running = 1 THEN g_ticks + 1 ELSE g_ticks
    /\ UNCHANGED <<g_running, csr, mtime, pc, key, last, t, screen, hist>>

\* Mutant: the next period starts when the handler runs.
IrqFromNow == OnIrq(mtime + TIMER_PERIOD)
\* Mutant: the cause is compared with another one.
IrqIgnored == Mtip /\ mtie = 1 /\ mie = 1 /\ UNCHANGED vars

TimerIrq == OnIrq(g_cmp + TIMER_PERIOD)

-----------------------------------------------------------------------------
(* main                                                                    *)

TimerInit ==
    /\ pc = "timer_init" /\ pc' = "draw"
    /\ g_ticks' = 0 /\ g_running' = 0 /\ g_cmp' = 0
    /\ mtimecmp' = Parked /\ mtie' = 0
    /\ UNCHANGED <<mie, mtime, key, last, t, screen, hist>>

\* uart_try_getc: a key, or the test for a new tick.
Key(k) ==
    /\ pc = "loop" /\ key' = k
    /\ pc' = CASE k = "s" -> "start" [] k \in {"p", "r"} -> "pause"
               [] k = "h" -> "help" [] OTHER -> "draw"
    /\ UNCHANGED <<timer, mtimecmp, csr, mtime, last, t, screen, hist>>

(* timer_start *)

StartTest == Local("start", IF g_running = 1 THEN "draw" ELSE "start_read")

\* clint_mtime, and the assignment to g_cmp.
ReadTime(first) ==
    /\ pc = "start_read" /\ pc' = "start_write"
    /\ g_cmp' = first /\ base' = mtime /\ ticks0' = g_ticks
    /\ UNCHANGED <<g_ticks, g_running, mtimecmp, csr, mtime, key, last, t, screen>>

\* Mutant: the first period is left out.
StartNow == ReadTime(mtime)
StartRead == ReadTime(mtime + TIMER_PERIOD)

StartWrite ==
    /\ pc = "start_write" /\ pc' = "start_run" /\ mtimecmp' = g_cmp
    /\ UNCHANGED <<timer, csr, mtime, key, last, t, screen, hist>>

StartRun ==
    /\ pc = "start_run" /\ pc' = "start_mtie" /\ g_running' = 1
    /\ UNCHANGED <<g_ticks, g_cmp, mtimecmp, csr, mtime, key, last, t, screen, hist>>

StartMtie ==
    /\ pc = "start_mtie" /\ pc' = "start_mie" /\ mtie' = 1
    /\ UNCHANGED <<timer, mtimecmp, mie, mtime, key, last, t, screen, hist>>

StartMie ==
    /\ pc = "start_mie" /\ pc' = "draw" /\ mie' = 1
    /\ UNCHANGED <<timer, mtimecmp, mtie, mtime, key, last, t, screen, hist>>

(* timer_pause, and the rest of timer_reset *)

\* Mutant: the interrupt stays enabled.
NoMask == Local("pause", "pause_run")

PauseMask ==
    /\ pc = "pause" /\ pc' = "pause_run" /\ mtie' = 0
    /\ UNCHANGED <<timer, mtimecmp, mie, mtime, key, last, t, screen, hist>>

PauseRun ==
    /\ pc = "pause_run" /\ pc' = IF key = "r" THEN "reset" ELSE "draw"
    /\ g_running' = 0
    /\ UNCHANGED <<g_ticks, g_cmp, mtimecmp, csr, mtime, key, last, t, screen, hist>>

Reset ==
    /\ pc = "reset" /\ pc' = "draw" /\ g_ticks' = 0 /\ last' = Redraw
    /\ UNCHANGED <<g_running, g_cmp, mtimecmp, csr, mtime, key, t, screen, hist>>

Help ==
    /\ pc = "help" /\ pc' = "draw" /\ last' = Redraw
    /\ UNCHANGED <<timer, mtimecmp, csr, mtime, key, t, screen, hist>>

(* draw_clock, from the key path (and at start-up) or the tick path *)

ReadTicks(from, to) ==
    /\ pc = from /\ pc' = to /\ t' = g_ticks
    /\ UNCHANGED <<timer, mtimecmp, csr, mtime, key, last, screen, hist>>

Show(from, to) ==
    /\ pc = from /\ pc' = to /\ shown' = t /\ shown_run' = g_running
    /\ UNCHANGED <<timer, mtimecmp, csr, mtime, key, last, t, hist>>

SetLast(from, to) ==
    /\ pc = from /\ pc' = to /\ last' = g_ticks
    /\ UNCHANGED <<timer, mtimecmp, csr, mtime, key, t, screen, hist>>

KeyRead == ReadTicks("draw", "show")

\* Mutant: a key is not followed by a redraw.
NoShow == Local("show", IF key = None THEN "loop" ELSE "set_last")

\* At start-up the first draw is not followed by last = timer_ticks().
KeyShow == Show("show", IF key = None THEN "loop" ELSE "set_last")

\* last = timer_ticks(), a second read of g_ticks.
KeyLast == SetLast("set_last", "poll")

\* The loop body after a key, and when no key has come.
NoKey == Local("loop", "poll")
PollTicks == Local("poll", IF g_ticks # last THEN "tick_last" ELSE "loop")
TickLast == SetLast("tick_last", "tick_draw")
TickRead == ReadTicks("tick_draw", "tick_show")
TickShow == Show("tick_show", "loop")

Main == \/ TimerInit
        \/ StartTest \/ StartRead \/ StartWrite \/ StartRun \/ StartMtie \/ StartMie
        \/ PauseMask \/ PauseRun \/ Reset \/ Help
        \/ KeyRead \/ KeyShow \/ KeyLast
        \/ NoKey \/ PollTicks \/ TickLast \/ TickRead \/ TickShow

Next == Main \/ (\E k \in Keys : Key(k)) \/ TimerIrq \/ Time

Spec == Init /\ [][Next]_vars

\* The hart executes main, and takes the interrupt when it is enabled and
\* pending.  Neither keys nor time are sure to come.
FairSpec == Spec /\ WF_vars(Main) /\ WF_vars(TimerIrq)

-----------------------------------------------------------------------------
PCs == {"timer_init", "loop", "start", "start_read", "start_write", "start_run",
        "start_mtie", "start_mie", "pause", "pause_run", "reset", "help",
        "draw", "show", "set_last", "poll", "tick_last", "tick_draw", "tick_show"}

TypeOK ==
    /\ g_ticks \in Nat /\ g_running \in {0, 1} /\ g_cmp \in Nat
    /\ mtimecmp \in Nat /\ mtie \in {0, 1} /\ mie \in {0, 1} /\ mtime \in 0..MaxTime
    /\ pc \in PCs /\ key \in Keys \union {None}
    /\ last \in Nat /\ t \in Nat /\ shown \in Nat /\ shown_run \in {0, 1}
    /\ base \in Nat /\ ticks0 \in Nat

\* No drift: however late the interrupt is taken, the compare register is a
\* whole number of periods after the start, one more than were counted.
NoDrift ==
    mtie = 1 => mtimecmp = base + (g_ticks - ticks0 + 1) * TIMER_PERIOD

\* The stopwatch is never fast: a tick counted since the start stands for a
\* period that has passed, whatever was pending before and however it was
\* paused and started again.
NeverFast ==
    mtie = 1 => base + (g_ticks - ticks0) * TIMER_PERIOD <= mtime

\* r leaves 00:00.0 and a stopped clock: no interrupt counts behind its back.
ResetStays ==
    key = "r" /\ pc \in {"draw", "show", "set_last"}
        => g_ticks = 0 /\ g_running = 0 /\ mtie = 0

\* A stopped clock shows exactly what was counted.
StoppedIsExact ==
    pc = "loop" /\ mtie = 0 => shown = g_ticks /\ shown_run = g_running

\* A pending tick of a running clock is counted or the clock is being stopped,
\* and the handler clears what it answers.
TickServed == (mtie = 1 /\ mie = 1 /\ Mtip) ~> (mtie = 0 \/ ~Mtip)

=============================================================================
