-------------------------- MODULE StopwatchProofs --------------------------
(***************************************************************************)
(* The stopwatch keeps time and shows it, for every period, however late   *)
(* the interrupt is taken and whatever keys are pressed.  It takes its two *)
(* 64-bit accesses to the CLINT as whole; the second part shows of         *)
(* ClintTimer that they are, for halves of any width.                      *)
(***************************************************************************)
EXTENDS Stopwatch, ClintTimer, TLAPS

Starting == {"start_read", "start_write", "start_run"}

\* The interrupt is enabled only while the clock runs, except across the two
\* stores that start or pause it.
Enabled ==
    /\ mtie = 1 => g_running = 1
    /\ g_running = 1 => mtie = 1 \/ pc \in {"start_mtie", "pause_run"}
    /\ pc \in Starting => g_running = 0 /\ mtie = 0
    /\ pc \in {"start_mtie", "pause_run", "reset"} => mtie = 0
    /\ pc = "reset" => g_running = 0
    /\ pc = "start_mtie" => g_running = 1

\* The compare register is one period ahead of what was counted, from the read
\* of mtime in timer_start until the pause.
Rate ==
    /\ pc \in {"start_write", "start_run", "start_mtie"}
           => /\ g_ticks = ticks0 /\ base <= mtime
              /\ g_cmp = base + TIMER_PERIOD
    /\ pc \in {"start_run", "start_mtie"} => mtimecmp = g_cmp
    /\ mtie = 1 => mtimecmp = g_cmp /\ ticks0 <= g_ticks
    /\ NoDrift
    /\ NeverFast

\* The code of a key runs for that key.
KeyPath ==
    /\ pc \in Starting \union {"start", "start_mtie", "start_mie"} => key = "s"
    /\ pc = "help" => key = "h"
    /\ pc \in {"pause", "pause_run"} => key \in {"p", "r"}
    /\ pc = "reset" => key = "r"

\* With the interrupt off, each draw shows what is counted.
Display ==
    /\ mtie = 0 /\ pc \in {"show", "tick_show"} => t = g_ticks
    /\ mtie = 0 /\ pc \in {"loop", "poll", "set_last", "tick_last", "tick_draw",
                           "tick_show"}
           => shown = g_ticks /\ shown_run = g_running

IInv == TypeOK /\ Enabled /\ Rate /\ KeyPath /\ ResetStays /\ Display

USE PeriodAssumption, TimeAssumption
    DEF timer, csr, screen, hist, vars, PCs, Keys, None

-----------------------------------------------------------------------------
\* Every step keeps the types.
LEMMA TypeStep == TypeOK /\ [Next]_vars => TypeOK'
<1> SUFFICES ASSUME TypeOK, [Next]_vars PROVE TypeOK'
  OBVIOUS
<1> USE DEF TypeOK, Local
<1>1. CASE TimerInit \/ \E k \in Keys : Key(k)
  BY <1>1 DEF TimerInit, Key
<1>2. CASE StartTest \/ StartRead \/ StartWrite \/ StartRun \/ StartMtie \/ StartMie
  BY <1>2 DEF StartTest, StartRead, ReadTime, StartWrite, StartRun, StartMtie,
     StartMie
<1>3. CASE PauseMask \/ PauseRun \/ Reset \/ Help
  BY <1>3 DEF PauseMask, PauseRun, Reset, Help
<1>4. CASE KeyRead \/ KeyShow \/ KeyLast
  BY <1>4 DEF KeyRead, KeyShow, KeyLast, ReadTicks, Show, SetLast
<1>5. CASE NoKey \/ PollTicks \/ TickLast \/ TickRead \/ TickShow
  BY <1>5 DEF NoKey, PollTicks, TickLast, TickRead, TickShow, ReadTicks, Show,
     SetLast
<1>6. CASE TimerIrq \/ Time \/ UNCHANGED vars
  BY <1>6 DEF TimerIrq, OnIrq, Time
<1> QED
  BY <1>1, <1>2, <1>3, <1>4, <1>5, <1>6 DEF Next, Main

\* timer_pause masks before it stops, timer_start runs before it unmasks.
LEMMA EnabledStep == TypeOK /\ Enabled /\ [Next]_vars => Enabled'
<1> SUFFICES ASSUME TypeOK, Enabled, [Next]_vars PROVE Enabled'
  OBVIOUS
<1> USE DEF TypeOK, Enabled, Starting, Local
<1>1. CASE TimerInit \/ \E k \in Keys : Key(k)
  BY <1>1 DEF TimerInit, Key
<1>2. CASE StartTest \/ StartRead \/ StartWrite \/ StartRun \/ StartMtie \/ StartMie
  BY <1>2 DEF StartTest, StartRead, ReadTime, StartWrite, StartRun, StartMtie,
     StartMie
<1>3. CASE PauseMask \/ PauseRun \/ Reset \/ Help
  BY <1>3 DEF PauseMask, PauseRun, Reset, Help
<1>4. CASE KeyRead \/ KeyShow \/ KeyLast
  BY <1>4 DEF KeyRead, KeyShow, KeyLast, ReadTicks, Show, SetLast
<1>5. CASE NoKey \/ PollTicks \/ TickLast \/ TickRead \/ TickShow
  BY <1>5 DEF NoKey, PollTicks, TickLast, TickRead, TickShow, ReadTicks, Show,
     SetLast
<1>6. CASE TimerIrq \/ Time \/ UNCHANGED vars
  BY <1>6 DEF TimerIrq, OnIrq, Time
<1> QED
  BY <1>1, <1>2, <1>3, <1>4, <1>5, <1>6 DEF Next, Main

\* n + 1 periods are n periods and one.
LEMMA OneMore ==
  ASSUME NEW n \in Nat
  PROVE  n * TIMER_PERIOD \in Nat /\ (n + 1) * TIMER_PERIOD = n * TIMER_PERIOD + TIMER_PERIOD
  OBVIOUS

\* The interrupt adds a period to the compare register and one to the ticks; it
\* was pending, so that period has passed.
LEMMA RateStep == TypeOK /\ Enabled /\ Rate /\ [Next]_vars => Rate'
<1> SUFFICES ASSUME TypeOK, Enabled, Rate, [Next]_vars PROVE Rate'
  OBVIOUS
<1> USE DEF TypeOK, Enabled, Starting, Rate, NoDrift, NeverFast, Local
<1>1. CASE TimerInit \/ \E k \in Keys : Key(k)
  BY <1>1 DEF TimerInit, Key
<1>2. CASE StartTest \/ StartRead \/ StartWrite \/ StartRun
  BY <1>2 DEF StartTest, StartRead, ReadTime, StartWrite, StartRun
<1>3. CASE StartMtie \/ StartMie
  <2>1. CASE StartMtie
    <3>1. g_ticks' - ticks0' = 0 /\ mtimecmp' = base' + TIMER_PERIOD /\ base' <= mtime'
      BY <2>1 DEF StartMtie
    <3>2. 0 * TIMER_PERIOD = 0 /\ (0 + 1) * TIMER_PERIOD = TIMER_PERIOD
      OBVIOUS
    <3> QED
      BY <2>1, <3>1, <3>2 DEF StartMtie
  <2>2. CASE StartMie
    BY <2>2 DEF StartMie
  <2> QED
    BY <1>3, <2>1, <2>2
<1>4. CASE PauseMask \/ PauseRun \/ Reset \/ Help
  BY <1>4 DEF PauseMask, PauseRun, Reset, Help
<1>5. CASE KeyRead \/ KeyShow \/ KeyLast
  BY <1>5 DEF KeyRead, KeyShow, KeyLast, ReadTicks, Show, SetLast
<1>6. CASE NoKey \/ PollTicks \/ TickLast \/ TickRead \/ TickShow
  BY <1>6 DEF NoKey, PollTicks, TickLast, TickRead, TickShow, ReadTicks, Show,
     SetLast
<1>7. CASE TimerIrq
  <2> DEFINE n == g_ticks - ticks0
  <2>1. mtie = 1 /\ g_running = 1 /\ n \in Nat /\ mtimecmp = g_cmp
        /\ mtimecmp <= mtime /\ mtimecmp = base + (n + 1) * TIMER_PERIOD
    BY <1>7 DEF TimerIrq, OnIrq, Mtip
  <2>2. n' = n + 1 /\ mtimecmp' = mtimecmp + TIMER_PERIOD /\ g_cmp' = mtimecmp'
        /\ ticks0' <= g_ticks' /\ UNCHANGED <<base, mtime, mtie, pc, ticks0>>
    BY <1>7, <2>1 DEF TimerIrq, OnIrq
  <2>3. /\ (n + 1) * TIMER_PERIOD \in Nat
        /\ (n + 1 + 1) * TIMER_PERIOD = (n + 1) * TIMER_PERIOD + TIMER_PERIOD
    BY <2>1, OneMore
  <2>4. mtimecmp' = base + (n + 1 + 1) * TIMER_PERIOD
    BY <2>1, <2>2, <2>3
  <2>5. NoDrift'
    BY <2>2, <2>4
  <2>6. NeverFast'
    BY <2>1, <2>2
  <2>7. pc \notin {"start_write", "start_run", "start_mtie"}
    BY <2>1
  <2> QED
    BY <2>2, <2>5, <2>6, <2>7
<1>8. CASE Time \/ UNCHANGED vars
  <2> DEFINE n == g_ticks - ticks0
  <2>1. /\ n' = n /\ mtime <= mtime' /\ mtime' \in Nat
        /\ UNCHANGED <<base, g_ticks, ticks0, g_cmp, mtimecmp, mtie, pc>>
    BY <1>8 DEF Time
  <2>2. NoDrift'
    BY <2>1
  <2>3. NeverFast'
    <3>1. mtie = 1 => n \in Nat
      OBVIOUS
    <3>2. mtie = 1 => n * TIMER_PERIOD \in Nat /\ base + n * TIMER_PERIOD <= mtime
      BY <3>1, OneMore
    <3> HIDE DEF n
    <3>3. mtie' = 1 => base' + n' * TIMER_PERIOD <= mtime'
      BY <2>1, <3>2
    <3> QED
      BY <3>3 DEF n
  <2> QED
    BY <2>1, <2>2, <2>3
<1> QED
  BY <1>1, <1>2, <1>3, <1>4, <1>5, <1>6, <1>7, <1>8 DEF Next, Main

\* A key's code is entered for that key and left at the redraw.
LEMMA KeyStep == TypeOK /\ KeyPath /\ [Next]_vars => KeyPath'
<1> SUFFICES ASSUME TypeOK, KeyPath, [Next]_vars PROVE KeyPath'
  OBVIOUS
<1> USE DEF TypeOK, KeyPath, Starting, Local
<1>1. CASE TimerInit \/ \E k \in Keys : Key(k)
  BY <1>1 DEF TimerInit, Key
<1>2. CASE StartTest \/ StartRead \/ StartWrite \/ StartRun \/ StartMtie \/ StartMie
  BY <1>2 DEF StartTest, StartRead, ReadTime, StartWrite, StartRun, StartMtie,
     StartMie
<1>3. CASE PauseMask \/ PauseRun \/ Reset \/ Help
  BY <1>3 DEF PauseMask, PauseRun, Reset, Help
<1>4. CASE KeyRead \/ KeyShow \/ KeyLast
  BY <1>4 DEF KeyRead, KeyShow, KeyLast, ReadTicks, Show, SetLast
<1>5. CASE NoKey \/ PollTicks \/ TickLast \/ TickRead \/ TickShow
  BY <1>5 DEF NoKey, PollTicks, TickLast, TickRead, TickShow, ReadTicks, Show,
     SetLast
<1>6. CASE TimerIrq \/ Time \/ UNCHANGED vars
  BY <1>6 DEF TimerIrq, OnIrq, Time
<1> QED
  BY <1>1, <1>2, <1>3, <1>4, <1>5, <1>6 DEF Next, Main

\* r masks the interrupt before it clears the ticks.
LEMMA ResetStep ==
  TypeOK /\ Enabled /\ KeyPath /\ ResetStays /\ [Next]_vars => ResetStays'
<1> SUFFICES ASSUME TypeOK, Enabled, KeyPath, ResetStays, [Next]_vars
             PROVE  ResetStays'
  OBVIOUS
<1> USE DEF TypeOK, Enabled, KeyPath, Starting, ResetStays, Local
<1>1. CASE TimerInit \/ \E k \in Keys : Key(k)
  BY <1>1 DEF TimerInit, Key
<1>2. CASE StartTest \/ StartRead \/ StartWrite \/ StartRun \/ StartMtie \/ StartMie
  BY <1>2 DEF StartTest, StartRead, ReadTime, StartWrite, StartRun, StartMtie,
     StartMie
<1>3. CASE PauseMask \/ PauseRun \/ Reset \/ Help
  BY <1>3 DEF PauseMask, PauseRun, Reset, Help
<1>4. CASE KeyRead \/ KeyShow \/ KeyLast
  BY <1>4 DEF KeyRead, KeyShow, KeyLast, ReadTicks, Show, SetLast
<1>5. CASE NoKey \/ PollTicks \/ TickLast \/ TickRead \/ TickShow
  BY <1>5 DEF NoKey, PollTicks, TickLast, TickRead, TickShow, ReadTicks, Show,
     SetLast
<1>6. CASE TimerIrq \/ Time \/ UNCHANGED vars
  BY <1>6 DEF TimerIrq, OnIrq, Time
<1> QED
  BY <1>1, <1>2, <1>3, <1>4, <1>5, <1>6 DEF Next, Main

\* Neither g_ticks nor g_running moves between a draw's read and its print when
\* the interrupt is off.
LEMMA DisplayStep ==
  TypeOK /\ Enabled /\ KeyPath /\ Display /\ [Next]_vars => Display'
<1> SUFFICES ASSUME TypeOK, Enabled, KeyPath, Display, [Next]_vars
             PROVE  Display'
  OBVIOUS
<1> USE DEF TypeOK, Enabled, KeyPath, Starting, Display, Local
<1>1. CASE TimerInit \/ \E k \in Keys : Key(k)
  BY <1>1 DEF TimerInit, Key
<1>2. CASE StartTest \/ StartRead \/ StartWrite \/ StartRun \/ StartMtie \/ StartMie
  BY <1>2 DEF StartTest, StartRead, ReadTime, StartWrite, StartRun, StartMtie,
     StartMie
<1>3. CASE PauseMask \/ PauseRun \/ Reset \/ Help
  BY <1>3 DEF PauseMask, PauseRun, Reset, Help
<1>4. CASE KeyRead \/ KeyShow \/ KeyLast
  BY <1>4 DEF KeyRead, KeyShow, KeyLast, ReadTicks, Show, SetLast
<1>5. CASE NoKey \/ PollTicks \/ TickLast \/ TickRead \/ TickShow
  BY <1>5 DEF NoKey, PollTicks, TickLast, TickRead, TickShow, ReadTicks, Show,
     SetLast
<1>6. CASE TimerIrq \/ Time \/ UNCHANGED vars
  BY <1>6 DEF TimerIrq, OnIrq, Time
<1> QED
  BY <1>1, <1>2, <1>3, <1>4, <1>5, <1>6 DEF Next, Main

THEOREM Invariance == Spec => []IInv
<1>1. Init => IInv
  BY DEF Init, IInv, TypeOK, Enabled, Starting, Rate, NoDrift, NeverFast,
     KeyPath, ResetStays, Display
<1>2. IInv /\ [Next]_vars => IInv'
  BY TypeStep, EnabledStep, RateStep, KeyStep, ResetStep, DisplayStep DEF IInv
<1> QED
  BY <1>1, <1>2, PTL DEF Spec

\* However late the interrupt is taken, the next one is a whole number of
\* periods after timer_start read mtime.
THEOREM KeepsTime == Spec => []NoDrift
<1>1. IInv => NoDrift
  BY DEF IInv, Rate
<1> QED
  BY <1>1, Invariance, PTL

\* No pending interrupt of an earlier run is counted as a tick of this one.
THEOREM IsNeverFast == Spec => []NeverFast
<1>1. IInv => NeverFast
  BY DEF IInv, Rate
<1> QED
  BY <1>1, Invariance, PTL

\* The ticks that timer_reset cleared are not counted again before the redraw.
THEOREM ResetIsFinal == Spec => []ResetStays
<1>1. IInv => ResetStays
  BY DEF IInv
<1> QED
  BY <1>1, Invariance, PTL

\* A paused stopwatch shows its ticks and says that it is paused.
THEOREM StoppedShows == Spec => []StoppedIsExact
<1>1. IInv => StoppedIsExact
  BY DEF IInv, Display, StoppedIsExact
<1> QED
  BY <1>1, Invariance, PTL

-----------------------------------------------------------------------------
(* clint_mtime and clint_mtimecmp_write.                                   *)

Result == [hi |-> hi, lo |-> lo]
Bracketed == Leq(since, Result) /\ Leq(Result, mtime64)

\* What the halves read so far are worth: if the high half is (or was read as)
\* the same on both sides of the low one, the low one belongs to it.
ReadInv ==
    /\ at \in Reading => Leq(since, mtime64)
    /\ at = "read_lo" => since.hi <= hi /\ hi <= mtime64.hi
    /\ at = "read_hi2" => hi <= mtime64.hi /\ (mtime64.hi = hi => Bracketed)
    /\ at = "compare" => hi2 <= mtime64.hi /\ (hi = hi2 => Bracketed)
    /\ at = "have_time" => Bracketed

\* A half-written compare register has the high half of one of the two values,
\* with the largest low half.
WriteInv ==
    /\ at = "write_max" => mtimecmp64 = old
    /\ at = "write_hi" => mtimecmp64.hi = old.hi /\ mtimecmp64.lo = Base - 1
    /\ at = "write_lo" => mtimecmp64.hi = v.hi /\ mtimecmp64.lo = Base - 1

ClintInv == ClintTypeOK /\ ReadInv /\ WriteInv

USE BaseAssumption, MaxHiAssumption
    DEF Reading, Writing, clint, reader, writer

\* The counter stays a word and only grows.
LEMMA TickGrows ==
  ASSUME ClintTypeOK, Tick
  PROVE  /\ mtime64' \in Word
         /\ Leq(mtime64, mtime64') /\ mtime64.hi <= mtime64'.hi
         /\ mtime64'.hi = mtime64.hi => mtime64.lo <= mtime64'.lo
  BY DEF ClintTypeOK, Tick, Word, Half, Leq

\* Every step keeps the halves in their types.
LEMMA ClintTypeStep == ClintTypeOK /\ [ClintNext]_clint => ClintTypeOK'
<1> SUFFICES ASSUME ClintTypeOK, [ClintNext]_clint
             PROVE  ClintTypeOK'
  OBVIOUS
<1> USE DEF ClintTypeOK, Word, Half
<1>1. CASE CallRead \/ ReadHi \/ ReadLo \/ ReadHi2 \/ Compare \/ UseTime
  BY <1>1 DEF CallRead, ReadHi, ReadLo, ReadHi2, Compare, UseTime
<1>2. CASE CallWrite
  BY <1>2 DEF CallWrite
<1>3. CASE WriteMax \/ WriteHi \/ WriteLo
  BY <1>3 DEF WriteMax, WriteHi, WriteLo
<1>4. CASE Tick
  BY <1>4, TickGrows DEF Tick
<1>5. CASE UNCHANGED clint
  BY <1>5
<1> QED
  BY <1>1, <1>2, <1>3, <1>4, <1>5 DEF ClintNext

\* Each read extends what is known of the call; a tick may only move the
\* counter on.
LEMMA ReadStep == ClintTypeOK /\ ReadInv /\ [ClintNext]_clint => ReadInv'
<1> SUFFICES ASSUME ClintTypeOK, ReadInv, [ClintNext]_clint
             PROVE  ReadInv'
  OBVIOUS
<1> USE DEF ClintTypeOK, Word, Half, ReadInv, Bracketed, Result, Leq
<1>1. CASE CallRead
  BY <1>1 DEF CallRead
<1>2. CASE ReadHi
  BY <1>2 DEF ReadHi
<1>3. CASE ReadLo
  BY <1>3 DEF ReadLo
<1>4. CASE ReadHi2
  BY <1>4 DEF ReadHi2
<1>5. CASE Compare \/ UseTime
  BY <1>5 DEF Compare, UseTime
<1>6. CASE CallWrite \/ WriteMax \/ WriteHi \/ WriteLo
  BY <1>6 DEF CallWrite, WriteMax, WriteHi, WriteLo
<1>7. CASE Tick
  BY <1>7, TickGrows DEF Tick
<1>8. CASE UNCHANGED clint
  BY <1>8
<1> QED
  BY <1>1, <1>2, <1>3, <1>4, <1>5, <1>6, <1>7, <1>8 DEF ClintNext

\* The writes go low half up, high half, low half.
LEMMA WriteStep == ClintTypeOK /\ WriteInv /\ [ClintNext]_clint => WriteInv'
<1> SUFFICES ASSUME ClintTypeOK, WriteInv, [ClintNext]_clint
             PROVE  WriteInv'
  OBVIOUS
<1> USE DEF ClintTypeOK, Word, Half, WriteInv
<1>1. CASE CallRead \/ ReadHi \/ ReadLo \/ ReadHi2 \/ Compare \/ UseTime
  BY <1>1 DEF CallRead, ReadHi, ReadLo, ReadHi2, Compare, UseTime
<1>2. CASE CallWrite \/ WriteMax \/ WriteHi \/ WriteLo
  BY <1>2 DEF CallWrite, WriteMax, WriteHi, WriteLo
<1>3. CASE Tick \/ UNCHANGED clint
  BY <1>3 DEF Tick
<1> QED
  BY <1>1, <1>2, <1>3 DEF ClintNext

LEMMA ClintInvariance == ClintSpec => []ClintInv
<1>1. ClintInit => ClintInv
  BY DEF ClintInit, ClintInv, ClintTypeOK, Word, Half, ReadInv, WriteInv
<1>2. ClintInv /\ [ClintNext]_clint => ClintInv'
  BY ClintTypeStep, ReadStep, WriteStep DEF ClintInv
<1> QED
  BY <1>1, <1>2, PTL DEF ClintSpec

\* clint_mtime returns a value the counter had between its call and its return.
THEOREM ReadIsWhole == ClintSpec => []ReadNotTorn
<1>1. ClintInv => ReadNotTorn
  BY DEF ClintInv, ReadInv, Bracketed, Result, ReadNotTorn
<1> QED
  BY <1>1, ClintInvariance, PTL

\* A half-written compare register is never below both the old and the new
\* value, so it fires only if one of them would.
THEOREM CompareIsWhole == ClintSpec => []NoTornCompare
<1>1. ClintInv => NoTornCompare
  BY DEF ClintInv, ClintTypeOK, Word, Half, WriteInv, NoTornCompare, Pending,
     Leq
<1> QED
  BY <1>1, ClintInvariance, PTL

=============================================================================
