-------------------------- MODULE DualHartProofs --------------------------
(***************************************************************************)
(* The safety properties of DualHart, for every number of IPIs, spurious   *)
(* resumptions and reloads and whatever the SRAM held.  IInv is the        *)
(* inductive invariant they follow from.                                   *)
(***************************************************************************)
EXTENDS DualHart, TLAPS

BeforeReport == BeforeRelease \union {"release", "wait"}
AfterInit == {"ipi_clear", "banner", "hold", "release", "wait", "report", "ready"}

\* The reset asserted at "hold" separates the CPU1 of one boot from the next.
BootOrder ==
    /\ stale = 0 /\ pc0 \in BeforeRelease => pc1 = "held"
    /\ stale = 0 /\ pc0 \in Booting
           => pc1 \in {"held", "console", "console_delay"} \union StartUp
    /\ stale = 1 => pc1 \notin StartUp

\* What ShmemInit has cleared stays clear until the code that may set it.
Cleared ==
    /\ pc0 \in AfterInit => console_ready = 0
    /\ pc0 \in {"init_wake", "init_seen", "init_console"} \union AfterInit
                  \union {"help"} => cmd = "NONE"
    /\ pc0 \in BeforeReport \ {"shmem_init"} /\ alive = 1
           => stale = 0 /\ pc1 \notin {"held", "entry"}

\* What CPU0 has reported.
Reported ==
    /\ pc0 \in BeforeReport => verdict = "none"
    /\ OkMeansStarted

FreshLocals ==
    stale = 0 /\ pc1 # "held" /\ pc0 \in AfterInit \union {"help"}
        => got = "NONE" /\ mode = "RUNNING"

\* The program points from which a pending MSIP can still be counted before
\* it is cleared.
Countable == {"console", "console_delay", "loop", "take", "sleep", "say_wfi",
              "wfi", "wake_read", "wake_write", "say_wake", "soft", "soft_poll",
              "say_ipi", "run", "say_tick", "run_poll", "run_delay"}

Pending == IF msip = 1 /\ pc1 \in Countable THEN 1 ELSE 0
WakeDue == CASE pc1 = "wake_write" -> tmp + 1
             [] pc1 \in {"wake_clear", "wake_read"} -> wake_count + 1
             [] OTHER -> wake_count
SeenDue == CASE pc1 = "seen_write" -> tmp + 1
             [] pc1 = "seen_read" -> ipi_seen + 1
             [] OTHER -> ipi_seen

\* Every count made, every count in the making and every pending bit that will
\* be counted has an IPI or a spurious resumption of its own.
Budget ==
    /\ pc1 = "wake_write" => wake_count <= tmp
    /\ pc1 = "seen_write" => ipi_seen <= tmp
    /\ pc1 = "held" /\ pc0 = "init_seen" => wake_count = 0
    /\ (pc1 = "held" /\ pc0 \in Initialising \ {"init_console"})
           \/ WakeDue + SeenDue + Pending <= sent + spur

IInv == TypeOK /\ BootOrder /\ Cleared /\ Reported /\ FreshLocals
            /\ SleepPublished /\ Budget

-----------------------------------------------------------------------------
USE DEF shmem, counts, local1, hist, cpu0, vars, StartUp, Saying, Asleep,
        ProgramCounters1, Initialising, BeforeRelease, Booting, Serving,
        Modes, States, UserCmds, Cmds

\* Every variable stays in its type.
LEMMA TypeInit == Init => TypeOK
  BY JunkCountsAssumption, MaxIpiAssumption, MaxSpuriousAssumption,
     MaxReloadAssumption DEF Init, TypeOK

\* Every step keeps the types; the counters of IPIs, spurious resumptions and
\* reloads stay within their bounds by the guards.
LEMMA TypeStep == TypeOK /\ [Next]_vars => TypeOK'
<1> SUFFICES ASSUME TypeOK, [Next]_vars PROVE TypeOK'
  OBVIOUS
<1> USE MaxIpiAssumption, MaxSpuriousAssumption, MaxReloadAssumption
        DEF TypeOK
<1>1. CASE Cpu0Boot
  BY <1>1 DEF Cpu0Boot, Local0, ShmemInit, IpiClear, Banner, HoldDone, ReleaseDone,
     WaitAlive, WaitGiveUp, Report, ConsoleReady, PrintHelp, ProbeDone
<1>2. CASE Menu
  BY <1>2 DEF Menu, MenuCmd, MenuIpi, MenuClear, MenuPark, Local0
<1>3. CASE Cpu1
  <2>1. CASE Entry \/ MarkAlive \/ BootClear \/ WaitConsole \/ ConsoleDelay
    BY <2>1 DEF Entry, MarkAlive, BootClear, WaitConsole, ConsoleDelay, Local1
  <2>2. CASE ReadCmd \/ TakeCmd
    BY <2>2 DEF ReadCmd, TakeCmd, Branch, ModeAfter
  <2>3. CASE Sleep \/ SayWfi \/ SleepClear \/ Wake \/ WakeClear \/ WakeRead
             \/ WakeWrite \/ SayWake
    BY <2>3 DEF Sleep, SayWfi, SleepClear, Wake, WakeClear, WakeRead,
       WakeWrite, SayWake, SetState, Local1, ClearMsip
  <2>4. CASE Soft \/ SoftPoll \/ SeenRead \/ SeenWrite \/ SoftClear \/ SayIpi
    BY <2>4 DEF Soft, SoftPoll, SeenRead, SeenWrite, SoftClear, SayIpi,
       SetState, Local1, ClearMsip
  <2>5. CASE Run \/ SayTick \/ RunPoll \/ RunDelay
    BY <2>5 DEF Run, SayTick, RunPoll, RunDelay, SetState, Local1
  <2> QED
    BY <1>3, <2>1, <2>2, <2>3, <2>4, <2>5 DEF Cpu1
<1>4. CASE Environment
  BY <1>4 DEF Environment, HoldTakes, ReleaseTakes, WakeSpurious, Reload
<1>5. CASE Parked \/ UNCHANGED vars
  BY <1>5 DEF Parked
<1> QED
  BY <1>1, <1>2, <1>3, <1>4, <1>5 DEF Next

\* Only ReleaseTakes starts CPU1: from CPU0's start until then a running CPU1 is
\* a stale one.
LEMMA BootOrderStep == TypeOK /\ BootOrder /\ Cleared /\ [Next]_vars => BootOrder'
<1> SUFFICES ASSUME TypeOK /\ BootOrder /\ Cleared, [Next]_vars PROVE BootOrder'
  OBVIOUS
<1> USE DEF TypeOK, BootOrder, Cleared, BeforeReport, AfterInit
<1>1. CASE Cpu0Boot
  BY <1>1 DEF Cpu0Boot, Local0, ShmemInit, IpiClear, Banner, HoldDone, ReleaseDone,
     WaitAlive, WaitGiveUp, Report, ConsoleReady, PrintHelp, ProbeDone
<1>2. CASE Menu
  BY <1>2 DEF Menu, MenuCmd, MenuIpi, MenuClear, MenuPark, Local0
<1>3. CASE Cpu1
  <2>1. CASE Entry \/ MarkAlive \/ BootClear \/ WaitConsole \/ ConsoleDelay
    BY <2>1 DEF Entry, MarkAlive, BootClear, WaitConsole, ConsoleDelay, Local1
  <2>2. CASE ReadCmd \/ TakeCmd
    BY <2>2 DEF ReadCmd, TakeCmd, Branch, ModeAfter
  <2>3. CASE Sleep \/ SayWfi \/ SleepClear \/ Wake \/ WakeClear \/ WakeRead
             \/ WakeWrite \/ SayWake
    BY <2>3 DEF Sleep, SayWfi, SleepClear, Wake, WakeClear, WakeRead,
       WakeWrite, SayWake, SetState, Local1, ClearMsip
  <2>4. CASE Soft \/ SoftPoll \/ SeenRead \/ SeenWrite \/ SoftClear \/ SayIpi
    BY <2>4 DEF Soft, SoftPoll, SeenRead, SeenWrite, SoftClear, SayIpi,
       SetState, Local1, ClearMsip
  <2>5. CASE Run \/ SayTick \/ RunPoll \/ RunDelay
    BY <2>5 DEF Run, SayTick, RunPoll, RunDelay, SetState, Local1
  <2> QED
    BY <1>3, <2>1, <2>2, <2>3, <2>4, <2>5 DEF Cpu1
<1>4. CASE Environment
  BY <1>4 DEF Environment, HoldTakes, ReleaseTakes, WakeSpurious, Reload
<1>5. CASE Parked \/ UNCHANGED vars
  BY <1>5 DEF Parked
<1> QED
  BY <1>1, <1>2, <1>3, <1>4, <1>5 DEF Next

\* The words CPU0 cleared are set again only by the code that is meant to:
\* console_ready and cmd by CPU0 after its report, alive by a new CPU1.
LEMMA ClearedStep == TypeOK /\ BootOrder /\ Cleared /\ [Next]_vars => Cleared'
<1> SUFFICES ASSUME TypeOK /\ BootOrder /\ Cleared, [Next]_vars PROVE Cleared'
  OBVIOUS
<1> USE DEF TypeOK, BootOrder, Cleared, BeforeReport, AfterInit
<1>1. CASE Cpu0Boot
  BY <1>1 DEF Cpu0Boot, Local0, ShmemInit, IpiClear, Banner, HoldDone, ReleaseDone,
     WaitAlive, WaitGiveUp, Report, ConsoleReady, PrintHelp, ProbeDone
<1>2. CASE Menu
  BY <1>2 DEF Menu, MenuCmd, MenuIpi, MenuClear, MenuPark, Local0
<1>3. CASE Cpu1
  <2>1. CASE Entry \/ MarkAlive \/ BootClear \/ WaitConsole \/ ConsoleDelay
    BY <2>1 DEF Entry, MarkAlive, BootClear, WaitConsole, ConsoleDelay, Local1
  <2>2. CASE ReadCmd \/ TakeCmd
    BY <2>2 DEF ReadCmd, TakeCmd, Branch, ModeAfter
  <2>3. CASE Sleep \/ SayWfi \/ SleepClear \/ Wake \/ WakeClear \/ WakeRead
             \/ WakeWrite \/ SayWake
    BY <2>3 DEF Sleep, SayWfi, SleepClear, Wake, WakeClear, WakeRead,
       WakeWrite, SayWake, SetState, Local1, ClearMsip
  <2>4. CASE Soft \/ SoftPoll \/ SeenRead \/ SeenWrite \/ SoftClear \/ SayIpi
    BY <2>4 DEF Soft, SoftPoll, SeenRead, SeenWrite, SoftClear, SayIpi,
       SetState, Local1, ClearMsip
  <2>5. CASE Run \/ SayTick \/ RunPoll \/ RunDelay
    BY <2>5 DEF Run, SayTick, RunPoll, RunDelay, SetState, Local1
  <2> QED
    BY <1>3, <2>1, <2>2, <2>3, <2>4, <2>5 DEF Cpu1
<1>4. CASE Environment
  BY <1>4 DEF Environment, HoldTakes, ReleaseTakes, WakeSpurious, Reload
<1>5. CASE Parked \/ UNCHANGED vars
  BY <1>5 DEF Parked
<1> QED
  BY <1>1, <1>2, <1>3, <1>4, <1>5 DEF Next

\* CPU0 prints "cpu1: ok" on an alive word that Cleared ties to a new CPU1.
LEMMA ReportedStep == TypeOK /\ BootOrder /\ Cleared /\ Reported /\ [Next]_vars => Reported'
<1> SUFFICES ASSUME TypeOK /\ BootOrder /\ Cleared /\ Reported, [Next]_vars PROVE Reported'
  OBVIOUS
<1> USE DEF TypeOK, BootOrder, Cleared, Reported, OkMeansStarted, BeforeReport, AfterInit
<1>1. CASE Cpu0Boot
  BY <1>1 DEF Cpu0Boot, Local0, ShmemInit, IpiClear, Banner, HoldDone, ReleaseDone,
     WaitAlive, WaitGiveUp, Report, ConsoleReady, PrintHelp, ProbeDone
<1>2. CASE Menu
  BY <1>2 DEF Menu, MenuCmd, MenuIpi, MenuClear, MenuPark, Local0
<1>3. CASE Cpu1
  <2>1. CASE Entry \/ MarkAlive \/ BootClear \/ WaitConsole \/ ConsoleDelay
    BY <2>1 DEF Entry, MarkAlive, BootClear, WaitConsole, ConsoleDelay, Local1
  <2>2. CASE ReadCmd \/ TakeCmd
    BY <2>2 DEF ReadCmd, TakeCmd, Branch, ModeAfter
  <2>3. CASE Sleep \/ SayWfi \/ SleepClear \/ Wake \/ WakeClear \/ WakeRead
             \/ WakeWrite \/ SayWake
    BY <2>3 DEF Sleep, SayWfi, SleepClear, Wake, WakeClear, WakeRead,
       WakeWrite, SayWake, SetState, Local1, ClearMsip
  <2>4. CASE Soft \/ SoftPoll \/ SeenRead \/ SeenWrite \/ SoftClear \/ SayIpi
    BY <2>4 DEF Soft, SoftPoll, SeenRead, SeenWrite, SoftClear, SayIpi,
       SetState, Local1, ClearMsip
  <2>5. CASE Run \/ SayTick \/ RunPoll \/ RunDelay
    BY <2>5 DEF Run, SayTick, RunPoll, RunDelay, SetState, Local1
  <2> QED
    BY <1>3, <2>1, <2>2, <2>3, <2>4, <2>5 DEF Cpu1
<1>4. CASE Environment
  BY <1>4 DEF Environment, HoldTakes, ReleaseTakes, WakeSpurious, Reload
<1>5. CASE Parked \/ UNCHANGED vars
  BY <1>5 DEF Parked
<1> QED
  BY <1>1, <1>2, <1>3, <1>4, <1>5 DEF Next

\* With cmd clear, a new CPU1 has nothing to latch.
LEMMA FreshLocalsStep == TypeOK /\ BootOrder /\ Cleared /\ FreshLocals /\ [Next]_vars => FreshLocals'
<1> SUFFICES ASSUME TypeOK /\ BootOrder /\ Cleared /\ FreshLocals, [Next]_vars PROVE FreshLocals'
  OBVIOUS
<1> USE DEF TypeOK, BootOrder, Cleared, FreshLocals, BeforeReport, AfterInit
<1>1. CASE Cpu0Boot
  BY <1>1 DEF Cpu0Boot, Local0, ShmemInit, IpiClear, Banner, HoldDone, ReleaseDone,
     WaitAlive, WaitGiveUp, Report, ConsoleReady, PrintHelp, ProbeDone
<1>2. CASE Menu
  BY <1>2 DEF Menu, MenuCmd, MenuIpi, MenuClear, MenuPark, Local0
<1>3. CASE Cpu1
  <2>1. CASE Entry \/ MarkAlive \/ BootClear \/ WaitConsole \/ ConsoleDelay
    BY <2>1 DEF Entry, MarkAlive, BootClear, WaitConsole, ConsoleDelay, Local1
  <2>2. CASE ReadCmd \/ TakeCmd
    BY <2>2 DEF ReadCmd, TakeCmd, Branch, ModeAfter
  <2>3. CASE Sleep \/ SayWfi \/ SleepClear \/ Wake \/ WakeClear \/ WakeRead
             \/ WakeWrite \/ SayWake
    BY <2>3 DEF Sleep, SayWfi, SleepClear, Wake, WakeClear, WakeRead,
       WakeWrite, SayWake, SetState, Local1, ClearMsip
  <2>4. CASE Soft \/ SoftPoll \/ SeenRead \/ SeenWrite \/ SoftClear \/ SayIpi
    BY <2>4 DEF Soft, SoftPoll, SeenRead, SeenWrite, SoftClear, SayIpi,
       SetState, Local1, ClearMsip
  <2>5. CASE Run \/ SayTick \/ RunPoll \/ RunDelay
    BY <2>5 DEF Run, SayTick, RunPoll, RunDelay, SetState, Local1
  <2> QED
    BY <1>3, <2>1, <2>2, <2>3, <2>4, <2>5 DEF Cpu1
<1>4. CASE Environment
  BY <1>4 DEF Environment, HoldTakes, ReleaseTakes, WakeSpurious, Reload
<1>5. CASE Parked \/ UNCHANGED vars
  BY <1>5 DEF Parked
<1> QED
  BY <1>1, <1>2, <1>3, <1>4, <1>5 DEF Next

\* The published state follows CPU1's path into and out of sleep.
LEMMA SleepStep == TypeOK /\ BootOrder /\ SleepPublished /\ [Next]_vars => SleepPublished'
<1> SUFFICES ASSUME TypeOK /\ BootOrder /\ SleepPublished, [Next]_vars PROVE SleepPublished'
  OBVIOUS
<1> USE DEF TypeOK, BootOrder, SleepPublished
<1>1. CASE Cpu0Boot
  BY <1>1 DEF Cpu0Boot, Local0, ShmemInit, IpiClear, Banner, HoldDone, ReleaseDone,
     WaitAlive, WaitGiveUp, Report, ConsoleReady, PrintHelp, ProbeDone
<1>2. CASE Menu
  BY <1>2 DEF Menu, MenuCmd, MenuIpi, MenuClear, MenuPark, Local0
<1>3. CASE Cpu1
  <2>1. CASE Entry \/ MarkAlive \/ BootClear \/ WaitConsole \/ ConsoleDelay
    BY <2>1 DEF Entry, MarkAlive, BootClear, WaitConsole, ConsoleDelay, Local1
  <2>2. CASE ReadCmd \/ TakeCmd
    BY <2>2 DEF ReadCmd, TakeCmd, Branch, ModeAfter
  <2>3. CASE Sleep \/ SayWfi \/ SleepClear \/ Wake \/ WakeClear \/ WakeRead
             \/ WakeWrite \/ SayWake
    BY <2>3 DEF Sleep, SayWfi, SleepClear, Wake, WakeClear, WakeRead,
       WakeWrite, SayWake, SetState, Local1, ClearMsip
  <2>4. CASE Soft \/ SoftPoll \/ SeenRead \/ SeenWrite \/ SoftClear \/ SayIpi
    BY <2>4 DEF Soft, SoftPoll, SeenRead, SeenWrite, SoftClear, SayIpi,
       SetState, Local1, ClearMsip
  <2>5. CASE Run \/ SayTick \/ RunPoll \/ RunDelay
    BY <2>5 DEF Run, SayTick, RunPoll, RunDelay, SetState, Local1
  <2> QED
    BY <1>3, <2>1, <2>2, <2>3, <2>4, <2>5 DEF Cpu1
<1>4. CASE Environment
  BY <1>4 DEF Environment, HoldTakes, ReleaseTakes, WakeSpurious, Reload
<1>5. CASE Parked \/ UNCHANGED vars
  BY <1>5 DEF Parked
<1> QED
  BY <1>1, <1>2, <1>3, <1>4, <1>5 DEF Next

\* Each count uses up the pending bit, or the spurious resumption, it answers.
LEMMA BudgetStep == TypeOK /\ BootOrder /\ Budget /\ [Next]_vars => Budget'
<1> SUFFICES ASSUME TypeOK /\ BootOrder /\ Budget, [Next]_vars PROVE Budget'
  OBVIOUS
<1> USE DEF TypeOK, BootOrder, Budget, WakeDue, SeenDue, Pending, Countable
<1>1. CASE Cpu0Boot
  BY <1>1 DEF Cpu0Boot, Local0, ShmemInit, IpiClear, Banner, HoldDone, ReleaseDone,
     WaitAlive, WaitGiveUp, Report, ConsoleReady, PrintHelp, ProbeDone
<1>2. CASE Menu
  BY <1>2 DEF Menu, MenuCmd, MenuIpi, MenuClear, MenuPark, Local0
<1>3. CASE Cpu1
  <2>1. CASE Entry \/ MarkAlive \/ BootClear \/ WaitConsole \/ ConsoleDelay
    BY <2>1 DEF Entry, MarkAlive, BootClear, WaitConsole, ConsoleDelay, Local1
  <2>2. CASE ReadCmd \/ TakeCmd
    BY <2>2 DEF ReadCmd, TakeCmd, Branch, ModeAfter
  <2>3. CASE Sleep \/ SayWfi \/ SleepClear \/ Wake \/ WakeClear \/ WakeRead
             \/ WakeWrite \/ SayWake
    BY <2>3 DEF Sleep, SayWfi, SleepClear, Wake, WakeClear, WakeRead,
       WakeWrite, SayWake, SetState, Local1, ClearMsip
  <2>4. CASE Soft \/ SoftPoll \/ SeenRead \/ SeenWrite \/ SoftClear \/ SayIpi
    BY <2>4 DEF Soft, SoftPoll, SeenRead, SeenWrite, SoftClear, SayIpi,
       SetState, Local1, ClearMsip
  <2>5. CASE Run \/ SayTick \/ RunPoll \/ RunDelay
    BY <2>5 DEF Run, SayTick, RunPoll, RunDelay, SetState, Local1
  <2> QED
    BY <1>3, <2>1, <2>2, <2>3, <2>4, <2>5 DEF Cpu1
<1>4. CASE Environment
  BY <1>4 DEF Environment, HoldTakes, ReleaseTakes, WakeSpurious, Reload
<1>5. CASE Parked \/ UNCHANGED vars
  BY <1>5 DEF Parked
<1> QED
  BY <1>1, <1>2, <1>3, <1>4, <1>5 DEF Next

-----------------------------------------------------------------------------
\* At power-on CPU1 is held in reset and CPU0 has reported nothing, whatever
\* the SRAM holds.
LEMMA InvInit == Init => IInv
<1> SUFFICES ASSUME Init PROVE IInv
  OBVIOUS
<1>1. TypeOK
  BY TypeInit
<1>2. BootOrder /\ Cleared /\ Reported
  BY DEF Init, BootOrder, Cleared, AfterInit, Reported,
     BeforeReport, OkMeansStarted
<1>3. FreshLocals /\ SleepPublished
  BY DEF Init, FreshLocals, AfterInit, SleepPublished
<1>4. Budget
  BY DEF Init, Budget
<1> QED
  BY <1>1, <1>2, <1>3, <1>4 DEF IInv

\* IInv is inductive, so it holds in every reachable state.
THEOREM Invariance == Spec => []IInv
<1>1. Init => IInv
  BY InvInit
<1>2. IInv /\ [Next]_vars => IInv'
  BY TypeStep, BootOrderStep, ClearedStep, ReportedStep, FreshLocalsStep,
     SleepStep, BudgetStep DEF IInv
<1> QED
  BY <1>1, <1>2, PTL DEF Spec

\* The type invariant of the two harts and the words they share.
THEOREM TypeCorrect == Spec => []TypeOK
<1>1. IInv => TypeOK
  BY DEF IInv
<1> QED
  BY <1>1, Invariance, PTL

\* No wake or IPI is counted without an IPI sent or a spurious resumption: the
\* counts made are part of what Budget bounds.
THEOREM NoPhantom == Spec => []NoPhantomIpi
<1>1. IInv => NoPhantomIpi
  <2> SUFFICES ASSUME IInv, pc0 \notin Initialising
               PROVE  wake_count + ipi_seen <= sent + spur
    BY DEF NoPhantomIpi
  <2>1. wake_count <= WakeDue /\ WakeDue \in Nat
    BY DEF IInv, TypeOK, Budget, WakeDue
  <2>2. ipi_seen <= SeenDue /\ SeenDue \in Nat
    BY DEF IInv, TypeOK, Budget, SeenDue
  <2>3. Pending \in {0, 1} /\ WakeDue + SeenDue + Pending <= sent + spur
    BY DEF IInv, Budget, Pending
  <2> QED
    BY <2>1, <2>2, <2>3 DEF IInv, TypeOK
<1> QED
  BY <1>1, Invariance, PTL

\* The published state tells a sleeping CPU1 from one that is not.
THEOREM SleepIsPublished == Spec => []SleepPublished
<1>1. IInv => SleepPublished
  BY DEF IInv
<1> QED
  BY <1>1, Invariance, PTL

\* A new CPU1 prints nothing before the console is opened: BootOrder keeps it
\* in its start-up code or its wait until then.
THEOREM ConsoleDiscipline == Spec => []QuietUntilReady
<1>1. IInv => QuietUntilReady
  BY DEF IInv, TypeOK, BootOrder, QuietUntilReady
<1> QED
  BY <1>1, Invariance, PTL

\* "cpu1: ok" is the word of a CPU1 that this boot started.
THEOREM OkIsEarned == Spec => []OkMeansStarted
<1>1. IInv => OkMeansStarted
  BY DEF IInv, Reported
<1> QED
  BY <1>1, Invariance, PTL

\* No command from before this boot is obeyed: CPU1 starts at ReleaseTakes,
\* by which time cmd is clear, and it starts with a fresh frame.
THEOREM OldCommandsDie == Spec => []NoOldCommand
<1>1. IInv => NoOldCommand
  BY DEF IInv, Cleared, FreshLocals, AfterInit, NoOldCommand
<1> QED
  BY <1>1, Invariance, PTL

\* The two harts use the reset line as Cpu1Boot implements it: CPU1 stops and
\* starts only in its steps, and a reload turns a running CPU1 into an old one.
THEOREM UsesResetLine == Spec => LineSpec
<1>1. Init => Line!Init
  BY DEF Init, Line!Init
<1>2. IInv /\ [Next]_vars => [Line!Next]_(Line!vars)
  <2> SUFFICES ASSUME IInv, [Next]_vars PROVE [Line!Next]_(Line!vars)
    OBVIOUS
  <2> USE DEF IInv, TypeOK, BootOrder, Line!Next, Line!vars, Line!Stop,
              Line!ToRelease, Line!Start, Line!StartOld, Line!Return,
              Line!Park, Line!Again
  <2>1. CASE Cpu0Boot
    BY <2>1 DEF Cpu0Boot, Local0, ShmemInit, IpiClear, Banner, HoldDone,
       ReleaseDone, WaitAlive, WaitGiveUp, Report, ConsoleReady, PrintHelp,
       ProbeDone
  <2>2. CASE Menu
    BY <2>2 DEF Menu, MenuCmd, MenuIpi, MenuClear, MenuPark, Local0
  <2>3. CASE Cpu1
    BY <2>3 DEF Cpu1, Entry, MarkAlive, BootClear, WaitConsole, ConsoleDelay,
       ReadCmd, TakeCmd, Branch, ModeAfter, Sleep, SayWfi, SleepClear, Wake,
       WakeClear, WakeRead, WakeWrite, SayWake, Soft, SoftPoll, SeenRead,
       SeenWrite, SoftClear, SayIpi, Run, SayTick, RunPoll, RunDelay, SetState,
       Local1, ClearMsip
  <2>4. CASE Environment
    BY <2>4 DEF Environment, HoldTakes, ReleaseTakes, WakeSpurious, Reload
  <2>5. CASE Parked \/ UNCHANGED vars
    BY <2>5 DEF Parked
  <2> QED
    BY <2>1, <2>2, <2>3, <2>4, <2>5 DEF Next
<1> QED
  BY <1>1, <1>2, Invariance, PTL DEF Spec, LineSpec, Line!Spec

=============================================================================
