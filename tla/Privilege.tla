------------------------------ MODULE Privilege ------------------------------
(***************************************************************************)
(* Lesson 04: three shells, one per privilege level, that run CSR tests at *)
(* their own level and switch by mret (down) and ecall (up).  No CSR tells *)
(* the level, so the program keeps it in g_cur_mode (mode) and prints that *)
(* in the prompt; priv is the level the hart is really at.                 *)
(*                                                                         *)
(* The probe may restart the hart at any step, with a reset or without: it *)
(* then starts again at _start, in the level it had.                       *)
(***************************************************************************)
EXTENDS Naturals

Level == {"M", "S", "U"}
Tests == {"mhartid", "sstatus", "mstatus", "ecall", "prove"}

VARIABLES
  pc,      \* the next step
  priv,    \* privilege level of the hart
  mode,    \* g_cur_mode
  shell,   \* the shell function that runs, or is about to
  test,    \* the test that runs, and g_cur_mode when it began
  expect,  \* trap_expect
  seen,    \* trap_saw, trap_last_cause, trap_last_mpp
  trap,    \* mcause, mstatus.MPP, a0 and where mepc + insn_len leads
  frames,  \* stack frames between sp and _sp
  open,    \* PMP lets S and U access memory
  sound,   \* history: the hart was in M when it was last started
  asked    \* history: the level the user last asked for

vars == <<pc, priv, mode, shell, test, expect, seen, trap, frames, open,
          sound, asked>>

EcallCause == [M |-> 11, S |-> 9, U |-> 8]

Nothing == [saw |-> FALSE, cause |-> 0, mpp |-> "none"]

\* Reset: M-mode, PMP closed, memory as it is.
Init ==
  /\ pc = "start"
  /\ priv = "M"
  /\ mode \in Level
  /\ shell = "M"
  /\ test = [insn |-> "ecall", from |-> "M"]
  /\ expect \in BOOLEAN
  /\ seen = Nothing
  /\ trap = [cause |-> 0, mpp |-> "M", req |-> "none", next |-> "prompt"]
  /\ frames = 0
  /\ open = FALSE
  /\ sound = TRUE
  /\ asked = "M"

-----------------------------------------------------------------------------
(* What the instructions do. *)

\* Whether the instruction of test t completes at level p.
Legal(t, p) ==
  \/ t \in {"mhartid", "mstatus"} /\ p = "M"
  \/ t = "sstatus" /\ p # "U"

\* trap_entry pushes a frame on the stack in use.
TakeTrap(cause, req, next) ==
  /\ trap' = [cause |-> cause, mpp |-> priv, req |-> req, next |-> next]
  /\ priv' = "M"
  /\ frames' = frames + 1
  /\ pc' = "handler"

\* Bug: the handler returns with MPP as an M-mode trap would leave it.
ReturnInM ==
  /\ priv' = "M"
  /\ frames' = frames - 1
  /\ pc' = trap.next

\* The end of trap_entry: pop the frame, mret past the instruction.
Return ==
  /\ priv' = trap.mpp
  /\ frames' = frames - 1
  /\ pc' = trap.next

\* Bug: the stack pointer is kept.
JumpKeepsStack(l) ==
  /\ priv' = l
  /\ shell' = l
  /\ pc' = "shell"
  /\ UNCHANGED frames

\* priv_switch.S: an empty stack, then mret into the shell of level l.
JumpShell(l) ==
  /\ priv' = l
  /\ shell' = l
  /\ frames' = 0
  /\ pc' = "shell"

-----------------------------------------------------------------------------
(* Start. *)

\* A level below M survives a restart without a reset, and so does PMP.
Reload(reset) ==
  /\ pc' = "start"
  /\ priv' = IF reset THEN "M" ELSE priv
  /\ open' = (open /\ ~reset)
  /\ sound' = (priv' = "M")
  /\ asked' = "M"
  /\ UNCHANGED <<mode, shell, test, expect, seen, trap, frames>>

\* start.S clears .bss, where all of the program's variables are.  In M mcor then
\* invalidates the D-cache without cleaning it: with the D-cache on, after a
\* restart without a reset, a zero is lost and memory's old value is back.  Below
\* M the write of mcor is skipped.  trap_init stores trap_expect and trap_saw
\* again, and after a reset nothing is lost; no property tells that case.
Start ==
  /\ pc = "start"
  /\ IF priv = "M"
     THEN mode' \in Level /\ seen' \in {Nothing, [seen EXCEPT !.saw = FALSE]}
     ELSE mode' = "M" /\ seen' = Nothing
  /\ expect' = FALSE
  /\ frames' = 0
  /\ pc' = "setup"
  /\ UNCHANGED <<priv, shell, test, trap, open, sound, asked>>

\* trap_init and pmp_allow_all write CSRs of M: below M each write is a trap
\* that nobody expects, and is skipped.
Setup ==
  /\ pc = "setup"
  /\ shell' = "M"
  /\ IF priv = "M"
     THEN open' = TRUE /\ pc' = "shell" /\ UNCHANGED <<priv, trap, frames>>
     ELSE TakeTrap(2, "none", "shell") /\ UNCHANGED open
  /\ UNCHANGED <<mode, test, expect, seen, sound, asked>>

-----------------------------------------------------------------------------
(* The shells. *)

Shell ==
  /\ pc = "shell"
  /\ mode' = shell
  /\ frames' = frames + 1
  /\ pc' = "prompt"
  /\ UNCHANGED <<priv, shell, test, expect, seen, trap, open, sound, asked>>

\* Keys 1, 2, 3, 4 and p.
Begin(t) ==
  /\ pc = "prompt"
  /\ test' = [insn |-> t, from |-> mode]
  /\ seen' = [seen EXCEPT !.saw = FALSE,
                          !.mpp = IF t = "prove" THEN "none" ELSE @]
  /\ expect' = TRUE
  /\ frames' = frames + 1
  /\ pc' = "insn"
  /\ UNCHANGED <<priv, mode, shell, trap, open, sound, asked>>

Insn ==
  /\ pc = "insn"
  /\ IF Legal(test.insn, priv)
     THEN pc' = "after" /\ UNCHANGED <<priv, trap, frames>>
     ELSE TakeTrap(IF test.insn \in {"ecall", "prove"}
                   THEN EcallCause[priv] ELSE 2, "test", "after")
  /\ UNCHANGED <<mode, shell, test, expect, seen, open, sound, asked>>

After ==
  /\ pc = "after"
  /\ expect' = FALSE
  /\ pc' = "report"
  /\ UNCHANGED <<priv, mode, shell, test, seen, trap, frames, open, sound, asked>>

\* What the test expects of a hart that is at level m.
ExpectTrap(t, m) ==
  \/ t \in {"mhartid", "mstatus"} /\ m # "M"
  \/ t = "sstatus" /\ m = "U"
  \/ t \in {"ecall", "prove"}

Verdict ==
  /\ seen.saw = ExpectTrap(test.insn, test.from)
  /\ test.insn \in {"ecall", "prove"} => seen.cause = EcallCause[test.from]
  /\ test.insn = "prove" => seen.mpp = test.from

\* The test prints its verdict and returns to the shell's loop.
Report ==
  /\ pc = "report"
  /\ frames' = frames - 1
  /\ pc' = "prompt"
  /\ UNCHANGED <<priv, mode, shell, test, expect, seen, trap, open, sound, asked>>

\* Keys s and u in shell_m.
SwitchDown(l) ==
  /\ pc = "prompt" /\ shell = "M" /\ l # "M"
  /\ asked' = l
  /\ mode' = l
  /\ shell' = l
  /\ pc' = "enter"
  /\ UNCHANGED <<priv, test, expect, seen, trap, frames, open, sound>>

\* priv_enter.  Below M its CSR accesses and its mret are skipped one by one,
\* and the hart runs on into whatever follows the code.
Enter ==
  /\ pc = "enter"
  /\ IF priv = "M" THEN JumpShell(shell)
     ELSE pc' = "lost" /\ UNCHANGED <<priv, shell, frames>>
  /\ UNCHANGED <<mode, test, expect, seen, trap, open, sound, asked>>

\* Keys m, s and u in shell_s and shell_u: an ecall.
Request(l) ==
  /\ pc = "prompt" /\ shell # "M" /\ l # shell
  /\ asked' = l
  /\ TakeTrap(EcallCause[priv], l, "prompt")
  /\ UNCHANGED <<mode, shell, test, expect, seen, open, sound>>

-----------------------------------------------------------------------------
(* trap_handler. *)

IsSwitch == trap.cause \in {8, 9, 11} /\ ~expect /\ trap.req \in Level

HandleSwitch ==
  /\ pc = "handler" /\ IsSwitch
  /\ mode' = trap.req
  /\ JumpShell(trap.req)
  /\ UNCHANGED <<test, expect, seen, trap, open, sound, asked>>

\* Bug: trap_saw is not set.
HandleSilently ==
  /\ pc = "handler" /\ expect
  /\ seen' = [seen EXCEPT !.cause = trap.cause, !.mpp = trap.mpp]
  /\ Return
  /\ UNCHANGED <<mode, shell, test, expect, trap, open, sound, asked>>

HandleExpected ==
  /\ pc = "handler" /\ expect
  /\ seen' = [saw |-> TRUE, cause |-> trap.cause, mpp |-> trap.mpp]
  /\ Return
  /\ UNCHANGED <<mode, shell, test, expect, trap, open, sound, asked>>

HandleUnexpected ==
  /\ pc = "handler" /\ ~IsSwitch /\ ~expect
  /\ Return
  /\ UNCHANGED <<mode, shell, test, expect, seen, trap, open, sound, asked>>

-----------------------------------------------------------------------------
Program ==
  \/ Start \/ Setup \/ Shell \/ Insn \/ After \/ Report \/ Enter
  \/ HandleSwitch \/ HandleExpected \/ HandleUnexpected
  \/ \E t \in Tests : Begin(t)
  \/ \E l \in Level : SwitchDown(l) \/ Request(l)

Next == Program \/ \E reset \in BOOLEAN : Reload(reset)

Spec == Init /\ [][Next]_vars

-----------------------------------------------------------------------------
(* Properties. *)

\* Every variable keeps its type.
TypeOK ==
  /\ pc \in {"start", "setup", "shell", "prompt", "insn", "after", "report",
             "enter", "handler", "lost"}
  /\ priv \in Level /\ mode \in Level /\ shell \in Level /\ asked \in Level
  /\ test \in [insn : Tests, from : Level]
  /\ expect \in BOOLEAN /\ open \in BOOLEAN /\ sound \in BOOLEAN
  /\ seen \in [saw : BOOLEAN, cause : {0, 2, 8, 9, 11}, mpp : Level \cup {"none"}]
  /\ trap \in [cause : {0, 2, 8, 9, 11}, mpp : Level,
               req : Level \cup {"none", "test"}, next : {"shell", "prompt", "after"}]
  /\ frames \in Nat

\* The prompt names the level the hart is at, which is the one the user asked
\* for, and no test changes it: through every switch, trap and return, as long
\* as the hart was in M when it was started.
PromptIsTrue ==
  sound /\ pc \in {"prompt", "insn", "after", "report"} =>
    /\ priv = mode
    /\ shell = mode
    /\ asked = mode

\* Every test passes at every level: the trap comes exactly where the table of
\* the lesson says, with the cause and the MPP of the level.
VerdictsPass == sound /\ pc = "report" => Verdict

\* A request to switch reaches the handler with trap_expect clear; set, it would
\* be skipped like an instruction under test.
RequestIsHeard == pc = "handler" /\ trap.req \in Level => ~expect

\* However often the user switches, the stack holds the shell, one test and one
\* trap: each switch discards the frames below it.
StackBounded == frames <= 3

\* The hart never runs below M with PMP closed: it could not fetch.
OpenBelowM == priv # "M" => open

=============================================================================
