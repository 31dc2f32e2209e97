------------------------------- MODULE TrapSkip -------------------------------
(***************************************************************************)
(* trap.c and trap_entry.S of lessons 03 and 07 (the same text), and the   *)
(* four tests of lesson 03.  A test is the instructions that may trap;     *)
(* the handler prints, looks up how long the one at mepc is and resumes    *)
(* behind it.  trap_skip_insn is a variable of .bss like any other.        *)
(***************************************************************************)
EXTENDS Startup, Sequences

CONSTANT trap_skip_insn   \* its word

ASSUME SkipAssumption == trap_skip_insn \in _bss_start..(_bss_end - 1) /\ "one" \in Val

VARIABLES
  code,  \* the halfwords of the test
  mepc,  \* the halfword that is executed next
  then   \* the step that follows the test

test == <<code, mepc, then>>

\* A halfword: its two low bits, and whether the instruction that starts here traps:
\* always, never, or as the bus decides.
Half(low, traps) == [low |-> low, traps |-> traps]

\* An instruction of 4 or of 2 bytes.  The second halfword may look like anything.
Long(traps) == <<Half(3, traps), Half(0, BOOLEAN)>>
Short(low, traps) == <<Half(low, traps)>>

\* Keys a and s, z, and i: an access, or ebreak, as the compiler and the assembler
\* may encode it, and .word 0, which is two compressed illegal instructions.
Tests == {Long(BOOLEAN), Short(0, BOOLEAN), Long({TRUE}), Short(2, {TRUE}),
          Short(0, {TRUE}) \o Short(0, {TRUE})}

\* How many halfwords the hart takes for an instruction.
Size(low) == IF low = 3 THEN 2 ELSE 1

-----------------------------------------------------------------------------
\* mtvec, and trap_skip_insn = 1.
trap_init ==
  /\ pc = "main"
  /\ StoreWord(trap_skip_insn, "one")
  /\ pc' = "prompt"
  /\ UNCHANGED <<startup, test>>

Run(insns, next) ==
  /\ code' = insns
  /\ mepc' = 1
  /\ then' = next
  /\ pc' = "run"

Execute ==
  /\ pc = "run" /\ mepc <= Len(code)
  /\ \E traps \in code[mepc].traps :
       IF traps THEN pc' = "trap" /\ UNCHANGED mepc
                ELSE mepc' = mepc + Size(code[mepc].low) /\ UNCHANGED pc
  /\ UNCHANGED <<l1, startup, code, then>>

TestDone ==
  /\ pc = "run" /\ mepc = Len(code) + 1
  /\ code' = << >>
  /\ mepc' = 1
  /\ then' = "prompt"
  /\ pc' = then
  /\ UNCHANGED <<l1, startup>>

\* Bug: every instruction is taken for one of 4 bytes.
insn_len_4(half) == 2

\* In halfwords: 2 bytes unless both low bits are set.
insn_len(half) == IF half.low # 3 THEN 1 ELSE 2

\* Interrupts, for which it halts, are not enabled in these lessons.  The frame is
\* on the stack and the halfword at mepc in the text: StackAndText touches both.
trap_handler ==
  /\ pc = "trap"
  /\ LoadLine(LineOf(trap_skip_insn))
  /\ IF Seen(trap_skip_insn) # "zero"
     THEN mepc' = mepc + insn_len(code[mepc]) /\ pc' = "run"
     ELSE pc' = "halt" /\ UNCHANGED mepc
  /\ UNCHANGED <<startup, code, then>>

Trap == Execute \/ TestDone \/ trap_handler

=============================================================================
