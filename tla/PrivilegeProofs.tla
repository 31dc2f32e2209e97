--------------------------- MODULE PrivilegeProofs ---------------------------
(***************************************************************************)
(* Theorems about Privilege, for every history of keys, traps and restarts *)
(***************************************************************************)
EXTENDS Privilege, TLAPS

\* Where a test is running, in the handler included.
InTest == pc \in {"insn", "after", "report"} \/ (pc = "handler" /\ trap.next = "after")

\* The stack at each step; a restart may come at any of them.
Stack ==
  /\ pc = "start" => frames <= 3
  /\ pc \in {"setup", "shell"} => frames = 0
  /\ pc \in {"prompt", "enter", "lost"} => frames = 1
  /\ pc \in {"insn", "after", "report"} => frames = 2
  /\ pc = "handler" =>
       /\ trap.next = "shell" => frames = 1
       /\ trap.next = "prompt" => frames = 2
       /\ trap.next = "after" => frames = 3

\* trap_expect is set exactly around the instruction under test, and a trap of
\* any other instruction carries what its place says.
Expecting ==
  /\ pc \in {"setup", "shell", "prompt", "report", "enter", "lost"} => ~expect
  /\ pc \in {"insn", "after"} => expect
  /\ pc = "handler" =>
       /\ trap.next = "after" => expect /\ trap.req = "test"
       /\ trap.next = "prompt" => ~expect /\ trap.req \in Level
       /\ trap.next = "shell" => ~expect /\ trap.req = "none"

\* PMP is open from the boot on.
Opened ==
  /\ priv # "M" => open
  /\ pc \notin {"start", "setup"} => open

\* A hart that was started in M is where its program believes it is, and while
\* it is in the handler the trap remembers that.
Placed ==
  sound =>
    /\ pc \in {"start", "setup"} => priv = "M" /\ asked = "M"
    /\ pc = "shell" => priv = shell /\ asked = shell
    /\ pc \in {"prompt", "insn", "after", "report"} =>
         priv = shell /\ mode = shell /\ asked = shell
    /\ pc = "enter" => priv = "M" /\ mode = shell /\ asked = shell
    /\ pc = "handler" =>
         /\ trap.next = "after" =>
              trap.mpp = shell /\ mode = shell /\ asked = shell
         /\ trap.next = "prompt" =>
              trap.req = asked /\ trap.cause \in {8, 9, 11}
         /\ trap.next # "shell"

\* What a test has seen so far agrees with what it expects.
Judged ==
  /\ InTest => test.from = mode
  /\ sound =>
       /\ pc = "insn" => ~seen.saw
       /\ pc = "handler" /\ trap.next = "after" =>
            /\ ExpectTrap(test.insn, mode)
            /\ test.insn \in {"ecall", "prove"} => trap.cause = EcallCause[mode]
       /\ pc \in {"after", "report"} => Verdict

IInv == TypeOK /\ Stack /\ Expecting /\ Opened /\ Placed /\ Judged

\* M is a level.
LEMMA MInLevel == "M" \in Level
BY DEF Level

\* The causes of the three ecalls.
LEMMA Causes == \A l \in Level : EcallCause[l] \in {8, 9, 11}
BY DEF Level, EcallCause

LEMMA InitIInv == Init => IInv
<1> SUFFICES ASSUME Init PROVE IInv OBVIOUS
<1> USE DEF Init
<1>1. TypeOK BY DEF TypeOK, Level, Tests, Nothing
<1>2. Stack /\ Expecting /\ Opened /\ Placed BY DEF Stack, Expecting, Opened, Placed
<1>3. Judged BY DEF Judged, InTest
<1> QED BY <1>1, <1>2, <1>3 DEF IInv

\* The start of the program establishes the invariant again.
LEMMA BootIInv ==
  ASSUME IInv, Start \/ Setup \/ Shell \/ \E reset \in BOOLEAN : Reload(reset)
  PROVE  IInv'
<1> USE DEF IInv
<1>1. CASE Start
  <2>1. TypeOK'
    <3>1. seen' \in [saw : BOOLEAN, cause : {0, 2, 8, 9, 11}, mpp : Level \cup {"none"}]
      <4>1. seen' = Nothing \/ seen' = [seen EXCEPT !.saw = FALSE] BY <1>1 DEF Start
      <4>2. CASE seen' = Nothing BY <4>2 DEF Nothing
      <4>3. CASE seen' = [seen EXCEPT !.saw = FALSE] BY <4>3 DEF TypeOK
      <4> QED BY <4>1, <4>2, <4>3
    <3> QED BY <1>1, <3>1, MInLevel DEF Start, TypeOK
  <2>2. (Stack /\ Expecting /\ Opened /\ Placed)'
    BY <1>1 DEF Start, Stack, Expecting, Opened, Placed
  <2>3. Judged' BY <1>1 DEF Start, Judged, InTest
  <2> QED BY <2>1, <2>2, <2>3
<1>2. CASE Setup
  <2>1. TypeOK'
    <3>1. trap' = trap \/ trap' = [cause |-> 2, mpp |-> priv, req |-> "none", next |-> "shell"]
      BY <1>2 DEF Setup, TakeTrap
    <3>2. trap' \in [cause : {0, 2, 8, 9, 11}, mpp : Level,
                     req : Level \cup {"none", "test"}, next : {"shell", "prompt", "after"}]
      BY <3>1 DEF TypeOK
    <3>3. /\ frames' = frames \/ frames' = frames + 1
          /\ open' = TRUE \/ open' = open
          /\ pc' = "shell" \/ pc' = "handler"
      BY <1>2 DEF Setup, TakeTrap
    <3>4. priv' \in Level /\ shell' \in Level
      BY <1>2, MInLevel DEF Setup, TakeTrap, TypeOK
    <3>5. UNCHANGED <<mode, test, expect, seen, sound, asked>> BY <1>2 DEF Setup
    <3>6. open' \in BOOLEAN BY <3>3 DEF TypeOK
    <3>7. frames' \in Nat BY <3>3 DEF TypeOK
    <3>8. pc' \in {"shell", "handler"} BY <3>3
    <3> QED BY <3>2, <3>4, <3>5, <3>6, <3>7, <3>8 DEF TypeOK
  <2>2. (Stack /\ Expecting /\ Opened /\ Placed)'
    BY <1>2 DEF Setup, TakeTrap, TypeOK, Stack, Expecting, Opened, Placed
  <2>3. Judged' BY <1>2 DEF Setup, TakeTrap, Judged, InTest
  <2> QED BY <2>1, <2>2, <2>3
<1> USE DEF IInv, TypeOK, Stack, Expecting, Opened, Placed, Judged, InTest, Level,
            Tests
<1>3. CASE Shell BY <1>3 DEF Shell
<1>4. CASE \E reset \in BOOLEAN : Reload(reset) BY <1>4 DEF Reload
<1> QED BY <1>1, <1>2, <1>3, <1>4

\* The tests.
LEMMA TestIInv ==
  ASSUME IInv, Insn \/ After \/ Report \/ \E t \in Tests : Begin(t)
  PROVE  IInv'
<1> USE DEF IInv
<1>1. CASE Insn
  <2> USE <1>1 DEF Insn, TakeTrap
  <2>1. TypeOK' BY Causes DEF TypeOK, Level
  <2>2. (Stack /\ Expecting /\ Opened /\ Placed)'
    BY DEF TypeOK, Stack, Expecting, Opened, Placed
  <2>3. test.from = mode /\ InTest' BY DEF Judged, InTest
  <2>4. ASSUME sound
        PROVE  /\ pc' = "handler" => ExpectTrap(test.insn, mode)
               /\ pc' = "after" => ~ExpectTrap(test.insn, mode) /\ ~seen.saw
    <3>1. priv = mode /\ ~seen.saw BY <2>4 DEF Placed, Judged
    <3>2. test.insn \in Tests /\ priv \in Level BY DEF TypeOK
    <3>3. Legal(test.insn, priv) <=> ~ExpectTrap(test.insn, priv)
      BY <3>2 DEF Legal, ExpectTrap, Tests, Level
    <3> QED BY <3>1, <3>3
  <2>5. ASSUME sound, pc' = "after" PROVE Verdict'
    <3>1. ~seen.saw /\ seen \in [saw : BOOLEAN, cause : {0, 2, 8, 9, 11},
                                 mpp : Level \cup {"none"}]
      BY <2>4, <2>5 DEF TypeOK
    <3>2. ~ExpectTrap(test.insn, test.from) BY <2>3, <2>4, <2>5
    <3>3. test.insn \notin {"ecall", "prove"} BY <3>2 DEF ExpectTrap
    <3> QED BY <3>1, <3>2, <3>3 DEF Verdict, ExpectTrap
  <2>6. ASSUME sound, pc' = "handler", test.insn \in {"ecall", "prove"}
        PROVE  trap'.cause = EcallCause[mode]
    BY <2>6 DEF Placed, Legal
  <2>7. Judged' BY <2>3, <2>4, <2>5, <2>6 DEF Judged, InTest, ExpectTrap
  <2> QED BY <2>1, <2>2, <2>7
<1>2. CASE After
  <2> USE <1>2 DEF After
  <2>1. TypeOK'
    <3>1. /\ expect' = FALSE /\ pc' = "report"
          /\ UNCHANGED <<priv, mode, shell, test, seen, trap, frames, open, sound, asked>>
      OBVIOUS
    <3> HIDE <1>2 DEF After
    <3>2. /\ seen' \in [saw : BOOLEAN, cause : {0, 2, 8, 9, 11},
                        mpp : Level \cup {"none"}]
          /\ trap' \in [cause : {0, 2, 8, 9, 11}, mpp : Level,
                        req : Level \cup {"none", "test"},
                        next : {"shell", "prompt", "after"}]
      BY <3>1 DEF TypeOK
    <3>3. /\ priv' \in Level /\ mode' \in Level /\ shell' \in Level /\ asked' \in Level
          /\ test' \in [insn : Tests, from : Level]
          /\ open' \in BOOLEAN /\ sound' \in BOOLEAN /\ frames' \in Nat
      BY <3>1 DEF TypeOK
    <3> QED BY <3>1, <3>2, <3>3 DEF TypeOK
  <2>2. (Stack /\ Expecting /\ Opened /\ Placed)'
    BY DEF TypeOK, Stack, Expecting, Opened, Placed
  <2>3. Judged' BY DEF Judged, InTest, Verdict
  <2> QED BY <2>1, <2>2, <2>3
<1>3. CASE Report
  BY <1>3 DEF Report, TypeOK, Stack, Expecting, Opened, Placed, Judged, InTest
<1>4. ASSUME NEW t \in Tests, Begin(t) PROVE IInv'
  <2>1. /\ pc = "prompt" /\ pc' = "insn" /\ expect' = TRUE /\ frames' = frames + 1
        /\ UNCHANGED <<priv, mode, shell, trap, open, sound, asked>>
    BY <1>4 DEF Begin
  <2>2. /\ test' \in [insn : Tests, from : Level]
        /\ test'.from = mode
    BY <1>4 DEF Begin, TypeOK
  <2>3. /\ seen' \in [saw : BOOLEAN, cause : {0, 2, 8, 9, 11}, mpp : Level \cup {"none"}]
        /\ seen'.saw = FALSE
    BY <1>4 DEF Begin, TypeOK
  <2>4. TypeOK' BY <2>1, <2>2, <2>3 DEF TypeOK
  <2>5. (Stack /\ Expecting /\ Opened /\ Placed)'
    BY <2>1 DEF Stack, Expecting, Opened, Placed
  <2>6. Judged' BY <2>1, <2>2, <2>3 DEF Judged, InTest
  <2> QED BY <2>4, <2>5, <2>6
<1> QED BY <1>1, <1>2, <1>3, <1>4

\* The switches of level.
LEMMA SwitchIInv ==
  ASSUME IInv, Enter \/ HandleSwitch \/ \E l \in Level : SwitchDown(l) \/ Request(l)
  PROVE  IInv'
<1> USE Causes
    DEF IInv, TypeOK, Stack, Expecting, Opened, Placed, Judged, InTest, Level, Tests
<1>1. CASE Enter BY <1>1 DEF Enter, JumpShell
<1>2. CASE HandleSwitch BY <1>2 DEF HandleSwitch, JumpShell, IsSwitch
<1>3. ASSUME NEW l \in Level, SwitchDown(l) PROVE IInv'
  BY <1>3 DEF SwitchDown
<1>4. ASSUME NEW l \in Level, Request(l) PROVE IInv'
  BY <1>4 DEF Request, TakeTrap
<1> QED BY <1>1, <1>2, <1>3, <1>4

\* The other two returns of the handler.
LEMMA ReturnIInv ==
  ASSUME IInv, HandleExpected \/ HandleUnexpected
  PROVE  IInv'
<1> USE DEF IInv, TypeOK, Stack, Expecting, Opened, Placed, Judged, InTest, Level,
            Tests, Return
<1>1. CASE HandleExpected
  BY <1>1 DEF HandleExpected, Verdict, ExpectTrap
<1>2. CASE HandleUnexpected BY <1>2 DEF HandleUnexpected, IsSwitch
<1> QED BY <1>1, <1>2

\* The invariant holds in every reachable state.
THEOREM Invariance == Spec => []IInv
<1>1. IInv /\ UNCHANGED vars => IInv'
  BY DEF IInv, TypeOK, Stack, Expecting, Opened, Placed, Judged, InTest, Verdict, vars
<1>2. IInv /\ [Next]_vars => IInv'
  BY <1>1, BootIInv, TestIInv, SwitchIInv, ReturnIInv DEF Next, Program
<1> QED BY InitIInv, <1>2, PTL DEF Spec

\* Every variable keeps its type.
THEOREM TypeCorrect == Spec => []TypeOK
<1>1. IInv => TypeOK BY DEF IInv
<1> QED BY <1>1, Invariance, PTL

\* The prompt names the level of the hart, the one that was asked for.
THEOREM PromptTells == Spec => []PromptIsTrue
<1>1. IInv => PromptIsTrue BY DEF IInv, Placed, PromptIsTrue
<1> QED BY <1>1, Invariance, PTL

\* Every test of a hart that was started in M passes.
THEOREM TestsPass == Spec => []VerdictsPass
<1>1. IInv => VerdictsPass BY DEF IInv, Judged, VerdictsPass
<1> QED BY <1>1, Invariance, PTL

\* A request to switch is never taken for an instruction under test.
THEOREM RequestsHeard == Spec => []RequestIsHeard
<1>1. IInv => RequestIsHeard
  BY DEF IInv, TypeOK, Expecting, RequestIsHeard, Level
<1> QED BY <1>1, Invariance, PTL

\* Three frames are enough for every sequence of keys.
THEOREM StackIsBounded == Spec => []StackBounded
<1>1. IInv => StackBounded BY DEF IInv, TypeOK, Stack, StackBounded
<1> QED BY <1>1, Invariance, PTL

\* PMP is open whenever the hart is below M.
THEOREM OpenWhenNeeded == Spec => []OpenBelowM
<1>1. IInv => OpenBelowM BY DEF IInv, Opened, OpenBelowM
<1> QED BY <1>1, Invariance, PTL
=============================================================================
