-------------------------- MODULE Cpu1BootProofs --------------------------
(***************************************************************************)
(* Cpu1Boot reports honestly and implements ResetLine, for every number of *)
(* polls.                                                                  *)
(***************************************************************************)
EXTENDS Cpu1Boot, Integers, TLAPS

AfterVector == {"clear_done", "assert", "assert_wait", "deassert",
                "release_wait", "returned", "parked"}

\* A core whose reset bit reads 1 or that has no power is stopped; a release is
\* requested only from the deassert to a park, so that none takes earlier.
ResetHolds ==
    /\ RESET \in ctl \/ lpi = 0 => core = "held"
    /\ RESET \in ctl /\ pc \in BeforeDeassert \union {"parked"} => want = 1
    /\ pc \in {"release_wait", "returned"} => want = 0

\* The vector stays written once cpu1_boot has been through; before that, a
\* CPU1 that an earlier boot released has it from that boot.
VectorSet ==
    /\ pc \in AfterVector \/ RESET \notin ctl => rstvec = "entry"
    /\ VectorFirst

\* What each read-back is worth at each later point.
ReadBacks ==
    /\ pc = "deassert" /\ assert_ok = 1 => RESET \in ctl
    /\ pc = "release_wait" /\ assert_ok = 1
           => core = "fresh" \/ (core = "held" /\ (RESET \in ctl \/ lpi = 0))
    /\ pc = "returned" /\ released = 1 => RESET \notin ctl
    /\ ReadBacksVouch

IInv == TypeOK /\ ResetHolds /\ VectorSet /\ ReadBacks

-----------------------------------------------------------------------------
\* What each word the code stores to CPU1_RST_CTL does: the read bit 0 carries
\* no write enable of its own, so only the words built with bit 16 reach it.
LEMMA Writes ==
  ASSUME TypeOK
  PROVE  /\ RstWrite(rst_masked \union {DONE, 28})
              => want' = want /\ ctl' = ctl \ {DONE}
         /\ RstWrite(rst_masked \union {RESET, 16}) => want' = 1 /\ ctl' = ctl
         /\ RstWrite((rst_masked \ {RESET}) \union {16})
              => want' = 0 /\ ctl' = ctl
<1> USE DEF TypeOK, CtlBits, RstWrite, rst_masked, RESET, DONE
<1>1. {n \in 0..15 : n + 16 \in (ctl \intersect {0}) \union {12, 28}} = {12}
  OBVIOUS
<1>2. {n \in 0..15 : n + 16 \in (ctl \intersect {0}) \union {0, 16}} = {0}
  OBVIOUS
<1>3. {n \in 0..15 : n + 16 \in ((ctl \intersect {0}) \ {0}) \union {16}} = {0}
  OBVIOUS
<1> QED
  BY <1>1, <1>2, <1>3

\* The registers keep their types through every stored word and every answer of
\* the hardware.
LEMMA TypeStep == TypeOK /\ [Next]_vars => TypeOK'
<1> SUFFICES ASSUME TypeOK, [Next]_vars PROVE TypeOK'
  OBVIOUS
<1> USE PowerPollsAssumption, HoldPollsAssumption
        DEF TypeOK, BeforeDeassert, result, hw
<1>1. CASE PowerTest \/ PowerPoll \/ PowerCommit
  BY <1>1 DEF PowerTest, PowerPoll, PollPower, PowerCommit
<1>2. CASE HoldTest \/ HoldPoll
  BY <1>2, Writes DEF HoldTest, HoldPoll
<1>3. CASE SetVector \/ ClearDone \/ Assert \/ ReadAssert
  BY <1>3, Writes DEF SetVector, ClearDone, Assert, WriteCtl, ReadAssert
<1>4. CASE Deassert \/ ReadReleased
  BY <1>4, Writes DEF Deassert, ReadReleased
<1>5. CASE Park \/ Reload
  BY <1>5, Writes DEF Park, WriteCtl, Reload
<1>6. CASE Hardware
  <2>1. ctl' \subseteq CtlBits
    <3>1. ctl' \in {ctl, ctl \union {RESET}, ctl \union {DONE}, ctl \ {RESET}}
      BY <1>6 DEF Hardware, PowerUp, Fetch, AssertTakes, DeassertTakes, DoneRises
    <3>2. ctl \subseteq CtlBits /\ RESET \in CtlBits /\ DONE \in CtlBits
      BY DEF CtlBits
    <3> QED
      BY <3>1, <3>2, Zenon
  <2>2. /\ UNCHANGED <<pc, i, pre_hold_ok, assert_ok, released, want, rstvec>>
        /\ lpi' \in {0, 1} /\ core' \in {"held", "old", "fresh", "lost"}
    BY <1>6 DEF Hardware, PowerUp, Fetch, AssertTakes, DeassertTakes, DoneRises
  <2> QED
    BY <2>1, <2>2
<1>7. CASE UNCHANGED vars
  BY <1>7 DEF vars
<1> QED
  BY <1>1, <1>2, <1>3, <1>4, <1>5, <1>6, <1>7 DEF Next, Cpu0

\* What the read-backs tell stays true until CPU0 uses it: between the assert's
\* read-back and the release no write or answer can start CPU1.
LEMMA InvStep == IInv /\ [Next]_vars => IInv'
<1> SUFFICES ASSUME IInv, [Next]_vars PROVE IInv'
  OBVIOUS
<1>1. TypeOK'
  BY TypeStep DEF IInv
<1>2. (ResetHolds /\ VectorSet /\ ReadBacks)'
  <2> USE DEF IInv, TypeOK, ResetHolds, VectorSet, VectorFirst, ReadBacks,
              ReadBacksVouch, AfterVector, BeforeDeassert, CtlBits, RESET,
              DONE, result, hw
  <2>1. CASE PowerTest \/ PowerPoll \/ PowerCommit
    BY <2>1 DEF PowerTest, PowerPoll, PollPower, PowerCommit
  <2>2. CASE HoldTest \/ HoldPoll
    BY <2>2, Writes DEF HoldTest, HoldPoll
  <2>3. CASE SetVector \/ ClearDone \/ Assert \/ ReadAssert
    BY <2>3, Writes DEF SetVector, ClearDone, Assert, WriteCtl, ReadAssert
  <2>4. CASE Deassert \/ ReadReleased
    BY <2>4, Writes DEF Deassert, ReadReleased
  <2>5. CASE Park \/ Reload
    BY <2>5, Writes DEF Park, WriteCtl, Reload
  <2>6. CASE Hardware
    <3>1. CASE PowerUp
      BY <3>1 DEF PowerUp, Fetch
    <3>2. CASE AssertTakes
      BY <3>2 DEF AssertTakes
    <3>3. CASE DeassertTakes
      BY <3>3 DEF DeassertTakes, Fetch
    <3>4. CASE DoneRises
      BY <3>4 DEF DoneRises
    <3> QED
      BY <2>6, <3>1, <3>2, <3>3, <3>4 DEF Hardware
  <2>7. CASE UNCHANGED vars
    BY <2>7 DEF vars
  <2> QED
    BY <2>1, <2>2, <2>3, <2>4, <2>5, <2>6, <2>7 DEF Next, Cpu0
<1> QED
  BY <1>1, <1>2 DEF IInv

\* IInv holds from a cold start and from a reload alike.
LEMMA InvInit == Init => IInv
  BY PowerPollsAssumption, HoldPollsAssumption
     DEF Init, IInv, TypeOK, BeforeDeassert, ResetHolds, VectorSet,
         VectorFirst, AfterVector, ReadBacks, ReadBacksVouch, CtlBits, RESET, DONE

THEOREM Invariance == Spec => []IInv
  BY InvInit, InvStep, PTL DEF Spec

\* The reset vector is this code's whenever CPU1 leaves reset.
THEOREM EntryOnly == Spec => []VectorFirst
<1>1. IInv => VectorFirst
  BY DEF IInv, VectorSet
<1> QED
  BY <1>1, Invariance, PTL

\* A boot whose read-backs are good has stopped CPU1 and let it go: it executes
\* this boot's code, or nothing for want of power.
THEOREM HonestReport == Spec => []ReadBacksVouch
<1>1. IInv => ReadBacksVouch
  BY DEF IInv, ReadBacks
<1> QED
  BY <1>1, Invariance, PTL

\* The register sequence implements the abstract reset line: an assert takes
\* only in the hold phase or after a park, this boot's start needs a stopped
\* core and follows the deassert, and every other step is one of CPU0's, an
\* earlier boot's start or a stutter.
THEOREM Refinement == Spec => LineSpec
<1>1. Init => Line!Init
  BY DEF Init, Line!Init, phase, BeforeDeassert
<1>2. IInv /\ [Next]_vars => [Line!Next]_(Line!vars)
  <2> SUFFICES ASSUME IInv, [Next]_vars PROVE [Line!Next]_(Line!vars)
    OBVIOUS
  <2> USE DEF IInv, TypeOK, ResetHolds, VectorSet, VectorFirst, AfterVector,
              CtlBits, RESET, DONE, result, hw, phase, BeforeDeassert,
              Line!Next, Line!vars, Line!Stop, Line!ToRelease, Line!Start,
              Line!StartOld, Fetch,
              Line!Return, Line!Park, Line!Again
  <2>1. CASE PowerTest \/ PowerPoll \/ PowerCommit \/ HoldTest \/ HoldPoll
    BY <2>1 DEF PowerTest, PowerPoll, PollPower, PowerCommit, HoldTest, HoldPoll
  <2>2. CASE SetVector \/ ClearDone \/ Assert \/ ReadAssert
    BY <2>2 DEF SetVector, ClearDone, Assert, WriteCtl, ReadAssert
  <2>3. CASE Deassert \/ ReadReleased \/ Park \/ Reload
    BY <2>3 DEF Deassert, ReadReleased, Park, WriteCtl, Reload
  <2>4. CASE Hardware
    BY <2>4 DEF Hardware, PowerUp, Fetch, AssertTakes, DeassertTakes, DoneRises
  <2>5. CASE UNCHANGED vars
    BY <2>5 DEF vars
  <2> QED
    BY <2>1, <2>2, <2>3, <2>4, <2>5 DEF Next, Cpu0
<1> QED
  BY <1>1, <1>2, Invariance, PTL DEF Spec, LineSpec, Line!Spec

-----------------------------------------------------------------------------
(* How long cpu1_boot can take.                                            *)

\* The actions of CPU0 until cpu1_boot returns, if the hardware never answers.
Left ==
    CASE pc = "power_test" -> PowerPolls + HoldPolls + 11
      [] pc = "power_poll" -> HoldPolls + 10 + (PowerPolls - i)
      [] pc = "power_commit" -> HoldPolls + 9
      [] pc = "hold_test" -> HoldPolls + 8
      [] pc = "hold_poll" -> 7 + (HoldPolls - i)
      [] pc = "vector" -> 6
      [] pc = "clear_done" -> 5
      [] pc = "assert" -> 4
      [] pc = "assert_wait" -> 3
      [] pc = "deassert" -> 2
      [] pc = "release_wait" -> 1
      [] OTHER -> 0

\* Every action of CPU0 brings the return closer, and no answer of the hardware
\* takes it away.
Closer == (Cpu0 => Left' < Left) /\ (Hardware => Left' = Left)

Bounded == Left \in 0..(PowerPolls + HoldPolls + 11)

LEMMA CloserStep == TypeOK /\ [Next]_vars => [Closer]_vars
<1> SUFFICES ASSUME TypeOK, Next PROVE Closer
  BY DEF vars
<1> USE PowerPollsAssumption, HoldPollsAssumption
        DEF TypeOK, Left, BeforeDeassert, result, hw
<1>1. ASSUME Cpu0 PROVE Left' < Left
  <2>1. CASE PowerTest \/ PowerPoll \/ PowerCommit
    BY <2>1 DEF PowerTest, PowerPoll, PollPower, PowerCommit
  <2>2. CASE HoldTest
    BY <2>2 DEF HoldTest
  <2>3. CASE HoldPoll
    BY <2>3 DEF HoldPoll
  <2>4. CASE SetVector \/ ClearDone \/ Assert \/ ReadAssert
    BY <2>4 DEF SetVector, ClearDone, Assert, WriteCtl, ReadAssert
  <2>5. CASE Deassert \/ ReadReleased
    BY <2>5 DEF Deassert, ReadReleased
  <2> QED
    BY <1>1, <2>1, <2>2, <2>3, <2>4, <2>5 DEF Cpu0
<1>2. ASSUME Hardware PROVE Left' = Left
  <2>1. UNCHANGED <<pc, i>>
    BY <1>2 DEF Hardware, PowerUp, Fetch, AssertTakes, DeassertTakes, DoneRises
  <2> QED
    BY <2>1
<1> QED
  BY <1>1, <1>2 DEF Closer

\* cpu1_boot returns within PowerPolls + HoldPolls + 11 steps, whatever the
\* hardware answers and however late: what BootReturns takes of the code,
\* beside the fairness that CPU0 runs.
THEOREM BootIsBounded == Spec => []Bounded /\ [][Closer]_vars
<1>1. IInv => Bounded
  BY PowerPollsAssumption, HoldPollsAssumption
     DEF IInv, TypeOK, BeforeDeassert, Left, Bounded
<1>2. IInv /\ [Next]_vars => [Closer]_vars
  BY CloserStep DEF IInv
<1> QED
  BY <1>1, <1>2, Invariance, PTL DEF Spec

=============================================================================
