----------------------------- MODULE ClintTimer -----------------------------
(***************************************************************************)
(* 08-timer/boards/k230/clint.c: a 64-bit counter read, and a 64-bit       *)
(* compare register written, through 32-bit accesses, while the counter    *)
(* runs.                                                                   *)
(*                                                                         *)
(* A 64-bit word is a pair of halves below Base (2^32 in the code).  The   *)
(* counter does not wrap: at 27 MHz its 2^64 ticks last 21000 years.       *)
(***************************************************************************)
EXTENDS Naturals

CONSTANTS
    Base,    \* a half is a number below Base
    MaxHi    \* bound: high halves the counter gets to

ASSUME BaseAssumption == Base \in Nat \ {0}
ASSUME MaxHiAssumption == MaxHi \in Nat

Half == 0..(Base - 1)
Word == [hi : Nat, lo : Half]

\* The order of the 64-bit words.
Leq(a, b) == a.hi < b.hi \/ (a.hi = b.hi /\ a.lo <= b.lo)

VARIABLES
    mtime64,      \* CLINT_MTIME
    mtimecmp64,   \* CLINT_MTIMECMP(0)
    at,
    hi, lo, hi2,  \* locals of clint_mtime; hi and lo are also its result
    v,            \* argument of clint_mtimecmp_write
    since,        \* history: mtime64 when clint_mtime was called
    old           \* history: mtimecmp64 when clint_mtimecmp_write was called

reader == <<hi, lo, hi2, since>>
writer == <<mtimecmp64, v, old>>
clint == <<mtime64, at, reader, writer>>

\* Whatever the compare register holds at reset; the counter may be anywhere.
ClintInit ==
    /\ mtime64 \in [hi : 0..MaxHi, lo : Half]
    /\ mtimecmp64 \in [hi : 0..MaxHi, lo : Half]
    /\ at = "idle" /\ hi = 0 /\ lo = 0 /\ hi2 = 0
    /\ v = mtimecmp64 /\ old = mtimecmp64 /\ since = mtime64

\* The counter moves at any time.
Tick ==
    /\ mtime64' = IF mtime64.lo = Base - 1
                  THEN [hi |-> mtime64.hi + 1, lo |-> 0]
                  ELSE [hi |-> mtime64.hi, lo |-> mtime64.lo + 1]
    /\ mtime64'.hi <= MaxHi
    /\ UNCHANGED <<at, reader, writer>>

-----------------------------------------------------------------------------
(* clint_mtime                                                             *)

CallRead ==
    /\ at = "idle" /\ at' = "read_hi" /\ since' = mtime64
    /\ UNCHANGED <<mtime64, hi, lo, hi2, writer>>

ReadHi ==
    /\ at = "read_hi" /\ at' = "read_lo" /\ hi' = mtime64.hi
    /\ UNCHANGED <<mtime64, lo, hi2, since, writer>>

ReadLo ==
    /\ at = "read_lo" /\ at' = "read_hi2" /\ lo' = mtime64.lo
    /\ UNCHANGED <<mtime64, hi, hi2, since, writer>>

ReadHi2 ==
    /\ at = "read_hi2" /\ at' = "compare" /\ hi2' = mtime64.hi
    /\ UNCHANGED <<mtime64, hi, lo, since, writer>>

\* Mutant: the halves are not read again.
NoRetry ==
    /\ at = "compare" /\ at' = "have_time"
    /\ UNCHANGED <<mtime64, reader, writer>>

Compare ==
    /\ at = "compare"
    /\ at' = IF hi # hi2 THEN "read_hi" ELSE "have_time"
    /\ UNCHANGED <<mtime64, reader, writer>>

UseTime ==
    /\ at = "have_time" /\ at' = "idle"
    /\ UNCHANGED <<mtime64, reader, writer>>

(* clint_mtimecmp_write                                                    *)

CallWrite ==
    /\ at = "idle"
    /\ v' \in [hi : 0..MaxHi, lo : Half] /\ old' = mtimecmp64
    /\ at' = "write_max"
    /\ UNCHANGED <<mtime64, reader, mtimecmp64>>

\* Mutant: the low half is not raised first.
NoMax ==
    /\ at = "write_max" /\ at' = "write_hi"
    /\ UNCHANGED <<mtime64, reader, writer>>

WriteMax ==
    /\ at = "write_max" /\ at' = "write_hi"
    /\ mtimecmp64' = [mtimecmp64 EXCEPT !.lo = Base - 1]
    /\ UNCHANGED <<mtime64, reader, v, old>>

WriteHi ==
    /\ at = "write_hi" /\ at' = "write_lo"
    /\ mtimecmp64' = [mtimecmp64 EXCEPT !.hi = v.hi]
    /\ UNCHANGED <<mtime64, reader, v, old>>

WriteLo ==
    /\ at = "write_lo" /\ at' = "idle"
    /\ mtimecmp64' = [mtimecmp64 EXCEPT !.lo = v.lo]
    /\ UNCHANGED <<mtime64, reader, v, old>>

ClintNext ==
    \/ CallRead \/ ReadHi \/ ReadLo \/ ReadHi2 \/ Compare \/ UseTime
    \/ CallWrite \/ WriteMax \/ WriteHi \/ WriteLo
    \/ Tick

ClintSpec == ClintInit /\ [][ClintNext]_clint

-----------------------------------------------------------------------------
Reading == {"read_hi", "read_lo", "read_hi2", "compare", "have_time"}
Writing == {"write_max", "write_hi", "write_lo"}

ClintTypeOK ==
    /\ mtime64 \in Word /\ mtimecmp64 \in Word /\ v \in Word
    /\ since \in Word /\ old \in Word
    /\ at \in {"idle"} \union Reading \union Writing
    /\ hi \in Nat /\ lo \in Half /\ hi2 \in Nat

\* clint_mtime returns a value the counter had during the call, though its two
\* halves are read at different times.
ReadNotTorn ==
    at = "have_time" =>
        LET read == [hi |-> hi, lo |-> lo]
        IN  Leq(since, read) /\ Leq(read, mtime64)

\* MTIP: the interrupt the compare register raises.
Pending == Leq(mtimecmp64, mtime64)

\* While the compare register is half written it raises no interrupt that
\* neither the old nor the new value would raise.
NoTornCompare ==
    at \in Writing /\ Pending => Leq(old, mtime64) \/ Leq(v, mtime64)

=============================================================================
