------------------------------- MODULE UartIrq -------------------------------
(***************************************************************************)
(* 09-irq: a key reaches main through UART0, the PLIC, the external        *)
(* interrupt and a ring (uart_irq.c, plic.c, trap.c), or by polling; main  *)
(* (main.c) switches between the two with i and p.                         *)
(*                                                                         *)
(* The handler runs with interrupts off but the UART goes on receiving, so *)
(* its claim, each pass of its loop and its complete are actions.  An      *)
(* action of main is one access to a word or a register that the handler   *)
(* also uses.  The UART and the PLIC are modelled from how the code uses   *)
(* them: no FIFO, a receive line that is high while a byte waits, and a    *)
(* PLIC that looks at the line again only after the complete.  Source 16   *)
(* is the only source enabled.                                             *)
(***************************************************************************)
EXTENDS Naturals, Sequences

CONSTANTS
    RING_N,
    MaxKeys     \* bound: the keys pressed

ASSUME RingAssumption == RING_N \in Nat /\ RING_N >= 2
ASSUME MaxKeysAssumption == MaxKeys \in Nat

Keys == {"i", "p", "h"}   \* h stands for each key that changes no mode
None == "none"            \* -1
Redraw == MaxKeys + 2     \* ~0u, more than are ever counted

VARIABLES
    ring, ring_h, ring_t, irq_count, irq_on,
    \* hardware
    rbr,              \* the byte received, None when LSR.DR is 0
    ier, meie, mie,   \* IER.ERBFI, mie.MEIE, mstatus.MIE
    gate,             \* source 16 in the PLIC
    keys,             \* how many keys were pressed
    \* the handler and main
    isr,
    pc, c, last, shown,
    t, byte,          \* locals of uart_irq_getc
    screen            \* mode, count and last as the terminal shows them

enables == <<ier, meie, mie>>
fifo == <<ring, ring_h, ring_t>>
soft == <<irq_count, irq_on>>
mainvars == <<pc, c, last, shown, t, byte, screen>>
vars == <<fifo, soft, rbr, enables, gate, keys, isr, mainvars>>

\* After uart_init and trap_init.  A key may have come, and an interrupt of an
\* earlier program may be latched in the PLIC.
Init ==
    /\ ring = [j \in 0..(RING_N - 1) |-> None] /\ ring_h = 0 /\ ring_t = 0
    /\ irq_count = 0 /\ irq_on = 0
    /\ rbr \in {None, "h"} /\ ier = 0 /\ meie \in {0, 1} /\ mie = 0
    /\ gate \in {"idle", "pending"} /\ keys = 0 /\ isr = "off"
    /\ pc = "init" /\ c = None /\ last = None /\ shown = Redraw
    /\ t = 0 /\ byte = None /\ screen = <<0, Redraw, None>>

-----------------------------------------------------------------------------
(* The user, the UART and the PLIC                                         *)

\* Without the FIFO a byte that is not taken is overrun by the next.
Press(k) ==
    /\ keys < MaxKeys /\ keys' = keys + 1 /\ rbr' = k
    /\ UNCHANGED <<fifo, soft, enables, gate, isr, mainvars>>

Raise ==
    /\ rbr # None /\ ier = 1 /\ gate = "idle" /\ gate' = "pending"
    /\ UNCHANGED <<fifo, soft, rbr, enables, keys, isr, mainvars>>

-----------------------------------------------------------------------------
(* The handler: trap_handler and uart_irq_on_mei                           *)

\* plic_claim answers 16: no other source is enabled by this program, and none is
\* taken to be left enabled from before.  Of a claim of another source only the
\* complete would follow, of a claim of 0 nothing.
Claim ==
    /\ isr = "off" /\ gate = "pending" /\ meie = 1 /\ mie = 1
    /\ isr' = "take" /\ gate' = "claimed"
    /\ UNCHANGED <<fifo, soft, rbr, enables, keys, mainvars>>

\* One pass of the loop, with the index of the next free slot.
TakeTo(n) ==
    /\ isr = "take" /\ rbr # None /\ rbr' = None
    /\ irq_count' = irq_count + 1
    /\ IF n # ring_t
       THEN ring' = [ring EXCEPT ![ring_h] = rbr] /\ ring_h' = n
       ELSE UNCHANGED <<ring, ring_h>>
    /\ UNCHANGED <<ring_t, irq_on, enables, gate, keys, isr, mainvars>>

\* Mutant: the ring is not looked at for room.
NoRoomTest ==
    /\ isr = "take" /\ rbr # None /\ rbr' = None
    /\ irq_count' = irq_count + 1
    /\ ring' = [ring EXCEPT ![ring_h] = rbr] /\ ring_h' = (ring_h + 1) % RING_N
    /\ UNCHANGED <<ring_t, irq_on, enables, gate, keys, isr, mainvars>>

Take == TakeTo((ring_h + 1) % RING_N)

Drained ==
    /\ isr = "take" /\ rbr = None /\ isr' = "complete"
    /\ UNCHANGED <<fifo, soft, rbr, enables, gate, keys, mainvars>>

\* Mutant: the source is not completed.
NoComplete ==
    /\ isr = "complete" /\ isr' = "off"
    /\ UNCHANGED <<fifo, soft, rbr, enables, gate, keys, mainvars>>

Complete ==
    /\ isr = "complete" /\ isr' = "off" /\ gate' = "idle"
    /\ UNCHANGED <<fifo, soft, rbr, enables, keys, mainvars>>

-----------------------------------------------------------------------------
(* main, between interrupts                                                *)

Goto(from, to) == isr = "off" /\ pc = from /\ pc' = to

UartIrqInit ==
    /\ Goto("init", "on") /\ ring_h' = 0 /\ ring_t' = 0
    /\ irq_count' = 0 /\ irq_on' = 0 /\ ier' = 0 /\ meie' = 0
    /\ UNCHANGED <<ring, rbr, mie, gate, keys, isr, c, last, shown, t, byte, screen>>

\* A store of main to irq_on or one of the three enables.
Set(from, to, on, e) ==
    /\ Goto(from, to) /\ irq_on' = on
    /\ ier' = e[1] /\ meie' = e[2] /\ mie' = e[3]
    /\ UNCHANGED <<fifo, irq_count, rbr, gate, keys, isr, c, last, shown, t, byte,
                   screen>>

\* At start-up the status is drawn before the loop.
AfterOn == IF c = None THEN "draw" ELSE "count"

OnMode == Set("on", "on_ier", 1, enables)
OnIer == Set("on_ier", "on_meie", irq_on, <<1, meie, mie>>)
OnMeie == Set("on_meie", "on_mie", irq_on, <<ier, 1, mie>>)
OnMie == Set("on_mie", AfterOn, irq_on, <<ier, meie, 1>>)

\* Mutant: the mode changes before the interrupt is off.
OffModeFirst == Set("off", "off_meie", 0, <<0, meie, mie>>)

OffIer == Set("off", "off_meie", irq_on, <<0, meie, mie>>)
OffMeie == Set("off_meie", "off_mode", irq_on, <<ier, 0, mie>>)
OffMode == Set("off_mode", "count", 0, enables)

(* getc_now                                                                *)

\* uart_try_getc
PollGetc ==
    /\ irq_on = 0 /\ Goto("loop", IF rbr = None THEN "count" ELSE "handle")
    /\ c' = rbr /\ rbr' = None
    /\ UNCHANGED <<fifo, soft, enables, gate, keys, isr, last, shown, t, byte, screen>>

\* uart_irq_getc
RingTest ==
    /\ irq_on = 1
    /\ IF ring_t = ring_h
       THEN Goto("loop", "count") /\ c' = None /\ UNCHANGED t
       ELSE Goto("loop", "slot") /\ t' = ring_t /\ UNCHANGED c
    /\ UNCHANGED <<fifo, soft, rbr, enables, gate, keys, isr, last, shown, byte, screen>>

ReadSlot ==
    /\ Goto("slot", "advance") /\ byte' = ring[t]
    /\ UNCHANGED <<fifo, soft, rbr, enables, gate, keys, isr, c, last, shown, t, screen>>

\* Mutant: the tail is not stored.
NoAdvance ==
    /\ Goto("advance", "handle") /\ c' = byte
    /\ UNCHANGED <<fifo, soft, rbr, enables, gate, keys, isr, last, shown, t, byte,
                   screen>>

Advance ==
    /\ Goto("advance", "handle") /\ ring_t' = (t + 1) % RING_N /\ c' = byte
    /\ UNCHANGED <<ring, ring_h, soft, rbr, enables, gate, keys, isr, last, shown, t,
                   byte, screen>>

Handle ==
    /\ Goto("handle", CASE c = "i" -> "on" [] c = "p" -> "off" [] OTHER -> "count")
    /\ last' = c /\ shown' = Redraw
    /\ UNCHANGED <<fifo, soft, rbr, enables, gate, keys, isr, c, t, byte, screen>>

(* the redraw                                                              *)

CountTest ==
    /\ Goto("count", IF irq_count # shown THEN "shown"
                     ELSE IF c # None THEN "draw" ELSE "loop")
    /\ UNCHANGED <<fifo, soft, rbr, enables, gate, keys, isr, c, last, shown, t, byte,
                   screen>>

SetShown ==
    /\ Goto("shown", "draw") /\ shown' = irq_count
    /\ UNCHANGED <<fifo, soft, rbr, enables, gate, keys, isr, c, last, t, byte, screen>>

Status == <<irq_on, irq_count, last>>

\* Mutant: the count read before is drawn, and shown is assigned after it.
DrawFirst ==
    /\ Goto("draw", "loop") /\ shown' = irq_count
    /\ screen' = <<irq_on, IF shown = Redraw THEN irq_count ELSE shown, last>>
    /\ UNCHANGED <<fifo, soft, rbr, enables, gate, keys, isr, c, last, t, byte>>

DrawStatus ==
    /\ Goto("draw", "loop") /\ screen' = Status
    /\ UNCHANGED <<fifo, soft, rbr, enables, gate, keys, isr, c, last, shown, t, byte>>

-----------------------------------------------------------------------------
Handler == Claim \/ Take \/ Drained \/ Complete

Main == \/ UartIrqInit
        \/ OnMode \/ OnIer \/ OnMeie \/ OnMie
        \/ OffIer \/ OffMeie \/ OffMode
        \/ PollGetc \/ RingTest \/ ReadSlot \/ Advance
        \/ Handle \/ CountTest \/ SetShown \/ DrawStatus

Next == Main \/ Handler \/ Raise \/ \E k \in Keys : Press(k)

Spec == Init /\ [][Next]_vars

\* The hart executes main or the handler, and the PLIC forwards a line that
\* stays high.  The user need not press anything.
FairSpec == Spec /\ WF_vars(Main) /\ WF_vars(Handler) /\ WF_vars(Raise)

-----------------------------------------------------------------------------
Bit == {0, 1}
PCs == {"init", "on", "on_ier", "on_meie", "on_mie", "off", "off_meie", "off_mode",
        "loop", "slot", "advance", "handle", "count", "shown", "draw"}

TypeOK ==
    /\ ring \in [0..(RING_N - 1) -> Keys \union {None}]
    /\ ring_h \in 0..(RING_N - 1) /\ ring_t \in 0..(RING_N - 1)
    /\ irq_count \in 0..(MaxKeys + 1) /\ irq_on \in Bit
    /\ rbr \in Keys \union {None} /\ ier \in Bit /\ meie \in Bit /\ mie \in Bit
    /\ gate \in {"idle", "pending", "claimed"} /\ keys \in 0..MaxKeys
    /\ isr \in {"off", "take", "complete"} /\ pc \in PCs
    /\ c \in Keys \union {None} /\ last \in Keys \union {None}
    /\ shown \in 0..Redraw /\ t \in 0..(RING_N - 1)
    /\ byte \in Keys \union {None}
    /\ screen \in Bit \X (0..Redraw) \X (Keys \union {None})

\* The ring is a queue of RING_N - 1 keys with the handler at one end and main,
\* whose uart_irq_getc is three steps, at the other.
Filled == (ring_h + RING_N - ring_t) % RING_N
Waiting == [j \in 1..Filled |-> ring[(ring_t + j - 1) % RING_N]]
Queue == INSTANCE KeyQueue WITH
    Key <- Keys, Room <- RING_N - 1, queue <- Waiting, count <- irq_count, got <- c
QueueSpec == Queue!Spec

\* A key is counted only in IRQ mode: uart_irq_off changes the mode when the
\* interrupt can no longer come.
CountedInIrqMode == [][irq_count' # irq_count => irq_on = 1]_vars

\* While shown says that nothing is new, the terminal shows the mode, the count
\* and the last key as they are: shown is read before the count is drawn.
DisplayFresh == pc = "loop" /\ shown = irq_count => screen = Status

\* A byte received in IRQ mode is taken, whenever it comes: in the handler, too.
ByteTaken == (rbr # None /\ irq_on = 1) ~> (rbr = None \/ irq_on = 0)

\* main gets the oldest key of the ring as long as it is in IRQ mode.
RingServed ==
    \A tail \in 0..(RING_N - 1) :
        (irq_on = 1 /\ ring_t = tail /\ ring_h # tail) ~> (ring_t # tail \/ irq_on = 0)

\* Expected of the code and violated: in poll mode no key waits in the ring,
\* which main then does not look at.
NoStrandedKey == pc = "loop" /\ irq_on = 0 => ring_t = ring_h

=============================================================================
