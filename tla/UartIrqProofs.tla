--------------------------- MODULE UartIrqProofs ---------------------------
(***************************************************************************)
(* Theorems about UartIrq, for every size of the ring and every number of  *)
(* keys: its types, the mode in which keys are counted, the display, and   *)
(* that the ring is the queue of KeyQueue.                                 *)
(***************************************************************************)
EXTENDS UartIrq, SequenceTheorems, TLAPS

Symbol == Keys \union {None}

\* Where main changes the mode, and where it has drawn the status and not yet
\* handled another key.
Switching == {"init", "on", "on_ier", "on_meie", "on_mie", "off", "off_meie", "off_mode"}
Drawn == {"loop", "slot", "advance", "handle", "count"}

\* Each key counted was pressed, but for the one that may wait at the start.
Counted == irq_count + (IF rbr # None THEN 1 ELSE 0) <= keys + 1

\* The interrupt can come only in IRQ mode.
Masked ==
    /\ isr # "off" => irq_on = 1
    /\ pc # "init" /\ meie = 1 => irq_on = 1
    /\ pc \in {"on_ier", "on_meie", "on_mie"} => irq_on = 1
    /\ pc = "off_mode" => meie = 0
    /\ pc = "init" => mie = 0 /\ irq_on = 0 /\ isr = "off"

\* main between the test of the ring and the store of the tail.
Reading ==
    /\ pc = "init" => ring_h = 0 /\ ring_t = 0 /\ irq_count = 0
    /\ pc \in {"slot", "advance"} => t = ring_t /\ ring_t # ring_h
    /\ pc = "advance" => byte = ring[ring_t]

\* shown is a count of the past, and while it is the present one the screen is
\* what is to be drawn.
Displayed ==
    /\ shown = Redraw \/ shown <= irq_count
    /\ pc \in Switching => shown = Redraw
    /\ pc \in Drawn /\ shown = irq_count => screen = Status

IInv == TypeOK /\ Counted /\ Masked /\ Reading /\ Displayed

-----------------------------------------------------------------------------
\* The next index of the ring.
LEMMA NextIndex ==
    ASSUME NEW i \in 0..(RING_N - 1)
    PROVE  (i + 1) % RING_N = IF i + 1 = RING_N THEN 0 ELSE i + 1
BY RingAssumption

\* The number of keys in the ring.
LEMMA Fill ==
    ASSUME NEW h \in 0..(RING_N - 1), NEW u \in 0..(RING_N - 1)
    PROVE  (h + RING_N - u) % RING_N = IF h >= u THEN h - u ELSE h + RING_N - u
BY RingAssumption

\* The slot of the j-th key.
LEMMA Slot ==
    ASSUME NEW i \in 0..(2 * RING_N - 1)
    PROVE  i % RING_N = IF i < RING_N THEN i ELSE i - RING_N
BY RingAssumption

\* The start: whatever was pressed or latched before.
LEMMA InitIInv == Init => IInv
<1> SUFFICES ASSUME Init PROVE IInv OBVIOUS
<1> USE RingAssumption, MaxKeysAssumption DEF Init
<1>1. TypeOK BY DEF TypeOK, Bit, PCs, Keys, Redraw
<1>2. Counted /\ Masked /\ Reading BY DEF Counted, Masked, Reading
<1>3. Displayed BY DEF Displayed, Switching, Drawn
<1> QED BY <1>1, <1>2, <1>3 DEF IInv

\* The hardware and the user.
LEMMA OutsideIInv ==
    ASSUME IInv, Raise \/ \E k \in Keys : Press(k)
    PROVE  IInv'
<1> USE MaxKeysAssumption DEF IInv
<1> USE DEF Raise, Press, fifo, soft, enables, mainvars
<1>1. TypeOK' BY DEF TypeOK
<1>2. Counted' BY DEF Counted, TypeOK
<1>3. (Masked /\ Reading)' BY DEF Masked, Reading
<1>4. Displayed' BY DEF Displayed, Status
<1> QED BY <1>1, <1>2, <1>3, <1>4

\* The handler.
LEMMA HandlerIInv ==
    ASSUME IInv, Handler
    PROVE  IInv'
<1> USE MaxKeysAssumption, RingAssumption DEF IInv, fifo, soft, enables, mainvars
<1>1. CASE Claim
  <2> USE <1>1 DEF Claim
  <2>1. TypeOK' BY DEF TypeOK
  <2>2. pc # "init" BY DEF Masked
  <2>3. Counted' /\ Masked' /\ Reading' BY <2>2 DEF Counted, Masked, Reading
  <2>4. Displayed' BY DEF Displayed, Status
  <2> QED BY <2>1, <2>3, <2>4
<1>2. CASE Take
  <2> DEFINE n == (ring_h + 1) % RING_N
  <2>1. n \in 0..(RING_N - 1) BY NextIndex DEF TypeOK
  <2>2. /\ isr = "take" /\ rbr # None /\ rbr' = None
        /\ irq_count' = irq_count + 1
        /\ \/ n # ring_t /\ ring' = [ring EXCEPT ![ring_h] = rbr] /\ ring_h' = n
           \/ UNCHANGED <<ring, ring_h>>
        /\ UNCHANGED <<ring_t, irq_on, enables, gate, keys, isr, mainvars>>
    BY <1>2 DEF Take, TakeTo
  <2> HIDE DEF n
  <2>3. irq_count \in Nat /\ keys \in 0..MaxKeys /\ irq_count + 1 <= keys + 1
    BY <2>2 DEF Counted, TypeOK
  <2>4. TypeOK' /\ Counted'
    <3>1. irq_count' \in 0..(MaxKeys + 1) BY <2>2, <2>3
    <3>2. ring' \in [0..(RING_N - 1) -> Symbol] /\ ring_h' \in 0..(RING_N - 1)
      BY <2>1, <2>2 DEF TypeOK, Symbol
    <3>3. TypeOK' BY <2>2, <3>1, <3>2 DEF TypeOK, Symbol
    <3> QED BY <2>2, <2>3, <3>3 DEF Counted
  <2>5. pc # "init" BY <2>2 DEF Masked
  <2>6. Masked' BY <2>2 DEF Masked
  <2>7. Reading'
    <3>1. ASSUME pc \in {"slot", "advance"}
          PROVE  ring_h' # ring_t /\ ring'[ring_t] = ring[ring_t]
      BY <3>1, <2>2 DEF Reading, TypeOK
    <3> QED BY <2>2, <2>5, <3>1 DEF Reading
  <2>8. Displayed'
    <3>1. shown # irq_count' BY <2>2, <2>3 DEF Displayed, Redraw, TypeOK
    <3> QED BY <2>2, <2>3, <3>1 DEF Displayed, Redraw, TypeOK
  <2> QED BY <2>4, <2>6, <2>7, <2>8
<1>3. CASE Drained \/ Complete
  <2> USE <1>3 DEF Drained, Complete
  <2>1. TypeOK' BY DEF TypeOK
  <2>2. Counted' /\ Masked' /\ Reading' BY DEF Counted, Masked, Reading
  <2>3. Displayed' BY DEF Displayed, Status
  <2> QED BY <2>1, <2>2, <2>3
<1> QED BY <1>1, <1>2, <1>3 DEF Handler

\* main where it changes the mode.
LEMMA ModeIInv ==
    ASSUME IInv, UartIrqInit \/ OnMode \/ OnIer \/ OnMeie \/ OnMie
                     \/ OffIer \/ OffMeie \/ OffMode
    PROVE  IInv'
<1> USE MaxKeysAssumption, RingAssumption
        DEF IInv, fifo, soft, enables, mainvars, Goto, AfterOn
<1>1. CASE UartIrqInit
  <2> USE <1>1 DEF UartIrqInit
  <2>1. TypeOK' BY DEF TypeOK, Bit, PCs
  <2>2. Counted' BY DEF Counted, TypeOK
  <2>3. Masked' /\ Reading' BY DEF Masked, Reading
  <2>4. Displayed' BY DEF Displayed, Switching, Drawn
  <2> QED BY <2>1, <2>2, <2>3, <2>4
<1>2. CASE OnMode \/ OnIer \/ OnMeie \/ OnMie \/ OffIer \/ OffMeie \/ OffMode
  <2> USE <1>2 DEF OnMode, OnIer, OnMeie, OnMie, OffIer, OffMeie, OffMode, Set
  <2>1. TypeOK' BY DEF TypeOK, Bit, PCs
  <2>2. Counted' BY DEF Counted
  <2>3. Masked' /\ Reading' BY DEF Masked, Reading, TypeOK, Bit
  <2>4. Displayed'
    <3>1. shown = Redraw /\ shown' = Redraw BY DEF Displayed, Switching
    <3>2. shown' # irq_count' BY <3>1 DEF TypeOK, Redraw
    <3> QED BY <3>1, <3>2 DEF Displayed
  <2> QED BY <2>1, <2>2, <2>3, <2>4
<1> QED BY <1>1, <1>2

\* main where it gets a key.
LEMMA GetIInv ==
    ASSUME IInv, PollGetc \/ RingTest \/ ReadSlot \/ Advance \/ Handle
    PROVE  IInv'
<1> USE MaxKeysAssumption, RingAssumption
        DEF IInv, fifo, soft, enables, mainvars, Goto
<1>1. CASE PollGetc
  <2> USE <1>1 DEF PollGetc
  <2>1. TypeOK' BY DEF TypeOK, PCs
  <2>2. Counted' BY DEF Counted, TypeOK
  <2>3. Masked' /\ Reading' BY DEF Masked, Reading
  <2>4. Displayed' BY DEF Displayed, Switching, Drawn, Status
  <2> QED BY <2>1, <2>2, <2>3, <2>4
<1>2. CASE RingTest \/ ReadSlot
  <2> USE <1>2 DEF RingTest, ReadSlot
  <2>1. TypeOK' BY DEF TypeOK, PCs
  <2>2. Counted' /\ Masked' BY DEF Counted, Masked
  <2>3. Reading' BY DEF Reading, TypeOK
  <2>4. Displayed' BY DEF Displayed, Switching, Drawn, Status
  <2> QED BY <2>1, <2>2, <2>3, <2>4
<1>3. CASE Advance
  <2> USE <1>3 DEF Advance
  <2>1. ring_t' \in 0..(RING_N - 1) BY NextIndex DEF TypeOK
  <2>2. TypeOK' BY <2>1 DEF TypeOK, PCs
  <2>3. Counted' /\ Masked' /\ Reading' BY DEF Counted, Masked, Reading
  <2>4. Displayed' BY DEF Displayed, Switching, Drawn, Status
  <2> QED BY <2>2, <2>3, <2>4
<1>4. CASE Handle
  <2> USE <1>4 DEF Handle
  <2>1. pc = "handle" /\ pc' \in {"on", "off", "count"} OBVIOUS
  <2>2. TypeOK' BY <2>1 DEF TypeOK, PCs, Redraw
  <2>3. Counted' /\ Masked' /\ Reading' BY <2>1 DEF Counted, Masked, Reading
  <2>4. shown' # irq_count' BY DEF TypeOK, Redraw
  <2>5. Displayed' BY <2>1, <2>4 DEF Displayed, Redraw
  <2> QED BY <2>2, <2>3, <2>5
<1> QED BY <1>1, <1>2, <1>3, <1>4

\* main where it draws.
LEMMA DrawIInv ==
    ASSUME IInv, CountTest \/ SetShown \/ DrawStatus
    PROVE  IInv'
<1> USE MaxKeysAssumption DEF IInv, fifo, soft, enables, mainvars, Goto
<1> USE DEF CountTest, SetShown, DrawStatus
<1>1. TypeOK'
  <2>1. irq_count \in 0..Redraw BY DEF TypeOK, Redraw
  <2>2. Status \in Bit \X (0..Redraw) \X (Keys \union {None})
    BY <2>1 DEF Status, TypeOK
  <2>3. screen' \in Bit \X (0..Redraw) \X (Keys \union {None})
    BY <2>2 DEF TypeOK
  <2>4. shown' \in 0..Redraw BY <2>1 DEF TypeOK
  <2>5. pc' \in PCs BY DEF PCs
  <2> QED BY <2>3, <2>4, <2>5 DEF TypeOK
<1>2. Counted' /\ Masked' /\ Reading' BY DEF Counted, Masked, Reading
<1>3. Displayed' BY DEF Displayed, Switching, Drawn, Status, TypeOK
<1> QED BY <1>1, <1>2, <1>3

\* IInv is inductive.
LEMMA StepIInv == IInv /\ [Next]_vars => IInv'
<1> SUFFICES ASSUME IInv, [Next]_vars PROVE IInv' OBVIOUS
<1>1. CASE UNCHANGED vars
  <2> USE <1>1 DEF vars, fifo, soft, enables, mainvars
  <2>1. TypeOK' BY DEF IInv, TypeOK
  <2> QED BY <2>1 DEF IInv, Counted, Masked, Reading, Displayed, Status
<1>2. CASE Main BY <1>2, ModeIInv, GetIInv, DrawIInv DEF Main
<1>3. CASE Next /\ ~Main BY <1>3, OutsideIInv, HandlerIInv DEF Next
<1> QED BY <1>1, <1>2, <1>3

\* It holds in every reachable state.
LEMMA Invariance == Spec => []IInv
BY InitIInv, StepIInv, PTL DEF Spec

\* The ring, its indices, the count and the screen keep their types, for every
\* size of the ring.
THEOREM TypeCorrect == Spec => []TypeOK
<1>1. IInv => TypeOK BY DEF IInv
<1> QED BY <1>1, Invariance, PTL

\* What is on the screen is the mode, the count and the last key, whenever main
\* believes so.
THEOREM DisplayIsFresh == Spec => []DisplayFresh
<1>1. IInv => DisplayFresh BY DEF IInv, Displayed, Drawn, DisplayFresh
<1> QED BY <1>1, Invariance, PTL

\* No key is counted in poll mode: the handler runs only while the external
\* interrupt is enabled, and that is in IRQ mode.
THEOREM CountsInIrqMode == Spec => CountedInIrqMode
<1>1. IInv /\ [Next]_vars => [irq_count' # irq_count => irq_on = 1]_vars
  <2> SUFFICES ASSUME IInv, [Next]_vars, irq_count' # irq_count PROVE irq_on = 1
    OBVIOUS
  <2> USE DEF IInv, fifo, soft, enables, mainvars, Goto
  <2>1. CASE Main
    <3>1. CASE UartIrqInit BY <3>1 DEF UartIrqInit, Reading
    <3>2. CASE OnMode \/ OnIer \/ OnMeie \/ OnMie \/ OffIer \/ OffMeie \/ OffMode
      BY <3>2 DEF OnMode, OnIer, OnMeie, OnMie, OffIer, OffMeie, OffMode, Set
    <3>3. CASE PollGetc \/ RingTest \/ ReadSlot \/ Advance \/ Handle
                 \/ CountTest \/ SetShown \/ DrawStatus
      BY <3>3 DEF PollGetc, RingTest, ReadSlot, Advance, Handle, CountTest,
         SetShown, DrawStatus
    <3> QED BY <2>1, <3>1, <3>2, <3>3 DEF Main
  <2>2. CASE Handler
    BY <2>2 DEF Handler, Claim, Take, TakeTo, Drained, Complete, Masked
  <2>3. CASE UNCHANGED vars \/ Raise \/ \E k \in Keys : Press(k)
    BY <2>3 DEF vars, Raise, Press
  <2> QED BY <2>1, <2>2, <2>3 DEF Next
<1> QED BY <1>1, Invariance, PTL DEF Spec, CountedInIrqMode

-----------------------------------------------------------------------------
(* The ring as a queue. *)

Index == 0..(RING_N - 1)
Ring == [Index -> Symbol]

\* The sequence that a ring r holds from u to h, without the remainders.
Size(h, u) == IF h >= u THEN h - u ELSE h + RING_N - u
Cell(u, j) == IF u + j - 1 < RING_N THEN u + j - 1 ELSE u + j - 1 - RING_N
Held(r, h, u) == [j \in 1..Size(h, u) |-> r[Cell(u, j)]]

\* What the refinement maps to queue is that sequence.
LEMMA QueueIsHeld ==
    ASSUME NEW r, NEW h \in Index, NEW u \in Index
    PROVE  [j \in 1..((h + RING_N - u) % RING_N) |-> r[(u + j - 1) % RING_N]]
             = Held(r, h, u)
<1> USE RingAssumption DEF Index
<1>1. (h + RING_N - u) % RING_N = Size(h, u) BY Fill DEF Size
<1>2. \A j \in 1..Size(h, u) : (u + j - 1) % RING_N = Cell(u, j)
  <2> TAKE j \in 1..Size(h, u)
  <2>1. u + j - 1 \in 0..(2 * RING_N - 1) BY DEF Size
  <2> QED BY <2>1, Slot DEF Cell
<1> QED BY <1>1, <1>2 DEF Held

\* A function on 1..n is a sequence of n.
LEMMA IsSeq ==
    ASSUME NEW n \in Nat, NEW S, NEW q \in [1..n -> S]
    PROVE  q \in Seq(S) /\ Len(q) = n
<1>1. q \in Seq(S) BY SeqDef
<1>2. Len(q) \in Nat /\ 1..Len(q) = 1..n BY <1>1, LenProperties
<1> QED BY <1>1, <1>2

\* It has room for RING_N - 1 keys.
LEMMA HeldSeq ==
    ASSUME NEW r \in Ring, NEW h \in Index, NEW u \in Index
    PROVE  /\ Size(h, u) \in Index
           /\ \A j \in 1..Size(h, u) : Cell(u, j) \in Index
           /\ Held(r, h, u) \in Seq(Symbol)
           /\ Len(Held(r, h, u)) = Size(h, u)
<1> USE RingAssumption DEF Index
<1>1. Size(h, u) \in Index BY DEF Size
<1>2. \A j \in 1..Size(h, u) : Cell(u, j) \in Index BY DEF Size, Cell
<1>3. Held(r, h, u) \in [1..Size(h, u) -> Symbol] BY <1>2 DEF Held, Ring
<1> QED BY <1>1, <1>2, <1>3, IsSeq

\* A key that finds room is the last of those that wait.
LEMMA TakeAppends ==
    ASSUME NEW r \in Ring, NEW h \in Index, NEW u \in Index, NEW k \in Symbol,
           NEW n \in Index, n = (h + 1) % RING_N, n # u,
           NEW s \in Ring, s[h] = k, \A j \in Index : j # h => s[j] = r[j]
    PROVE  /\ Size(h, u) < RING_N - 1
           /\ Held(s, n, u) = Append(Held(r, h, u), k)
<1> USE RingAssumption DEF Index
<1>1. n = (IF h + 1 = RING_N THEN 0 ELSE h + 1) /\ n \in Index BY NextIndex
<1>2. Size(n, u) = Size(h, u) + 1 /\ Size(h, u) < RING_N - 1 BY <1>1 DEF Size
<1> DEFINE q == Held(r, h, u)
           p == Held(s, n, u)
<1>4. /\ Size(h, u) \in Nat
      /\ q \in Seq(Symbol) /\ Len(q) = Size(h, u)
      /\ p \in Seq(Symbol) /\ Len(p) = Size(h, u) + 1
  <2>1. Size(h, u) \in Index BY DEF Size
  <2> QED BY <1>1, <1>2, <2>1, HeldSeq
<1>5. /\ Append(q, k) \in Seq(Symbol) /\ Len(Append(q, k)) = Size(h, u) + 1
      /\ \A j \in 1..Size(h, u) : Append(q, k)[j] = q[j]
      /\ Append(q, k)[Size(h, u) + 1] = k
  BY <1>4, AppendProperties
<1>6. ASSUME NEW j \in 1..Size(h, u) PROVE p[j] = q[j]
  <2>1. Cell(u, j) \in Index /\ Cell(u, j) # h BY DEF Cell, Size
  <2>2. j \in 1..Size(n, u) BY <1>2, <1>4
  <2> QED BY <2>1, <2>2 DEF Held, Ring
<1>7. p[Size(h, u) + 1] = k
  <2>1. Cell(u, Size(h, u) + 1) = h BY <1>2 DEF Cell, Size
  <2>2. Size(h, u) + 1 \in 1..Size(n, u) BY <1>2, <1>4
  <2>3. p[Size(h, u) + 1] = s[Cell(u, Size(h, u) + 1)] BY <2>2 DEF Held
  <2> QED BY <2>1, <2>3 DEF Ring
<1>8. \A j \in 1..Len(p) : p[j] = Append(q, k)[j]
  <2> HIDE DEF p, q
  <2> TAKE j \in 1..Len(p)
  <2>1. j \in 1..Size(h, u) \/ j = Size(h, u) + 1 BY <1>4
  <2> QED BY <2>1, <1>5, <1>6, <1>7
<1>9. p = Append(q, k)
  <2> HIDE DEF p, q
  <2> QED BY <1>4, <1>5, <1>8, SeqEqual
<1> QED BY <1>2, <1>9

\* A ring without room holds RING_N - 1 keys.
LEMMA FullRing ==
    ASSUME NEW h \in Index, NEW u \in Index, u = (h + 1) % RING_N
    PROVE  Size(h, u) = RING_N - 1
<1>1. u = IF h + 1 = RING_N THEN 0 ELSE h + 1 BY NextIndex DEF Index
<1> QED BY <1>1, RingAssumption DEF Size, Index

\* Moving the tail takes the first of those that wait.
LEMMA AdvanceTakes ==
    ASSUME NEW r \in Ring, NEW h \in Index, NEW u \in Index, u # h,
           NEW v, v = (u + 1) % RING_N
    PROVE  /\ Held(r, h, u) # << >>
           /\ Head(Held(r, h, u)) = r[u]
           /\ Held(r, h, v) = Tail(Held(r, h, u))
<1> USE RingAssumption DEF Index
<1>1. v = (IF u + 1 = RING_N THEN 0 ELSE u + 1) /\ v \in Index BY NextIndex
<1>2. Size(h, v) + 1 = Size(h, u) /\ Size(h, u) \in Nat \ {0} /\ Size(h, v) \in Nat
  BY <1>1 DEF Size
<1> DEFINE q == Held(r, h, u)
           p == Held(r, h, v)
<1>3. /\ q \in Seq(Symbol) /\ Len(q) = Size(h, u)
      /\ p \in Seq(Symbol) /\ Len(p) = Size(h, v)
  BY <1>1, HeldSeq
<1>4. q # << >> BY <1>2, <1>3, EmptySeq
<1>5. /\ Tail(q) \in Seq(Symbol) /\ Len(Tail(q)) = Size(h, v)
      /\ \A j \in 1..Size(h, v) : Tail(q)[j] = q[j + 1]
  <2> HIDE DEF q
  <2> QED BY <1>2, <1>3, <1>4, HeadTailProperties
<1>6. ASSUME NEW j \in 1..Size(h, v) PROVE p[j] = q[j + 1]
  <2>1. Cell(v, j) = Cell(u, j + 1) BY <1>1, <1>2 DEF Cell, Size
  <2>2. j + 1 \in 1..Size(h, u) BY <1>2
  <2> QED BY <2>1, <2>2 DEF Held
<1>7. p = Tail(q)
  <2> HIDE DEF p, q
  <2> QED BY <1>3, <1>5, <1>6, SeqEqual
<1>8. Head(q) = r[u]
  <2>1. Head(q) = q[1]
    <3> HIDE DEF q
    <3> QED BY <1>3, <1>4
  <2>2. 1 \in 1..Size(h, u) /\ Cell(u, 1) = u BY <1>2 DEF Cell
  <2> QED BY <2>1, <2>2 DEF Held
<1> QED BY <1>4, <1>7, <1>8

\* The keys that wait, in a state and in the next.
LEMMA Mapped ==
    ASSUME TypeOK, TypeOK'
    PROVE  /\ ring \in Ring /\ ring_h \in Index /\ ring_t \in Index
           /\ ring' \in Ring /\ ring_h' \in Index
           /\ Waiting = Held(ring, ring_h, ring_t)
           /\ Waiting' = Held(ring', ring_h', ring_t')
           /\ Len(Waiting) = Size(ring_h, ring_t)
<1>1. ring \in Ring /\ ring_h \in Index /\ ring_t \in Index
  BY DEF TypeOK, Ring, Index, Symbol
<1>2. ring_h' \in Index /\ ring_t' \in Index /\ ring' \in Ring
  BY DEF TypeOK, Ring, Index, Symbol
<1>3. Waiting = Held(ring, ring_h, ring_t) BY <1>1, QueueIsHeld DEF Waiting, Filled
<1>4. Waiting' = Held(ring', ring_h', ring_t') BY <1>2, QueueIsHeld DEF Waiting, Filled
<1>5. Len(Waiting) = Size(ring_h, ring_t) BY <1>1, <1>3, HeldSeq
<1> QED BY <1>1, <1>2, <1>3, <1>4, <1>5

\* One key taken is one key put, or dropped because the ring is full.
LEMMA TakePuts ==
    ASSUME IInv, IInv', Take
    PROVE  \E k \in Keys : Queue!Put(k)
<1> DEFINE n == (ring_h + 1) % RING_N
<1>1. /\ rbr # None /\ irq_count' = irq_count + 1 /\ c' = c
      /\ ring_t' = ring_t
      /\ \/ n # ring_t /\ ring' = [ring EXCEPT ![ring_h] = rbr] /\ ring_h' = n
         \/ n = ring_t /\ ring' = ring /\ ring_h' = ring_h
  BY DEF Take, TakeTo, mainvars
<1>2. rbr \in Keys /\ rbr \in Symbol BY <1>1 DEF IInv, TypeOK, Symbol
<1>3. /\ ring \in Ring /\ ring_h \in Index /\ ring_t \in Index
      /\ ring' \in Ring /\ ring_h' \in Index
      /\ Waiting = Held(ring, ring_h, ring_t)
      /\ Waiting' = Held(ring', ring_h', ring_t')
      /\ Len(Waiting) = Size(ring_h, ring_t)
  BY Mapped DEF IInv
<1>4. CASE n # ring_t
  <2>1. ring' = [ring EXCEPT ![ring_h] = rbr] /\ ring_h' = n BY <1>1, <1>4
  <2>2. Waiting' = Held(ring', n, ring_t)
    <3> HIDE DEF n
    <3> QED BY <1>1, <1>3, <2>1
  <2>3. /\ Size(ring_h, ring_t) < RING_N - 1
        /\ Held(ring', n, ring_t) = Append(Held(ring, ring_h, ring_t), rbr)
    <3>1. n = (ring_h + 1) % RING_N OBVIOUS
    <3>2. ring \in Ring /\ ring_h \in Index /\ ring_t \in Index /\ rbr \in Symbol
      BY <1>2, <1>3
    <3>3. n \in Index /\ ring' \in Ring BY <1>3, <2>1
    <3>4. ring'[ring_h] = rbr /\ \A j \in Index : j # ring_h => ring'[j] = ring[j]
      BY <2>1, <3>2 DEF Ring
    <3>5. n # ring_t BY <1>4
    <3> HIDE DEF n
    <3> QED BY <3>1, <3>2, <3>3, <3>4, <3>5, TakeAppends
  <2>4. Waiting' = Append(Waiting, rbr) /\ Len(Waiting) < RING_N - 1
    BY <1>3, <2>2, <2>3
  <2> QED BY <1>1, <1>2, <2>4 DEF Queue!Put
<1>5. CASE n = ring_t
  <2>1. Size(ring_h, ring_t) = RING_N - 1 BY <1>3, <1>5, FullRing
  <2>2. n = ring_t /\ ring' = ring /\ ring_h' = ring_h BY <1>1, <1>5
  <2>3. Waiting' = Waiting /\ ~(Len(Waiting) < RING_N - 1)
    BY <1>1, <1>3, <2>1, <2>2, RingAssumption
  <2> QED BY <1>1, <1>2, <2>3 DEF Queue!Put
<1> QED BY <1>4, <1>5

\* The store of the tail is the get.
LEMMA AdvanceGets ==
    ASSUME IInv, IInv', Advance
    PROVE  Queue!Get
<1>1. /\ pc = "advance" /\ c' = byte /\ ring_t' = (t + 1) % RING_N
      /\ ring' = ring /\ ring_h' = ring_h /\ irq_count' = irq_count
  BY DEF Advance, Goto, soft
<1>2. t = ring_t /\ ring_t # ring_h /\ byte = ring[ring_t]
  BY <1>1 DEF IInv, Reading
<1>3. /\ ring \in Ring /\ ring_h \in Index /\ ring_t \in Index
      /\ Waiting = Held(ring, ring_h, ring_t)
      /\ Waiting' = Held(ring, ring_h, ring_t')
  BY <1>1, Mapped DEF IInv
<1>4. ring_t' = (ring_t + 1) % RING_N BY <1>1, <1>2
<1>5. /\ Held(ring, ring_h, ring_t) # << >>
      /\ Head(Held(ring, ring_h, ring_t)) = ring[ring_t]
      /\ Held(ring, ring_h, ring_t') = Tail(Held(ring, ring_h, ring_t))
  BY <1>2, <1>3, <1>4, AdvanceTakes
<1>6. Waiting # << >> /\ Head(Waiting) = c' /\ Waiting' = Tail(Waiting)
  BY <1>1, <1>2, <1>3, <1>5
<1> QED BY <1>1, <1>6 DEF Queue!Get

\* Nothing else changes the ring or the count.
LEMMA OthersKeep ==
    ASSUME IInv, [Next]_vars, ~Take, ~Advance
    PROVE  UNCHANGED <<ring, ring_h, ring_t, irq_count>>
<1> USE DEF fifo, soft, Set
<1>1. UartIrqInit => UNCHANGED <<ring, ring_h, ring_t, irq_count>>
  BY DEF UartIrqInit, Goto, IInv, Reading
<1>2. OnMode \/ OnIer \/ OnMeie \/ OnMie \/ OffIer \/ OffMeie \/ OffMode
        => UNCHANGED <<ring, ring_h, ring_t, irq_count>>
  BY DEF OnMode, OnIer, OnMeie, OnMie, OffIer, OffMeie, OffMode
<1>3. PollGetc \/ RingTest \/ ReadSlot \/ Handle \/ CountTest \/ SetShown \/ DrawStatus
        => UNCHANGED <<ring, ring_h, ring_t, irq_count>>
  BY DEF PollGetc, RingTest, ReadSlot, Handle, CountTest, SetShown, DrawStatus
<1>4. Claim \/ Drained \/ Complete \/ Raise \/ (\E k \in Keys : Press(k))
        => UNCHANGED <<ring, ring_h, ring_t, irq_count>>
  BY DEF Claim, Drained, Complete, Raise, Press
<1>5. UNCHANGED vars => UNCHANGED <<ring, ring_h, ring_t, irq_count>> BY DEF vars
<1> QED BY <1>1, <1>2, <1>3, <1>4, <1>5 DEF Next, Main, Handler

\* The ring implements the bounded queue: the handler puts, main gets in order,
\* and a key is dropped only when RING_N - 1 wait.
THEOREM RingIsQueue == Spec => QueueSpec
<1>1. Init => Queue!Init
  <2> SUFFICES ASSUME Init PROVE Queue!Init OBVIOUS
  <2>1. ring_h \in Index /\ ring_t \in Index /\ Size(ring_h, ring_t) = 0
    BY RingAssumption DEF Init, Index, Size
  <2>2. Waiting = Held(ring, ring_h, ring_t)
    BY <2>1, QueueIsHeld DEF Waiting, Filled
  <2>3. Held(ring, ring_h, ring_t) = << >> BY <2>1 DEF Held
  <2> QED BY <2>2, <2>3 DEF Init, Queue!Init
<1>2. IInv /\ IInv' /\ [Next]_vars => [Queue!Next]_(Queue!vars)
  <2> SUFFICES ASSUME IInv, IInv', [Next]_vars PROVE [Queue!Next]_(Queue!vars)
    OBVIOUS
  <2>1. CASE Take BY <2>1, TakePuts DEF Queue!Next
  <2>2. CASE Advance BY <2>2, AdvanceGets DEF Queue!Next
  <2>3. CASE ~Take /\ ~Advance
    <3>1. UNCHANGED <<ring, ring_h, ring_t, irq_count>> BY <2>3, OthersKeep
    <3>2. Waiting' = Waiting BY <3>1, Mapped DEF IInv
    <3> QED BY <3>1, <3>2 DEF Queue!Next, Queue!Other, Queue!vars
  <2> QED BY <2>1, <2>2, <2>3
<1> QED BY <1>1, <1>2, Invariance, PTL DEF Spec, QueueSpec, Queue!Spec

=============================================================================
