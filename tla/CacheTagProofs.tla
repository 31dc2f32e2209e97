--------------------------- MODULE CacheTagProofs ---------------------------
(***************************************************************************)
(* Theorems about CacheTag: for every cache geometry, link layout and set  *)
(* of lessons, every variable keeps its type, the start-up code and the    *)
(* caches implement PlainMemory, the tag dump tells where its line is, no  *)
(* access waits for a way and every trap of the handler is resumed.        *)
(***************************************************************************)
EXTENDS CacheTag, SequenceTheorems, FiniteSetTheorems, TLAPS

\* The memory and caches have their types.
L1Type ==
  /\ mem \in [Word -> Val] /\ core \in [Word -> Val]
  /\ held \in [Side -> [Set -> [Way -> SUBSET Line]]]
  /\ dirty \subseteq Line /\ on \in BOOLEAN

\* Caches that are off hold nothing.
Off == ~on => dirty = {} /\ core = mem /\ held = [c \in Side |-> NoLines]

\* What is not dirty is in memory as the program sees it.
Agree == \A w \in Word : LineOf(w) \notin dirty => core[w] = mem[w]

\* Where the caches are on, and when the flush has cleaned them.
Placed ==
  /\ pc \notin Starting => on
  /\ pc \in {"iall", "invalid"} => dirty = {}

\* A way that is being read is one of the cache.
Reading == pc = "tag" \/ (pc \in {"run", "trap"} /\ then = "tag") => dump.way < L1_WAYS

\* How far the loops are.
Bounds ==
  /\ Reading
  /\ pc = "copy" => ptr <= DataSize
  /\ pc = "copystore" => ptr < DataSize
  /\ pc = "clear" => ptr <= BssSize

RomHolds == \A w \in Rom : mem[w] = image
Copied(n) == \A k \in 0..(n - 1) : mem[__data_start + k] = image
Zeroed(n) == \A k \in 0..(n - 1) : mem[_bss_start + k] = "zero"

\* What _start has done so far, when it began with the caches off.
Progress ==
  cold /\ pc \in Starting =>
    /\ ~on
    /\ pc \in {"start", "copy", "copystore"} => RomHolds
    /\ pc \in {"copy", "copystore"} => Copied(ptr)
    /\ pc = "copystore" => t0 = image
    /\ pc \in {"clear", "mcor", "mhcr"} => Copied(DataSize)
    /\ pc = "clear" => Zeroed(ptr)
    /\ pc \in {"mcor", "mhcr"} => Zeroed(BssSize)

IInv == TypeOK /\ Off /\ (pc # "start" => Agree) /\ Placed /\ Bounds /\ Progress

-----------------------------------------------------------------------------
(* The layout. *)

LEMMA Monotone ==
  ASSUME NEW a \in Nat, NEW b \in Nat, NEW c \in Nat, a <= b
  PROVE  c * a <= c * b
<1>1. PICK d \in Nat : b = a + d
  <2>1. b - a \in Nat /\ b = a + (b - a) OBVIOUS
  <2> QED BY <2>1
<1>2. c * (a + d) = c * a + c * d /\ c * d \in Nat /\ c * a \in Nat OBVIOUS
<1> QED BY <1>1, <1>2

\* A word is in a line.
LEMMA WordLine == \A w \in Word : LineOf(w) \in Line
<1> SUFFICES ASSUME NEW w \in Word PROVE w \div L1_LINE \in 0..(LINES - 1)
  BY DEF LineOf, Line
<1>1. w \in Nat /\ L1_LINE \in Nat \ {0} /\ LINES \in Nat /\ w < LINES * L1_LINE
  BY L1Assumption DEF Word
<1> DEFINE q == w \div L1_LINE
<1>2. q \in Nat /\ L1_LINE * q <= w BY <1>1
<1>3. q < LINES
  <2> HIDE DEF q
  <2>1. ASSUME q >= LINES PROVE FALSE
    <3>1. L1_LINE * LINES <= L1_LINE * q BY <1>1, <1>2, <2>1, Monotone
    <3>2. L1_LINE * LINES = LINES * L1_LINE BY <1>1
    <3>3. L1_LINE * LINES \in Nat /\ L1_LINE * q \in Nat BY <1>1, <1>2
    <3> QED BY <1>1, <1>2, <3>1, <3>2, <3>3
  <2> QED BY <1>1, <1>2, <2>1
<1> QED BY <1>1, <1>2, <1>3

\* A line has a set.
LEMMA LineSet == \A l \in Line : SetOf(l) \in Set
BY L1Assumption DEF Line, Set, SetOf

\* The image and the variables are words of memory, and apart from each other.
LEMMA Layout ==
  /\ Data \subseteq Word /\ Bss \subseteq Word /\ Rom \subseteq Word
  /\ Rom \cap (Data \cup Bss) = {} /\ Data \cap Bss = {}
  /\ DataSize \in Nat /\ BssSize \in Nat
<1>1. LINES * L1_LINE \in Nat BY L1Assumption
<1> DEFINE size == LINES * L1_LINE
<1> HIDE DEF size
<1>2. size \in Nat /\ Word = 0..(size - 1) /\ _bss_end <= size
  BY <1>1, LayoutAssumption DEF Word, size
<1>3. /\ __data_load_start \in Nat /\ __data_start \in Nat /\ __data_end \in Nat
      /\ _bss_start \in Nat /\ _bss_end \in Nat
      /\ __data_start <= __data_end /\ __data_end <= _bss_start /\ _bss_start <= _bss_end
      /\ __data_load_start + (__data_end - __data_start) <= __data_start
  BY LayoutAssumption
<1>4. DataSize \in Nat /\ BssSize \in Nat BY <1>3 DEF DataSize, BssSize
<1>5. Data \subseteq Word /\ Bss \subseteq Word BY <1>2, <1>3 DEF Data, Bss
<1>6. Rom \subseteq Word BY <1>2, <1>3 DEF Rom, DataSize
<1>7. Rom \cap (Data \cup Bss) = {} BY <1>3 DEF Data, Bss, Rom, DataSize
<1>8. Data \cap Bss = {} BY <1>3 DEF Data, Bss
<1> QED BY <1>4, <1>5, <1>6, <1>7, <1>8

\* The lines that the stack and the text use.
LEMMA Lines == Stack \subseteq Line /\ Code \subseteq Line /\ ProbeLine \in Line
BY L1Assumption, TagAssumption, WordLine, Layout DEF Line, ProbeLine

\* What the words hold.
LEMMA Values == Image \subseteq Val /\ {"zero", "one", "magic", "junk"} \subseteq Val
BY LayoutAssumption, SkipAssumption, TagAssumption

\* Empty caches.
LEMMA NoLinesType ==
  /\ NoLines \in [Set -> [Way -> SUBSET Line]]
  /\ [c \in Side |-> NoLines] \in [Side -> [Set -> [Way -> SUBSET Line]]]
BY DEF NoLines

-----------------------------------------------------------------------------
(* The operations of L1. *)

LEMMA BringKeeps ==
  ASSUME L1Type, NEW c \in Side, NEW l \in Line, Bring(c, l)
  PROVE  /\ held' \in [Side -> [Set -> [Way -> SUBSET Line]]]
         /\ ~on => held' = held
<1>1. CASE held' = held BY <1>1 DEF L1Type
<1>2. CASE held' # held
  <2>1. PICK w \in Way : held' = [held EXCEPT ![c][SetOf(l)][w] = {l}]
    BY <1>2 DEF Bring
  <2>2. SetOf(l) \in Set BY LineSet
  <2>3. on BY <1>2 DEF Bring
  <2> QED BY <2>1, <2>2, <2>3 DEF L1Type
<1> QED BY <1>1, <1>2

LEMMA AccessKeeps ==
  ASSUME L1Type, Off, NEW c \in Side, NEW l \in Line, Bring(c, l),
         UNCHANGED <<mem, core, dirty, on>>
  PROVE  L1Type' /\ Off' /\ (Agree => Agree')
<1>1. L1Type' BY BringKeeps DEF L1Type
<1>2. Off' BY BringKeeps DEF Off
<1> QED BY <1>1, <1>2 DEF Agree

LEMMA NoneHeld ==
  ASSUME L1Type, Off, ~on
  PROVE  \A w \in Word : ~Held("D", LineOf(w))
<1> TAKE w \in Word
<1>1. held["D"] = NoLines BY DEF Off, Side
<1>2. SetOf(LineOf(w)) \in Set BY WordLine, LineSet
<1>3. \A x \in Way : held["D"][SetOf(LineOf(w))][x] = {} BY <1>1, <1>2 DEF NoLines
<1>4. {LineOf(w)} # {} OBVIOUS
<1> QED BY <1>3, <1>4 DEF Held

LEMMA StoreKeeps ==
  ASSUME L1Type, Off, NEW w \in Word, NEW v \in Val, StoreWord(w, v)
  PROVE  /\ L1Type' /\ Off' /\ (Agree => Agree')
         /\ on' = on
         /\ on => core' = [core EXCEPT ![w] = v]
         /\ ~on => mem' = [mem EXCEPT ![w] = v]
<1> USE DEF L1Type
<1>1. LineOf(w) \in Line /\ SetOf(LineOf(w)) \in Set BY WordLine, LineSet
<1>2. held' \in [Side -> [Set -> [Way -> SUBSET Line]]] /\ (~on => held' = held)
  BY <1>1, BringKeeps DEF StoreWord, Side
<1>3. CASE on
  <2>1. /\ core' = [core EXCEPT ![w] = v] /\ mem' = mem /\ on' = on
        /\ dirty' = dirty \cup {LineOf(w)}
    BY <1>3 DEF StoreWord
  <2>2. L1Type' BY <1>1, <1>2, <2>1
  <2>3. Agree => Agree' BY <2>1 DEF Agree
  <2> QED BY <1>3, <2>1, <2>2, <2>3 DEF Off
<1>4. CASE ~on
  <2>1. ~Held("D", LineOf(w)) BY <1>4, NoneHeld
  <2>2. /\ core' = [core EXCEPT ![w] = v] /\ mem' = [mem EXCEPT ![w] = v]
        /\ on' = on /\ dirty' = dirty /\ core = mem
    BY <1>4, <2>1 DEF StoreWord, Off
  <2>3. L1Type' BY <1>2, <2>2
  <2>4. core' = mem' BY <2>2
  <2> QED BY <1>2, <1>4, <2>2, <2>3, <2>4 DEF Off, Agree
<1> QED BY <1>3, <1>4

LEMMA WriteBackKeeps ==
  ASSUME L1Type, Off, NEW l, WriteBack(l)
  PROVE  L1Type' /\ Off' /\ (Agree => Agree') /\ on /\ on' /\ core' = core
<1> USE DEF L1Type
<1>1. on BY DEF Off, WriteBack
<1>2. l \in Line /\ mem' = Cleaned({l}) /\ UNCHANGED <<core, held, on>>
      /\ dirty' = dirty \ {l}
  BY DEF WriteBack
<1>3. Cleaned({l}) \in [Word -> Val] BY DEF Cleaned
<1>4. L1Type' BY <1>2, <1>3
<1>5. Agree => Agree' BY <1>2 DEF Agree, Cleaned
<1> QED BY <1>1, <1>2, <1>4, <1>5 DEF Off

\* Cleaned of all that is dirty, memory is as the program sees it.
LEMMA CleanKeeps ==
  ASSUME L1Type, on, Agree, CleanInvalidate
  PROVE  L1Type' /\ Agree' /\ on' /\ dirty' = {} /\ core' = core
<1> USE DEF L1Type
<1>1. mem' = Cleaned(dirty) /\ core' = mem' /\ dirty' = {} /\ on' = on
      /\ held' = [held EXCEPT !["D"] = NoLines]
  BY DEF CleanInvalidate
<1>2. Cleaned(dirty) = core BY DEF Cleaned, Agree
<1>3. held' \in [Side -> [Set -> [Way -> SUBSET Line]]] BY <1>1, NoLinesType
<1> QED BY <1>1, <1>2, <1>3 DEF Agree

\* An invalidation drops nothing when nothing is dirty.
LEMMA InvalidateKeeps ==
  ASSUME L1Type, on, Agree, dirty = {}, Invalidate
  PROVE  L1Type' /\ Agree' /\ on' /\ dirty' = {} /\ core' = core
<1> USE DEF L1Type
<1>1. core' = mem /\ dirty' = {} /\ UNCHANGED <<mem, on>>
      /\ held' = [held EXCEPT !["D"] = NoLines]
  BY DEF Invalidate
<1>2. core = mem BY DEF Agree
<1>3. held' \in [Side -> [Set -> [Way -> SUBSET Line]]] BY <1>1, NoLinesType
<1> QED BY <1>1, <1>2, <1>3 DEF Agree

LEMMA InvalidateIKeeps ==
  ASSUME L1Type, InvalidateI
  PROVE  L1Type' /\ (Agree => Agree') /\ UNCHANGED <<mem, core, dirty, on>>
<1> USE DEF L1Type
<1>1. UNCHANGED <<mem, core, dirty, on>> /\ held' = [held EXCEPT !["I"] = NoLines]
  BY DEF InvalidateI
<1>2. held' \in [Side -> [Set -> [Way -> SUBSET Line]]] BY <1>1, NoLinesType
<1> QED BY <1>1, <1>2 DEF Agree

-----------------------------------------------------------------------------
(* The steps. *)

Insns == Seq([low : 0..3, traps : SUBSET BOOLEAN])

DumpType ==
  [key : {"none", "1", "2", "f", "s"}, side : Side, line : Nat, way : 0..L1_WAYS,
   hits : SUBSET Way]

\* The menus, the tests and the dump, but for the middle of the flush.
Running == {"prompt", "run", "trap", "halt", "touch", "call", "ciall", "dump", "tag", "expect"}

\* The memory part of the type invariant.
LEMMA L1Part == TypeOK => L1Type
BY DEF TypeOK, L1Type

LEMMA InitIInv == Init => IInv
<1> SUFFICES ASSUME Init PROVE IInv OBVIOUS
<1> USE DEF Init
<1>1. mem \in [Word -> Val]
  BY Values
<1>2. L1Type
  BY <1>1, NoLinesType DEF L1Type
<1>3. image \in Image /\ t0 \in Val /\ code \in Seq([low : 0..3, traps : SUBSET BOOLEAN])
  BY Values
<1>4. dump \in [key : {"none", "1", "2", "f", "s"}, side : Side, line : Nat,
               way : 0..L1_WAYS, hits : SUBSET Way]
  BY L1Assumption DEF NoDump, Side
<1>5. TypeOK BY <1>2, <1>3, <1>4, LayoutAssumption DEF TypeOK, L1Type, Starting
<1>6. Off /\ Placed /\ Bounds BY DEF Off, Placed, Bounds, Reading, Starting
<1>7. Progress BY Layout DEF Progress, RomHolds
<1> QED BY <1>5, <1>6, <1>7 DEF IInv

\* J-Link.
LEMMA LoadIInv ==
  ASSUME IInv, Load, UNCHANGED diag
  PROVE  IInv'
<1>1. PICK i \in Image : Reset(i) \/ Reload(i) BY DEF Load
<1>2. /\ pc' = "start" /\ image' = i /\ mem' = Loaded(i) /\ loads' \in 0..MaxLoads
      /\ UNCHANGED <<ptr, t0>>
  <2>1. loads' = loads + 1 /\ loads < MaxLoads /\ loads \in 0..MaxLoads /\ MaxLoads \in Nat
    BY <1>1, LayoutAssumption DEF Reset, Reload, ToStart, IInv, TypeOK
  <2>2. loads' \in 0..MaxLoads BY <2>1
  <2> QED BY <1>1, <2>2 DEF Reset, Reload, ToStart
<1>3. mem' \in [Word -> Val] BY <1>2, Values DEF Loaded, IInv, TypeOK
<1>4. L1Type' /\ Off' /\ (cold' => ~on') /\ cold' \in BOOLEAN
  <2>1. CASE Reset(i)
    <3>1. core' = mem' /\ held' = [c \in Side |-> NoLines] /\ dirty' = {} /\ on' = FALSE
          /\ cold' = TRUE
      BY <2>1 DEF Reset
    <3> QED BY <1>3, <3>1, NoLinesType DEF L1Type, Off
  <2>2. CASE Reload(i)
    <3>1. /\ UNCHANGED <<held, dirty, on>> /\ cold' = ~on
          /\ core' = [w \in Word |-> IF w \in Rom /\ ~Held("D", LineOf(w)) THEN i ELSE core[w]]
      BY <2>2 DEF Reload
    <3>2. core' \in [Word -> Val] BY <3>1, Values DEF IInv, TypeOK
    <3>3. L1Type' BY <1>3, <3>1, <3>2 DEF L1Type, IInv, TypeOK
    <3>4. ASSUME ~on PROVE core' = mem'
      <4>1. core = mem BY <3>4 DEF IInv, Off
      <4>2. \A w \in Word : ~Held("D", LineOf(w)) BY <3>4, L1Part, NoneHeld DEF IInv
      <4> QED BY <1>2, <3>1, <4>1, <4>2 DEF Loaded
    <3>5. Off' BY <3>1, <3>4 DEF Off, IInv
    <3> QED BY <3>1, <3>3, <3>5 DEF IInv, TypeOK
  <2> QED BY <1>1, <2>1, <2>2
<1>5. /\ code' = << >> /\ mepc' = 1 /\ then' = "prompt" /\ dump' = NoDump BY DEF Load
<1>6. dump' \in [key : {"none", "1", "2", "f", "s"}, side : Side, line : Nat,
                way : 0..L1_WAYS, hits : SUBSET Way]
  BY <1>5, L1Assumption DEF NoDump, Side
<1>7. code' \in Seq([low : 0..3, traps : SUBSET BOOLEAN]) BY <1>5
<1>8. TypeOK' BY <1>2, <1>4, <1>5, <1>6, <1>7 DEF TypeOK, L1Type, Starting, IInv
<1>9. Progress'
  <2>1. RomHolds' BY <1>2, Layout DEF RomHolds, Loaded
  <2> QED BY <1>2, <1>4, <2>1 DEF Progress
<1>10. Placed' /\ Bounds' BY <1>2 DEF Placed, Bounds, Reading, Starting
<1> QED BY <1>2, <1>4, <1>8, <1>9, <1>10 DEF IInv

\* The words of the two loops.
LEMMA CopyWord ==
  ASSUME ptr \in Nat, ptr < DataSize
  PROVE  /\ __data_load_start + ptr \in Rom /\ __data_load_start + ptr \in Word
         /\ __data_start + ptr \in Data /\ __data_start + ptr \in Word
<1>1. __data_load_start \in Nat /\ __data_start \in Nat /\ __data_end \in Nat
  BY LayoutAssumption
<1>2. __data_load_start + ptr \in Rom /\ __data_start + ptr \in Data
  BY <1>1 DEF Rom, Data, DataSize
<1> QED BY <1>2, Layout

LEMMA ClearedWord ==
  ASSUME ptr \in Nat, ptr < BssSize
  PROVE  _bss_start + ptr \in Bss /\ _bss_start + ptr \in Word
<1>1. _bss_start \in Nat /\ _bss_end \in Nat BY LayoutAssumption
<1>2. _bss_start + ptr \in Bss BY <1>1 DEF Bss, BssSize
<1> QED BY <1>2, Layout

\* A step of the start-up code that leaves memory and caches alone, or only brings a
\* line in: the parts of the invariant that speak of them.
LEMMA StartIInv ==
  ASSUME IInv, Start, UNCHANGED <<test, dump, diag>>
  PROVE  IInv'
<1>1. /\ pc = "start" /\ held' = [c \in Side |-> NoLines] /\ core' = mem /\ dirty' = {}
      /\ ptr' = 0 /\ t0' = "zero" /\ pc' = "copy"
      /\ UNCHANGED <<mem, on, image, cold, loads>>
  BY DEF Start
<1>2. t0' \in Val BY <1>1, Values
<1>3. TypeOK' BY <1>1, <1>2, NoLinesType DEF IInv, TypeOK, test, Starting
<1>4. Off' /\ Agree' BY <1>1 DEF Off, Agree
<1>5. Placed' BY <1>1 DEF Placed, Starting
<1>6. Bounds' BY <1>1, Layout DEF Bounds, Reading
<1>7. Progress' BY <1>1 DEF IInv, Progress, Starting, RomHolds, Copied
<1> QED BY <1>3, <1>4, <1>5, <1>6, <1>7 DEF IInv

LEMMA CopyIInv ==
  ASSUME IInv, CopyLoad \/ CopyStore \/ CopyDone, UNCHANGED <<test, dump, diag>>
  PROVE  IInv'
<1>1. L1Type /\ Off BY L1Part DEF IInv
<1>2. CASE CopyLoad
  <2> DEFINE w == __data_load_start + ptr
  <2>1. /\ pc = "copy" /\ ptr < DataSize /\ LoadLine(LineOf(w)) /\ t0' = Seen(w)
        /\ pc' = "copystore" /\ UNCHANGED <<image, ptr, cold, loads>>
    BY <1>2 DEF CopyLoad
  <2>2. w \in Rom /\ w \in Word BY <2>1, CopyWord DEF IInv, TypeOK
  <2> HIDE DEF w
  <2>3. LineOf(w) \in Line /\ "D" \in Side BY <2>2, WordLine DEF Side
  <2>4. Bring("D", LineOf(w)) /\ UNCHANGED <<mem, core, dirty, on>>
    BY <2>1 DEF LoadLine
  <2>5. L1Type' /\ Off' /\ (Agree => Agree') BY <1>1, <2>3, <2>4, AccessKeeps
  <2>6. t0' \in Val BY <2>1, <2>2 DEF Seen, IInv, TypeOK
  <2>7. TypeOK' BY <2>1, <2>5, <2>6 DEF IInv, TypeOK, L1Type, test, Starting
  <2>8. Progress'
    <3>1. cold => t0' = image BY <2>1, <2>2 DEF IInv, Progress, RomHolds, Seen, Starting
    <3> QED BY <2>1, <2>4, <3>1 DEF IInv, Progress, Starting, RomHolds, Copied
  <2>9. Placed' /\ Bounds' BY <2>1 DEF Placed, Bounds, Reading, Starting
  <2> QED BY <2>1, <2>5, <2>7, <2>8, <2>9 DEF IInv
<1>3. CASE CopyStore
  <2> DEFINE w == __data_start + ptr
  <2>1. /\ pc = "copystore" /\ StoreWord(w, t0) /\ t0' = "zero" /\ ptr' = ptr + 1
        /\ pc' = "copy" /\ UNCHANGED <<image, cold, loads>>
    BY <1>3 DEF CopyStore
  <2>2. ptr \in Nat /\ ptr < DataSize BY <2>1 DEF IInv, TypeOK, Bounds, Reading
  <2>3. w \in Data /\ w \in Word /\ t0 \in Val BY <2>2, CopyWord DEF IInv, TypeOK
  <2> HIDE DEF w
  <2>4. /\ L1Type' /\ Off' /\ (Agree => Agree') /\ on' = on
        /\ ~on => mem' = [mem EXCEPT ![w] = t0]
    BY <1>1, <2>1, <2>3, StoreKeeps
  <2>5. t0' \in Val /\ ptr' \in Nat BY <2>1, <2>2, Values
  <2>6. TypeOK' BY <2>1, <2>4, <2>5 DEF IInv, TypeOK, L1Type, test, Starting
  <2>7. Bounds' BY <2>1, <2>2, Layout DEF Bounds, Reading
  <2>8. Progress'
    <3>1. ASSUME cold
          PROVE  ~on' /\ RomHolds' /\ \A k \in 0..(ptr' - 1) : mem'[__data_start + k] = image'
      <4>1. ~on /\ RomHolds /\ Copied(ptr) /\ t0 = image /\ mem' = [mem EXCEPT ![w] = image]
        BY <2>1, <2>4, <3>1 DEF IInv, Progress, Starting
      <4>2. RomHolds' BY <2>1, <2>3, <4>1, Layout DEF RomHolds
      <4>3. \A k \in 0..ptr : mem'[__data_start + k] = image
        <5> TAKE k \in 0..ptr
        <5>1. __data_start + k \in Word
          <6>1. __data_start \in Nat /\ __data_end \in Nat BY LayoutAssumption
          <6>2. __data_start + k \in Data BY <2>2, <6>1 DEF Data, DataSize
          <6> QED BY <6>2, Layout
        <5>2. CASE k = ptr
          <6>1. __data_start + k = w BY <5>2 DEF w
          <6> QED BY <2>3, <4>1, <6>1 DEF IInv, TypeOK
        <5>3. CASE k # ptr
          <6>1. k \in 0..(ptr - 1) BY <2>2, <5>3
          <6>2. mem[__data_start + k] = image BY <4>1, <6>1 DEF Copied
          <6> QED BY <4>1, <5>1, <6>2 DEF IInv, TypeOK
        <5> QED BY <5>2, <5>3
      <4>4. ptr' - 1 = ptr BY <2>1, <2>2
      <4> QED BY <2>1, <2>4, <4>1, <4>2, <4>3, <4>4
    <3> QED BY <2>1, <3>1 DEF Progress, Copied
  <2>9. Placed' BY <2>1 DEF Placed, Starting
  <2> QED BY <2>1, <2>4, <2>6, <2>7, <2>8, <2>9 DEF IInv
<1>4. CASE CopyDone
  <2>1. /\ pc = "copy" /\ ptr >= DataSize /\ ptr' = 0 /\ pc' = "clear"
        /\ UNCHANGED <<l1, image, t0, cold, loads>>
    BY <1>4 DEF CopyDone
  <2>2. ptr = DataSize BY <2>1, Layout DEF IInv, TypeOK, Bounds, Reading
  <2>3. TypeOK' BY <2>1 DEF IInv, TypeOK, l1, test, Starting
  <2>4. Off' /\ Agree' BY <2>1 DEF IInv, Off, Agree, l1
  <2>5. Placed' /\ Bounds' BY <2>1, Layout DEF Placed, Bounds, Reading, Starting
  <2>6. Progress'
    BY <2>1, <2>2 DEF IInv, Progress, Starting, Copied, Zeroed, l1
  <2> QED BY <2>3, <2>4, <2>5, <2>6 DEF IInv
<1> QED BY <1>2, <1>3, <1>4

LEMMA ClearIInv ==
  ASSUME IInv, ClearWord \/ ClearDone, UNCHANGED <<test, dump, diag>>
  PROVE  IInv'
<1>1. L1Type /\ Off BY L1Part DEF IInv
<1>2. CASE ClearWord
  <2> DEFINE w == _bss_start + ptr
  <2>1. /\ pc = "clear" /\ ptr < BssSize /\ StoreWord(w, "zero") /\ ptr' = ptr + 1
        /\ UNCHANGED <<pc, image, t0, cold, loads>>
    BY <1>2 DEF ClearWord
  <2>2. ptr \in Nat BY DEF IInv, TypeOK
  <2>3. w \in Bss /\ w \in Word /\ "zero" \in Val BY <2>1, <2>2, ClearedWord, Values
  <2> HIDE DEF w
  <2>4. /\ L1Type' /\ Off' /\ (Agree => Agree') /\ on' = on
        /\ ~on => mem' = [mem EXCEPT ![w] = "zero"]
    BY <1>1, <2>1, <2>3, StoreKeeps
  <2>5. TypeOK' BY <2>1, <2>2, <2>4 DEF IInv, TypeOK, L1Type, test, Starting
  <2>6. Bounds' BY <2>1, <2>2, Layout DEF Bounds, Reading
  <2>7. Progress'
    <3>1. ASSUME cold
          PROVE  ~on' /\ Copied(DataSize)' /\ \A k \in 0..(ptr' - 1) : mem'[_bss_start + k] = "zero"
      <4>1. ~on /\ Copied(DataSize) /\ Zeroed(ptr) /\ mem' = [mem EXCEPT ![w] = "zero"]
        BY <2>1, <2>4, <3>1 DEF IInv, Progress, Starting
      <4>2. Copied(DataSize)'
        <5>1. ASSUME NEW k \in 0..(DataSize - 1)
              PROVE  __data_start + k \in Word /\ __data_start + k # w
          <6>1. __data_start \in Nat /\ __data_end \in Nat BY LayoutAssumption
          <6>2. __data_start + k \in Data BY <6>1 DEF Data, DataSize
          <6> QED BY <2>3, <6>2, Layout
        <5> QED BY <2>1, <4>1, <5>1 DEF Copied, IInv, TypeOK
      <4>3. \A k \in 0..ptr : mem'[_bss_start + k] = "zero"
        <5> TAKE k \in 0..ptr
        <5>1. _bss_start + k \in Word
          <6>1. _bss_start \in Nat /\ _bss_end \in Nat BY LayoutAssumption
          <6>2. _bss_start + k \in Bss BY <2>1, <2>2, <6>1 DEF Bss, BssSize
          <6> QED BY <6>2, Layout
        <5>2. CASE k = ptr
          <6>1. _bss_start + k = w BY <5>2 DEF w
          <6> QED BY <2>3, <4>1, <6>1 DEF IInv, TypeOK
        <5>3. CASE k # ptr
          <6>1. k \in 0..(ptr - 1) BY <2>2, <5>3
          <6>2. mem[_bss_start + k] = "zero" BY <4>1, <6>1 DEF Zeroed
          <6> QED BY <4>1, <5>1, <6>2 DEF IInv, TypeOK
        <5> QED BY <5>2, <5>3
      <4>4. ptr' - 1 = ptr BY <2>1, <2>2
      <4> QED BY <2>1, <2>4, <4>1, <4>2, <4>3, <4>4
    <3> QED BY <2>1, <3>1 DEF Progress, Zeroed
  <2>8. Placed' BY <2>1 DEF Placed, Starting
  <2> QED BY <2>1, <2>4, <2>5, <2>6, <2>7, <2>8 DEF IInv
<1>3. CASE ClearDone
  <2>1. /\ pc = "clear" /\ ptr >= BssSize /\ ptr' = 0 /\ pc' = "mcor"
        /\ UNCHANGED <<l1, image, t0, cold, loads>>
    BY <1>3 DEF ClearDone
  <2>2. ptr = BssSize BY <2>1, Layout DEF IInv, TypeOK, Bounds, Reading
  <2>3. TypeOK' BY <2>1 DEF IInv, TypeOK, l1, test, Starting
  <2>4. Off' /\ Agree' BY <2>1 DEF IInv, Off, Agree, l1
  <2>5. Placed' /\ Bounds' BY <2>1, Layout DEF Placed, Bounds, Reading, Starting
  <2>6. Progress'
    BY <2>1, <2>2 DEF IInv, Progress, Starting, Copied, Zeroed, l1
  <2> QED BY <2>3, <2>4, <2>5, <2>6 DEF IInv
<1> QED BY <1>2, <1>3

\* mcor drops what is dirty, and when the caches were off that is nothing.
LEMMA EnableIInv ==
  ASSUME IInv, Mcor \/ Mhcr, UNCHANGED <<test, dump, diag>>
  PROVE  IInv'
<1>1. CASE Mcor
  <2>1. /\ pc = "mcor" /\ held' = [c \in Side |-> NoLines] /\ core' = mem /\ dirty' = {}
        /\ pc' = "mhcr" /\ UNCHANGED <<mem, on, image, ptr, t0, cold, loads>>
    BY <1>1 DEF Mcor, InvalidateBoth, startup
  <2>2. TypeOK' BY <2>1, NoLinesType DEF IInv, TypeOK, test, Starting
  <2>3. Off' /\ Agree' BY <2>1 DEF Off, Agree
  <2>4. Placed' /\ Bounds' BY <2>1 DEF Placed, Bounds, Reading, Starting
  <2>5. Progress' BY <2>1 DEF IInv, Progress, Starting, Copied, Zeroed
  <2> QED BY <2>2, <2>3, <2>4, <2>5 DEF IInv
<1>2. CASE Mhcr
  <2>1. /\ pc = "mhcr" /\ on' = TRUE /\ pc' = "main"
        /\ UNCHANGED <<mem, core, held, dirty, image, ptr, t0, cold, loads>>
    BY <1>2 DEF Mhcr, Enable, startup
  <2>2. TypeOK' BY <2>1 DEF IInv, TypeOK, test, Starting
  <2>3. Off' /\ Agree' BY <2>1 DEF IInv, Off, Agree
  <2>4. Placed' /\ Bounds' /\ Progress' BY <2>1 DEF Placed, Bounds, Reading, Progress, Starting
  <2> QED BY <2>2, <2>3, <2>4 DEF IInv
<1> QED BY <1>1, <1>2

\* A step of a lesson that leaves memory and caches alone.
LEMMA SilentIInv ==
  ASSUME IInv, UNCHANGED <<l1, startup, diag>>, pc \notin Starting, pc' \in Running,
         code' \in Insns, mepc' \in Nat, then' \in {"prompt", "tag"}, dump' \in DumpType, Reading'
  PROVE  IInv'
<1> USE DEF l1, startup
<1>1. TypeOK' BY DEF IInv, TypeOK, Running, Insns, DumpType
<1>2. Off' /\ Agree' BY DEF IInv, Off, Agree, Starting
<1>3. pc' \notin Starting BY DEF Running, Starting
<1>4. Placed' BY DEF IInv, Placed, Running
<1>5. Bounds' /\ Progress' BY <1>3 DEF Bounds, Progress, Starting
<1> QED BY <1>1, <1>2, <1>4, <1>5 DEF IInv

\* The instructions that may trap.
LEMMA InsnTypes ==
  /\ \A t \in Tests : t \in Insns
  /\ Csr \o Csr \o Csr \o Csr \in Insns
<1> DEFINE H == [low : 0..3, traps : SUBSET BOOLEAN]
<1>1. \A low \in 0..3, traps \in SUBSET BOOLEAN : Half(low, traps) \in H BY DEF Half
<1>2. \A traps \in SUBSET BOOLEAN : Half(3, traps) \in H /\ Half(0, BOOLEAN) \in H
  BY <1>1
<1>3. \A low \in 0..3, traps \in SUBSET BOOLEAN : Short(low, traps) \in Seq(H)
  BY <1>1 DEF Short
<1>4. \A traps \in SUBSET BOOLEAN : Long(traps) \in Seq(H)
  BY <1>2 DEF Long
<1> HIDE DEF H
<1>5. \A s, t \in Seq(H) : s \o t \in Seq(H) OBVIOUS
<1>6. {TRUE} \in SUBSET BOOLEAN /\ BOOLEAN \in SUBSET BOOLEAN /\ {~diag} \in SUBSET BOOLEAN
  OBVIOUS
<1>7. \A t \in Tests : t \in Seq(H)
  <2>1. Short(0, {TRUE}) \in Seq(H) /\ Short(2, {TRUE}) \in Seq(H) /\ Short(0, BOOLEAN) \in Seq(H)
    <3>1. \A traps \in SUBSET BOOLEAN : Short(0, traps) \in Seq(H) /\ Short(2, traps) \in Seq(H)
      BY <1>3
    <3> QED BY <1>6, <3>1, Zenon
  <2>2. Short(0, {TRUE}) \o Short(0, {TRUE}) \in Seq(H) BY <1>5, <2>1
  <2>3. Long(BOOLEAN) \in Seq(H) /\ Long({TRUE}) \in Seq(H) BY <1>4, <1>6
  <2> QED BY <2>1, <2>2, <2>3 DEF Tests
<1>8. Csr \in Seq(H) BY <1>4, <1>6 DEF Csr
<1>9. Csr \o Csr \o Csr \o Csr \in Seq(H)
  <2> DEFINE s == Csr
  <2> HIDE DEF s
  <2>1. s \in Seq(H) BY <1>8 DEF s
  <2>2. s \o s \o s \o s \in Seq(H) BY <1>5, <2>1
  <2> QED BY <2>2 DEF s
<1> QED BY <1>7, <1>9 DEF H, Insns

\* The tests and the menus.
LEMMA MenuIInv ==
  ASSUME IInv, Execute \/ TestDone \/ Main \/ TestKey \/ DumpKey, UNCHANGED diag,
         Execute \/ TestDone => UNCHANGED dump
  PROVE  IInv'
<1> USE DEF startup, test
<1>1. /\ code \in Insns /\ mepc \in Nat /\ then \in {"prompt", "tag"} /\ dump \in DumpType
      /\ pc \notin {"iall", "invalid"} => pc \in Running \cup Starting \cup {"main"}
  BY DEF IInv, TypeOK, Insns, DumpType, Running
<1>2. CASE Execute
  <2>1. /\ pc = "run" /\ pc' \in {"run", "trap"} /\ UNCHANGED <<l1, startup, code, then, dump, diag>>
        /\ mepc' = mepc \/ mepc' = mepc + Size(code[mepc].low)
    BY <1>2 DEF Execute
  <2>2. mepc' \in Nat BY <1>1, <2>1 DEF Size
  <2>3. Reading BY DEF IInv, Bounds
  <2> QED BY <1>1, <2>1, <2>2, <2>3, SilentIInv DEF Starting, Running, Reading
<1>3. CASE TestDone
  <2>1. /\ pc = "run" /\ code' = << >> /\ mepc' = 1 /\ then' = "prompt" /\ pc' = then
        /\ UNCHANGED <<l1, startup, dump, diag>>
    BY <1>3 DEF TestDone
  <2>2. code' \in Insns BY <2>1 DEF Insns
  <2>3. Reading BY DEF IInv, Bounds
  <2> QED BY <1>1, <2>1, <2>2, <2>3, SilentIInv DEF Starting, Running, Reading
<1>4. CASE Main
  <2>1. pc = "main" /\ pc' = "prompt" /\ UNCHANGED <<l1, startup, code, mepc, then, dump, diag>>
    BY <1>4 DEF Main
  <2> QED BY <1>1, <2>1, SilentIInv DEF Starting, Running, Reading
<1>5. CASE TestKey
  <2>1. /\ pc = "prompt" /\ pc' = "run" /\ code' \in Tests /\ mepc' = 1 /\ then' = "prompt"
        /\ UNCHANGED <<l1, startup, dump, diag>>
    BY <1>5 DEF TestKey, Run
  <2>2. code' \in Insns BY <2>1, InsnTypes
  <2> QED BY <1>1, <2>1, <2>2, SilentIInv DEF Starting, Running, Reading
<1>6. CASE DumpKey
  <2>1. PICK key \in {"1", "2", "f", "s"}, side \in Side,
             line \in {ProbeLine, icache_target, 0}, next \in {"touch", "call", "dump"} :
          Key(key, side, line, next)
    BY <1>6 DEF DumpKey, Side
  <2>2. /\ pc = "prompt" /\ pc' = next /\ UNCHANGED <<l1, startup, code, mepc, then, diag>>
        /\ dump' = [key |-> key, side |-> side, line |-> line, way |-> 0, hits |-> {}]
    BY <2>1 DEF Key
  <2>3. line \in Nat /\ 0 \in 0..L1_WAYS
    BY Lines, TagAssumption, L1Assumption DEF Line
  <2>4. dump' \in DumpType BY <2>2, <2>3 DEF DumpType
  <2> QED BY <1>1, <2>2, <2>4, SilentIInv DEF Starting, Running, Reading
<1> QED BY <1>2, <1>3, <1>4, <1>5, <1>6

LEMMA DumpUpdate ==
  \A d \in DumpType, n \in Nat, w \in 0..L1_WAYS, h \in SUBSET Way :
    /\ [d EXCEPT !.way = w, !.hits = h] \in DumpType
    /\ [d EXCEPT !.line = n, !.way = w] \in DumpType
<1> TAKE d \in DumpType, n \in Nat, w \in 0..L1_WAYS, h \in SUBSET Way
<1>1. [d EXCEPT !.way = w, !.hits = h] \in DumpType BY DEF DumpType
<1>2. [d EXCEPT !.line = n, !.way = w] \in DumpType BY DEF DumpType
<1> QED BY <1>1, <1>2

\* The steps of the dump.
LEMMA DumpIInv ==
  ASSUME IInv, ReadWay \/ PrintWay \/ NextSet \/ DumpDone \/ Expect, UNCHANGED diag
  PROVE  IInv'
<1> USE DEF startup, test
<1>1. /\ code \in Insns /\ mepc \in Nat /\ then \in {"prompt", "tag"} /\ dump \in DumpType
      /\ L1_WAYS \in Nat
  BY L1Assumption DEF IInv, TypeOK, Insns, DumpType
<1>2. CASE ReadWay
  <2>1. /\ pc = "dump" /\ dump.way < L1_WAYS /\ pc' = "run" /\ code' = Csr \o Csr \o Csr \o Csr /\ mepc' = 1
        /\ then' = "tag" /\ UNCHANGED <<l1, startup, dump, diag>>
    BY <1>2 DEF ReadWay, Run
  <2>2. code' \in Insns BY <2>1, InsnTypes
  <2> QED BY <1>1, <2>1, <2>2, SilentIInv DEF Starting, Running, Reading
<1>3. CASE PrintWay
  <2>1. \E hit \in BOOLEAN :
          dump' = [dump EXCEPT !.way = @ + 1, !.hits = IF hit THEN @ \cup {dump.way} ELSE @]
    <3>1. PICK d0 \in IF diag
                     THEN TagWords(mk_mcindex(Rid[dump.side], dump.way, Address(dump.line)))
                     ELSE {0, 1 + 4096 * (dump.line \div PAGE)} :
            dump' = [dump EXCEPT !.way = @ + 1,
                                 !.hits = IF dump.key # "s" /\ Marked(d0, dump.line)
                                          THEN @ \cup {dump.way} ELSE @]
      BY <1>3, Zenon DEF PrintWay
    <3>2. (dump.key # "s" /\ Marked(d0, dump.line)) \in BOOLEAN OBVIOUS
    <3> QED BY <3>1, <3>2
  <2>2. /\ pc = "tag" /\ pc' = "dump" /\ UNCHANGED <<l1, startup, code, mepc, then, diag>>
    BY <1>3 DEF PrintWay
  <2>3. dump.way < L1_WAYS BY <2>2 DEF IInv, Bounds, Reading
  <2>4. dump' \in DumpType
    <3>1. PICK hit \in BOOLEAN :
            dump' = [dump EXCEPT !.way = dump.way + 1,
                                 !.hits = IF hit THEN dump.hits \cup {dump.way} ELSE dump.hits]
      BY <2>1
    <3>2. dump.way \in 0..L1_WAYS /\ dump.hits \in SUBSET Way BY <1>1 DEF DumpType
    <3>3. dump.way + 1 \in 0..L1_WAYS /\ dump.way \in Way BY <1>1, <2>3, <3>2 DEF Way
    <3>4. (IF hit THEN dump.hits \cup {dump.way} ELSE dump.hits) \in SUBSET Way
      BY <3>2, <3>3
    <3> QED BY <1>1, <3>1, <3>3, <3>4, DumpUpdate
  <2> QED BY <1>1, <2>2, <2>4, SilentIInv DEF Starting, Running, Reading
<1>4. CASE NextSet
  <2>1. /\ pc = "dump" /\ pc' = pc /\ dump' = [dump EXCEPT !.line = @ + 1, !.way = 0]
        /\ UNCHANGED <<l1, startup, code, mepc, then, diag>>
    BY <1>4 DEF NextSet
  <2>2. dump' \in DumpType
    <3>1. dump.line + 1 \in Nat /\ 0 \in 0..L1_WAYS /\ dump.hits \in SUBSET Way
      BY <1>1 DEF DumpType
    <3> QED BY <1>1, <2>1, <3>1, DumpUpdate
  <2> QED BY <1>1, <2>1, <2>2, SilentIInv DEF Starting, Running, Reading
<1>5. CASE DumpDone
  <2>1. /\ pc = "dump" /\ pc' = "expect" /\ UNCHANGED <<l1, startup, code, mepc, then, dump, diag>>
    BY <1>5 DEF DumpDone
  <2> QED BY <1>1, <2>1, SilentIInv DEF Starting, Running, Reading
<1>6. CASE Expect
  <2>1. /\ pc = "expect" /\ pc' = "prompt" /\ dump' = NoDump
        /\ UNCHANGED <<l1, startup, code, mepc, then, diag>>
    BY <1>6 DEF Expect
  <2>2. dump' \in DumpType BY <1>1, <2>1 DEF DumpType, NoDump, Side
  <2> QED BY <1>1, <2>1, <2>2, SilentIInv DEF Starting, Running, Reading
<1> QED BY <1>2, <1>3, <1>4, <1>5, <1>6

\* What the stack and the text, evictions and write-backs do at any step.
LEMMA BesideIInv ==
  ASSUME IInv, StackAndText \/ SomeWriteBack, UNCHANGED diag
  PROVE  IInv' /\ UNCHANGED <<core, on>>
<1> USE DEF startup, test
<1>1. L1Type /\ Off BY L1Part DEF IInv
<1>2. UNCHANGED <<pc, startup, test, dump, diag>> BY DEF StackAndText, SomeWriteBack
<1>3. /\ L1Type' /\ Off' /\ (Agree => Agree') /\ UNCHANGED <<core, on>>
      /\ dirty' \subseteq dirty /\ (mem' = mem \/ on)
  <2>1. CASE StackAndText
    <3>1. PICK c \in Side, l \in Line : Bring(c, l) /\ UNCHANGED <<mem, core, dirty, on>>
      BY <2>1, Lines DEF StackAndText, LoadLine, FetchLine, Side
    <3> QED BY <1>1, <3>1, AccessKeeps
  <2>2. CASE SomeWriteBack
    <3>1. PICK l \in dirty : WriteBack(l) BY <2>2 DEF SomeWriteBack
    <3>2. UNCHANGED <<core, on>> /\ dirty' \subseteq dirty BY <3>1 DEF WriteBack
    <3> QED BY <1>1, <3>1, <3>2, WriteBackKeeps
  <2> QED BY <2>1, <2>2
<1>4. TypeOK' BY <1>2, <1>3 DEF IInv, TypeOK, L1Type
<1>5. pc' # "start" => Agree' BY <1>2, <1>3 DEF IInv
<1>6. Placed' BY <1>2, <1>3 DEF IInv, Placed
<1>7. Bounds' BY <1>2 DEF IInv, Bounds, Reading
<1>8. Progress'
  <2>1. CASE on BY <1>2, <1>3, <2>1 DEF IInv, Progress
  <2>2. CASE ~on BY <1>2, <1>3, <2>2 DEF IInv, Progress, RomHolds, Copied, Zeroed
  <2> QED BY <2>1, <2>2
<1> QED BY <1>3, <1>4, <1>5, <1>6, <1>7, <1>8 DEF IInv

\* A step of a lesson that loads, stores, cleans or invalidates.
LEMMA LoudIInv ==
  ASSUME IInv, UNCHANGED <<startup, code, then, dump, diag>>, pc \notin Starting,
         pc \notin {"run", "tag"}, mepc' \in Nat,
         pc' \in Running \cup {"iall", "invalid"}, pc' \notin {"tag"},
         pc' = "run" => pc = "trap", pc' # "trap",
         L1Type', on', Agree', pc' \in {"iall", "invalid"} => dirty' = {}
  PROVE  IInv'
<1> USE DEF startup
<1>1. TypeOK' BY DEF IInv, TypeOK, L1Type, Running
<1>2. pc' \notin Starting BY DEF Running, Starting
<1>3. Off' /\ Placed' BY DEF Off, Placed
<1>4. Bounds' BY <1>2 DEF IInv, Bounds, Reading, Starting
<1>5. Progress' BY <1>2 DEF Progress
<1> QED BY <1>1, <1>3, <1>4, <1>5 DEF IInv

\* What a lesson's accesses do to its variables.
LessonStep ==
  \/ core' = core
  \/ core' = [core EXCEPT ![trap_skip_insn] = "one"]
  \/ core' = [core EXCEPT ![probe_line] = "magic"]

LEMMA AccessIInv ==
  ASSUME IInv, UNCHANGED diag,
         \/ (trap_handler \/ TrapInit) /\ UNCHANGED dump
         \/ touch_probe \/ CallTarget
  PROVE  IInv' /\ LessonStep /\ pc \notin Starting /\ pc' \notin Starting
         /\ UNCHANGED <<image, cold>>
<1> USE DEF startup, test
<1>1. L1Type /\ Off /\ Placed /\ mepc \in Nat BY L1Part DEF IInv, TypeOK
<1>2. /\ trap_skip_insn \in Word /\ probe_line \in Word
      /\ LineOf(trap_skip_insn) \in Line /\ icache_target \in Line
      /\ "one" \in Val /\ "magic" \in Val
  <2>1. trap_skip_insn \in Word /\ probe_line \in Word
    BY SkipAssumption, TagAssumption, Layout DEF Bss
  <2> QED BY <2>1, WordLine, Values, Lines, TagAssumption
<1>3. CASE trap_handler /\ UNCHANGED dump
  <2>1. /\ pc = "trap" /\ LoadLine(LineOf(trap_skip_insn)) /\ pc' \in {"run", "halt"}
        /\ mepc' = mepc \/ mepc' = mepc + insn_len(code[mepc])
        /\ UNCHANGED <<startup, code, then, dump, diag>>
    BY <1>3 DEF trap_handler
  <2>2. L1Type' /\ Agree' /\ on' /\ core' = core
    BY <1>1, <1>2, <2>1, AccessKeeps DEF IInv, LoadLine, Placed, Starting, Side
  <2>3. mepc' \in Nat BY <1>1, <2>1 DEF insn_len
  <2> QED BY <2>1, <2>2, <2>3, LoudIInv DEF Starting, Running, LessonStep
<1>4. CASE TrapInit /\ UNCHANGED dump
  <2>1. /\ pc = "main" /\ StoreWord(trap_skip_insn, "one") /\ pc' = "prompt"
        /\ UNCHANGED <<startup, code, mepc, then, dump, diag>>
    BY <1>4 DEF TrapInit, trap_init
  <2>2. L1Type' /\ Agree' /\ on' /\ core' = [core EXCEPT ![trap_skip_insn] = "one"]
    BY <1>1, <1>2, <2>1, StoreKeeps DEF IInv, Placed, Starting
  <2> QED BY <1>1, <2>1, <2>2, LoudIInv DEF Starting, Running, LessonStep
<1>5. CASE touch_probe
  <2>1. /\ pc = "touch" /\ StoreWord(probe_line, "magic") /\ pc' \in {"ciall", "dump"}
        /\ UNCHANGED <<startup, code, mepc, then, dump, diag>>
    BY <1>5 DEF touch_probe
  <2>2. L1Type' /\ Agree' /\ on' /\ core' = [core EXCEPT ![probe_line] = "magic"]
    BY <1>1, <1>2, <2>1, StoreKeeps DEF IInv, Placed, Starting
  <2> QED BY <1>1, <2>1, <2>2, LoudIInv DEF Starting, Running, LessonStep
<1>6. CASE CallTarget
  <2>1. /\ pc = "call" /\ pc' = "dump" /\ UNCHANGED <<startup, code, mepc, then, dump, diag>>
        /\ FetchLine(icache_target) \/ UNCHANGED l1
    BY <1>6 DEF CallTarget
  <2>2. L1Type' /\ Agree' /\ on' /\ core' = core
    <3>1. on /\ Agree BY <2>1 DEF IInv, Placed, Starting
    <3>2. CASE FetchLine(icache_target)
      BY <1>1, <1>2, <2>1, <3>1, <3>2, AccessKeeps DEF FetchLine, Side
    <3>3. CASE UNCHANGED l1
      BY <1>1, <3>1, <3>3 DEF L1Type, Agree, l1
    <3> QED BY <2>1, <3>2, <3>3
  <2> QED BY <1>1, <2>1, <2>2, LoudIInv DEF Starting, Running, LessonStep
<1> QED BY <1>3, <1>4, <1>5, <1>6

\* A flush changes no variable: what it drops has been cleaned before.
LEMMA FlushIInv ==
  ASSUME IInv, UNCHANGED diag, thead_flush_caches
  PROVE  IInv' /\ core' = core /\ pc \notin Starting /\ pc' \notin Starting
         /\ UNCHANGED <<image, cold>>
<1> USE DEF startup, test, FlushStep
<1>1. L1Type /\ mepc \in Nat BY L1Part DEF IInv, TypeOK
<1>2. CASE FlushStep("ciall", "iall") /\ CleanInvalidate
  <2>1. on /\ Agree BY <1>2 DEF IInv, Placed, Starting
  <2>2. L1Type' /\ Agree' /\ on' /\ dirty' = {} /\ core' = core
    BY <1>1, <1>2, <2>1, CleanKeeps
  <2> QED BY <1>1, <1>2, <2>2, LoudIInv DEF Starting, Running
<1>3. CASE FlushStep("iall", "invalid") /\ InvalidateI
  <2>1. on /\ Agree /\ dirty = {} BY <1>3 DEF IInv, Placed, Starting
  <2>2. L1Type' /\ Agree' /\ on' /\ dirty' = {} /\ core' = core
    BY <1>1, <1>3, <2>1, InvalidateIKeeps
  <2> QED BY <1>1, <1>3, <2>2, LoudIInv DEF Starting, Running
<1>4. CASE FlushStep("invalid", "dump") /\ Invalidate
  <2>1. on /\ Agree /\ dirty = {} BY <1>4 DEF IInv, Placed, Starting
  <2>2. L1Type' /\ Agree' /\ on' /\ dirty' = {} /\ core' = core
    BY <1>1, <1>4, <2>1, InvalidateKeeps
  <2> QED BY <1>1, <1>4, <2>2, LoudIInv DEF Starting, Running
<1> QED BY <1>2, <1>3, <1>4 DEF thead_flush_caches

\* What a step is to the start-up code and to the variables of the lesson.
StartingStep ==
  /\ pc \in Starting /\ UNCHANGED <<image, cold>>
  /\ pc' \in Starting \/ Mhcr

RunningStep ==
  /\ pc \notin Starting /\ pc' \notin Starting /\ UNCHANGED <<image, cold>>
  /\ LessonStep

BesideStep == UNCHANGED <<pc, image, cold, core, on>>

LEMMA StepIInv ==
  ASSUME IInv, [Next]_vars
  PROVE  IInv' /\ (StartingStep \/ RunningStep \/ BesideStep \/ Load)
<1>1. CASE Boot /\ UNCHANGED test /\ UNCHANGED dump /\ UNCHANGED diag
  <2>1. IInv'
    BY <1>1, StartIInv, CopyIInv, ClearIInv, EnableIInv DEF Boot
  <2>2. StartingStep
    BY <1>1 DEF StartingStep, Starting, Boot, Start, CopyLoad, CopyStore, CopyDone, ClearWord,
                ClearDone, Mcor, Mhcr, startup
  <2> QED BY <2>1, <2>2
<1>2. CASE (Execute \/ TestDone \/ Main \/ TestKey \/ DumpKey) /\ UNCHANGED diag
           /\ (Execute \/ TestDone => UNCHANGED dump)
  <2>1. IInv' BY <1>2, MenuIInv
  <2>2. UNCHANGED <<l1, startup>> /\ pc \notin Starting
    BY <1>2 DEF Execute, TestDone, Main, TestKey, DumpKey, Key, Starting
  <2>3. pc' \notin Starting
    BY <1>2 DEF Execute, TestDone, Main, TestKey, DumpKey, Key, Run, Starting, IInv, TypeOK
  <2> QED BY <2>1, <2>2, <2>3 DEF RunningStep, LessonStep, l1, startup
<1>3. CASE (ReadWay \/ PrintWay \/ NextSet \/ DumpDone \/ Expect) /\ UNCHANGED diag
  <2>1. IInv' BY <1>3, DumpIInv
  <2>2. UNCHANGED <<l1, startup>> /\ pc \notin Starting /\ pc' \notin Starting
    BY <1>3 DEF ReadWay, Run, PrintWay, NextSet, DumpDone, Expect, Starting
  <2> QED BY <2>1, <2>2 DEF RunningStep, LessonStep, l1, startup
<1>4. CASE UNCHANGED diag /\ (\/ (trap_handler \/ TrapInit) /\ UNCHANGED dump
                             \/ touch_probe \/ CallTarget)
  BY <1>4, AccessIInv DEF RunningStep
<1>5. CASE thead_flush_caches /\ UNCHANGED diag
  BY <1>5, FlushIInv DEF RunningStep, LessonStep
<1>6. CASE (StackAndText \/ SomeWriteBack) /\ UNCHANGED diag
  <2>1. UNCHANGED <<pc, image, cold>> BY <1>6 DEF StackAndText, SomeWriteBack, startup
  <2> QED BY <1>6, <2>1, BesideIInv DEF BesideStep
<1>7. CASE Load /\ UNCHANGED diag
  BY <1>7, LoadIInv
<1>8. CASE UNCHANGED vars
  <2>1. UNCHANGED <<mem, core, held, dirty, on, pc, image, ptr, t0, cold, loads, code, mepc, then,
                    dump, diag>>
    BY <1>8 DEF vars, l1, startup, test
  <2>2. TypeOK' /\ Off' /\ (pc' # "start" => Agree') BY <2>1 DEF IInv, TypeOK, Off, Agree
  <2>3. Placed' /\ Bounds' BY <2>1 DEF IInv, Placed, Bounds, Reading
  <2>4. Progress' BY <2>1 DEF IInv, Progress, RomHolds, Copied, Zeroed
  <2> QED BY <2>1, <2>2, <2>3, <2>4 DEF IInv, BesideStep
<1>9. CASE Program /\ UNCHANGED diag
  <2>1. CASE Boot /\ UNCHANGED test /\ UNCHANGED dump
    BY <1>1, <1>9, <2>1
  <2>2. CASE Trap /\ UNCHANGED dump
    BY <1>2, <1>4, <1>9, <2>2 DEF Trap
  <2>3. CASE Main \/ TrapInit \/ touch_probe \/ CallTarget
    <3>1. TrapInit => UNCHANGED dump BY DEF TrapInit
    <3>2. Main => UNCHANGED dump BY DEF Main
    <3>3. CASE Main
      <4>1. Execute \/ TestDone => UNCHANGED dump BY <3>2, <3>3
      <4> QED BY <1>2, <1>9, <3>3, <4>1
    <3> QED BY <1>4, <1>9, <2>3, <3>1, <3>3
  <2>4. CASE thead_flush_caches \/ ReadWay \/ PrintWay \/ NextSet \/ DumpDone \/ Expect
    BY <1>3, <1>5, <1>9, <2>4
  <2> QED BY <1>9, <2>1, <2>2, <2>3, <2>4 DEF Program
<1>10. CASE (TestKey \/ DumpKey) /\ UNCHANGED diag
  <2>1. Execute \/ TestDone => UNCHANGED dump
    BY <1>10 DEF TestKey, DumpKey, Key, Execute, TestDone
  <2> QED BY <1>2, <1>10, <2>1
<1> QED BY <1>6, <1>7, <1>8, <1>9, <1>10 DEF Next, User

LEMMA Invariance == Spec => []IInv
BY InitIInv, StepIInv, PTL DEF Spec

\* Every variable keeps its type, for every cache, layout and set of lessons: among
\* others no dump reads past the last way and no loop of start.S leaves memory.
THEOREM TypeCorrect == Spec => []TypeOK
<1>1. IInv => TypeOK BY DEF IInv
<1> QED BY <1>1, Invariance, PTL

-----------------------------------------------------------------------------
(* The refinement. *)

LEMMA InitPlain == Init => Plain!Init
BY DEF Init, Plain!Init, Up, Starting

\* Started with the caches off, the variables hold what the image and C say.
LEMMA BootPlain ==
  ASSUME IInv, Mhcr, cold
  PROVE  Plain!Boot
<1> DEFINE fresh == [i \in Image |-> [w \in Data \cup Bss |-> IF w \in Data THEN i ELSE "zero"]]
<1>1. /\ pc = "mhcr" /\ on' = TRUE /\ pc' = "main" /\ UNCHANGED <<mem, core, image, cold>>
  BY DEF Mhcr, Enable, startup
<1>2. ~on /\ Copied(DataSize) /\ Zeroed(BssSize) /\ core = mem /\ image \in Image
  BY <1>1 DEF IInv, TypeOK, Progress, Off, Starting
<1>3. \A w \in Data : mem[w] = image
  <2> TAKE w \in Data
  <2>1. __data_start \in Nat /\ __data_end \in Nat BY LayoutAssumption
  <2>2. w - __data_start \in 0..(DataSize - 1) /\ __data_start + (w - __data_start) = w
    BY <2>1 DEF Data, DataSize
  <2> QED BY <1>2, <2>2 DEF Copied
<1>4. \A w \in Bss : mem[w] = "zero"
  <2> TAKE w \in Bss
  <2>1. _bss_start \in Nat /\ _bss_end \in Nat BY LayoutAssumption
  <2>2. w - _bss_start \in 0..(BssSize - 1) /\ _bss_start + (w - _bss_start) = w
    BY <2>1 DEF Bss, BssSize
  <2> QED BY <1>2, <2>2 DEF Zeroed
<1>5. View' = [w \in Data \cup Bss |-> IF w \in Data THEN image ELSE "zero"]
  BY <1>1, <1>2, <1>3, <1>4 DEF View, Seen
<1>6. fresh[image] = [w \in Data \cup Bss |-> IF w \in Data THEN image ELSE "zero"]
  BY <1>2
<1>7. ~Up /\ Up' = TRUE BY <1>1 DEF Up, Starting
<1> QED BY <1>1, <1>5, <1>6, <1>7 DEF Plain!Boot

\* While a lesson runs only its stores change a variable.
LEMMA RunningPlain ==
  ASSUME IInv, IInv', RunningStep, cold
  PROVE  Plain!Store \/ UNCHANGED Plain!vars
<1>1. /\ on /\ on' /\ core \in [Word -> Val] /\ Up = TRUE /\ Up' = TRUE
      /\ UNCHANGED image
  BY DEF IInv, TypeOK, Placed, RunningStep, Up
<1>2. View = [w \in Data \cup Bss |-> core[w]] /\ View' = [w \in Data \cup Bss |-> core'[w]]
  BY <1>1 DEF View, Seen
<1>3. Data \cup Bss \subseteq Word /\ trap_skip_insn \in Bss /\ probe_line \in Bss
  BY Layout, SkipAssumption, TagAssumption DEF Bss
<1>4. \A w \in Bss, v \in Val :
        core' = [core EXCEPT ![w] = v] => View' = [View EXCEPT ![w] = v]
  BY <1>1, <1>2, <1>3
<1>5. CASE core' = core
  BY <1>1, <1>2, <1>5 DEF Plain!vars
<1>6. CASE core' = [core EXCEPT ![trap_skip_insn] = "one"]
  <2>1. View' = [View EXCEPT ![trap_skip_insn] = "one"] BY <1>3, <1>4, <1>6, Values
  <2> QED BY <1>1, <2>1 DEF Plain!Store
<1>7. CASE core' = [core EXCEPT ![probe_line] = "magic"]
  <2>1. View' = [View EXCEPT ![probe_line] = "magic"] BY <1>3, <1>4, <1>7, Values
  <2> QED BY <1>1, <2>1 DEF Plain!Store
<1> QED BY <1>5, <1>6, <1>7 DEF RunningStep, LessonStep

LEMMA StepPlain ==
  ASSUME IInv, IInv', [Next]_vars
  PROVE  [Plain!Next]_(Plain!vars)
<1>1. CASE StartingStep
  <2>1. ~Up /\ UNCHANGED image BY <1>1 DEF StartingStep, Up
  <2>2. CASE Up'
    <3>1. Mhcr /\ cold BY <1>1, <2>2 DEF StartingStep, Up
    <3> QED BY <3>1, BootPlain DEF Plain!Next
  <2>3. CASE ~Up'
    BY <2>1, <2>3 DEF Plain!Next, Plain!Wait
  <2> QED BY <2>2, <2>3
<1>2. CASE RunningStep
  <2>1. CASE cold BY <1>2, <2>1, RunningPlain DEF Plain!Next
  <2>2. CASE ~cold
    <3>1. ~Up /\ ~Up' /\ UNCHANGED image BY <1>2, <2>2 DEF RunningStep, Up
    <3> QED BY <3>1 DEF Plain!Next, Plain!Wait
  <2> QED BY <2>1, <2>2
<1>3. CASE BesideStep
  <2>1. Up' = Up /\ UNCHANGED image BY <1>3 DEF BesideStep, Up
  <2>2. CASE Up
    <3>1. on /\ on' /\ core' = core BY <1>3, <2>2 DEF BesideStep, Up, IInv, Placed
    <3>2. View' = View BY <3>1 DEF View, Seen
    <3> QED BY <2>1, <3>2 DEF Plain!vars
  <2>3. CASE ~Up
    BY <2>1, <2>3 DEF Plain!Next, Plain!Wait
  <2> QED BY <2>2, <2>3
<1>4. CASE Load
  <2>1. image' \in Image /\ ~Up'
    BY <1>4 DEF Load, Reset, Reload, ToStart, Up, Starting
  <2> QED BY <2>1 DEF Plain!Next, Plain!Load
<1> QED BY <1>1, <1>2, <1>3, <1>4, StepIInv

\* MemorySpec of the run, for every cache, layout and set of lessons: start.S gives a
\* lesson its variables, and evictions, write-backs and the flush of key f never
\* change one.
THEOREM StartIsPlain == Spec => MemorySpec
<1>1. Spec => []IInv BY Invariance
<1> QED BY <1>1, InitPlain, StepPlain, PTL DEF Spec, MemorySpec, Plain!Spec

-----------------------------------------------------------------------------
(* The tag array: what a tag word tells of its way. *)

\* The ways of cache c that hold line l.
Where(c, l) == {w \in Way : held[c][SetOf(l)][w] = {l}}

\* A way holds one line at most, of its set, and no two ways hold the same.
Tidy ==
  \A c \in Side, s \in Set, w \in Way, l \in Line :
    l \in held[c][s][w] =>
      /\ held[c][s][w] = {l} /\ SetOf(l) = s
      /\ \A x \in Way : l \in held[c][s][x] => x = w

\* The ways are being read.
Dumping == pc \in {"dump", "tag", "expect"} \/ (pc \in {"run", "trap"} /\ then = "tag")

\* What each key looks for.
Aimed ==
  /\ dump.key \in {"1", "f"} => dump.side = "D" /\ dump.line = ProbeLine
  /\ dump.key = "2" => dump.side = "I" /\ dump.line = icache_target
  /\ pc = "touch" => dump.key \in {"1", "f"}
  /\ pc = "call" => dump.key = "2"
  /\ pc \in {"ciall", "iall", "invalid"} => dump.key = "f"
  /\ pc \in {"touch", "call", "ciall", "iall", "invalid"} => dump.way = 0 /\ dump.hits = {}
  /\ Dumping => dump.key # "none"
  /\ pc = "expect" => dump.way = L1_WAYS

\* The ways marked are those read so far that hold the line.
Marks ==
  Dumping =>
    /\ diag /\ dump.key # "s" =>
         dump.hits = {w \in Where(dump.side, dump.line) : w < dump.way}
    /\ dump.key = "1" => Where("D", ProbeLine) # {}
    /\ dump.key = "f" => Where("D", ProbeLine) = {}

\* A multiple of d does not change the remainder.
LEMMA Remainder ==
  ASSUME NEW d \in Nat \ {0}, NEW e \in Nat, NEW r \in 0..(d - 1)
  PROVE  (d * e + r) % d = r
OBVIOUS

LEMMA RemainderOf ==
  ASSUME NEW d \in Nat \ {0}, NEW e \in Nat, NEW r \in Nat
  PROVE  (d * e + r) % d = r % d
<1>1. PICK f \in Nat, s \in 0..(d - 1) : r = d * f + s /\ s = r % d
  <2>1. r \div d \in Nat /\ r % d \in 0..(d - 1) /\ r = d * (r \div d) + (r % d) OBVIOUS
  <2> QED BY <2>1
<1>2. e + f \in Nat /\ d * e + r = d * (e + f) + s BY <1>1
<1>3. (d * (e + f) + s) % d = s BY <1>1, <1>2, Remainder
<1> QED BY <1>1, <1>2, <1>3

\* The sets that the address field of MCINDEX can name.
LEMMA SetIndex ==
  ASSUME NEW e \in Nat, NEW r \in Nat
  PROVE  (2048 * e + r) % L1_SETS = r % L1_SETS
<1>1. L1_SETS \in Nat \ {0} BY L1Assumption
<1>2. PICK m \in Nat : 2048 = L1_SETS * m
  <2>1. 2048 \div L1_SETS \in Nat /\ 2048 = L1_SETS * (2048 \div L1_SETS) + (2048 % L1_SETS)
    BY <1>1
  <2> QED BY <2>1, <1>1, IndexAssumption
<1>3. m * e \in Nat BY <1>2
<1>4. 2048 * e = L1_SETS * (m * e) BY <1>1, <1>2
<1>5. (L1_SETS * (m * e) + r) % L1_SETS = r % L1_SETS BY <1>1, <1>3, RemainderOf
<1> DEFINE n == 2048 * e + r
<1>6. n = L1_SETS * (m * e) + r BY <1>4
<1> HIDE DEF n
<1>7. n % L1_SETS = r % L1_SETS BY <1>5, <1>6
<1> QED BY <1>7 DEF n

\* The RID, way and index that the core finds in what mk_mcindex packs.
LEMMA IndexFields ==
  ASSUME NEW c \in Side, NEW w \in Way, NEW l \in Nat
  PROVE  LET idx == mk_mcindex(Rid[c], w, Address(l))
         IN  /\ idx \div 2^28 = Rid[c]
             /\ (idx \div 2^17) % 16 = w
             /\ (idx \div 64) % L1_SETS = SetOf(l)
<1> DEFINE idx == mk_mcindex(Rid[c], w, Address(l))
           r == l % 2048
           e == l \div 2048
<1>1. w \in 0..15 BY L1Assumption DEF Way
<1>2. Rid[c] \in {0, 2} BY DEF Rid, Side
<1>3. r \in 0..2047 /\ e \in Nat /\ l = 2048 * e + r OBVIOUS
<1>4. (64 * l) % 131072 = 64 * r BY <1>3
<1>5. w % 16 = w BY <1>1
<1>6. idx = Rid[c] * 268435456 + w * 2228224 + 64 * r
  BY <1>4, <1>5 DEF mk_mcindex, Address
<1> HIDE DEF r, e, idx
<1>7. idx \div 268435456 = Rid[c] BY <1>1, <1>2, <1>3, <1>6
<1>8. idx \div 131072 = 2048 * Rid[c] + 17 * w BY <1>1, <1>2, <1>3, <1>6
<1>9. (2048 * Rid[c] + 17 * w) % 16 = w BY <1>1, <1>2
<1>10. idx \div 64 = 2048 * (2048 * Rid[c] + 17 * w) + r BY <1>1, <1>2, <1>3, <1>6
<1>11. (idx \div 64) % L1_SETS = r % L1_SETS
  <2>1. 2048 * Rid[c] + 17 * w \in Nat BY <1>1, <1>2
  <2> HIDE DEF Rid
  <2> QED BY <1>3, <1>10, <2>1, SetIndex
<1>12. SetOf(l) = r % L1_SETS BY <1>3, SetIndex DEF SetOf
<1> QED BY <1>7, <1>8, <1>9, <1>11, <1>12 DEF idx

\* Two lines of a set in the same 4 KiB are the same: a way of the cache is 4 KiB or
\* more.
LEMMA SameLine ==
  ASSUME NEW k \in Line, NEW l \in Line, SetOf(k) = SetOf(l), k \div PAGE = l \div PAGE
  PROVE  k = l
<1>1. L1_SETS \in Nat \ {0} /\ PAGE \in Nat \ {0} /\ PAGE <= L1_SETS /\ k \in Nat /\ l \in Nat
  BY L1Assumption DEF Line
<1>2. PICK q \in Nat, u \in 0..(PAGE - 1), v \in 0..(PAGE - 1) :
        k = PAGE * q + u /\ l = PAGE * q + v
  <2>1. /\ k = PAGE * (k \div PAGE) + (k % PAGE) /\ k \div PAGE \in Nat
        /\ k % PAGE \in 0..(PAGE - 1)
    BY <1>1
  <2>2. /\ l = PAGE * (l \div PAGE) + (l % PAGE) /\ l \div PAGE \in Nat
        /\ l % PAGE \in 0..(PAGE - 1)
    BY <1>1
  <2> QED BY <2>1, <2>2
<1>3. PICK a \in Nat, b \in Nat, s \in Nat : k = L1_SETS * a + s /\ l = L1_SETS * b + s
  <2>1. /\ k = L1_SETS * (k \div L1_SETS) + (k % L1_SETS) /\ k \div L1_SETS \in Nat
        /\ k % L1_SETS \in Nat
    BY <1>1
  <2>2. l = L1_SETS * (l \div L1_SETS) + (l % L1_SETS) /\ l \div L1_SETS \in Nat
    BY <1>1
  <2> QED BY <2>1, <2>2 DEF SetOf
<1>4. ASSUME NEW x \in Nat, NEW y \in Nat, x < y PROVE L1_SETS * x + L1_SETS <= L1_SETS * y
  <2>1. L1_SETS * (x + 1) <= L1_SETS * y BY <1>1, <1>4, Monotone
  <2>2. L1_SETS * (x + 1) = L1_SETS * x + L1_SETS BY <1>1
  <2> QED BY <2>1, <2>2
<1>5. PAGE * q \in Nat /\ L1_SETS * a \in Nat /\ L1_SETS * b \in Nat BY <1>1, <1>2, <1>3
<1>6. ~(a < b) /\ ~(b < a) BY <1>1, <1>2, <1>3, <1>4, <1>5
<1> QED BY <1>3, <1>6

\* print_way marks a way exactly if it holds the line: the tag word of a way that is
\* not valid has V clear, and two valid lines of a set are in different pages.
LEMMA MarkedIs ==
  ASSUME L1Type, Tidy, NEW c \in Side, NEW w \in Way, NEW l \in Line,
         NEW d0 \in TagWords(mk_mcindex(Rid[c], w, Address(l)))
  PROVE  Marked(d0, l) <=> w \in Where(c, l)
<1> DEFINE idx == mk_mcindex(Rid[c], w, Address(l))
           lines == held[c][SetOf(l)][w]
           d(k) == 1 + (IF c = "D" /\ k \in dirty THEN 4 ELSE 0) + 4096 * (k \div PAGE)
<1>1. l \in Nat /\ SetOf(l) \in Set BY L1Assumption, LineSet DEF Line
<1>2. idx \div 2^28 = Rid[c] /\ (idx \div 2^17) % 16 = w /\ (idx \div 64) % L1_SETS = SetOf(l)
  BY <1>1, IndexFields
<1>3. (IF idx \div 2^28 = Rid["D"] THEN "D" ELSE "I") = c
  <2>1. c \in {"I", "D"} /\ Rid["I"] = 0 /\ Rid["D"] = 2 BY DEF Rid, Side
  <2> QED BY <1>2, <2>1
<1> HIDE DEF idx
<1>4. TagWords(idx) = IF lines = {} THEN {4096 * (k \div PAGE) : k \in Line}
                      ELSE {d(k) : k \in lines}
  <2> DEFINE side == IF idx \div 2^28 = Rid["D"] THEN "D" ELSE "I"
             held_in == held[side][(idx \div 64) % L1_SETS][(idx \div 2^17) % 16]
  <2>1. side = c /\ held_in = lines BY <1>2, <1>3
  <2>2. TagWords(idx) =
          IF held_in = {} THEN {4096 * (k \div PAGE) : k \in Line}
          ELSE {1 + (IF side = "D" /\ k \in dirty THEN 4 ELSE 0) + 4096 * (k \div PAGE) :
                  k \in held_in}
    BY Zenon DEF TagWords
  <2> HIDE DEF side, held_in, lines
  <2> QED BY <2>1, <2>2
<1>5. \A k \in Line : k \div PAGE \in Nat BY L1Assumption DEF Line
<1>6. w \in Where(c, l) <=> lines = {l} BY DEF Where
<1>7. CASE lines = {}
  <2>1. PICK k \in Line : d0 = 4096 * (k \div PAGE) BY <1>4, <1>7 DEF idx
  <2>2. d0 % 2 # 1 BY <1>5, <2>1
  <2> QED BY <1>6, <1>7, <2>2 DEF Marked, tag_valid
<1>8. CASE lines # {}
  <2>1. PICK k \in lines : d0 = d(k) BY <1>4, <1>8 DEF idx
  <2>2. k \in Line /\ lines = {k} /\ SetOf(k) = SetOf(l)
    <3>1. k \in Line BY <1>1, <2>1 DEF L1Type
    <3> QED BY <1>1, <2>1, <3>1 DEF Tidy
  <2>3. d0 % 2 = 1 /\ d0 \div 4096 = k \div PAGE
    <3>1. PICK x \in {0, 4} : d0 = 1 + x + 4096 * (k \div PAGE) BY <2>1
    <3> QED BY <1>5, <2>2, <3>1
  <2>4. k \div PAGE = l \div PAGE <=> k = l BY <2>2, SameLine
  <2>5. lines = {l} <=> k = l BY <2>2
  <2> HIDE DEF lines
  <2> QED BY <1>6, <2>3, <2>4, <2>5 DEF Marked, tag_valid, tag_pa
<1> QED BY <1>7, <1>8

\* A line is in one way at most.
LEMMA OneWay ==
  ASSUME L1Type, Tidy, NEW c \in Side, NEW l \in Line, NEW w \in Where(c, l)
  PROVE  Where(c, l) = {w}
<1>1. SetOf(l) \in Set BY LineSet
<1>2. \A x \in Where(c, l) : x \in Way /\ l \in held[c][SetOf(l)][x] BY DEF Where
<1> QED BY <1>1, <1>2 DEF Tidy

\* An access changes where its own line is, and no other.
LEMMA BringWhere ==
  ASSUME L1Type, Tidy, NEW c \in Side, NEW l \in Line, Bring(c, l)
  PROVE  /\ Tidy'
         /\ \A b \in Side, k \in Line : b # c \/ k # l => Where(b, k)' = Where(b, k)
         /\ on => Where(c, l)' # {}
<1>1. SetOf(l) \in Set BY LineSet
<1>2. CASE held' = held
  <2>1. \A b \in Side, k \in Line : Where(b, k)' = Where(b, k) BY <1>2 DEF Where
  <2>2. on => Held(c, l)
    <3>1. CASE ~Held(c, l) /\ on
      <4>1. PICK w \in Way : /\ held[c][SetOf(l)][w] = {}
                             /\ held' = [held EXCEPT ![c][SetOf(l)][w] = {l}]
        BY <3>1 DEF Bring
      <4>2. held'[c][SetOf(l)][w] = {l} BY <1>1, <4>1 DEF L1Type
      <4> QED BY <1>2, <4>1, <4>2
    <3> QED BY <3>1
  <2>3. Held(c, l) => Where(c, l) # {} BY DEF Held, Where
  <2> QED BY <1>2, <2>1, <2>2, <2>3 DEF Tidy
<1>3. CASE held' # held
  <2>1. ~Held(c, l) BY <1>3 DEF Bring
  <2>2. PICK w \in Way : /\ held[c][SetOf(l)][w] = {}
                         /\ held' = [held EXCEPT ![c][SetOf(l)][w] = {l}]
    BY <1>3 DEF Bring
  <2>3. \A b \in Side, s \in Set, x \in Way :
          held'[b][s][x] = IF b = c /\ s = SetOf(l) /\ x = w THEN {l} ELSE held[b][s][x]
    BY <1>1, <2>2 DEF L1Type
  <2>4. \A x \in Way : l \notin held[c][SetOf(l)][x]
    <3>1. \A x \in Way : l \in held[c][SetOf(l)][x] => held[c][SetOf(l)][x] = {l}
      BY <1>1 DEF Tidy
    <3> QED BY <2>1, <3>1 DEF Held
  <2>5. \A s \in Set, x \in Way : l \notin held[c][s][x]
    BY <2>4 DEF Tidy
  <2>6. Tidy'
    <3> SUFFICES ASSUME NEW b \in Side, NEW s \in Set, NEW x \in Way, NEW k \in Line,
                        k \in held'[b][s][x]
                 PROVE  /\ held'[b][s][x] = {k} /\ SetOf(k) = s
                        /\ \A y \in Way : k \in held'[b][s][y] => y = x
      BY DEF Tidy
    <3>1. CASE b = c /\ s = SetOf(l) /\ x = w
      <4>1. k = l /\ held'[b][s][x] = {l} BY <2>3, <3>1
      <4>2. \A y \in Way : y # w => held'[b][s][y] = held[b][s][y] BY <1>1, <2>3, <3>1
      <4> QED BY <2>5, <3>1, <4>1, <4>2
    <3>2. CASE ~(b = c /\ s = SetOf(l) /\ x = w)
      <4>1. held'[b][s][x] = held[b][s][x] BY <2>3, <3>2
      <4>2. held[b][s][x] = {k} /\ SetOf(k) = s /\ \A y \in Way : k \in held[b][s][y] => y = x
        BY <4>1 DEF Tidy
      <4>3. b = c => k # l BY <2>5, <4>2
      <4>4. \A y \in Way : k \in held'[b][s][y] => k \in held[b][s][y]
        BY <2>3, <4>3
      <4> QED BY <4>1, <4>2, <4>4
    <3> QED BY <3>1, <3>2
  <2>7. ASSUME NEW b \in Side, NEW k \in Line, b # c \/ k # l
        PROVE  Where(b, k)' = Where(b, k)
    <3>1. SetOf(k) \in Set BY LineSet
    <3>2. \A x \in Way : held'[b][SetOf(k)][x] = {k} <=> held[b][SetOf(k)][x] = {k}
      BY <2>2, <2>3, <2>7, <3>1
    <3> QED BY <3>2 DEF Where
  <2>8. w \in Where(c, l)' BY <1>1, <2>3 DEF Where
  <2> QED BY <2>6, <2>7, <2>8
<1> QED BY <1>2, <1>3

\* An invalidation empties caches, and leaves the other as it is.
Emptied(sides) == held' = [c \in Side |-> IF c \in sides THEN NoLines ELSE held[c]]

LEMMA EmptiedWhere ==
  ASSUME L1Type, Tidy, NEW sides, Emptied(sides)
  PROVE  /\ Tidy'
         /\ \A c \in Side, l \in Line : Where(c, l)' = IF c \in sides THEN {} ELSE Where(c, l)
<1>1. \A c \in Side, s \in Set, w \in Way :
        held'[c][s][w] = IF c \in sides THEN {} ELSE held[c][s][w]
  BY DEF Emptied, NoLines
<1>2. Tidy' BY <1>1 DEF Tidy
<1>3. ASSUME NEW c \in Side, NEW l \in Line
      PROVE  Where(c, l)' = IF c \in sides THEN {} ELSE Where(c, l)
  <2>1. SetOf(l) \in Set /\ {l} # {} BY LineSet
  <2>2. \A w \in Way : held'[c][SetOf(l)][w] = {l}
                         <=> c \notin sides /\ held[c][SetOf(l)][w] = {l}
    BY <1>1, <2>1
  <2> QED BY <2>2 DEF Where
<1> QED BY <1>2, <1>3

\* The lines that the program accesses through each cache.
Accessed(c) == IF c = "D" THEN Used ELSE Code

\* What a step may do to the caches.
Moves ==
  \/ held' = held
  \/ \E c \in Side : \E l \in Accessed(c) : Bring(c, l)
  \/ \E sides \in SUBSET Side : Emptied(sides)

\* The lines of the words that the programs name.
LEMMA NamedLines ==
  /\ ProbeLine \in Line /\ icache_target \in Line /\ LineOf(trap_skip_insn) \in Line
  /\ ProbeLine \notin Stack /\ LineOf(trap_skip_insn) # ProbeLine
<1>1. probe_line \in Bss /\ trap_skip_insn \in Bss /\ Bss \subseteq Word
  BY SkipAssumption, TagAssumption, Layout DEF Bss
<1>2. LineOf(probe_line) \in Used \ Stack BY <1>1, TagAssumption
<1> QED BY <1>1, <1>2, WordLine, Lines, TagAssumption DEF ProbeLine

LEMMA AccessedLines ==
  /\ \A c \in Side : Accessed(c) \subseteq Line
  /\ \A w \in Data \cup Bss \cup Rom : LineOf(w) \in Accessed("D")
BY L1Assumption, TagAssumption DEF Accessed, Line

LEMMA FlushEmpties ==
  ASSUME L1Type
  PROVE  /\ CleanInvalidate => Emptied({"D"})
         /\ Invalidate => Emptied({"D"})
         /\ InvalidateI => Emptied({"I"})
<1>1. held = [c \in Side |-> held[c]] BY DEF L1Type
<1>2. ASSUME NEW d \in Side, held' = [held EXCEPT ![d] = NoLines] PROVE Emptied({d})
  BY <1>1, <1>2 DEF Emptied, L1Type
<1> QED BY <1>2 DEF CleanInvalidate, Invalidate, InvalidateI, Side

LEMMA HeldMoves ==
  ASSUME IInv, [Next]_vars
  PROVE  Moves
<1>1. L1Type /\ Side = {"I", "D"} BY L1Part DEF IInv, Side
<1>2. \A v : \A w \in Data \cup Bss \cup Rom : StoreWord(w, v) => Moves
  BY <1>1, AccessedLines DEF StoreWord, Moves
<1>3. /\ \A l \in Used : LoadLine(l) => Moves
      /\ \A l \in Code : FetchLine(l) => Moves
  BY <1>1 DEF LoadLine, FetchLine, Moves, Accessed
<1>4. ASSUME held' = [c \in Side |-> NoLines] PROVE Moves
  <2>1. Emptied(Side) BY <1>4 DEF Emptied
  <2> QED BY <2>1 DEF Moves
<1>5. CASE Boot
  <2>1. CASE Start \/ Mcor BY <1>4, <2>1 DEF Start, Mcor, InvalidateBoth
  <2>2. CASE CopyLoad
    <3>1. __data_load_start + ptr \in Rom BY <2>2, CopyWord DEF CopyLoad, IInv, TypeOK
    <3> QED BY <1>3, <2>2, <3>1, TagAssumption DEF CopyLoad
  <2>3. CASE CopyStore
    <3>1. ptr \in Nat /\ ptr < DataSize BY <2>3 DEF CopyStore, IInv, TypeOK, Bounds
    <3>2. __data_start + ptr \in Data BY <3>1, CopyWord
    <3> QED BY <1>2, <2>3, <3>2 DEF CopyStore
  <2>4. CASE ClearWord
    <3>1. _bss_start + ptr \in Bss BY <2>4, ClearedWord DEF ClearWord, IInv, TypeOK
    <3> QED BY <1>2, <2>4, <3>1 DEF ClearWord
  <2>5. CASE CopyDone \/ ClearDone \/ Mhcr
    BY <2>5 DEF CopyDone, ClearDone, Mhcr, Enable, l1, Moves
  <2> QED BY <1>5, <2>1, <2>2, <2>3, <2>4, <2>5 DEF Boot
<1>6. CASE Trap \/ TrapInit
  <2>1. trap_skip_insn \in Bss /\ LineOf(trap_skip_insn) \in Used
    BY SkipAssumption, TagAssumption DEF Bss
  <2> QED BY <1>2, <1>3, <1>6, <2>1
          DEF Trap, Execute, TestDone, trap_handler, TrapInit, trap_init, l1, Moves
<1>7. CASE touch_probe \/ CallTarget
  <2>1. probe_line \in Bss /\ icache_target \in Code BY TagAssumption
  <2> QED BY <1>2, <1>3, <1>7, <2>1 DEF touch_probe, CallTarget, l1, Moves
<1>8. CASE thead_flush_caches
  <2>1. \E d \in Side : Emptied({d}) BY <1>1, <1>8, FlushEmpties DEF thead_flush_caches
  <2> QED BY <2>1 DEF Moves
<1>9. CASE Main \/ ReadWay \/ PrintWay \/ NextSet \/ DumpDone \/ Expect \/ TestKey \/ DumpKey
  BY <1>9 DEF Main, ReadWay, PrintWay, NextSet, DumpDone, Expect, TestKey, DumpKey, Key, l1, Moves
<1>10. CASE Load
  BY <1>4, <1>10 DEF Load, Reset, Reload, Moves
<1>11. CASE StackAndText
  BY <1>3, <1>11, TagAssumption DEF StackAndText
<1>12. CASE SomeWriteBack \/ UNCHANGED vars
  BY <1>12 DEF SomeWriteBack, WriteBack, vars, l1, Moves
<1> QED BY <1>5, <1>6, <1>7, <1>8, <1>9, <1>10, <1>11, <1>12 DEF Next, Program, User

LEMMA TidyStep ==
  ASSUME IInv, Tidy, [Next]_vars
  PROVE  Tidy'
<1>1. L1Type BY L1Part DEF IInv
<1>2. CASE held' = held BY <1>2 DEF Tidy
<1>3. CASE \E c \in Side : \E l \in Accessed(c) : Bring(c, l)
  BY <1>1, <1>3, AccessedLines, BringWhere
<1>4. CASE \E sides \in SUBSET Side : Emptied(sides) BY <1>1, <1>4, EmptiedWhere
<1> QED BY <1>2, <1>3, <1>4, HeldMoves DEF Moves

-----------------------------------------------------------------------------
(* The dump. *)

\* Each key goes its own way to the dump.
LEMMA AimedStep ==
  ASSUME IInv, Aimed, [Next]_vars
  PROVE  Aimed'
<1> USE DEF Aimed, Dumping
<1>1. /\ then \in {"prompt", "tag"} /\ dump.way \in 0..L1_WAYS /\ L1_WAYS \in Nat \ {0}
      /\ dump \in DumpType
  BY L1Assumption DEF IInv, TypeOK, DumpType
<1>2. CASE Boot /\ UNCHANGED <<test, dump>>
  <2>1. pc \in Starting /\ pc' \in Starting \cup {"main"}
    BY <1>2 DEF Boot, Start, CopyLoad, CopyStore, CopyDone, ClearWord, ClearDone, Mcor, Mhcr,
                Starting
  <2>2. pc' \notin {"touch", "call", "ciall", "iall", "invalid", "dump", "tag", "expect",
                    "run", "trap"}
    BY <2>1 DEF Starting
  <2> QED BY <1>2, <2>2
<1>3. CASE Trap /\ UNCHANGED dump
  BY <1>1, <1>3 DEF Trap, Execute, TestDone, trap_handler
<1>4. CASE Main \/ TrapInit
  BY <1>4 DEF Main, TrapInit, trap_init
<1>5. CASE touch_probe \/ CallTarget
  BY <1>5 DEF touch_probe, CallTarget, test
<1>6. CASE thead_flush_caches
  BY <1>6 DEF thead_flush_caches, FlushStep, test
<1>7. CASE ReadWay
  BY <1>7 DEF ReadWay, Run
<1>8. CASE PrintWay
  <2>1. /\ pc = "tag" /\ pc' = "dump" /\ dump'.key = dump.key /\ dump'.side = dump.side
        /\ dump'.line = dump.line
    BY <1>1, <1>8 DEF PrintWay, DumpType
  <2> QED BY <2>1
<1>9. CASE NextSet
  <2>1. pc = "dump" /\ pc' = "dump" /\ dump.key = "s" /\ dump'.key = "s"
    BY <1>1, <1>9 DEF NextSet, DumpType
  <2> QED BY <2>1
<1>10. CASE DumpDone \/ Expect
  BY <1>10 DEF DumpDone, Expect, NoDump
<1>11. CASE TestKey
  BY <1>11 DEF TestKey, Run
<1>12. CASE DumpKey
  BY <1>12 DEF DumpKey, Key
<1>13. CASE Load
  BY <1>13 DEF Load, Reset, Reload, ToStart, NoDump
<1>14. CASE StackAndText \/ SomeWriteBack
  BY <1>14 DEF StackAndText, SomeWriteBack, test
<1>15. CASE UNCHANGED vars
  BY <1>15 DEF vars, test
<1>16. CASE Program
  BY <1>2, <1>3, <1>4, <1>5, <1>6, <1>7, <1>8, <1>9, <1>10, <1>16 DEF Program
<1> QED BY <1>11, <1>12, <1>13, <1>14, <1>15, <1>16 DEF Next, User

\* A step that leaves the dump alone, and with it the line it looks for.
LEMMA BesideMarks ==
  ASSUME IInv, Tidy, Aimed, Marks, Dumping' => Dumping, UNCHANGED <<dump, diag>>,
         \/ held' = held
         \/ \E l \in Line : Bring("D", l) /\ l # ProbeLine
         \/ \E l \in Line : Bring("I", l) /\ l # icache_target
  PROVE  Marks'
<1>1. L1Type /\ dump \in DumpType /\ ProbeLine \in Line /\ icache_target \in Line
  BY L1Part, NamedLines DEF IInv, TypeOK, DumpType
<1>2. /\ Where("D", ProbeLine)' = Where("D", ProbeLine)
      /\ Where("I", icache_target)' = Where("I", icache_target)
  <2>1. CASE held' = held BY <2>1 DEF Where
  <2>2. CASE \E l \in Line : Bring("D", l) /\ l # ProbeLine
    BY <1>1, <2>2, BringWhere DEF Side
  <2>3. CASE \E l \in Line : Bring("I", l) /\ l # icache_target
    BY <1>1, <2>3, BringWhere DEF Side
  <2> QED BY <2>1, <2>2, <2>3
<1>3. CASE Dumping'
  <2>1. dump.key \in {"1", "2", "f", "s"} BY <1>1, <1>3 DEF Aimed, DumpType
  <2>2. dump.key # "s" => Where(dump.side, dump.line)' = Where(dump.side, dump.line)
    BY <1>2, <2>1 DEF Aimed
  <2> QED BY <1>2, <1>3, <2>2 DEF Marks
<1>4. CASE ~Dumping' BY <1>4 DEF Marks
<1> QED BY <1>3, <1>4

LEMMA MarksStep ==
  ASSUME IInv, Tidy, Aimed, Marks, [Next]_vars
  PROVE  Marks'
<1>1. /\ L1Type /\ then \in {"prompt", "tag"} /\ dump \in DumpType /\ diag' = diag
      /\ L1_WAYS \in Nat \ {0}
  BY L1Part, L1Assumption DEF IInv, TypeOK, DumpType, Next, vars
<1>2. ASSUME ~Dumping' PROVE Marks' BY <1>2 DEF Marks
<1>3. CASE Boot \/ Main \/ TrapInit \/ Expect \/ (DumpKey /\ pc' # "dump") \/ TestKey \/ Load
  <2>1. ~Dumping'
    BY <1>3 DEF Dumping, Boot, Start, CopyLoad, CopyStore, CopyDone, ClearWord, ClearDone, Mcor,
                Mhcr, Main, TrapInit, trap_init, Expect, DumpKey, Key, TestKey, Run, Load, Reset,
                Reload, ToStart
  <2> QED BY <1>2, <2>1
<1>4. CASE Trap /\ UNCHANGED dump
  <2>1. Dumping' => Dumping
    BY <1>1, <1>4 DEF Dumping, Trap, Execute, TestDone, trap_handler
  <2>2. CASE trap_handler
    <3>1. Bring("D", LineOf(trap_skip_insn)) BY <2>2 DEF trap_handler, LoadLine
    <3> QED BY <1>1, <1>4, <2>1, <3>1, NamedLines, BesideMarks
  <2>3. CASE Execute \/ TestDone
    <3>1. held' = held BY <2>3 DEF Execute, TestDone, l1
    <3> QED BY <1>1, <1>4, <2>1, <3>1, BesideMarks
  <2> QED BY <1>4, <2>2, <2>3 DEF Trap
<1>5. CASE touch_probe
  <2>1. /\ pc = "touch" /\ dump' = dump /\ pc' = IF dump.key = "f" THEN "ciall" ELSE "dump"
        /\ Bring("D", ProbeLine)
    BY <1>5 DEF touch_probe, StoreWord, ProbeLine
  <2>2. on BY <2>1 DEF IInv, Placed, Starting
  <2>3. Where("D", ProbeLine)' # {} BY <1>1, <2>1, <2>2, NamedLines, BringWhere DEF Side
  <2>4. dump.way = 0 /\ dump.hits = {} BY <2>1 DEF Aimed
  <2>5. dump.key = "f" => ~Dumping' BY <2>1 DEF Dumping
  <2>6. \A w \in Way : ~(w < 0) BY <1>1 DEF Way
  <2>7. {w \in Where(dump.side, dump.line)' : w < 0} = {} BY <2>6 DEF Where
  <2> QED BY <2>1, <2>3, <2>4, <2>5, <2>7 DEF Marks
<1>6. CASE CallTarget
  <2>1. dump' = dump /\ dump.key = "2" /\ dump.way = 0 /\ dump.hits = {}
    BY <1>6 DEF CallTarget, Aimed
  <2>2. \A w \in Way : ~(w < 0) BY <1>1 DEF Way
  <2>3. {w \in Where(dump.side, dump.line)' : w < 0} = {} BY <2>2 DEF Where
  <2> QED BY <2>1, <2>3 DEF Marks
<1>7. CASE thead_flush_caches
  <2>1. CASE pc = "invalid"
    <3>1. Invalidate /\ dump' = dump BY <1>7, <2>1 DEF thead_flush_caches, FlushStep
    <3>2. Where("D", ProbeLine)' = {}
      BY <1>1, <3>1, FlushEmpties, EmptiedWhere, NamedLines DEF Side
    <3>3. /\ dump.key = "f" /\ dump.way = 0 /\ dump.hits = {} /\ dump.side = "D"
          /\ dump.line = ProbeLine
      BY <2>1 DEF Aimed
    <3> QED BY <3>1, <3>2, <3>3 DEF Marks
  <2>2. CASE pc # "invalid"
    <3>1. ~Dumping' BY <1>7, <2>2 DEF thead_flush_caches, FlushStep, Dumping
    <3> QED BY <1>2, <3>1
  <2> QED BY <2>1, <2>2
<1>8. CASE ReadWay \/ DumpDone
  <2>1. held' = held /\ dump' = dump /\ Dumping
    BY <1>8 DEF ReadWay, DumpDone, l1, Dumping
  <2> QED BY <1>1, <2>1, BesideMarks
<1>9. CASE PrintWay
  <2> DEFINE w == dump.way
  <2>1. PICK d0 \in IF diag THEN TagWords(mk_mcindex(Rid[dump.side], w, Address(dump.line)))
                            ELSE {0, 1 + 4096 * (dump.line \div PAGE)} :
          dump' = [dump EXCEPT !.way = @ + 1,
                               !.hits = IF dump.key # "s" /\ Marked(d0, dump.line)
                                        THEN @ \cup {dump.way} ELSE @]
    BY <1>9 DEF PrintWay
  <2>2. pc = "tag" /\ held' = held /\ w \in Way
    BY <1>1, <1>9 DEF PrintWay, l1, IInv, Bounds, Reading, DumpType, Way
  <2>3. /\ dump'.key = dump.key /\ dump'.side = dump.side /\ dump'.line = dump.line
        /\ dump'.way = w + 1
        /\ dump'.hits = IF dump.key # "s" /\ Marked(d0, dump.line)
                        THEN dump.hits \cup {w} ELSE dump.hits
    BY <1>1, <2>1 DEF DumpType
  <2>4. \A c \in Side, l \in Line : Where(c, l)' = Where(c, l) BY <2>2 DEF Where
  <2>5. dump.key \in {"1", "2", "f", "s"} /\ Dumping BY <1>1, <2>2 DEF Aimed, Dumping, DumpType
  <2>6. ASSUME diag, dump.key # "s"
        PROVE  dump'.hits = {x \in Where(dump.side, dump.line) : x < w + 1}
    <3>1. dump.side \in Side /\ dump.line \in Line
      BY <2>5, <2>6, NamedLines DEF Aimed, Side
    <3>2. Marked(d0, dump.line) <=> w \in Where(dump.side, dump.line)
      BY <1>1, <2>1, <2>2, <2>6, <3>1, MarkedIs
    <3>3. dump.hits = {x \in Where(dump.side, dump.line) : x < w} BY <2>5, <2>6 DEF Marks
    <3>4. \A x \in Way : x < w + 1 <=> x < w \/ x = w BY <2>2 DEF Way
    <3>5. Where(dump.side, dump.line) \subseteq Way BY DEF Where
    <3> HIDE DEF w
    <3> QED BY <2>3, <2>6, <3>2, <3>3, <3>4, <3>5
  <2>7. ASSUME diag, dump.key # "s"
        PROVE  Where(dump.side, dump.line)' = Where(dump.side, dump.line)
    BY <2>2, <2>3 DEF Where
  <2>8. /\ dump'.key = "1" => Where("D", ProbeLine)' # {}
        /\ dump'.key = "f" => Where("D", ProbeLine)' = {}
    BY <2>3, <2>4, <2>5, NamedLines DEF Marks, Side
  <2> QED BY <1>1, <2>3, <2>6, <2>7, <2>8 DEF Marks
<1>10. CASE NextSet \/ (DumpKey /\ pc' = "dump")
  <2>1. CASE NextSet
    <3>1. dump'.key = "s" BY <1>1, <2>1 DEF NextSet, DumpType
    <3> QED BY <3>1 DEF Marks
  <2>2. CASE DumpKey /\ pc' = "dump"
    <3>1. dump'.key = "s" BY <2>2 DEF DumpKey, Key
    <3> QED BY <3>1 DEF Marks
  <2> QED BY <1>10, <2>1, <2>2
<1>11. CASE StackAndText
  <2>1. UNCHANGED <<pc, then, dump>> BY <1>11 DEF StackAndText, test
  <2>2. Dumping' => Dumping BY <2>1 DEF Dumping
  <2>3. \/ \E l \in Line : Bring("D", l) /\ l # ProbeLine
        \/ \E l \in Line : Bring("I", l) /\ l # icache_target
    BY <1>11, Lines, NamedLines DEF StackAndText, LoadLine, FetchLine
  <2> QED BY <1>1, <2>1, <2>2, <2>3, BesideMarks
<1>12. CASE SomeWriteBack \/ UNCHANGED vars
  <2>1. UNCHANGED <<pc, then, dump, held>>
    BY <1>12 DEF SomeWriteBack, WriteBack, vars, test, l1
  <2>2. Dumping' => Dumping BY <2>1 DEF Dumping
  <2> QED BY <1>1, <2>1, <2>2, BesideMarks
<1>13. CASE Program
  BY <1>3, <1>4, <1>5, <1>6, <1>7, <1>8, <1>9, <1>10, <1>13 DEF Program
<1>14. CASE User
  <2>1. CASE TestKey \/ Load BY <1>3, <2>1
  <2>2. CASE DumpKey BY <1>3, <1>10, <2>2
  <2> QED BY <1>14, <2>1, <2>2 DEF User
<1> QED BY <1>11, <1>12, <1>13, <1>14 DEF Next

\* The invariant of the dump.
LEMMA TagInvariance == Spec => [](Tidy /\ Aimed /\ Marks)
<1>1. Init => Tidy /\ Aimed /\ Marks
  <2> SUFFICES ASSUME Init PROVE Tidy /\ Aimed /\ Marks OBVIOUS
  <2>1. \A c \in Side, s \in Set, w \in Way : held[c][s][w] = {} BY DEF Init, NoLines
  <2> QED BY <2>1 DEF Init, Tidy, Aimed, Marks, Dumping, NoDump
<1>2. IInv /\ Tidy /\ Aimed /\ Marks /\ [Next]_vars => (Tidy /\ Aimed /\ Marks)'
  BY TidyStep, AimedStep, MarksStep
<1> QED BY <1>1, <1>2, Invariance, PTL DEF Spec

\* The tag dump of lesson 07 tells where the line is: key 1 marks one way, the one that
\* holds the probe's line, key 2 one at most and key f none, for every geometry of the
\* cache and every access made between the reads of the ways.
THEOREM DumpIsTrue == Spec => []DumpTells
<1>1. IInv /\ Tidy /\ Aimed /\ Marks => DumpTells
  <2> SUFFICES ASSUME IInv, Tidy, Aimed, Marks, pc = "expect", diag PROVE
               /\ dump.key = "1" => Cardinality(dump.hits) = 1
               /\ dump.key = "2" => Cardinality(dump.hits) <= 1
               /\ dump.key = "f" => dump.hits = {}
    BY DEF DumpTells
  <2>1. dump.way = L1_WAYS /\ L1Type /\ L1_WAYS \in Nat
    BY L1Part, L1Assumption DEF Aimed, IInv
  <2>2. dump.key # "s" => dump.hits = Where(dump.side, dump.line)
    <3>1. \A w \in Way : w < L1_WAYS BY <2>1 DEF Way
    <3>2. dump.key # "s" => dump.hits = {w \in Where(dump.side, dump.line) : w < L1_WAYS}
      BY <2>1 DEF Marks, Dumping
    <3> QED BY <3>1, <3>2 DEF Where
  <2>3. \A c \in Side, l \in Line : Where(c, l) = {} \/ \E w \in Way : Where(c, l) = {w}
    BY <2>1, OneWay DEF Where
  <2>4. \A c \in Side, l \in Line : Where(c, l) # {} => Cardinality(Where(c, l)) = 1
    <3>1. \A w \in Way : Cardinality({w}) = 1 BY FS_Singleton
    <3> QED BY <2>3, <3>1, Zenon
  <2>5. Cardinality({}) = 0 BY FS_EmptySet
  <2>6. ProbeLine \in Line /\ icache_target \in Line BY NamedLines
  <2> QED BY <2>2, <2>4, <2>5, <2>6 DEF Aimed, Marks, Dumping, Side
<1> QED BY <1>1, Invariance, TagInvariance, PTL

-----------------------------------------------------------------------------
(* No access waits for a way. *)

\* A cache holds only lines that the program accesses through it.
Fits == \A c \in Side, s \in Set, w \in Way : held[c][s][w] \subseteq Accessed(c)

\* Each line is held or has a free way to come to: what Bring asks for.
Room ==
  \A c \in Side : \A l \in Accessed(c) :
    Held(c, l) \/ \E w \in Way : held[c][SetOf(l)][w] = {}

LEMMA FitsStep ==
  ASSUME IInv, Fits, [Next]_vars
  PROVE  Fits'
<1>1. L1Type BY L1Part DEF IInv
<1>2. CASE held' = held BY <1>2 DEF Fits
<1>3. ASSUME NEW c \in Side, NEW l \in Accessed(c), Bring(c, l) PROVE Fits'
  <2>1. CASE held' = held BY <2>1 DEF Fits
  <2>2. CASE held' # held
    <3>1. SetOf(l) \in Set BY AccessedLines, LineSet
    <3>2. PICK w \in Way : held' = [held EXCEPT ![c][SetOf(l)][w] = {l}]
      BY <1>3, <2>2 DEF Bring
    <3>3. \A b \in Side, s \in Set, x \in Way :
            held'[b][s][x] = IF b = c /\ s = SetOf(l) /\ x = w THEN {l} ELSE held[b][s][x]
      BY <1>1, <3>1, <3>2 DEF L1Type
    <3> QED BY <3>3 DEF Fits
  <2> QED BY <2>1, <2>2
<1>4. CASE \E sides \in SUBSET Side : Emptied(sides)
  <2>1. PICK sides \in SUBSET Side : Emptied(sides) BY <1>4
  <2>2. \A c \in Side, s \in Set, w \in Way :
          held'[c][s][w] = IF c \in sides THEN {} ELSE held[c][s][w]
    BY <2>1 DEF Emptied, NoLines
  <2> QED BY <2>2 DEF Fits
<1> QED BY <1>2, <1>3, <1>4, HeldMoves DEF Moves

\* A set whose ways are all taken holds as many accessed lines as there are in it.
LEMMA RoomLeft ==
  ASSUME L1Type, Tidy, Fits
  PROVE  Room
<1> SUFFICES ASSUME NEW c \in Side, NEW l \in Accessed(c), ~Held(c, l),
                    \A w \in Way : held[c][SetOf(l)][w] # {}
             PROVE  FALSE
  BY DEF Room
<1> DEFINE s == SetOf(l)
           ways == held[c][s]
           lines == {k \in Accessed(c) : k % L1_SETS = s}
<1>1. l \in Line /\ s \in Set BY AccessedLines, LineSet
<1>2. IsFiniteSet(lines) /\ Cardinality(lines) <= L1_WAYS
  <2>1. Line \subseteq Nat /\ LINES \in Nat /\ \A k \in Line : k <= LINES
    BY L1Assumption DEF Line
  <2>2. lines \in SUBSET Nat /\ \A k \in lines : k <= LINES BY <2>1, AccessedLines
  <2>3. IsFiniteSet(lines) BY <2>1, <2>2, FS_BoundedSetOfNaturals
  <2>4. s \in 0..(L1_SETS - 1) /\ Accessed(c) \in {Used, Code} BY <1>1 DEF Set, Accessed
  <2> QED BY <2>3, <2>4, FitAssumption
<1>3. l \in lines BY DEF SetOf
<1>4. IsFiniteSet(lines \ {l}) /\ Cardinality(lines \ {l}) = Cardinality(lines) - 1
  BY <1>2, <1>3, FS_RemoveElement
<1>5. IsFiniteSet(Way) /\ Cardinality(Way) = L1_WAYS /\ L1_WAYS \in Nat
  <2>1. L1_WAYS \in Nat /\ 0 <= L1_WAYS - 1 BY L1Assumption
  <2> QED BY <2>1, FS_Interval DEF Way
<1> DEFINE line == [w \in Way |-> CHOOSE k \in Line : k \in ways[w]]
<1>6. \A w \in Way : line[w] \in Line /\ line[w] \in ways[w]
  <2> TAKE w \in Way
  <2>1. ways[w] # {} /\ ways[w] \subseteq Line BY <1>1 DEF L1Type
  <2>2. \E k \in Line : k \in ways[w] BY <2>1
  <2> QED BY <2>2
<1> HIDE DEF line
<1>7. \A w \in Way : line[w] \in lines \ {l}
  <2> TAKE w \in Way
  <2>1. ways[w] = {line[w]} /\ SetOf(line[w]) = s BY <1>1, <1>6 DEF Tidy
  <2>2. line[w] \in Accessed(c) BY <1>1, <1>6 DEF Fits
  <2>3. line[w] # l BY <2>1 DEF Held
  <2> QED BY <2>1, <2>2, <2>3 DEF SetOf
<1>8. line \in [Way -> lines \ {l}] BY <1>7 DEF line
<1>9. Cardinality(lines \ {l}) < Cardinality(Way)
  <2>1. Cardinality(lines) \in Nat BY <1>2, FS_CardinalityType
  <2> QED BY <1>2, <1>4, <1>5, <2>1
<1>10. \E x, y \in Way : x # y /\ line[x] = line[y]
  BY <1>4, <1>5, <1>8, <1>9, FS_PigeonHole
<1> QED BY <1>1, <1>6, <1>10 DEF Tidy

\* An access always finds a way: no load, store or fetch of the programs depends on a
\* replacement, and none of their steps is held up in the model, for every geometry that
\* FitAssumption fits them in and whatever the reload before left in the caches.
THEOREM AccessesFit == Spec => []Room
<1>1. Init => Fits
  <2> SUFFICES ASSUME Init PROVE Fits OBVIOUS
  <2>1. \A c \in Side, s \in Set, w \in Way : held[c][s][w] = {} BY DEF Init, NoLines
  <2> QED BY <2>1 DEF Fits
<1>2. IInv /\ Fits /\ [Next]_vars => Fits'
  BY FitsStep
<1>3. IInv /\ Tidy /\ Fits => Room
  BY L1Part, RoomLeft DEF IInv
<1> QED BY <1>1, <1>2, <1>3, Invariance, TagInvariance, PTL DEF Spec

-----------------------------------------------------------------------------
(* The trap handler. *)

\* The instructions of code are all of 2 bytes or all of 4, as in each test and CSR
\* sequence, and mepc is at the first halfword of one of them or behind the last.
AtInsn ==
  /\ \/ /\ \A n \in 1..Len(code) : code[n].low # 3
        /\ mepc \in 1..(Len(code) + 1)
     \/ \E m \in 0..Len(code) :
          /\ Len(code) = 2 * m
          /\ \A k \in 0..(m - 1) : code[2 * k + 1].low = 3
          /\ \E j \in 0..m : mepc = 2 * j + 1
  /\ pc = "trap" => mepc <= Len(code)

\* From trap_init on the handler finds trap_skip_insn set; lesson 01 stays at its prompt.
Ready ==
  pc \notin Starting \cup {"main"} =>
    /\ core[trap_skip_insn] = "one" \/ (image = "01" /\ pc = "prompt")
    /\ pc # "halt"

\* Wide code starts and stays at its even offsets.
LEMMA WideAt ==
  ASSUME NEW m \in Nat, Len(code') = 2 * m, \A k \in 0..(m - 1) : code'[2 * k + 1].low = 3,
         NEW j \in 0..m, mepc' = 2 * j + 1, pc' = "trap" => mepc' <= Len(code')
  PROVE  AtInsn'
<1>1. m \in 0..Len(code') OBVIOUS
<1> QED BY <1>1 DEF AtInsn

LEMMA NarrowAt ==
  ASSUME \A n \in 1..Len(code') : code'[n].low # 3, mepc' \in 1..(Len(code') + 1),
         pc' = "trap" => mepc' <= Len(code')
  PROVE  AtInsn'
BY DEF AtInsn

\* Code of which every instruction is of 2 bytes, and of 4.
Narrow(c) == \A n \in 1..Len(c) : c[n].low # 3
Wide(c) == \E m \in Nat : Len(c) = 2 * m /\ \A k \in 0..(m - 1) : c[2 * k + 1].low = 3

LEMMA Encoded ==
  /\ \A traps : Wide(Long(traps))
  /\ \A traps : \A low \in {0, 2} : Narrow(Short(low, traps))
<1>1. ASSUME NEW traps PROVE Wide(Long(traps))
  <2>1. Len(Long(traps)) = 2 * 1 /\ \A k \in 0..(1 - 1) : Long(traps)[2 * k + 1].low = 3
    BY DEF Long, Half
  <2> QED BY <2>1 DEF Wide
<1>2. ASSUME NEW traps, NEW low \in {0, 2} PROVE Narrow(Short(low, traps))
  <2>1. Len(Short(low, traps)) = 1 /\ Short(low, traps)[1].low = low BY DEF Short, Half
  <2> QED BY <2>1 DEF Narrow
<1> QED BY <1>1, <1>2

LEMMA WideJoin ==
  ASSUME NEW S, NEW a \in Seq(S), NEW b \in Seq(S), Wide(a), Wide(b)
  PROVE  a \o b \in Seq(S) /\ Wide(a \o b)
<1>1. PICK m \in Nat : Len(a) = 2 * m /\ \A k \in 0..(m - 1) : a[2 * k + 1].low = 3
  BY DEF Wide
<1>2. PICK n \in Nat : Len(b) = 2 * n /\ \A k \in 0..(n - 1) : b[2 * k + 1].low = 3
  BY DEF Wide
<1> DEFINE c == a \o b
<1>3. /\ c \in Seq(S) /\ Len(c) = Len(a) + Len(b)
      /\ \A i \in 1..(Len(a) + Len(b)) : c[i] = IF i <= Len(a) THEN a[i] ELSE b[i - Len(a)]
  BY ConcatProperties
<1> HIDE DEF c
<1>4. m + n \in Nat /\ Len(c) = 2 * (m + n) BY <1>1, <1>2, <1>3
<1>5. ASSUME NEW k \in 0..(m + n - 1) PROVE c[2 * k + 1].low = 3
  <2>1. 2 * k + 1 \in 1..(Len(a) + Len(b)) BY <1>1, <1>2
  <2>2. CASE k < m
    <3>1. 2 * k + 1 <= Len(a) /\ k \in 0..(m - 1) BY <1>1, <2>2
    <3>2. c[2 * k + 1] = a[2 * k + 1] BY <1>3, <2>1, <3>1
    <3> QED BY <1>1, <3>1, <3>2
  <2>3. CASE k >= m
    <3>1. k - m \in 0..(n - 1) /\ 2 * k + 1 - Len(a) = 2 * (k - m) + 1 /\ ~(2 * k + 1 <= Len(a))
      BY <1>1, <2>3
    <3>2. c[2 * k + 1] = b[2 * (k - m) + 1] BY <1>3, <2>1, <3>1
    <3> QED BY <1>2, <3>1, <3>2
  <2> QED BY <2>2, <2>3
<1>6. Wide(c)
  <2>1. \A k \in 0..(m + n - 1) : c[2 * k + 1].low = 3 BY <1>5
  <2>2. PICK h \in Nat : h = m + n BY <1>4
  <2>3. Len(c) = 2 * h /\ \A k \in 0..(h - 1) : c[2 * k + 1].low = 3 BY <1>4, <2>1, <2>2
  <2> QED BY <2>3 DEF Wide
<1> QED BY <1>3, <1>6 DEF c

LEMMA NarrowJoin ==
  ASSUME NEW S, NEW a \in Seq(S), NEW b \in Seq(S), Narrow(a), Narrow(b)
  PROVE  Narrow(a \o b)
<1>1. /\ Len(a \o b) = Len(a) + Len(b) /\ Len(a) \in Nat /\ Len(b) \in Nat
      /\ \A i \in 1..(Len(a) + Len(b)) :
           (a \o b)[i] = IF i <= Len(a) THEN a[i] ELSE b[i - Len(a)]
  BY ConcatProperties
<1>2. ASSUME NEW i \in 1..(Len(a) + Len(b)) PROVE (a \o b)[i].low # 3
  <2>1. CASE i <= Len(a) BY <1>1, <2>1 DEF Narrow
  <2>2. CASE i > Len(a)
    <3>1. i - Len(a) \in 1..Len(b) BY <1>1, <2>2
    <3> QED BY <1>1, <2>2, <3>1 DEF Narrow
  <2> QED BY <1>1, <2>1, <2>2
<1> QED BY <1>1, <1>2 DEF Narrow

\* The code of each test and of a read of the tag array.
LEMMA TestsAt == \A c \in Tests \cup {Csr \o Csr \o Csr \o Csr} : Narrow(c) \/ Wide(c)
<1> DEFINE H == [low : {0, 3}, traps : {{~diag}, BOOLEAN}]
<1>1. Wide(Csr \o Csr \o Csr \o Csr)
  <2>1. Csr \in Seq(H) /\ Wide(Csr)
    <3>1. Csr \in Seq(H) BY DEF Csr, Long, Half
    <3> QED BY <3>1, Encoded DEF Csr
  <2>2. Csr \o Csr \in Seq(H) /\ Wide(Csr \o Csr) BY <2>1, WideJoin
  <2>3. Csr \o Csr \o Csr \in Seq(H) /\ Wide(Csr \o Csr \o Csr) BY <2>1, <2>2, WideJoin
  <2> QED BY <2>1, <2>3, WideJoin
<1>2. Narrow(Short(0, {TRUE}) \o Short(0, {TRUE}))
  <2>1. Short(0, {TRUE}) \in Seq([low : {0}, traps : {{TRUE}}]) BY DEF Short, Half
  <2>2. Narrow(Short(0, {TRUE})) BY Encoded
  <2> QED BY <2>1, <2>2, NarrowJoin
<1>3. /\ Wide(Long(BOOLEAN)) /\ Wide(Long({TRUE}))
      /\ Narrow(Short(0, BOOLEAN)) /\ Narrow(Short(2, {TRUE}))
  BY Encoded
<1> QED BY <1>1, <1>2, <1>3 DEF Tests

LEMMA RunAt ==
  ASSUME NEW c \in Tests \cup {Csr \o Csr \o Csr \o Csr}, NEW next, Run(c, next)
  PROVE  AtInsn'
<1>1. code' = c /\ mepc' = 1 /\ pc' = "run" BY DEF Run
<1>2. CASE Narrow(c)
  <2>1. Len(c) \in Nat BY InsnTypes DEF Insns
  <2> QED BY <1>1, <1>2, <2>1, NarrowAt DEF Narrow
<1>3. CASE Wide(c)
  <2>1. PICK m \in Nat : Len(c) = 2 * m /\ \A k \in 0..(m - 1) : c[2 * k + 1].low = 3
    BY <1>3 DEF Wide
  <2>2. 0 \in 0..m /\ 1 = 2 * 0 + 1 OBVIOUS
  <2> QED BY <1>1, <2>1, <2>2, WideAt
<1> QED BY <1>2, <1>3, TestsAt

\* The handler advances mepc as the hart does, past one whole instruction.
LEMMA PassInsn ==
  ASSUME AtInsn, Len(code) \in Nat, mepc <= Len(code), UNCHANGED code, pc' = "run",
         mepc' = mepc + (IF code[mepc].low = 3 THEN 2 ELSE 1)
  PROVE  AtInsn'
<1>1. CASE (\A n \in 1..Len(code) : code[n].low # 3) /\ mepc \in 1..(Len(code) + 1)
  <2>1. mepc' = mepc + 1 BY <1>1
  <2> QED BY <1>1, <2>1, NarrowAt
<1>2. CASE \E m \in 0..Len(code) : /\ Len(code) = 2 * m
                                   /\ \A k \in 0..(m - 1) : code[2 * k + 1].low = 3
                                   /\ \E j \in 0..m : mepc = 2 * j + 1
  <2>1. PICK m \in 0..Len(code) : /\ Len(code) = 2 * m
                                  /\ \A k \in 0..(m - 1) : code[2 * k + 1].low = 3
                                  /\ \E j \in 0..m : mepc = 2 * j + 1
    BY <1>2
  <2>2. PICK j \in 0..m : mepc = 2 * j + 1 BY <2>1
  <2>3. j \in 0..(m - 1) /\ j + 1 \in 0..m BY <2>1, <2>2
  <2>4. mepc' = 2 * (j + 1) + 1 BY <2>1, <2>2, <2>3
  <2>5. /\ Len(code') = 2 * m /\ \A k \in 0..(m - 1) : code'[2 * k + 1].low = 3
        /\ m \in Nat /\ pc' # "trap"
    BY <2>1
  <2> QED BY <2>3, <2>4, <2>5, WideAt
<1> QED BY <1>1, <1>2 DEF AtInsn

LEMMA AtInsnStep ==
  ASSUME IInv, AtInsn, [Next]_vars
  PROVE  AtInsn'
<1>1. code \in Seq([low : 0..3, traps : SUBSET BOOLEAN]) /\ Len(code) \in Nat
  BY DEF IInv, TypeOK
<1>2. ASSUME UNCHANGED <<code, mepc>>, pc' # "trap" PROVE AtInsn'
  BY <1>2 DEF AtInsn
<1>3. ASSUME code' = << >>, mepc' = 1, pc' # "trap" PROVE AtInsn'
  <2>1. Len(code') = 0 BY <1>3
  <2> QED BY <1>3, <2>1, NarrowAt
<1>4. CASE Boot /\ UNCHANGED test
  BY <1>2, <1>4 DEF Boot, Start, CopyLoad, CopyStore, CopyDone, ClearWord, ClearDone, Mcor,
                    Mhcr, test
<1>5. CASE Execute
  <2>1. PICK traps \in code[mepc].traps :
          IF traps THEN pc' = "trap" /\ UNCHANGED mepc
                   ELSE mepc' = mepc + Size(code[mepc].low) /\ UNCHANGED pc
    BY <1>5 DEF Execute
  <2>2. CASE traps BY <1>5, <2>1, <2>2 DEF Execute, AtInsn
  <2>3. CASE ~traps BY <1>1, <1>5, <2>1, <2>3, PassInsn DEF Execute, Size
  <2> QED BY <2>2, <2>3
<1>6. CASE trap_handler
  <2>1. CASE pc' = "halt" /\ UNCHANGED mepc BY <1>2, <1>6, <2>1 DEF trap_handler
  <2>2. CASE pc' = "run" /\ mepc' = mepc + insn_len(code[mepc])
    BY <1>1, <1>6, <2>2, PassInsn DEF trap_handler, insn_len, AtInsn
  <2> QED BY <1>6, <2>1, <2>2 DEF trap_handler
<1>7. CASE TestDone
  <2>1. then # "trap" BY DEF IInv, TypeOK
  <2> QED BY <1>3, <1>7, <2>1 DEF TestDone
<1>8. CASE Main \/ TrapInit \/ touch_probe \/ CallTarget \/ thead_flush_caches \/ PrintWay
           \/ NextSet \/ DumpDone \/ Expect \/ DumpKey
  BY <1>2, <1>8 DEF Main, TrapInit, trap_init, touch_probe, CallTarget, thead_flush_caches,
     FlushStep, PrintWay, NextSet, DumpDone, Expect, DumpKey, Key, test
<1>9. CASE ReadWay BY <1>9, RunAt DEF ReadWay
<1>10. CASE TestKey BY <1>10, RunAt DEF TestKey
<1>11. CASE Load
  BY <1>3, <1>11 DEF Load, Reset, Reload, ToStart
<1>12. CASE StackAndText \/ SomeWriteBack \/ UNCHANGED vars
  BY <1>12 DEF StackAndText, SomeWriteBack, vars, test, AtInsn
<1> QED
  BY <1>4, <1>5, <1>6, <1>7, <1>8, <1>9, <1>10, <1>11, <1>12 DEF Next, Program, User, Trap

LEMMA ReadyStep ==
  ASSUME IInv, Ready, [Next]_vars
  PROVE  Ready'
<1> DEFINE Set1 == core[trap_skip_insn] = "one"
<1>1. L1Type /\ Off /\ Placed BY L1Part DEF IInv
<1>2. trap_skip_insn \in Word /\ "one" \in Val /\ trap_skip_insn # probe_line
  BY SkipAssumption, TagAssumption, Layout DEF Bss, ProbeLine
<1>3. CASE Load BY <1>3 DEF Load, Reset, Reload, ToStart, Ready, Starting
<1>4. CASE Boot
  BY <1>4 DEF Boot, Start, CopyLoad, CopyStore, CopyDone, ClearWord, ClearDone, Mcor, Mhcr,
              Ready, Starting
<1>5. CASE Main BY <1>5 DEF Main, startup, Ready
<1>6. CASE TrapInit
  <2>1. StoreWord(trap_skip_insn, "one") /\ pc' = "prompt" /\ on
    BY <1>1, <1>6 DEF TrapInit, trap_init, Placed, Starting
  <2>2. core' = [core EXCEPT ![trap_skip_insn] = "one"] BY <1>1, <1>2, <2>1, StoreKeeps
  <2> QED BY <1>1, <1>2, <2>1, <2>2 DEF L1Type, Ready
<1>7. ASSUME pc \notin Starting \cup {"main"}, ~Load PROVE UNCHANGED image /\ (Set1 => Set1')
  <2>1. RunningStep \/ BesideStep BY <1>7, StepIInv DEF StartingStep
  <2> QED BY <1>1, <1>2, <2>1 DEF RunningStep, BesideStep, LessonStep, L1Type
<1>8. CASE trap_handler
  <2>1. pc = "trap" /\ on BY <1>1, <1>8 DEF trap_handler, Placed, Starting
  <2>2. Set1 BY <2>1 DEF Ready, Starting
  <2>3. Seen(trap_skip_insn) # "zero" BY <2>1, <2>2 DEF Seen
  <2>4. pc' = "run" BY <1>8, <2>3 DEF trap_handler
  <2>5. ~Load BY <2>4 DEF Load, Reset, Reload, ToStart
  <2> QED BY <1>7, <2>1, <2>2, <2>4, <2>5 DEF Ready, Starting
<1>9. CASE Execute \/ TestDone \/ touch_probe \/ CallTarget \/ thead_flush_caches \/ ReadWay
           \/ PrintWay \/ NextSet \/ DumpDone \/ Expect
  <2>1. pc \in {"run", "touch", "call", "ciall", "iall", "invalid", "dump", "tag", "expect"}
        /\ pc' \notin {"halt", "start"}
    BY <1>9 DEF Execute, TestDone, touch_probe, CallTarget, thead_flush_caches, FlushStep,
       ReadWay, Run, PrintWay, NextSet, DumpDone, Expect, IInv, TypeOK
  <2>2. ~Load BY <2>1 DEF Load, Reset, Reload, ToStart
  <2>3. Set1 BY <2>1 DEF Ready, Starting
  <2> QED BY <1>7, <2>1, <2>2, <2>3 DEF Ready, Starting
<1>10. CASE TestKey \/ DumpKey
  <2>1. /\ pc = "prompt" /\ image # "01" /\ pc' \notin {"halt", "start"} /\ UNCHANGED core
    BY <1>10 DEF TestKey, DumpKey, Key, Run, l1
  <2>2. Set1 BY <2>1 DEF Ready, Starting
  <2> QED BY <2>1, <2>2 DEF Ready
<1>11. CASE StackAndText \/ SomeWriteBack \/ UNCHANGED vars
  <2>1. UNCHANGED <<pc, core, image>>
    BY <1>11 DEF StackAndText, SomeWriteBack, WriteBack, LoadLine, FetchLine, vars, startup, l1
  <2> QED BY <2>1 DEF Ready
<1> QED BY <1>3, <1>4, <1>5, <1>6, <1>8, <1>9, <1>10, <1>11 DEF Next, Program, User, Trap

\* Every trap of lessons 03 and 07 ends behind the instruction that trapped: the hart
\* resumes at the start of an instruction, never in the middle of one and never past the
\* end, whatever lengths the compiler chose, and the handler never takes the trap for a
\* fatal one, since trap_skip_insn is set when the first can occur.
THEOREM TrapsResume == Spec => [](AtInsn /\ pc # "halt")
<1>1. Init => AtInsn /\ Ready
  <2>1. Init => Len(code) = 0 /\ mepc = 1 /\ pc = "start" BY DEF Init
  <2> QED BY <2>1 DEF AtInsn, Ready, Starting
<1>2. IInv /\ AtInsn /\ Ready /\ [Next]_vars => (AtInsn /\ Ready)'
  BY AtInsnStep, ReadyStep
<1>3. AtInsn /\ Ready => AtInsn /\ pc # "halt" BY DEF Ready, Starting
<1> QED BY <1>1, <1>2, <1>3, Invariance, PTL DEF Spec

-----------------------------------------------------------------------------
(* How long start.S can take.                                              *)

\* The steps of the start-up code that are left.
StartLeft ==
  CASE pc = "start" -> 2 * DataSize + BssSize + 5
    [] pc = "copy" -> 2 * (DataSize - ptr) + BssSize + 4
    [] pc = "copystore" -> 2 * (DataSize - ptr) + BssSize + 3
    [] pc = "clear" -> (BssSize - ptr) + 3
    [] pc = "mcor" -> 2
    [] pc = "mhcr" -> 1
    [] OTHER -> 0

StartBounded == StartLeft \in 0..(2 * DataSize + BssSize + 5)

\* Each step of it leaves fewer, and between two of them only a load changes how many.
Shorter == (Boot => StartLeft' < StartLeft) /\ (Boot \/ Load \/ StartLeft' = StartLeft)

LEMMA ShorterStep == IInv /\ [Next]_vars => [Shorter]_vars
<1> SUFFICES ASSUME IInv, Next PROVE Shorter
  BY DEF vars
<1>1. DataSize \in Nat /\ BssSize \in Nat /\ ptr \in Nat /\ Bounds
  BY Layout DEF IInv, TypeOK
<1>2. ASSUME Boot PROVE StartLeft' < StartLeft
  <2> USE DEF StartLeft
  <2>1. CASE Start BY <1>1, <2>1 DEF Start
  <2>2. CASE CopyLoad BY <1>1, <2>2 DEF CopyLoad
  <2>3. CASE CopyStore BY <1>1, <2>3 DEF CopyStore, Bounds
  <2>4. CASE CopyDone BY <1>1, <2>4 DEF CopyDone, Bounds
  <2>5. CASE ClearWord BY <1>1, <2>5 DEF ClearWord
  <2>6. CASE ClearDone BY <1>1, <2>6 DEF ClearDone, Bounds
  <2>7. CASE Mcor \/ Mhcr BY <2>7 DEF Mcor, Mhcr
  <2> QED BY <1>2, <2>1, <2>2, <2>3, <2>4, <2>5, <2>6, <2>7 DEF Boot
<1>3. Boot \/ Load \/ StartLeft' = StartLeft
  <2>1. \/ Boot \/ Load \/ UNCHANGED <<pc, ptr>>
        \/ pc \notin Starting /\ pc' \notin Starting
    <3>1. CASE StackAndText \/ SomeWriteBack
      BY <3>1 DEF StackAndText, SomeWriteBack, startup
    <3>2. CASE Trap \/ TestKey \/ DumpKey \/ Program
      <4>1. IInv' /\ (StartingStep \/ RunningStep \/ BesideStep \/ Load) BY StepIInv
      <4>2. CASE StartingStep
        <5>1. pc \in Starting BY <4>2 DEF StartingStep
        <5>2. Boot
          BY <3>2, <5>1 DEF Program, Trap, Execute, TestDone, trap_handler, Main, TrapInit, trap_init,
             touch_probe, CallTarget, thead_flush_caches, FlushStep, ReadWay, PrintWay, NextSet,
             DumpDone, Expect, TestKey, DumpKey, Key, Starting
        <5> QED BY <5>2
      <4>3. CASE RunningStep BY <4>3 DEF RunningStep
      <4>4. CASE BesideStep
        <5>1. CASE pc \notin Starting BY <4>4, <5>1 DEF BesideStep
        <5>2. CASE pc \in Starting
          BY <3>2, <5>2 DEF Program, Trap, Execute, TestDone, trap_handler, Main, TrapInit, trap_init,
             touch_probe, CallTarget, thead_flush_caches, FlushStep, ReadWay, PrintWay, NextSet,
             DumpDone, Expect, TestKey, DumpKey, Key, Starting
        <5> QED BY <5>1, <5>2
      <4> QED BY <4>1, <4>2, <4>3, <4>4
    <3> QED BY <3>1, <3>2 DEF Next, User
  <2>2. CASE UNCHANGED <<pc, ptr>> BY <2>2 DEF StartLeft
  <2>3. CASE pc \notin Starting /\ pc' \notin Starting BY <2>3 DEF StartLeft, Starting
  <2> QED BY <2>1, <2>2, <2>3
<1> QED BY <1>2, <1>3 DEF Shorter

\* start.S reaches main in 2 * DataSize + BssSize + 5 steps at most, whatever the caches
\* hold and write back meanwhile, from a reset and from a reload alike: what KeyAnswered
\* takes of it, beside the fairness that the hart goes on.
THEOREM StartIsBounded == Spec => []StartBounded /\ [][Shorter]_vars
<1>1. IInv => StartBounded
  <2> SUFFICES ASSUME IInv PROVE StartBounded OBVIOUS
  <2>1. DataSize \in Nat /\ BssSize \in Nat /\ ptr \in Nat /\ Bounds
    BY Layout DEF IInv, TypeOK
  <2> USE DEF StartLeft, StartBounded
  <2>2. CASE pc \in {"start", "mcor", "mhcr"} BY <2>1, <2>2
  <2>3. CASE pc \in {"copy", "copystore"} BY <2>1, <2>3 DEF Bounds
  <2>4. CASE pc = "clear" BY <2>1, <2>4 DEF Bounds
  <2>5. CASE pc \notin Starting BY <2>1, <2>5 DEF Starting
  <2> QED BY <2>2, <2>3, <2>4, <2>5 DEF Starting
<1>2. IInv /\ [Next]_vars => [Shorter]_vars
  BY ShorterStep
<1> QED BY <1>1, <1>2, Invariance, PTL DEF Spec

=============================================================================
