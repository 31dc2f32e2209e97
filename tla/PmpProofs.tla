------------------------------ MODULE PmpProofs ------------------------------
(***************************************************************************)
(* Theorems about Pmp: what the registers permit, for every word of the    *)
(* memory, and the shells, for every history of keys, traps and restarts.  *)
(***************************************************************************)
EXTENDS Pmp, WellFoundedInduction, TLAPS

-----------------------------------------------------------------------------
(* Arithmetic. *)

\* The largest and the smallest element of a set of numbers.
LEMMA MaxIs ==
  ASSUME NEW S \in SUBSET Nat, NEW m \in S, \A x \in S : x <= m
  PROVE  Max(S) = m
<1>1. \E x \in S : \A y \in S : x >= y OBVIOUS
<1>2. Max(S) \in S /\ \A y \in S : Max(S) >= y BY <1>1, Zenon DEF Max
<1>3. Max(S) \in Nat /\ m \in Nat BY <1>2
<1> QED BY <1>2, <1>3

LEMMA MinIs ==
  ASSUME NEW S \in SUBSET Nat, NEW m \in S, \A x \in S : m <= x
  PROVE  Min(S) = m
<1>1. \E x \in S : \A y \in S : x <= y OBVIOUS
<1>2. Min(S) \in S /\ \A y \in S : Min(S) <= y BY <1>1, Zenon DEF Min
<1>3. Min(S) \in Nat /\ m \in Nat BY <1>2
<1> QED BY <1>2, <1>3

\* The order of the numbers, as a relation, is well founded: every set of them has
\* a least element.
LEMMA Order ==
  \E R : IsWellFoundedOn(R, Nat) /\ \A x, y \in Nat : <<y, x>> \in R <=> y < x
<1>1. IsWellFoundedOn(OpToRel(<, Nat), Nat) BY NatLessThanWellFounded
<1>2. \A x, y \in Nat : <<y, x>> \in OpToRel(<, Nat) <=> y < x BY DEF OpToRel
<1> QED BY <1>1, <1>2, Zenon

\* So every nonempty set of numbers has a least one.
LEMMA Least ==
  ASSUME NEW T \in SUBSET Nat, T # {}
  PROVE  \E x \in T : \A y \in T : x <= y
<1>1. PICK R : IsWellFoundedOn(R, Nat) /\ \A x, y \in Nat : <<y, x>> \in R <=> y < x
  BY Order, Zenon
<1>2. \E x \in T : \A y \in T : ~(<<y, x>> \in R) BY <1>1, WFMin, Zenon
<1>3. \E x \in T : \A y \in T : ~(y < x) BY <1>1, <1>2, Zenon
<1> QED BY <1>3

\* The powers of two that the decoding of an address meets.
LEMMA Powers ==
  /\ \A j \in 0 .. 29 : 2^(j + 1) = 2 * 2^j
  /\ \A j \in 0 .. 30 : 2^j \in Nat \ {0}
<1>1. ASSUME NEW j \in 0 .. 29 PROVE 2^(j + 1) = 2 * 2^j
  <2>1. j \in {0, 1, 2, 3, 4, 5, 6, 7, 8, 9, 10, 11, 12, 13, 14, 15, 16, 17, 18, 19,
              20, 21, 22, 23, 24, 25, 26, 27, 28, 29}
    OBVIOUS
  <2>2. /\ 2^(0+1) = 2*2^0 /\ 2^(1+1) = 2*2^1 /\ 2^(2+1) = 2*2^2 /\ 2^(3+1) = 2*2^3
        /\ 2^(4+1) = 2*2^4 /\ 2^(5+1) = 2*2^5 /\ 2^(6+1) = 2*2^6 /\ 2^(7+1) = 2*2^7
        /\ 2^(8+1) = 2*2^8 /\ 2^(9+1) = 2*2^9 /\ 2^(10+1) = 2*2^10 /\ 2^(11+1) = 2*2^11
        /\ 2^(12+1) = 2*2^12 /\ 2^(13+1) = 2*2^13 /\ 2^(14+1) = 2*2^14 /\ 2^(15+1) = 2*2^15
        /\ 2^(16+1) = 2*2^16 /\ 2^(17+1) = 2*2^17 /\ 2^(18+1) = 2*2^18 /\ 2^(19+1) = 2*2^19
        /\ 2^(20+1) = 2*2^20 /\ 2^(21+1) = 2*2^21 /\ 2^(22+1) = 2*2^22 /\ 2^(23+1) = 2*2^23
        /\ 2^(24+1) = 2*2^24 /\ 2^(25+1) = 2*2^25 /\ 2^(26+1) = 2*2^26 /\ 2^(27+1) = 2*2^27
        /\ 2^(28+1) = 2*2^28 /\ 2^(29+1) = 2*2^29
    OBVIOUS
  <2> QED BY <2>1, <2>2, Zenon
<1>2. 2^0 = 1 OBVIOUS
<1>3. ASSUME NEW j \in 0 .. 30 PROVE 2^j \in Nat \ {0}
  <2> DEFINE T == {i \in 0 .. 30 : 2^i \notin Nat \ {0}}
  <2> SUFFICES ASSUME T # {} PROVE FALSE OBVIOUS
  <2>1. PICK x \in T : \A y \in T : x <= y
    <3> HIDE DEF T
    <3>1. T \in SUBSET Nat BY DEF T
    <3> QED BY <3>1, Least, Zenon
  <2>2. x # 0
    <3>1. x = 0 => 2^x = 1 BY <1>2, Zenon
    <3>2. 1 \in Nat \ {0} OBVIOUS
    <3> QED BY <3>1, <3>2
  <2>3. x - 1 \in 0 .. 29 /\ (x - 1) + 1 = x BY <2>2
  <2>4. x - 1 \notin T BY <2>1, <2>3
  <2>5. 2^(x-1) \in Nat \ {0} BY <2>3, <2>4
  <2>6. 2^((x - 1) + 1) = 2 * 2^(x - 1) BY <1>1, <2>3
  <2>7. 2^x \in Nat \ {0} BY <2>3, <2>5, <2>6
  <2> QED BY <2>7
<1> QED BY <1>1, <1>3

\* A word lies in the q-th block of 2m words when its quotient says so.
LEMMA Halves ==
  ASSUME NEW m \in Nat \ {0}, NEW q \in Nat, NEW w \in Nat
  PROVE  (w \div m) \div 2 = q <=> w \in q * (2 * m) .. q * (2 * m) + 2 * m - 1
OBVIOUS

\* A multiple of d does not change the remainder.
LEMMA Remainder ==
  ASSUME NEW d \in Nat \ {0}, NEW e \in Nat, NEW r \in 0 .. d - 1
  PROVE  (d * e + r) % d = r
OBVIOUS

\* The low bits: 2m - 1 ends in the ones of m - 1 for a power m of two, and the
\* address of a block of 2m words ends in exactly those.
LEMMA LowOnes ==
  ASSUME NEW m \in Nat \ {0}, NEW a \in Nat, a % (2 * m) = 2 * m - 1
  PROVE  a % m = m - 1
<1> DEFINE d == a \div (2 * m)
<1>1. d \in Nat /\ a = (2 * m) * d + (2 * m - 1) OBVIOUS
<1>2. PICK e \in Nat : e = 2 * d + 1 BY <1>1
<1>3. m * e = m * (2 * d) + m BY <1>1, <1>2
<1>4. a = m * e + (m - 1) /\ m - 1 \in 0 .. m - 1 BY <1>1, <1>3
<1> HIDE DEF d
<1> QED BY <1>4, <1>2, Remainder

\* An address whose low bits are a zero and then ones: what Match computes of it.
LEMMA Middle ==
  ASSUME NEW m \in Nat \ {0}, NEW q \in Nat, NEW a \in Nat, a = q * (2 * m) + (m - 1)
  PROVE  a % m = m - 1 /\ a % (2 * m) = m - 1 /\ (a \div m) \div 2 = q
<1>1. a = m * (2 * q) + (m - 1) /\ a = (2 * m) * q + (m - 1) OBVIOUS
<1>2. 2 * q \in Nat /\ 2 * m \in Nat \ {0} /\ m - 1 \in 0 .. m - 1 /\ m - 1 \in 0 .. (2 * m) - 1
  OBVIOUS
<1>3. a % m = m - 1 BY <1>1, <1>2, Remainder
<1>4. a % (2 * m) = m - 1 BY <1>1, <1>2, Remainder
<1> QED BY <1>3, <1>4, Halves

-----------------------------------------------------------------------------
(* The encoding and the decoding of an address. *)

\* The address that pmpaddr_napot computes for an aligned region, as large as a
\* power of two, matches the words of the region and no others.
THEOREM NapotIsRegion ==
  ASSUME NEW k \in 0 .. 29, NEW q \in Nat, NEW w \in Nat
  PROVE  Match(Napot(q * 2^(k + 1), 2^(k + 1)), w)
           <=> w \in q * 2^(k + 1) .. q * 2^(k + 1) + 2^(k + 1) - 1
<1> DEFINE S(b) == {j \in 0 .. 30 : b % 2^j = 2^j - 1}
           m == 2^k
<1>1. m \in Nat \ {0}
  <2>1. k \in 0 .. 30 OBVIOUS
  <2> QED BY <2>1, Powers, Zenon
<1>2. 2^(k + 1) = 2 * m BY Powers, Zenon
<1> HIDE DEF m
<1>3. PICK a \in Nat : a = q * (2 * m) + (m - 1) BY <1>1
<1>4. Napot(q * 2^(k + 1), 2^(k + 1)) = a
  <2>1. (2 * m) \div 2 = m BY <1>1
  <2>2. Napot(q * (2 * m), 2 * m) = a BY <1>3, <2>1 DEF Napot
  <2> QED BY <1>2, <2>2
<1>5. a % m = m - 1 /\ a % (2 * m) = m - 1 /\ (a \div m) \div 2 = q
  BY <1>1, <1>3, Middle
<1>6. k \in S(a) BY <1>5 DEF m
<1>7. k + 1 \notin S(a)
  <2>1. m - 1 # 2 * m - 1 BY <1>1
  <2>2. a % 2^(k + 1) # 2^(k + 1) - 1 BY <2>1, <1>2, <1>5
  <2> QED BY <2>2
<1>8. ASSUME NEW j \in 0 .. 29, j + 1 \in S(a) PROVE j \in S(a)
  <2> DEFINE n == 2^j
  <2>1. n \in Nat \ {0}
    <3>1. j \in 0 .. 30 OBVIOUS
    <3> QED BY <3>1, Powers, Zenon
  <2>2. 2^(j + 1) = 2 * n BY Powers, Zenon
  <2>3. a % (2 * n) = 2 * n - 1
    <3>1. a % 2^(j + 1) = 2^(j + 1) - 1 BY <1>8
    <3> QED BY <3>1, <2>2
  <2> HIDE DEF n
  <2>4. a % n = n - 1 BY <2>1, <2>3, LowOnes
  <2>5. a % 2^j = 2^j - 1 BY <2>4 DEF n
  <2> QED BY <2>5
<1>9. \A j \in S(a) : j <= k
  <2> DEFINE T == {j \in S(a) : k < j}
  <2> SUFFICES ASSUME T # {} PROVE FALSE OBVIOUS
  <2>1. PICK x \in T : \A y \in T : x <= y
    <3> HIDE DEF T
    <3>1. T \in SUBSET Nat BY DEF T
    <3> QED BY <3>1, Least, Zenon
  <2> HIDE DEF S
  <2>2. x \in S(a) /\ k < x /\ x \in 0 .. 30 BY DEF S
  <2>3. x # k + 1 BY <2>2, <1>7
  <2>4. x - 1 \in 0 .. 29 /\ (x - 1) + 1 = x /\ k < x - 1 BY <2>2, <2>3
  <2>5. x - 1 \in S(a) BY <1>8, <2>2, <2>4
  <2> QED BY <2>1, <2>4, <2>5
<1>10. TrailingOnes(a) = k
  <2>1. TrailingOnes(a) = Max(S(a)) BY DEF TrailingOnes
  <2>2. S(a) \in SUBSET Nat OBVIOUS
  <2> HIDE DEF S
  <2> QED BY <2>1, <2>2, <1>6, <1>9, MaxIs
<1>11. Match(a, w) <=> (a \div m) \div 2 = (w \div m) \div 2 BY <1>10 DEF Match, m
<1>12. (w \div m) \div 2 = q <=> w \in q * (2 * m) .. q * (2 * m) + 2 * m - 1
  BY <1>1, Halves
<1> QED BY <1>2, <1>4, <1>5, <1>11, <1>12

-----------------------------------------------------------------------------
(* What the tables permit. *)

\* Every physical word; the region, the image with all of its data, the UART.
Word == 0 .. 2^31 - 1
SecretWords == RamBase .. RamBase + PMP_SECRET_SIZE - 1
ImageWords  == LOAD_BASE .. LOAD_BASE + PMP_SRAM_SIZE - 1
UartWords   == UART0_BASE .. UART0_BASE + PMP_UART_SIZE - 1

\* What S and U may do: everything while PMP is off; while it is on, nothing in
\* the region, all in the rest of the image, and reads and writes of the UART.
Permitted(table, access, w) ==
  \/ table = "off"
  \/ /\ w \notin SecretWords
     /\ w \in ImageWords \/ (w \in UartWords /\ access # "x")

\* Each of the three addresses of pmp_enable stands for its region.
LEMMA Regions ==
  ASSUME NEW w \in Nat
  PROVE  /\ Match(Addr("on")[0], w) <=> w \in SecretWords
         /\ Match(Addr("on")[1], w) <=> w \in ImageWords
         /\ Match(Addr("on")[2], w) <=> w \in UartWords
<1>1. Match(Addr("on")[0], w) <=> w \in SecretWords
  <2>1. PICK q \in Nat : RamBase = q * 2^(9 + 1) /\ PMP_SECRET_SIZE = 2^(9 + 1)
    BY LoadAssumption DEF RamBase, PMP_SECRET_SIZE, KWords
  <2>2. Addr("on")[0] = Napot(RamBase, PMP_SECRET_SIZE) BY DEF Addr, Entry
  <2>3. 9 \in 0 .. 29 OBVIOUS
  <2> QED BY <2>1, <2>2, <2>3, NapotIsRegion, Zenon DEF SecretWords
<1>2. Match(Addr("on")[1], w) <=> w \in ImageWords
  <2>1. PICK q \in Nat : LOAD_BASE = q * 2^(15 + 1) /\ PMP_SRAM_SIZE = 2^(15 + 1)
    BY LoadAssumption DEF LOAD_BASE, PMP_SRAM_SIZE, KWords
  <2>2. Addr("on")[1] = Napot(LOAD_BASE, PMP_SRAM_SIZE) BY DEF Addr, Entry
  <2>3. 15 \in 0 .. 29 OBVIOUS
  <2> QED BY <2>1, <2>2, <2>3, NapotIsRegion, Zenon DEF ImageWords
<1>3. Match(Addr("on")[2], w) <=> w \in UartWords
  <2>1. PICK q \in Nat : UART0_BASE = q * 2^(13 + 1) /\ PMP_UART_SIZE = 2^(13 + 1)
    BY DEF UART0_BASE, PMP_UART_SIZE, KWords
  <2>2. Addr("on")[2] = Napot(UART0_BASE, PMP_UART_SIZE) BY DEF Addr, Entry
  <2>3. 13 \in 0 .. 29 OBVIOUS
  <2> QED BY <2>1, <2>2, <2>3, NapotIsRegion, Zenon DEF UartWords
<1> QED BY <1>1, <1>2, <1>3

\* The address of pmp_clear, all ones, stands for every word.
LEMMA Everything == \A w \in Word : Match(AllOnes, w)
<1>1. TrailingOnes(AllOnes) = 30
  <2> DEFINE S == {j \in 0 .. 30 : AllOnes % 2^j = 2^j - 1}
  <2>1. 30 \in S BY DEF AllOnes
  <2>2. S \in SUBSET Nat /\ \A j \in S : j <= 30 OBVIOUS
  <2>3. TrailingOnes(AllOnes) = Max(S) BY DEF TrailingOnes
  <2> HIDE DEF S
  <2> QED BY <2>1, <2>2, <2>3, MaxIs
<1>2. SUFFICES ASSUME NEW w \in Word
               PROVE  (AllOnes \div 2^30) \div 2 = (w \div 2^30) \div 2
  BY <1>1 DEF Match
<1> QED BY DEF Word, AllOnes

\* The registers hold a table, whole.
Written(table) == cfg = Cfg(table) /\ addr = Addr(table)

\* Below M the hart permits what the table says, word by word.
LEMMA OnPermits ==
  ASSUME Written("on"), NEW p \in {"S", "U"}, NEW access \in {"r", "w", "x"},
         NEW w \in Word
  PROVE  Allowed(p, access, w) <=> Permitted("on", access, w)
<1> DEFINE hits == {e \in Entry : cfg[e].on /\ Match(addr[e], w)}
<1>1. w \in Nat BY DEF Word
<1>2. \A e \in Entry : cfg[e].on BY DEF Written, Cfg
<1>3. /\ 0 \in hits <=> w \in SecretWords
      /\ 1 \in hits <=> w \in ImageWords
      /\ 2 \in hits <=> w \in UartWords
  <2>1. addr = Addr("on") /\ 0 \in Entry /\ 1 \in Entry /\ 2 \in Entry
    BY DEF Written, Entry
  <2> QED BY <1>1, <1>2, <2>1, Regions, Zenon
<1>4. hits \in SUBSET Nat /\ hits \subseteq {0, 1, 2} BY DEF Entry
<1>5. /\ cfg[0].perm = {} /\ cfg[1].perm = {"r", "w", "x"} /\ cfg[2].perm = {"r", "w"}
  BY DEF Written, Cfg, Entry
<1>6. Allowed(p, access, w) <=> hits # {} /\ access \in cfg[Min(hits)].perm
  BY DEF Allowed
<1>7. Permitted("on", access, w) <=>
        w \notin SecretWords /\ (w \in ImageWords \/ (w \in UartWords /\ access # "x"))
  BY DEF Permitted
<1> HIDE DEF hits
<1>8. CASE 0 \in hits
  <2>1. Min(hits) = 0 BY <1>4, <1>8, MinIs
  <2> QED BY <2>1, <1>3, <1>5, <1>6, <1>7, <1>8
<1>9. CASE 0 \notin hits /\ 1 \in hits
  <2>1. \A e \in hits : 1 <= e BY <1>4, <1>9
  <2>2. Min(hits) = 1 BY <1>4, <1>9, MinIs
  <2> QED BY <2>2, <1>3, <1>5, <1>6, <1>7, <1>9
<1>10. CASE 0 \notin hits /\ 1 \notin hits /\ 2 \in hits
  <2>1. \A e \in hits : 2 <= e BY <1>4, <1>10
  <2>2. Min(hits) = 2 BY <1>4, <1>10, MinIs
  <2> QED BY <2>2, <1>3, <1>5, <1>6, <1>7, <1>10
<1>11. CASE hits = {} BY <1>11, <1>3, <1>6, <1>7
<1> QED BY <1>4, <1>8, <1>9, <1>10, <1>11

\* While PMP is off nobody is denied anything.
LEMMA OffPermits ==
  ASSUME Written("off"), NEW p \in {"S", "U"}, NEW access \in {"r", "w", "x"},
         NEW w \in Word
  PROVE  Allowed(p, access, w)
<1> DEFINE hits == {e \in Entry : cfg[e].on /\ Match(addr[e], w)}
<1>1. hits = {0}
  <2>1. cfg[0].on /\ ~cfg[1].on /\ ~cfg[2].on BY DEF Written, Cfg, AllOff, Entry
  <2>2. Match(addr[0], w)
    <3>1. addr[0] = AllOnes BY DEF Written, Addr, Entry
    <3> QED BY <3>1, Everything, Zenon
  <2>3. Entry = {0, 1, 2} BY DEF Entry
  <2> QED BY <2>1, <2>2, <2>3, Zenon
<1>2. Min(hits) = 0
  <2> HIDE DEF hits
  <2> QED BY <1>1, MinIs
<1>3. cfg[0].perm = {"r", "w", "x"} BY DEF Written, Cfg, AllOff, Entry
<1> QED BY <1>1, <1>2, <1>3 DEF Allowed

\* Both tables at once.
LEMMA TablePermits ==
  ASSUME NEW table \in {"on", "off"}, Written(table), NEW p \in {"S", "U"},
         NEW access \in {"r", "w", "x"}, NEW w \in Word
  PROVE  Allowed(p, access, w) <=> Permitted(table, access, w)
<1>1. CASE table = "on" BY <1>1, OnPermits
<1>2. CASE table = "off" BY <1>2, OffPermits DEF Permitted
<1> QED BY <1>1, <1>2

-----------------------------------------------------------------------------
(* The inductive invariant. *)

\* The writes done so far: the old table is off before an address changes, and
\* the addresses are in place before the new table counts.
Writing ==
  /\ job.i \in 1 .. 5
  /\ job.i > 1 => cfg = AllOff
  /\ \A e \in Entry : job.i > e + 2 => addr[e] = Addr(job.table)[e]

\* Who runs at a shell: the level of the hart is the one the program believes.
AtLevel == priv = mode /\ shell = mode /\ asked = mode

\* The level at each step; "lost" is never reached.
Placed ==
  /\ pc # "lost"
  /\ pc \in {"start", "setup", "force", "boot"} => asked = "M"
  /\ pc = "boot" => priv = "M" /\ mode = "M"
  /\ pc \in {"pmp", "pmpend"} => AtLevel /\ mode = "M"
  /\ pc = "shell" => priv = shell /\ asked = shell
  /\ pc \in {"prompt", "access", "after", "report"} => AtLevel
  /\ pc = "enter" => priv = "M" /\ shell # "M" /\ asked = shell

\* trap_expect is set exactly around the writes of a table and the access under
\* test.
Expecting ==
  /\ pc \in {"setup", "force", "boot", "shell", "prompt", "report", "enter"} => ~expect
  /\ pc \in {"pmp", "pmpend", "access", "after"} => expect
  /\ pc \in {"pmp", "pmpend", "access"} => ~seen.saw

\* The four traps there are: a skipped CSR access of the start, the request for M
\* after it, the access under test and the request of a shell.
InHandler ==
  /\ priv = "M"
  /\ \/ /\ trap.next = "force" /\ ~expect /\ asked = "M"
        /\ trap.req = "none" /\ trap.cause = 2
     \/ /\ trap.next = "boot" /\ ~expect /\ asked = "M"
        /\ trap.req = "enter_m" /\ trap.cause \in {8, 9, 11}
     \/ /\ trap.next = "after" /\ expect /\ test.trap /\ ExpectRegionTrap
        /\ trap.mpp = mode /\ shell = mode /\ asked = mode
        /\ trap.cause = IF test.access = "r" THEN 5 ELSE 7
        /\ Written(policy)
     \/ /\ trap.next = "prompt" /\ ~expect /\ asked = trap.req
        /\ trap.req \in Level /\ trap.cause \in {8, 9, 11}
        /\ Written(policy)

\* The registers at each step: whole tables while S or U may run, and the one of
\* the policy from the boot on.
Registers ==
  /\ priv # "M" => \E table \in {"on", "off"} : Written(table)
  /\ pc = "pmp" => Writing
  /\ pc = "pmpend" => Written(job.table)
  /\ pc \in {"shell", "prompt", "access", "after", "report", "enter"} => Written(policy)
  /\ pc = "handler" =>
       /\ InHandler
       /\ trap.mpp # "M" => \E table \in {"on", "off"} : Written(table)

\* What a test has seen so far agrees with what it expects.
Judged ==
  /\ pc \in {"access", "after", "report"} => test.trap = ExpectRegionTrap
  /\ pc \in {"after", "report"} =>
       /\ seen.saw = test.trap
       /\ seen.saw => seen.cause = IF test.access = "r" THEN 5 ELSE 7

IInv == TypeOK /\ Placed /\ Expecting /\ Registers /\ Judged

\* The reset.
LEMMA InitIInv == Init => IInv
<1> SUFFICES ASSUME Init PROVE IInv OBVIOUS
<1> USE DEF Init
<1>1. TypeOK BY DEF TypeOK, Level, AllOff
<1>2. Placed /\ Expecting /\ Registers /\ Judged
  BY DEF Placed, Expecting, Registers, Judged
<1> QED BY <1>1, <1>2 DEF IInv

\* The table that is written has the types of the registers.
LEMMA TableTypes ==
  ASSUME NEW table \in {"on", "off"}
  PROVE  /\ Cfg(table) \in [Entry -> [on : BOOLEAN, perm : SUBSET {"r", "w", "x"}]]
         /\ AllOff \in [Entry -> [on : BOOLEAN, perm : SUBSET {"r", "w", "x"}]]
         /\ Addr(table) \in [Entry -> Nat]
<1>1. AllOff \in [Entry -> [on : BOOLEAN, perm : SUBSET {"r", "w", "x"}]] BY DEF AllOff
<1>2. Cfg(table) \in [Entry -> [on : BOOLEAN, perm : SUBSET {"r", "w", "x"}]]
  <2>1. CASE table = "on"
    <3>1. Cfg("on") \in [Entry -> [on : BOOLEAN, perm : SUBSET {"r", "w", "x"}]]
      BY SMT DEF Cfg, Entry
    <3> QED BY <2>1, <3>1
  <2>2. CASE table = "off" BY <1>1, SMT DEF Cfg, Entry
  <2> QED BY <2>1, <2>2
<1>3. Addr(table) \in [Entry -> Nat]
  <2>1. /\ Napot(RamBase, PMP_SECRET_SIZE) \in Nat
        /\ Napot(LOAD_BASE, PMP_SRAM_SIZE) \in Nat
        /\ Napot(UART0_BASE, PMP_UART_SIZE) \in Nat
    BY SMT DEF Napot, RamBase, LOAD_BASE, UART0_BASE, PMP_SECRET_SIZE, PMP_SRAM_SIZE,
               PMP_UART_SIZE, KWords
  <2>2. AllOnes \in Nat BY SMT DEF AllOnes
  <2> QED
    <3>1. CASE table = "on"
      <4>1. Addr("on") \in [Entry -> Nat] BY <2>1, SMT DEF Addr, Entry
      <4> QED BY <3>1, <4>1
    <3>2. CASE table = "off" BY <2>2, <3>2, SMT DEF Addr
    <3> QED BY <3>1, <3>2
<1> QED BY <1>1, <1>2, <1>3

\* The memory map in numbers, word by word.
LEMMA Map ==
  ASSUME NEW w \in Nat
  PROVE  /\ w \in SecretWords <=> RamBase <= w /\ w <= RamBase + 1023
         /\ w \in ImageWords <=> LOAD_BASE <= w /\ w <= LOAD_BASE + 65535
         /\ w \in UartWords <=> \h24500000 <= w /\ w <= \h24503fff
         /\ w \in Word <=> w <= \h7fffffff
<1>1. RamBase \in Nat /\ LOAD_BASE \in Nat BY SMT DEF RamBase, LOAD_BASE
<1>2. PMP_SECRET_SIZE = 1024 /\ PMP_SRAM_SIZE = 65536 /\ PMP_UART_SIZE = 16384
  BY SMT DEF PMP_SECRET_SIZE, PMP_SRAM_SIZE, PMP_UART_SIZE, KWords
<1>3. w \in SecretWords <=> RamBase <= w /\ w <= RamBase + 1023
  BY <1>2, SMT DEF SecretWords
<1>4. w \in ImageWords <=> LOAD_BASE <= w /\ w <= LOAD_BASE + 65535
  BY <1>2, SMT DEF ImageWords
<1>5. w \in UartWords <=> \h24500000 <= w /\ w <= \h24503fff
  BY <1>2, SMT DEF UartWords, UART0_BASE
<1>6. w \in Word <=> w <= \h7fffffff BY SMT DEF Word
<1> QED BY <1>3, <1>4, <1>5, <1>6, SMT

\* Where the image may be linked.
LEMMA Bases ==
  \/ RamBase = \h20088000 /\ LOAD_BASE = \h20080000
  \/ RamBase = \h14080000 /\ LOAD_BASE = \h14000000
BY SMT DEF RamBase, LOAD_BASE

\* The words the properties look at, among the regions.
LEMMA SecretInRegion ==
  RamBase \in Secret /\ \A w \in Secret : w \in Word /\ w \in SecretWords
<1>1. Secret = {RamBase, RamBase + 1023}
  BY SMT DEF Secret, PMP_SECRET_SIZE, KWords
<1>2. \A w \in Secret : w \in Nat /\ RamBase <= w /\ w <= RamBase + 1023 /\ w <= \h7fffffff
  BY <1>1, Bases, SMT
<1> QED BY <1>1, <1>2, Map, SMT

\* The words just outside the windows are outside all of the regions.
LEMMA OtherOutside ==
  \A w \in Other : w \in Word /\ w \notin SecretWords /\ w \notin ImageWords
                   /\ w \notin UartWords
<1>1. Other = {\h24442000, \h244fffff, \h24504000}
  BY SMT DEF Other, UART0_BASE, PMP_UART_SIZE, KWords
<1> QED BY <1>1, Map, Bases, SMT

\* The UART is no part of the region.
LEMMA UartApart == \A w \in Word : w \in UartWords => w \notin SecretWords
<1>1. \A w \in Word : w \in Nat BY SMT DEF Word
<1> QED BY <1>1, Map, Bases, SMT

\* Linked to SRAM, the image with its data is in its window.
LEMMA InSram ==
  ASSUME Load = "sram"
  PROVE  /\ \A w \in Code \cup Ram : w \in Word /\ w \in ImageWords \ SecretWords
         /\ \A w \in Uart : w \in Word /\ w \in UartWords
<1>1. RamBase = \h20088000 /\ LOAD_BASE = \h20080000 BY SMT DEF RamBase, LOAD_BASE
<1>2. Code = {\h20080000, \h20087fff} /\ Ram = {\h20088400, \h2008ffff}
  BY <1>1, SMT DEF Code, Ram, PMP_SECRET_SIZE, KWords
<1>3. Uart = {\h24500000, \h24500005} BY SMT DEF Uart, UART0_BASE
<1> QED BY <1>1, <1>2, <1>3, Map, SMT

\* M, or anyone while PMP is off: nobody else has access to the region.
LEMMA RegionTells ==
  ASSUME policy \in {"on", "off"}, priv \in Level, Written(policy),
         NEW access \in {"r", "w"}
  PROVE  (\A w \in Secret : Allowed(priv, access, w)) <=> priv = "M" \/ policy = "off"
<1>1. CASE priv = "M" BY <1>1 DEF Allowed
<1>2. CASE priv # "M"
  <2>1. RamBase \in Secret /\ \A w \in Secret : w \in Word /\ w \in SecretWords
    BY SecretInRegion
  <2>2. \A w \in Secret : Allowed(priv, access, w) <=> Permitted(policy, access, w)
    BY <1>2, <2>1, TablePermits DEF Level
  <2>3. \A w \in Secret : Permitted(policy, access, w) <=> policy = "off"
    BY <2>1 DEF Permitted
  <2> QED BY <1>2, <2>1, <2>2, <2>3
<1> QED BY <1>1, <1>2

\* The causes of the three ecalls.
LEMMA Causes == \A l \in Level : EcallCause[l] \in {8, 9, 11}
BY DEF Level, EcallCause

\* What a trap and the start of a sequence of writes leave behind.
Traps == [cause : {0, 2, 5, 7, 8, 9, 11}, mpp : Level,
          req : Level \cup {"none", "enter_m"},
          next : {"force", "boot", "pmp", "pmpend", "prompt", "after"}]
Jobs  == [table : {"on", "off"}, i : 1 .. 6, next : {"shell", "prompt"}]
Sights == [saw : BOOLEAN, cause : {0, 2, 5, 7, 8, 9, 11}]

\* A trap that is taken.
LEMMA Taken ==
  ASSUME NEW cause \in {2, 5, 7, 8, 9, 11}, NEW req \in Level \cup {"none", "enter_m"},
         NEW next \in {"force", "boot", "pmp", "pmpend", "prompt", "after"},
         priv \in Level, TakeTrap(cause, req, next)
  PROVE  /\ trap' \in Traps
         /\ trap'.cause = cause /\ trap'.mpp = priv /\ trap'.req = req /\ trap'.next = next
         /\ priv' = "M" /\ pc' = "handler"
BY DEF TakeTrap, Traps

\* A sequence of writes that begins.
LEMMA Begun ==
  ASSUME NEW table \in {"on", "off"}, NEW next \in {"shell", "prompt"}, seen \in Sights,
         Begin(table, next)
  PROVE  /\ job' \in Jobs /\ job'.table = table /\ job'.i = 1 /\ job'.next = next
         /\ seen' \in Sights /\ ~seen'.saw
         /\ expect' = TRUE /\ pc' = "pmp"
<1>1. seen' = [seen EXCEPT !.saw = FALSE] BY DEF Begin
<1>2. seen' \in Sights /\ ~seen'.saw BY <1>1 DEF Sights
<1>3. job' = [table |-> table, i |-> 1, next |-> next] /\ expect' = TRUE /\ pc' = "pmp"
  BY DEF Begin
<1>4. job' \in Jobs BY <1>3 DEF Jobs
<1> QED BY <1>2, <1>3, <1>4

\* The start of the program: from any level to M, the registers as they were.
LEMMA BootIInv ==
  ASSUME IInv, Start \/ Setup \/ ForceM \/ Boot \/ \E reset \in BOOLEAN : Reload(reset)
  PROVE  IInv'
<1> USE DEF IInv
<1>1. CASE Start
  <2> USE <1>1 DEF Start
  <2>1. TypeOK'
    <3>1. seen' \in [saw : BOOLEAN, cause : {0, 2, 5, 7, 8, 9, 11}]
      <4>1. seen.cause \in {0, 2, 5, 7, 8, 9, 11} BY DEF TypeOK
      <4>2. PICK cause \in {0, seen.cause} : seen' = [saw |-> FALSE, cause |-> cause]
        OBVIOUS
      <4> QED BY <4>1, <4>2
    <3>2. mode' \in Level BY DEF Level
    <3>3. expect' \in BOOLEAN OBVIOUS
    <3>4. policy' \in {"on", "off"} /\ pc' = "setup"
          /\ UNCHANGED <<priv, shell, test, job, trap, cfg, addr, asked>>
      OBVIOUS
    <3> HIDE <1>1
    <3> QED BY <3>1, <3>2, <3>3, <3>4 DEF TypeOK
  <2>2. Placed' BY DEF Placed
  <2>3. Expecting' BY DEF Expecting
  <2>4. Registers'
    BY DEF Registers, Written
  <2>5. Judged'
    BY DEF Judged
  <2> QED BY <2>1, <2>2, <2>3, <2>4, <2>5
<1>2. CASE Setup
  <2>1. /\ pc = "setup"
        /\ UNCHANGED <<mode, policy, shell, test, job, expect, seen, cfg, addr, asked>>
        /\ \/ priv = "M" /\ pc' = "force" /\ UNCHANGED <<priv, trap>>
           \/ priv # "M" /\ TakeTrap(2, "none", "force")
    BY <1>2 DEF Setup
  <2>2. \/ priv = "M" /\ pc' = "force" /\ UNCHANGED <<priv, trap>>
        \/ /\ trap' \in Traps
           /\ trap'.cause = 2 /\ trap'.mpp = priv
           /\ trap'.req = "none" /\ trap'.next = "force"
           /\ priv' = "M" /\ pc' = "handler"
    BY <2>1, Taken DEF TypeOK
  <2>3. TypeOK' BY <2>1, <2>2 DEF TypeOK, Traps, Level
  <2>4. Placed' BY <2>1, <2>2 DEF Placed
  <2>5. Expecting' BY <2>1, <2>2 DEF Expecting
  <2>6. Registers'
    BY <2>1, <2>2 DEF Placed, Expecting, Registers, InHandler, Written
  <2>7. Judged'
    BY <2>2 DEF Judged
  <2> QED BY <2>3, <2>4, <2>5, <2>6, <2>7
<1>3. CASE ForceM
  <2>1. pc = "force" /\ TakeTrap(EcallCause[priv], "enter_m", "boot")
        /\ UNCHANGED <<mode, policy, shell, test, job, expect, seen, cfg, addr, asked>>
    BY <1>3, Zenon DEF ForceM
  <2>2. /\ trap' \in Traps
        /\ trap'.cause = EcallCause[priv] /\ trap'.mpp = priv
        /\ trap'.req = "enter_m" /\ trap'.next = "boot"
        /\ priv' = "M" /\ pc' = "handler" /\ EcallCause[priv] \in {8, 9, 11}
    BY <2>1, Causes, Taken DEF TypeOK
  <2>3. TypeOK' BY <2>1, <2>2 DEF TypeOK, Traps, Level
  <2>4. Placed' BY <2>2 DEF Placed
  <2>5. Expecting' BY <2>2 DEF Expecting
  <2>6. Registers'
    BY <2>1, <2>2 DEF Placed, Expecting, Registers, InHandler, Written
  <2>7. Judged'
    BY <2>2 DEF Judged
  <2> QED BY <2>3, <2>4, <2>5, <2>6, <2>7
<1>4. CASE Boot
  <2>1. /\ pc = "boot" /\ shell' = "M" /\ Begin("on", "shell")
        /\ UNCHANGED <<priv, mode, policy, test, trap, cfg, addr, asked>>
    BY <1>4 DEF Boot
  <2>2. seen \in Sights BY DEF TypeOK, Sights
  <2>3. /\ job' \in Jobs /\ job'.table = "on" /\ job'.i = 1 /\ job'.next = "shell"
        /\ seen' \in Sights /\ ~seen'.saw
        /\ expect' = TRUE /\ pc' = "pmp"
    BY <2>1, <2>2, Begun
  <2>4. TypeOK' BY <2>1, <2>3 DEF TypeOK, Jobs, Sights, Level
  <2>5. Placed'
    BY <2>1, <2>3 DEF Placed, AtLevel
  <2>6. Expecting' BY <2>3 DEF Expecting
  <2>7. Registers' BY <2>1, <2>3 DEF Registers, Placed, Writing, Entry
  <2>8. Judged'
    BY <2>3 DEF Judged
  <2> QED BY <2>4, <2>5, <2>6, <2>7, <2>8
<1>5. ASSUME NEW reset \in BOOLEAN, Reload(reset) PROVE IInv'
  <2> USE <1>5 DEF Reload
  <2>1. TypeOK'
    <3>1. /\ priv' \in Level
          /\ cfg' \in [Entry -> [on : BOOLEAN, perm : SUBSET {"r", "w", "x"}]]
      BY TableTypes DEF TypeOK, Level
    <3>2. pc' = "start" /\ asked' = "M" OBVIOUS
    <3>3. UNCHANGED <<mode, policy, shell, test, job, expect, seen, trap, addr>> OBVIOUS
    <3> HIDE <1>5
    <3> QED BY <3>1, <3>2, <3>3 DEF TypeOK, Level
  <2>2. Placed' BY DEF Placed
  <2>3. Expecting' BY DEF Expecting
  <2>4. Registers'
    BY DEF Registers, Written
  <2>5. Judged'
    BY DEF Judged
  <2> QED BY <2>1, <2>2, <2>3, <2>4, <2>5
<1> QED BY <1>1, <1>2, <1>3, <1>4, <1>5

\* Writing a table.
LEMMA WriteIInv ==
  ASSUME IInv, PmpWrite \/ PmpEnd \/ \E table \in {"on", "off"} : Write(table)
  PROVE  IInv'
<1> USE DEF IInv
<1>1. CASE PmpWrite
  <2>1. priv = "M" /\ pc = "pmp" /\ AtLevel /\ Writing
    BY <1>1 DEF PmpWrite, Placed, Registers, AtLevel
  <2>2. /\ job' = [job EXCEPT !.i = @ + 1]
        /\ cfg' = CASE job.i = 1 -> AllOff
                    [] job.i = 5 -> Cfg(job.table)
                    [] OTHER     -> cfg
        /\ addr' = [e \in Entry |-> IF job.i = e + 2 THEN Addr(job.table)[e]
                                                     ELSE addr[e]]
        /\ pc' = IF job.i = 5 THEN "pmpend" ELSE "pmp"
        /\ UNCHANGED <<priv, trap>>
        /\ UNCHANGED <<mode, policy, shell, test, expect, seen, asked>>
    BY <1>1, <2>1 DEF PmpWrite
  <2>3. job \in Jobs /\ job.i \in 1 .. 5 BY <2>1 DEF TypeOK, Jobs, Writing
  <2>4. job' \in Jobs /\ job'.i = job.i + 1 /\ job'.table = job.table /\ job'.next = job.next
    BY <2>2, <2>3 DEF Jobs
  <2>5. job.table \in {"on", "off"} BY <2>3 DEF Jobs
  <2>6. TypeOK'
    <3>1. cfg' \in [Entry -> [on : BOOLEAN, perm : SUBSET {"r", "w", "x"}]]
      <4>1. cfg' \in {AllOff, Cfg(job.table), cfg} BY <2>2
      <4> QED BY <4>1, TableTypes DEF TypeOK
    <3>2. addr' \in [Entry -> Nat]
      <4>1. Addr(job.table) \in [Entry -> Nat] /\ addr \in [Entry -> Nat]
        BY TableTypes DEF TypeOK
      <4> QED BY <4>1, <2>2
    <3>3. pc' \in {"pmp", "pmpend"} BY <2>2
    <3> QED BY <2>2, <2>4, <3>1, <3>2 DEF TypeOK, Jobs
  <2>7. pc' = "pmp" => Writing'
    <3> SUFFICES ASSUME pc' = "pmp" PROVE Writing' OBVIOUS
    <3>1. job.i \in 1 .. 4 /\ job'.i \in 2 .. 5 BY <2>2, <2>3
    <3>2. cfg' = AllOff
      <4>1. job.i > 1 => cfg = AllOff BY <2>1 DEF Writing
      <4> QED BY <4>1, <3>1, <2>2
    <3>3. ASSUME NEW e \in Entry, job'.i > e + 2 PROVE addr'[e] = Addr(job'.table)[e]
      <4>1. job.i > e + 2 => addr[e] = Addr(job.table)[e] BY <2>1 DEF Writing
      <4>2. job.i = e + 2 \/ job.i > e + 2 BY <3>1, <3>3, <2>4 DEF Entry
      <4> QED BY <4>1, <4>2, <2>2
    <3> QED BY <3>1, <3>2, <3>3 DEF Writing
  <2>8. pc' = "pmpend" => Written(job.table)' /\ job'.i = 6
    <3> SUFFICES ASSUME pc' = "pmpend" PROVE Written(job.table)' /\ job'.i = 6 OBVIOUS
    <3>1. job.i = 5 BY <2>2
    <3>2. cfg' = Cfg(job.table) BY <2>2
    <3>3. \A e \in Entry : addr'[e] = Addr(job.table)[e]
      BY <2>1, <2>2 DEF Writing, Entry
    <3>4. addr' = [e \in Entry |-> addr'[e]] BY <2>2
    <3>5. Addr(job.table) = [e \in Entry |-> Addr(job.table)[e]] BY <2>5, TableTypes
    <3>6. addr' = Addr(job.table) BY <3>3, <3>4, <3>5
    <3> QED BY <3>1, <3>2, <3>6, <2>4 DEF Written
  <2>9. pc' \in {"pmp", "pmpend"} /\ UNCHANGED <<priv, mode, policy, shell, expect, seen, asked>>
    BY <2>2
  <2>10. Placed' BY <2>1, <2>9 DEF Placed, AtLevel
  <2>11. Expecting' BY <2>1, <2>9 DEF Expecting
  <2>12. Registers' BY <2>1, <2>7, <2>8, <2>9 DEF Registers
  <2>13. Judged' BY <2>9 DEF Judged
  <2> QED BY <2>6, <2>10, <2>11, <2>12, <2>13
<1>2. CASE PmpEnd
  <2> USE <1>2 DEF PmpEnd
  <2>1. TypeOK'
    <3>1. expect' = FALSE /\ pc' = job.next BY Zenon
    <3>2. expect' \in BOOLEAN BY <3>1
    <3> QED BY <3>2 DEF TypeOK
  <2>2. Placed' BY DEF Placed, AtLevel, TypeOK
  <2>3. Expecting' BY DEF Expecting, TypeOK
  <2>4. Registers'
    BY DEF TypeOK, Expecting, Registers, Written
  <2>5. Judged'
    BY DEF TypeOK, Judged
  <2> QED BY <2>1, <2>2, <2>3, <2>4, <2>5
<1>3. ASSUME NEW table \in {"on", "off"}, Write(table) PROVE IInv'
  <2>1. /\ pc = "prompt" /\ mode = "M" /\ Begin(table, "prompt")
        /\ UNCHANGED <<priv, mode, policy, shell, test, trap, cfg, addr, asked>>
    BY <1>3 DEF Write
  <2>2. seen \in Sights BY DEF TypeOK, Sights
  <2>3. /\ job' \in Jobs /\ job'.table = table /\ job'.i = 1 /\ job'.next = "prompt"
        /\ seen' \in Sights /\ ~seen'.saw
        /\ expect' = TRUE /\ pc' = "pmp"
    BY <2>1, <2>2, Begun
  <2>4. TypeOK' BY <2>1, <2>3 DEF TypeOK, Jobs, Sights
  <2>5. Placed'
    BY <2>1, <2>3 DEF Placed, AtLevel
  <2>6. Expecting' BY <2>3 DEF Expecting
  <2>7. Registers' BY <2>1, <2>3 DEF Registers, Placed, AtLevel, Writing, Entry
  <2>8. Judged'
    BY <2>3 DEF Judged
  <2> QED BY <2>4, <2>5, <2>6, <2>7, <2>8
<1> QED BY <1>1, <1>2, <1>3

\* The tests.
LEMMA TestIInv ==
  ASSUME IInv, Shell \/ Access \/ After \/ Report \/ \E access \in {"r", "w"} : Test(access)
  PROVE  IInv'
<1> USE DEF IInv
<1>1. CASE Shell
  <2> USE <1>1 DEF Shell
  <2>1. TypeOK' BY DEF TypeOK
  <2>2. Placed' BY DEF Placed, AtLevel
  <2>3. Expecting' BY DEF Expecting
  <2>4. Registers'
    BY DEF Registers, Written
  <2>5. Judged'
    BY DEF Judged
  <2> QED BY <2>1, <2>2, <2>3, <2>4, <2>5
<1>2. CASE Access
  <2>1. /\ pc = "access" /\ policy \in {"on", "off"} /\ Written(policy) /\ AtLevel
        /\ expect /\ ~seen.saw /\ test.trap = ExpectRegionTrap
        /\ priv \in Level /\ test.access \in {"r", "w"}
    BY <1>2 DEF Access, TypeOK, Placed, Expecting, Registers, Judged
  <2>2. (\A w \in Secret : Allowed(priv, test.access, w)) <=> ~test.trap
    BY <2>1, RegionTells DEF ExpectRegionTrap, AtLevel
  <2>3. UNCHANGED <<mode, policy, shell, test, job, expect, seen, cfg, addr, asked>>
    BY <1>2 DEF Access
  <2>4. CASE ~test.trap
    <3>1. pc' = "after" /\ UNCHANGED <<priv, trap>> BY <1>2, <2>2, <2>4 DEF Access
    <3>2. TypeOK' BY <2>3, <3>1 DEF TypeOK
    <3>3. Placed' BY <2>1, <2>3, <3>1 DEF Placed, AtLevel
    <3>4. Expecting' BY <2>1, <2>3, <3>1 DEF Expecting
    <3>5. Registers' BY <2>1, <2>3, <3>1 DEF Registers, Written
    <3>6. Judged'
      <4>1. seen.saw = FALSE /\ test.trap = FALSE BY <2>1, <2>4
      <4> QED BY <2>1, <2>3, <4>1 DEF Judged, ExpectRegionTrap
    <3> QED BY <3>2, <3>3, <3>4, <3>5, <3>6
  <2>5. CASE test.trap
    <3> DEFINE cause == IF test.access = "r" THEN 5 ELSE 7
    <3>1. TakeTrap(cause, "none", "after") BY <1>2, <2>2, <2>5, Zenon DEF Access
    <3>2. /\ trap' \in Traps
          /\ trap'.cause = cause /\ trap'.mpp = priv /\ trap'.req = "none"
          /\ trap'.next = "after" /\ priv' = "M" /\ pc' = "handler"
      <4>1. cause \in {2, 5, 7, 8, 9, 11} OBVIOUS
      <4> HIDE DEF cause
      <4> QED BY <2>1, <3>1, <4>1, Taken
    <3>3. TypeOK' BY <2>3, <3>2 DEF TypeOK, Traps, Level
    <3>4. Placed' /\ Expecting' BY <3>2 DEF Placed, Expecting
    <3>5. Registers'
      BY <2>1, <2>3, <2>5, <3>2 DEF Registers, InHandler, Written, AtLevel,
                                    ExpectRegionTrap
    <3>6. Judged' BY <3>2 DEF Judged
    <3> QED BY <3>3, <3>4, <3>5, <3>6
  <2>6. test.trap \in BOOLEAN BY DEF TypeOK
  <2> QED BY <2>4, <2>5
<1>3. CASE After
  <2> USE <1>3 DEF After
  <2>1. TypeOK'
    <3>1. expect' = FALSE /\ pc' = "report" BY Zenon
    <3>2. expect' \in BOOLEAN BY <3>1
    <3> QED BY <3>2 DEF TypeOK
  <2>2. Placed' BY DEF Placed, AtLevel
  <2>3. Expecting' BY DEF Expecting
  <2>4. Registers'
    BY DEF Registers, Written
  <2>5. Judged'
    BY DEF Judged, ExpectRegionTrap
  <2> QED BY <2>1, <2>2, <2>3, <2>4, <2>5
<1>4. CASE Report
  <2> USE <1>4 DEF Report
  <2>1. TypeOK' BY DEF TypeOK
  <2>2. Placed' BY DEF Placed, AtLevel
  <2>3. Expecting' BY DEF Expecting
  <2>4. Registers'
    BY DEF Registers, Written
  <2>5. Judged'
    BY DEF Judged
  <2> QED BY <2>1, <2>2, <2>3, <2>4, <2>5
<1>5. ASSUME NEW access \in {"r", "w"}, Test(access) PROVE IInv'
  <2> USE <1>5 DEF Test
  <2>1. TypeOK'
    <3>1. test' \in [access : {"r", "w"}, trap : BOOLEAN]
      BY DEF ExpectRegionTrap
    <3>2. seen' \in Sights BY DEF TypeOK, Sights
    <3>3. expect' = TRUE /\ pc' = "access"
          /\ UNCHANGED <<priv, mode, policy, shell, job, trap, cfg, addr, asked>>
      OBVIOUS
    <3> HIDE <1>5
    <3> QED BY <3>1, <3>2, <3>3 DEF TypeOK, Sights
  <2>2. Placed' BY DEF Placed, AtLevel
  <2>3. Expecting' BY DEF Expecting
  <2>4. Registers'
    BY DEF Registers, Written
  <2>5. Judged'
    BY DEF Judged, ExpectRegionTrap
  <2> QED BY <2>1, <2>2, <2>3, <2>4, <2>5
<1> QED BY <1>1, <1>2, <1>3, <1>4, <1>5

\* The switches of level.
LEMMA SwitchIInv ==
  ASSUME IInv, Enter \/ \E l \in Level : SwitchDown(l) \/ Request(l)
  PROVE  IInv'
<1> USE DEF IInv
<1>1. CASE Enter
  <2> USE <1>1 DEF Enter
  <2>1. TypeOK' BY DEF TypeOK
  <2>2. Placed' BY DEF Placed
  <2>3. Expecting' BY DEF Expecting
  <2>4. Registers'
    BY DEF TypeOK, Registers, Written
  <2>5. Judged'
    BY DEF Judged
  <2> QED BY <2>1, <2>2, <2>3, <2>4, <2>5
<1>2. ASSUME NEW l \in Level, SwitchDown(l) PROVE IInv'
  <2> USE <1>2 DEF SwitchDown
  <2>1. TypeOK' BY DEF TypeOK
  <2>2. Placed' BY DEF Placed, AtLevel
  <2>3. Expecting' BY DEF Expecting
  <2>4. Registers'
    BY DEF Registers, Written
  <2>5. Judged'
    BY DEF Judged
  <2> QED BY <2>1, <2>2, <2>3, <2>4, <2>5
<1>3. ASSUME NEW l \in Level, Request(l) PROVE IInv'
  <2>1. pc = "prompt" /\ asked' = l /\ TakeTrap(EcallCause[priv], l, "prompt")
        /\ UNCHANGED <<mode, policy, shell, test, job, expect, seen, cfg, addr>>
    BY <1>3, Zenon DEF Request
  <2>2. /\ trap' \in Traps
        /\ trap'.cause = EcallCause[priv] /\ trap'.mpp = priv
        /\ trap'.req = l /\ trap'.next = "prompt"
        /\ priv' = "M" /\ pc' = "handler" /\ EcallCause[priv] \in {8, 9, 11}
    BY <2>1, Causes, Taken DEF TypeOK
  <2>3. TypeOK' BY <2>1, <2>2 DEF TypeOK, Traps, Level
  <2>4. Placed' BY <2>2 DEF Placed
  <2>5. Expecting' BY <2>2 DEF Expecting
  <2>6. Registers'
    BY <2>1, <2>2 DEF Expecting, Registers, InHandler, Written
  <2>7. Judged'
    BY <2>2 DEF Judged
  <2> QED BY <2>3, <2>4, <2>5, <2>6, <2>7
<1> QED BY <1>1, <1>2, <1>3

\* The four returns of the handler.
LEMMA HandlerIInv ==
  ASSUME IInv, HandleEnterM \/ HandleSwitch \/ HandleExpected \/ HandleUnexpected
  PROVE  IInv'
<1> USE DEF IInv
<1>1. CASE HandleEnterM
  <2> USE <1>1 DEF HandleEnterM, IsRequest
  <2>1. TypeOK' BY DEF TypeOK, Level
  <2>2. Placed' BY DEF Placed, Registers, InHandler, Level
  <2>3. Expecting' BY DEF Expecting, Registers, InHandler
  <2>4. Registers'
    BY DEF Registers, InHandler, Level
  <2>5. Judged'
    BY DEF Registers, Judged, InHandler
  <2> QED BY <2>1, <2>2, <2>3, <2>4, <2>5
<1>2. CASE HandleSwitch
  <2> USE <1>2 DEF HandleSwitch, IsRequest
  <2>1. TypeOK' BY DEF TypeOK
  <2>2. Placed' BY DEF Placed, Registers, InHandler, Level
  <2>3. Expecting' BY DEF Expecting
  <2>4. Registers'
    BY DEF TypeOK, Registers, InHandler, Written, Level
  <2>5. Judged'
    BY DEF Judged
  <2> QED BY <2>1, <2>2, <2>3, <2>4, <2>5
<1>3. CASE HandleExpected
  <2> USE <1>3 DEF HandleExpected
  <2>1. TypeOK'
    <3>1. seen' \in Sights BY DEF TypeOK, Sights
    <3>2. priv' \in Level /\ pc' \in {"force", "boot", "pmp", "pmpend", "prompt", "after"}
      BY DEF TypeOK
    <3>3. UNCHANGED <<mode, policy, shell, test, job, expect, trap, cfg, addr, asked>>
      OBVIOUS
    <3> HIDE <1>3
    <3> QED BY <3>1, <3>2, <3>3 DEF TypeOK, Sights
  <2>2. Placed' BY DEF Placed, AtLevel, Registers, InHandler
  <2>3. Expecting' BY DEF Expecting, Registers, InHandler
  <2>4. Registers'
    BY DEF Registers, InHandler, Written
  <2>5. Judged'
    BY DEF Registers, Judged, InHandler, ExpectRegionTrap
  <2> QED BY <2>1, <2>2, <2>3, <2>4, <2>5
<1>4. CASE HandleUnexpected
  <2> USE <1>4 DEF HandleUnexpected, IsRequest
  <2>1. TypeOK' BY DEF TypeOK
  <2>2. Placed' BY DEF Placed, Registers, InHandler
  <2>3. Expecting' BY DEF Expecting, Registers, InHandler
  <2>4. Registers'
    BY DEF Registers, InHandler, Written
  <2>5. Judged'
    BY DEF Registers, Judged, InHandler
  <2> QED BY <2>1, <2>2, <2>3, <2>4, <2>5
<1> QED BY <1>1, <1>2, <1>3, <1>4

\* The invariant holds in every reachable state.
THEOREM Invariance == Spec => []IInv
<1>1. IInv /\ UNCHANGED vars => IInv'
  BY DEF IInv, TypeOK, Placed, Expecting, Registers, Judged, InHandler, Writing,
         Written, AtLevel, ExpectRegionTrap, vars
<1>2. IInv /\ [Next]_vars => IInv'
  BY <1>1, BootIInv, WriteIInv, TestIInv, SwitchIInv, HandlerIInv DEF Next, Program
<1> QED BY InitIInv, <1>2, PTL DEF Spec

\* Every variable keeps its type.
THEOREM TypeCorrect == Spec => []TypeOK
<1>1. IInv => TypeOK BY DEF IInv
<1> QED BY <1>1, Invariance, PTL

\* The prompt names the level of the hart, the one that was asked for, after every
\* restart too.
THEOREM PromptTells == Spec => []PromptIsTrue
<1>1. IInv => PromptIsTrue BY DEF IInv, Placed, AtLevel, PromptIsTrue
<1> QED BY <1>1, Invariance, PTL

\* The policy shown is what the registers do to every word of the memory, for
\* reads, writes and fetches.
PolicyEverywhere ==
  pc \in {"shell", "prompt", "access", "after", "report", "enter"} =>
    \A p \in {"S", "U"}, access \in {"r", "w", "x"}, w \in Word :
      Allowed(p, access, w) <=> Permitted(policy, access, w)

\* It holds in every reachable state.
THEOREM PolicyHoldsEverywhere == Spec => []PolicyEverywhere
<1>1. IInv => PolicyEverywhere
  BY TablePermits DEF IInv, TypeOK, Registers, PolicyEverywhere
<1> QED BY <1>1, Invariance, PTL

\* The region is closed and the windows are too, for S and U, exactly while the
\* policy shown is on.
THEOREM PolicyHolds == Spec => []PolicyIsTrue
<1>1. PolicyEverywhere => PolicyIsTrue
  <2> SUFFICES ASSUME PolicyEverywhere, pc \in {"prompt", "report"},
                      NEW p \in {"S", "U"}, NEW access \in {"r", "w"}
               PROVE  /\ \A w \in Secret : Allowed(p, access, w) <=> policy = "off"
                      /\ \A w \in Other  : Allowed(p, access, w) <=> policy = "off"
    BY Zenon DEF PolicyIsTrue
  <2>1. \A w \in Word : Allowed(p, access, w) <=> Permitted(policy, access, w)
    BY DEF PolicyEverywhere
  <2>2. \A w \in Secret : Permitted(policy, access, w) <=> policy = "off"
    BY SecretInRegion DEF Permitted
  <2>3. \A w \in Other : Permitted(policy, access, w) <=> policy = "off"
    BY OtherOutside DEF Permitted
  <2> QED BY <2>1, <2>2, <2>3, SecretInRegion, OtherOutside
<1> QED BY <1>1, PolicyHoldsEverywhere, PTL

\* Every test of the region gives the verdict the lesson states.
THEOREM TestsPass == Spec => []VerdictsPass
<1>1. IInv => VerdictsPass BY DEF IInv, Judged, VerdictsPass
<1> QED BY <1>1, Invariance, PTL

\* A hart below M has the whole window of the image but the region, and the UART, at
\* every step: no table is half written there, not after a restart either.
LowerHasProgram ==
  priv # "M" =>
    \A w \in Word :
      /\ w \in ImageWords \ SecretWords =>
           \A access \in {"r", "w", "x"} : Allowed(priv, access, w)
      /\ w \in UartWords => Allowed(priv, "r", w) /\ Allowed(priv, "w", w)

\* That holds however the image is linked.
THEOREM LowerKeepsProgram == Spec => []LowerHasProgram
<1>1. IInv => LowerHasProgram
  <2> SUFFICES ASSUME IInv, priv # "M", NEW w \in Word
               PROVE  /\ w \in ImageWords \ SecretWords =>
                           \A access \in {"r", "w", "x"} : Allowed(priv, access, w)
                      /\ w \in UartWords => Allowed(priv, "r", w) /\ Allowed(priv, "w", w)
    BY DEF LowerHasProgram
  <2>1. PICK table \in {"on", "off"} : Written(table) BY DEF IInv, Registers
  <2>2. priv \in {"S", "U"} BY DEF IInv, TypeOK, Level
  <2>3. \A access \in {"r", "w", "x"} : Allowed(priv, access, w) <=> Permitted(table, access, w)
    BY <2>1, <2>2, TablePermits
  <2>4. w \in UartWords => w \notin SecretWords BY UartApart
  <2> QED BY <2>3, <2>4 DEF Permitted
<1> QED BY <1>1, Invariance, PTL

\* Linked to SRAM, a hart below M can fetch the code and use its data, its stack
\* and the UART, in every state.
THEOREM LowerAlwaysRuns ==
  ASSUME Load = "sram"
  PROVE  Spec => []LowerRuns
<1>1. LowerHasProgram => LowerRuns
  BY InSram DEF LowerHasProgram, LowerRuns
<1> QED BY <1>1, LowerKeepsProgram, PTL

=============================================================================
