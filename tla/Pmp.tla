--------------------------------- MODULE Pmp ---------------------------------
(***************************************************************************)
(* Lesson 05: the shells of lesson 04 with a region, _pmp_secret, that PMP *)
(* closes to S and U, and opens again.  The three pmpaddr registers and    *)
(* pmpcfg0 are written one by one.  The probe may restart the hart at any  *)
(* step, with a reset or without.                                          *)
(***************************************************************************)
EXTENDS Naturals, FiniteSetsExt

CONSTANT Load   \* LOAD of the Makefile: where the image is linked
ASSUME LoadAssumption == Load \in {"sram", "ddr"}

Level == {"M", "S", "U"}
Entry == 0 .. 2      \* the PMP entries in use

VARIABLES
  pc,      \* the next step
  priv,    \* privilege level of the hart
  mode,    \* g_cur_mode
  policy,  \* g_pmp_policy
  shell,   \* the shell function that runs, or is about to
  test,    \* the access that is tested, and whether it should trap
  job,     \* the table that is written, the next write, where it returns
  expect,  \* trap_expect
  seen,    \* trap_saw, trap_last_cause
  trap,    \* mcause, mstatus.MPP, a0 and where mepc + insn_len leads
  cfg,     \* pmpcfg0: for each entry whether it is NAPOT, and what it permits
  addr,    \* pmpaddr0 .. pmpaddr2
  asked    \* history: the level the user last asked for

vars == <<pc, priv, mode, policy, shell, test, job, expect, seen, trap, cfg,
          addr, asked>>

-----------------------------------------------------------------------------
(* The memory map, in 32-bit words: the unit of pmpaddr. *)

LOAD_BASE == IF Load = "sram" THEN \h20080000 ELSE \h14000000
RamBase   == IF Load = "sram" THEN \h20088000 ELSE \h14080000
UART0_BASE == \h24500000

KWords == 256                       \* 1 KiB in words
PMP_SRAM_SIZE   == 256 * KWords
PMP_SECRET_SIZE == 4 * KWords
PMP_UART_SIZE   == 64 * KWords

\* The first and the last word of what the program uses.
Code   == {LOAD_BASE, LOAD_BASE + 128 * KWords - 1}
Secret == {RamBase, RamBase + PMP_SECRET_SIZE - 1}
Ram    == {RamBase + PMP_SECRET_SIZE, RamBase + 128 * KWords - 1}
Uart   == {UART0_BASE, UART0_BASE + 5}
\* Words just outside the windows: the clock controller and past the UART.
Other  == {\h24442000, UART0_BASE - 1, UART0_BASE + PMP_UART_SIZE}

-----------------------------------------------------------------------------
(* PMP: the encoding in the code, the decoding in the hart. *)

AllOnes == 2^30 - 1

\* pmpaddr_napot.  Every base is a multiple of its size (ALIGN(4096) in linker.ld
\* for the region), so the OR sets bits that are clear in base and is a sum.
Napot(base, size) == base + (size \div 2 - 1)

TrailingOnes(a) == Max({k \in 0 .. 30 : a % 2^k = 2^k - 1})

\* The k low ones of a NAPOT address and the zero above them are wildcards.
Match(a, w) == LET k == TrailingOnes(a)
               IN  (a \div 2^k) \div 2 = (w \div 2^k) \div 2

AllOff == [e \in Entry |-> [on |-> FALSE, perm |-> {}]]

\* The lowest entry that matches decides; M is not checked, and where no entry
\* matches S and U have no access.
Allowed(p, access, w) ==
  \/ p = "M"
  \/ LET hits == {e \in Entry : cfg[e].on /\ Match(addr[e], w)}
     IN  hits # {} /\ access \in cfg[Min(hits)].perm

\* What pmp_enable ("on") and pmp_clear ("off") write.
Addr(table) ==
  IF table = "on"
  THEN [e \in Entry |-> CASE e = 0 -> Napot(RamBase, PMP_SECRET_SIZE)
                          [] e = 1 -> Napot(LOAD_BASE, PMP_SRAM_SIZE)
                          [] e = 2 -> Napot(UART0_BASE, PMP_UART_SIZE)]
  ELSE [e \in Entry |-> IF e = 0 THEN AllOnes ELSE 0]

\* Bug: the image may not be executed.
CfgWithoutX(table) ==
  [e \in Entry |-> [on |-> TRUE, perm |-> IF e = 0 /\ table = "on" THEN {} ELSE {"r", "w"}]]

Cfg(table) ==
  IF table = "on"
  THEN [e \in Entry |-> [on |-> TRUE,
                         perm |-> CASE e = 0 -> {}
                                    [] e = 1 -> {"r", "w", "x"}
                                    [] e = 2 -> {"r", "w"}]]
  ELSE [AllOff EXCEPT ![0] = [on |-> TRUE, perm |-> {"r", "w", "x"}]]

-----------------------------------------------------------------------------
(* Traps. *)

EcallCause == [M |-> 11, S |-> 9, U |-> 8]

TakeTrap(cause, req, next) ==
  /\ trap' = [cause |-> cause, mpp |-> priv, req |-> req, next |-> next]
  /\ priv' = "M"
  /\ pc' = "handler"

IsRequest == trap.cause \in {8, 9, 11} /\ ~expect

\* priv_force_m: M from here on, and on after the ecall.
HandleEnterM ==
  /\ pc = "handler" /\ IsRequest /\ trap.req = "enter_m"
  /\ mode' = "M"
  /\ pc' = trap.next
  /\ UNCHANGED <<priv, policy, shell, test, job, expect, seen, trap, cfg, addr, asked>>

HandleSwitch ==
  /\ pc = "handler" /\ IsRequest /\ trap.req \in Level
  /\ mode' = trap.req
  /\ priv' = trap.req
  /\ shell' = trap.req
  /\ pc' = "shell"
  /\ UNCHANGED <<policy, test, job, expect, seen, trap, cfg, addr, asked>>

HandleExpected ==
  /\ pc = "handler" /\ expect
  /\ seen' = [saw |-> TRUE, cause |-> trap.cause]
  /\ priv' = trap.mpp
  /\ pc' = trap.next
  /\ UNCHANGED <<mode, policy, shell, test, job, expect, trap, cfg, addr, asked>>

HandleUnexpected ==
  /\ pc = "handler" /\ ~expect
  /\ ~(IsRequest /\ trap.req \in Level \cup {"enter_m"})
  /\ priv' = trap.mpp
  /\ pc' = trap.next
  /\ UNCHANGED <<mode, policy, shell, test, job, expect, seen, trap, cfg, addr, asked>>

-----------------------------------------------------------------------------
(* Start. *)

\* Reset: M-mode, PMP off, memory as it is.
Init ==
  /\ pc = "start"
  /\ priv = "M"
  /\ mode \in Level
  /\ policy \in {"on", "off"}
  /\ shell = "M"
  /\ test = [access |-> "r", trap |-> FALSE]
  /\ job = [table |-> "on", i |-> 1, next |-> "shell"]
  /\ expect \in BOOLEAN
  /\ seen = [saw |-> FALSE, cause |-> 0]
  /\ trap = [cause |-> 0, mpp |-> "M", req |-> "none", next |-> "prompt"]
  /\ cfg = AllOff
  /\ addr = [e \in Entry |-> 0]
  /\ asked = "M"

\* Without a reset the level and PMP stay as they are.
Reload(reset) ==
  /\ pc' = "start"
  /\ IF reset THEN priv' = "M" /\ cfg' = AllOff ELSE UNCHANGED <<priv, cfg>>
  /\ asked' = "M"
  /\ UNCHANGED <<mode, policy, shell, test, job, expect, seen, trap, addr>>

\* start.S clears .bss, where all of the program's variables are.  In M mcor then
\* invalidates the D-cache without cleaning it: with the D-cache on, after a
\* restart without a reset, a zero is lost and memory's old value is back.  Below
\* M the write of mcor is skipped.  trap_init stores trap_expect and trap_saw
\* again, and after a reset nothing is lost; no property tells that case.
Start ==
  /\ pc = "start"
  /\ IF priv = "M"
     THEN mode' \in Level /\ policy' \in {"on", "off"}
     ELSE mode' = "M" /\ policy' = "on"
  /\ \E cause \in {0, seen.cause} : seen' = [saw |-> FALSE, cause |-> cause]
  /\ expect' = FALSE
  /\ pc' = "setup"
  /\ UNCHANGED <<priv, shell, test, job, trap, cfg, addr, asked>>

\* start.S and trap_init write CSRs of M: below M each write is skipped.
Setup ==
  /\ pc = "setup"
  /\ IF priv = "M" THEN pc' = "force" /\ UNCHANGED <<priv, trap>>
                   ELSE TakeTrap(2, "none", "force")
  /\ UNCHANGED <<mode, policy, shell, test, job, expect, seen, cfg, addr, asked>>

\* Bug: the level is not raised.
SkipForce ==
  /\ pc = "force"
  /\ pc' = "boot"
  /\ UNCHANGED <<priv, mode, policy, shell, test, job, expect, seen, trap, cfg,
                 addr, asked>>

ForceM ==
  /\ pc = "force"
  /\ TakeTrap(EcallCause[priv], "enter_m", "boot")
  /\ UNCHANGED <<mode, policy, shell, test, job, expect, seen, cfg, addr, asked>>

-----------------------------------------------------------------------------
(* Writing a table. *)

\* pmp_csr_begin.
Begin(table, next) ==
  /\ job' = [table |-> table, i |-> 1, next |-> next]
  /\ seen' = [seen EXCEPT !.saw = FALSE]
  /\ expect' = TRUE
  /\ pc' = "pmp"

Boot ==
  /\ pc = "boot"
  /\ shell' = "M"
  /\ Begin("on", "shell")
  /\ UNCHANGED <<priv, mode, policy, test, trap, cfg, addr, asked>>

\* Keys e and c.
Write(table) ==
  /\ pc = "prompt" /\ mode = "M"
  /\ Begin(table, "prompt")
  /\ UNCHANGED <<priv, mode, policy, shell, test, trap, cfg, addr, asked>>

\* The five writes: the table off, the three addresses, the new table.  Below M
\* each of them is an expected trap.
PmpWrite ==
  /\ pc = "pmp"
  /\ job' = [job EXCEPT !.i = @ + 1]
  /\ IF priv = "M"
     THEN /\ cfg' = CASE job.i = 1 -> AllOff
                      [] job.i = 5 -> Cfg(job.table)
                      [] OTHER     -> cfg
          /\ addr' = [e \in Entry |-> IF job.i = e + 2 THEN Addr(job.table)[e]
                                                       ELSE addr[e]]
          /\ pc' = IF job.i = 5 THEN "pmpend" ELSE "pmp"
          /\ UNCHANGED <<priv, trap>>
     ELSE /\ TakeTrap(2, "none", IF job.i = 5 THEN "pmpend" ELSE "pmp")
          /\ UNCHANGED <<cfg, addr>>
  /\ UNCHANGED <<mode, policy, shell, test, expect, seen, asked>>

\* Bug: the policy is not recorded.
PmpEndSilently ==
  /\ pc = "pmpend"
  /\ expect' = FALSE
  /\ pc' = job.next
  /\ UNCHANGED <<priv, mode, policy, shell, test, job, seen, trap, cfg, addr, asked>>

\* pmp_csr_end, and the policy if no write trapped.
PmpEnd ==
  /\ pc = "pmpend"
  /\ expect' = FALSE
  /\ policy' = IF seen.saw THEN policy ELSE job.table
  /\ pc' = job.next
  /\ UNCHANGED <<priv, mode, shell, test, job, seen, trap, cfg, addr, asked>>

-----------------------------------------------------------------------------
(* The shells and the two tests. *)

Shell ==
  /\ pc = "shell"
  /\ mode' = shell
  /\ pc' = "prompt"
  /\ UNCHANGED <<priv, policy, shell, test, job, expect, seen, trap, cfg, addr, asked>>

\* Bug: the policy is not looked at.
ExpectBelowM == mode # "M"

ExpectRegionTrap == mode # "M" /\ policy = "on"

\* Keys 1 and 2.
Test(access) ==
  /\ pc = "prompt"
  /\ test' = [access |-> access, trap |-> ExpectRegionTrap]
  /\ seen' = [seen EXCEPT !.saw = FALSE]
  /\ expect' = TRUE
  /\ pc' = "access"
  /\ UNCHANGED <<priv, mode, policy, shell, job, trap, cfg, addr, asked>>

Access ==
  /\ pc = "access"
  /\ IF \A w \in Secret : Allowed(priv, test.access, w)
     THEN pc' = "after" /\ UNCHANGED <<priv, trap>>
     ELSE TakeTrap(IF test.access = "r" THEN 5 ELSE 7, "none", "after")
  /\ UNCHANGED <<mode, policy, shell, test, job, expect, seen, cfg, addr, asked>>

After ==
  /\ pc = "after"
  /\ expect' = FALSE
  /\ pc' = "report"
  /\ UNCHANGED <<priv, mode, policy, shell, test, job, seen, trap, cfg, addr, asked>>

Report ==
  /\ pc = "report"
  /\ pc' = "prompt"
  /\ UNCHANGED <<priv, mode, policy, shell, test, job, expect, seen, trap, cfg,
                 addr, asked>>

\* Keys s and u in shell_m: priv_enter.
SwitchDown(l) ==
  /\ pc = "prompt" /\ shell = "M" /\ l # "M"
  /\ asked' = l
  /\ mode' = l
  /\ shell' = l
  /\ pc' = "enter"
  /\ UNCHANGED <<priv, policy, test, job, expect, seen, trap, cfg, addr>>

\* Below M the CSR accesses and the mret are skipped and the hart runs on.
Enter ==
  /\ pc = "enter"
  /\ IF priv = "M" THEN priv' = shell /\ pc' = "shell"
                   ELSE pc' = "lost" /\ UNCHANGED priv
  /\ UNCHANGED <<mode, policy, shell, test, job, expect, seen, trap, cfg, addr, asked>>

\* Keys m, s and u in shell_s and shell_u.
Request(l) ==
  /\ pc = "prompt" /\ shell # "M" /\ l # shell
  /\ asked' = l
  /\ TakeTrap(EcallCause[priv], l, "prompt")
  /\ UNCHANGED <<mode, policy, shell, test, job, expect, seen, cfg, addr>>

-----------------------------------------------------------------------------
Program ==
  \/ Start \/ Setup \/ ForceM \/ Boot \/ PmpWrite \/ PmpEnd
  \/ Shell \/ Access \/ After \/ Report \/ Enter
  \/ HandleEnterM \/ HandleSwitch \/ HandleExpected \/ HandleUnexpected
  \/ \E table \in {"on", "off"} : Write(table)
  \/ \E access \in {"r", "w"} : Test(access)
  \/ \E l \in Level : SwitchDown(l) \/ Request(l)

Next == Program \/ \E reset \in BOOLEAN : Reload(reset)

Spec == Init /\ [][Next]_vars

-----------------------------------------------------------------------------
(* Properties. *)

\* Every variable keeps its type.
TypeOK ==
  /\ pc \in {"start", "setup", "force", "boot", "pmp", "pmpend", "shell", "prompt",
             "access", "after", "report", "enter", "handler", "lost"}
  /\ priv \in Level /\ mode \in Level /\ shell \in Level /\ asked \in Level
  /\ policy \in {"on", "off"}
  /\ test \in [access : {"r", "w"}, trap : BOOLEAN]
  /\ job \in [table : {"on", "off"}, i : 1 .. 6, next : {"shell", "prompt"}]
  /\ expect \in BOOLEAN
  /\ seen \in [saw : BOOLEAN, cause : {0, 2, 5, 7, 8, 9, 11}]
  /\ trap \in [cause : {0, 2, 5, 7, 8, 9, 11}, mpp : Level,
               req : Level \cup {"none", "enter_m"},
               next : {"force", "boot", "pmp", "pmpend", "prompt", "after"}]
  /\ cfg \in [Entry -> [on : BOOLEAN, perm : SUBSET {"r", "w", "x"}]]
  /\ addr \in [Entry -> Nat]

\* The prompt names the level of the hart, the one the user asked for, even when
\* the probe restarted the hart below M: priv_force_m raises it first.
PromptIsTrue ==
  pc \in {"prompt", "access", "after", "report"} =>
    priv = mode /\ shell = mode /\ asked = mode

\* The policy that the program shows is what the registers do: on, S and U have
\* no access to the region and none outside the windows; off, they have all.
PolicyIsTrue ==
  pc \in {"prompt", "report"} =>
    \A p \in {"S", "U"}, access \in {"r", "w"} :
      /\ \A w \in Secret : Allowed(p, access, w) <=> policy = "off"
      /\ \A w \in Other  : Allowed(p, access, w) <=> policy = "off"

\* Every test passes: the trap comes exactly where the table of the lesson says.
VerdictsPass ==
  pc = "report" =>
    /\ seen.saw = test.trap
    /\ seen.saw => seen.cause = IF test.access = "r" THEN 5 ELSE 7

\* A hart below M can always run: it may fetch the code and use its data, its
\* stack and the UART.
LowerRuns ==
  priv # "M" =>
    /\ \A w \in Code : Allowed(priv, "x", w) /\ Allowed(priv, "r", w)
    /\ \A w \in Ram \cup Uart, access \in {"r", "w"} : Allowed(priv, access, w)
=============================================================================
