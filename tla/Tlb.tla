--------------------------------- MODULE Tlb ---------------------------------
(***************************************************************************)
(* Lesson 06: Sv39 in S-mode, with a probe page whose PTE a test clears    *)
(* and restores.  A PTE is in three places: in the data cache, where the   *)
(* program writes it (core), in memory, where the page-table walker may    *)
(* read it (mem), and in the TLB.  A dirty line may be written back, and a *)
(* TLB entry be filled or evicted, at any step.  The probe may restart the *)
(* hart at any step, with a reset or without.                              *)
(***************************************************************************)
EXTENDS Naturals

Level == {"M", "S"}
Pte == {"valid", "invalid"}

\* What the page tables translate: the image with its stack and the UART, the
\* probe page TLB_PROBE_VA, and the page TLB_UNMAP_VA.
Page == {"image", "probe", "hole"}

VARIABLES
  pc,      \* the next step
  priv,    \* privilege level of the hart
  mode,    \* g_cur_mode
  mmu,     \* g_mmu_on
  shell,   \* the shell function that runs, or is about to
  load,    \* the page a test loads from, and the step after it
  saved,   \* saved in test_tlb_stale
  expect,  \* trap_expect
  seen,    \* trap_saw, trap_last_cause
  trap,    \* mcause, mstatus.MPP, a0 and where mepc + insn_len leads
  satp,    \* satp is Sv39 with this program's tables
  core,    \* the PTEs as the program sees them
  mem,     \* the PTEs in memory
  tlb,     \* the PTEs in the TLB
  asked    \* history: the level the user last asked for

prog == <<mmu, shell, load, saved, expect, seen>>
mmuState == <<satp, core, mem, tlb>>
vars == <<pc, priv, mode, prog, trap, mmuState, asked>>

Empty == [p \in Page |-> "none"]

\* The tables that pgtbl_init builds.
Built == [p \in Page |-> IF p = "hole" THEN "invalid" ELSE "valid"]

\* A translation comes from the TLB, or from a walk where it has none.
Entry(p) == IF tlb[p] = "none" THEN mem[p] ELSE tlb[p]

-----------------------------------------------------------------------------
(* The hart and its caches. *)

WriteBack(p) ==
  /\ mem' = [mem EXCEPT ![p] = core[p]]
  /\ UNCHANGED <<pc, priv, mode, prog, trap, satp, core, tlb, asked>>

\* Translation, speculative or not, happens only below M; an invalid PTE may be
\* held too.
Fill(p) ==
  /\ priv = "S" /\ satp /\ tlb[p] = "none"
  /\ tlb' = [tlb EXCEPT ![p] = mem[p]]
  /\ UNCHANGED <<pc, priv, mode, prog, trap, satp, core, mem, asked>>

Evict(p) ==
  /\ tlb[p] # "none"
  /\ tlb' = [tlb EXCEPT ![p] = "none"]
  /\ UNCHANGED <<pc, priv, mode, prog, trap, satp, core, mem, asked>>

EcallCause == [M |-> 11, S |-> 9]

TakeTrap(cause, req, next) ==
  /\ trap' = [cause |-> cause, mpp |-> priv, req |-> req, next |-> next]
  /\ priv' = "M"
  /\ pc' = "handler"

\* mret into the shell of level l.  In S the shell can only be fetched through
\* valid tables; otherwise every fetch traps and is skipped, for ever.
Arrive(l) ==
  /\ priv' = l
  /\ shell' = l
  /\ pc' = IF l = "S" /\ satp /\ Entry("image") = "invalid" THEN "lost" ELSE "shell"

-----------------------------------------------------------------------------
(* Start. *)

Init ==
  /\ pc = "start"
  /\ priv = "M"
  /\ mode = "M"
  /\ mmu = FALSE
  /\ shell = "M"
  /\ load = [page |-> "probe", next |-> "mapped"]
  /\ saved = "none"
  /\ expect = FALSE
  /\ seen = [saw |-> FALSE, cause |-> 0]
  /\ trap = [cause |-> 0, mpp |-> "M", req |-> "none", next |-> "loaded"]
  /\ satp = FALSE
  /\ mem \in [Page -> Pte]
  /\ core = mem
  /\ tlb = Empty
  /\ asked = "M"

\* A reset loses what is in the caches; a lost hart needs one.
Reset ==
  /\ pc' = "start"
  /\ priv' = "M"
  /\ satp' = FALSE
  /\ core' = mem
  /\ tlb' = Empty
  /\ asked' = "M"
  /\ UNCHANGED <<mode, prog, trap, mem>>

Restart ==
  /\ pc # "lost"
  /\ pc' = "start"
  /\ asked' = "M"
  /\ UNCHANGED <<priv, mode, prog, trap, mmuState>>

\* start.S: sfence.vma, the D-cache invalidated, and .bss cleared.  The page
\* tables are not in .bss: what is dirty of them is lost.  In S the CSR may not be
\* accessible, and mcor is not.  In M mcor invalidates the D-cache once more, and
\* after a restart without a reset it may drop a zero of .bss: g_cur_mode may be
\* what it was.  The clear of g_mmu_on is taken to be effective; trap_init stores
\* trap_expect and trap_saw again.
Start ==
  /\ pc = "start"
  /\ tlb' = Empty
  /\ IF priv = "M" THEN core' = mem /\ mode' \in Level
                   ELSE core' \in {core, mem} /\ mode' = "M"
  /\ mmu' = FALSE
  /\ expect' = FALSE
  /\ seen' = [saw |-> FALSE, cause |-> 0]
  /\ pc' = "setup"
  /\ UNCHANGED <<priv, shell, load, saved, trap, satp, mem, asked>>

\* start.S and trap_init write CSRs of M: in S each write is skipped.
Setup ==
  /\ pc = "setup"
  /\ IF priv = "M" THEN pc' = "force" /\ UNCHANGED <<priv, trap>>
                   ELSE TakeTrap(2, "none", "force")
  /\ UNCHANGED <<mode, prog, mmuState, asked>>

\* Bug: the level is not raised.
SkipEnterM ==
  /\ pc = "force"
  /\ pc' = "boot"
  /\ UNCHANGED <<priv, mode, prog, trap, mmuState, asked>>

EnterM ==
  /\ pc = "force"
  /\ TakeTrap(EcallCause[priv], "enter_m", "boot")
  /\ UNCHANGED <<mode, prog, mmuState, asked>>

\* pmp_allow_all ends with sfence.vma; "satp bare." is printed, not written.
Boot ==
  /\ pc = "boot"
  /\ tlb' = Empty
  /\ shell' = "M"
  /\ pc' = "shell"
  /\ UNCHANGED <<priv, mode, mmu, load, saved, expect, seen, trap, satp, core, mem, asked>>

-----------------------------------------------------------------------------
(* Key o: pgtbl_init, satp, S. *)

MmuOn ==
  /\ pc = "prompt" /\ mode = "M"
  /\ asked' = "S"
  /\ pc' = "zero"
  /\ UNCHANGED <<priv, mode, prog, trap, mmuState>>

Zero ==
  /\ pc = "zero"
  /\ core' = [p \in Page |-> "invalid"]
  /\ pc' = "map"
  /\ UNCHANGED <<priv, mode, prog, trap, satp, mem, tlb, asked>>

Map ==
  /\ pc = "map"
  /\ core' = [core EXCEPT !["image"] = "valid", !["probe"] = "valid"]
  /\ pc' = "flush"
  /\ UNCHANGED <<priv, mode, prog, trap, satp, mem, tlb, asked>>

\* Bug: the tables stay in the data cache.
NoFlush ==
  /\ pc = "flush"
  /\ pc' = "satp"
  /\ UNCHANGED <<priv, mode, prog, trap, mmuState, asked>>

Flush ==
  /\ pc = "flush"
  /\ mem' = core
  /\ pc' = "satp"
  /\ UNCHANGED <<priv, mode, prog, trap, satp, core, tlb, asked>>

SetSatp ==
  /\ pc = "satp"
  /\ satp' = TRUE
  /\ pc' = "on"
  /\ UNCHANGED <<priv, mode, prog, trap, core, mem, tlb, asked>>

\* The sfence.vma of w_satp, and the rest of mmu_on.
MmuIsOn ==
  /\ pc = "on"
  /\ tlb' = Empty
  /\ mmu' = TRUE
  /\ mode' = "S"
  /\ shell' = "S"
  /\ pc' = "enter"
  /\ UNCHANGED <<priv, load, saved, expect, seen, trap, satp, core, mem, asked>>

-----------------------------------------------------------------------------
(* The shells. *)

Shell ==
  /\ pc = "shell"
  /\ mode' = shell
  /\ pc' = "prompt"
  /\ UNCHANGED <<priv, prog, trap, mmuState, asked>>

\* Key s in shell_m, and priv_enter, which keeps satp.
SwitchDown ==
  /\ pc = "prompt" /\ shell = "M"
  /\ asked' = "S"
  /\ mode' = "S"
  /\ shell' = "S"
  /\ pc' = "enter"
  /\ UNCHANGED <<priv, mmu, load, saved, expect, seen, trap, mmuState>>

Enter ==
  /\ pc = "enter"
  /\ IF priv = "M" THEN Arrive(shell)
                   ELSE pc' = "lost" /\ UNCHANGED <<priv, shell>>
  /\ UNCHANGED <<mode, mmu, load, saved, expect, seen, trap, mmuState, asked>>

\* Key m in shell_s.
SwitchUp ==
  /\ pc = "prompt" /\ shell = "S"
  /\ asked' = "M"
  /\ TakeTrap(EcallCause[priv], "M", "prompt")
  /\ UNCHANGED <<mode, prog, mmuState>>

\* mmu_off: w_satp(0).
TurnOff == satp' = FALSE /\ tlb' = Empty /\ mmu' = FALSE

\* Key z in M.
MmuOff ==
  /\ pc = "prompt" /\ mode = "M"
  /\ TurnOff
  /\ UNCHANGED <<pc, priv, mode, shell, load, saved, expect, seen, trap, core, mem, asked>>

\* Key z in S.
AskMmuOff ==
  /\ pc = "prompt" /\ mode # "M"
  /\ asked' = "M"
  /\ TakeTrap(EcallCause[priv], "mmu_off", "prompt")
  /\ UNCHANGED <<mode, prog, mmuState>>

-----------------------------------------------------------------------------
(* trap_handler. *)

IsRequest == trap.cause \in {8, 9, 11} /\ ~expect

HandleEnterM ==
  /\ pc = "handler" /\ IsRequest /\ trap.req = "enter_m"
  /\ mode' = "M"
  /\ pc' = trap.next
  /\ UNCHANGED <<priv, prog, trap, mmuState, asked>>

\* GOTO_M, and MMU_OFF, which turns the MMU off first.  GOTO_S and GOTO_U have
\* no caller in this lesson.
HandleSwitch ==
  /\ pc = "handler" /\ IsRequest /\ trap.req \in {"M", "mmu_off"}
  /\ IF trap.req = "mmu_off" THEN TurnOff ELSE UNCHANGED <<satp, tlb, mmu>>
  /\ mode' = "M"
  /\ Arrive("M")
  /\ UNCHANGED <<load, saved, expect, seen, trap, core, mem, asked>>

HandleExpected ==
  /\ pc = "handler" /\ expect
  /\ seen' = [saw |-> TRUE, cause |-> trap.cause]
  /\ priv' = trap.mpp
  /\ pc' = trap.next
  /\ UNCHANGED <<mode, mmu, shell, load, saved, expect, trap, mmuState, asked>>

HandleUnexpected ==
  /\ pc = "handler" /\ ~expect
  /\ ~(IsRequest /\ trap.req \in {"enter_m", "M", "mmu_off"})
  /\ priv' = trap.mpp
  /\ pc' = trap.next
  /\ UNCHANGED <<mode, prog, trap, mmuState, asked>>

-----------------------------------------------------------------------------
(* The three tests: a load with trap_expect set, and what follows it. *)

StartLoad(page, next) ==
  /\ load' = [page |-> page, next |-> next]
  /\ seen' = [seen EXCEPT !.saw = FALSE]
  /\ expect' = TRUE
  /\ pc' = "load"

Load ==
  /\ pc = "load"
  /\ IF satp /\ Entry(load.page) = "invalid"
     THEN TakeTrap(13, "none", "loaded")
     ELSE pc' = "loaded" /\ UNCHANGED <<priv, trap>>
  /\ UNCHANGED <<mode, prog, mmuState, asked>>

Loaded ==
  /\ pc = "loaded"
  /\ expect' = FALSE
  /\ pc' = load.next
  /\ UNCHANGED <<priv, mode, mmu, shell, load, saved, seen, trap, mmuState, asked>>

need_s_mmu == mmu /\ mode = "S"

\* Keys 1, 2 and f.
Test(page, next) ==
  /\ pc = "prompt" /\ need_s_mmu
  /\ StartLoad(page, next)
  /\ saved' = "none"
  /\ UNCHANGED <<priv, mode, mmu, shell, trap, mmuState, asked>>

\* The verdicts of keys 1 and 2, and key f giving up after its first load.
Report ==
  /\ pc \in {"mapped", "unmapped"} \/ (pc = "warm" /\ seen.saw)
  /\ pc' = "prompt"
  /\ UNCHANGED <<priv, mode, prog, trap, mmuState, asked>>

Drop ==
  /\ pc = "warm" /\ ~seen.saw
  /\ saved' = core["probe"]
  /\ core' = [core EXCEPT !["probe"] = "invalid"]
  /\ pc' = "dropflush"
  /\ UNCHANGED <<priv, mode, mmu, shell, load, expect, seen, trap, satp, mem, tlb, asked>>

\* After the flush the second load, which may trap or not.
DropFlush ==
  /\ pc = "dropflush"
  /\ mem' = [mem EXCEPT !["probe"] = core["probe"]]
  /\ StartLoad("probe", "dropped")
  /\ UNCHANGED <<priv, mode, mmu, shell, saved, trap, satp, core, tlb, asked>>

\* Bug: no sfence.vma between the second load and the third.
NoFence ==
  /\ pc = "dropped"
  /\ StartLoad("probe", "fenced")
  /\ UNCHANGED <<priv, mode, mmu, shell, saved, trap, mmuState, asked>>

Fence ==
  /\ pc = "dropped"
  /\ tlb' = Empty
  /\ StartLoad("probe", "fenced")
  /\ UNCHANGED <<priv, mode, mmu, shell, saved, trap, satp, core, mem, asked>>

Restore ==
  /\ pc = "fenced"
  /\ core' = [core EXCEPT !["probe"] = saved]
  /\ pc' = "restoreflush"
  /\ UNCHANGED <<priv, mode, prog, trap, satp, mem, tlb, asked>>

RestoreFlush ==
  /\ pc = "restoreflush"
  /\ mem' = [mem EXCEPT !["probe"] = core["probe"]]
  /\ pc' = "restorefence"
  /\ UNCHANGED <<priv, mode, prog, trap, satp, core, tlb, asked>>

\* Bug: the invalid PTE may stay in the TLB.
RestoreNoFence ==
  /\ pc = "restorefence"
  /\ pc' = "prompt"
  /\ UNCHANGED <<priv, mode, prog, trap, mmuState, asked>>

RestoreFence ==
  /\ pc = "restorefence"
  /\ tlb' = Empty
  /\ pc' = "prompt"
  /\ UNCHANGED <<priv, mode, prog, trap, satp, core, mem, asked>>

-----------------------------------------------------------------------------
Program ==
  \/ Start \/ Setup \/ EnterM \/ Boot
  \/ MmuOn \/ Zero \/ Map \/ Flush \/ SetSatp \/ MmuIsOn
  \/ Shell \/ SwitchDown \/ Enter \/ SwitchUp \/ MmuOff \/ AskMmuOff
  \/ HandleEnterM \/ HandleSwitch \/ HandleExpected \/ HandleUnexpected
  \/ Load \/ Loaded \/ Report
  \/ Test("probe", "mapped") \/ Test("hole", "unmapped") \/ Test("probe", "warm")
  \/ Drop \/ DropFlush \/ Fence \/ Restore \/ RestoreFlush \/ RestoreFence

Caches == \E p \in Page : WriteBack(p) \/ Fill(p) \/ Evict(p)

Next == Program \/ Caches \/ Reset \/ Restart

Spec == Init /\ [][Next]_vars

-----------------------------------------------------------------------------
(* Properties. *)

\* Every variable keeps its type.
TypeOK ==
  /\ pc \in {"start", "setup", "force", "boot", "zero", "map", "flush", "satp", "on",
             "shell", "prompt", "enter", "handler", "load", "loaded", "mapped",
             "unmapped", "warm", "dropflush", "dropped", "fenced", "restoreflush",
             "restorefence", "lost"}
  /\ priv \in Level /\ mode \in Level /\ shell \in Level /\ asked \in Level
  /\ mmu \in BOOLEAN /\ expect \in BOOLEAN /\ satp \in BOOLEAN
  /\ load \in [page : Page, next : {"mapped", "unmapped", "warm", "dropped", "fenced"}]
  /\ saved \in Pte \cup {"none"}
  /\ seen \in [saw : BOOLEAN, cause : {0, 2, 9, 11, 13}]
  /\ trap \in [cause : {0, 2, 9, 11, 13}, mpp : Level,
               req : {"none", "enter_m", "M", "mmu_off"},
               next : {"force", "boot", "prompt", "loaded"}]
  /\ core \in [Page -> Pte] /\ mem \in [Page -> Pte]
  /\ tlb \in [Page -> Pte \cup {"none"}]

\* The prompt names the level of the hart, the one the user asked for, through
\* switches with the MMU on or off and restarts in S.
PromptIsTrue ==
  pc \in {"prompt", "load", "loaded", "mapped", "unmapped", "warm", "fenced"} =>
    priv = mode /\ shell = mode /\ asked = mode

\* Every test gives what the lesson expects, whatever the caches do: the mapped
\* page loads, the unmapped one faults with 13, and after the sfence.vma a load
\* through the dropped PTE always faults.
VerdictsPass ==
  /\ pc \in {"mapped", "warm"} => ~seen.saw
  /\ pc \in {"unmapped", "fenced"} => seen.saw /\ seen.cause = 13

\* When the prompt says mmu, satp is on, the walker's tables are the program's,
\* whole, and no TLB entry is stale.
Coherent ==
  pc = "prompt" /\ mmu =>
    /\ satp
    /\ core = Built /\ mem = Built
    /\ \A p \in Page : tlb[p] \in {"none", Built[p]}

\* With the MMU on a hart in S can always fetch its code.
LowerRuns == priv = "S" /\ mmu => satp /\ Entry("image") = "valid"

=============================================================================
