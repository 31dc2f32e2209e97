# BootSYS in TLA+

BootSYS is nine independent bare-metal lessons for the K230 (two RISC-V C908
harts), `src/01-base-boot` to `src/09-irq`. Each is a program of its own, without
an operating system: a main loop over a UART, and from lesson 02 on something
that runs beside it or behind its back — a second hart, a trap handler, an
interrupt. The modules here model those interactions, step by step, from the C
and assembly; the `.cfg` files check them with TLC on small instances, and the
`*Proofs` modules prove every safety property of the passing runs with TLAPS, for
every value of the constants.

## 1. Inventory

| Component | State it keeps | Operations | Interacts with |
|---|---|---|---|
| 01 base boot, and start-up of every lesson | the two L1 caches, `.data`, `.bss`; after start-up none | start.S invalidates the D-cache, copies `.data`, clears `.bss`; `thead_cpu_init` invalidates and enables the caches; main echoes | memory as J-Link and the lesson before left it, caches |
| 02 dual hart: CPU0 (`main.c`) | where it is in boot and menu | boot CPU1, menu: commands 1/2/3, IPI, clear, park, status | shared SRAM, CLINT MSIP, reset manager |
| 02 dual hart: CPU1 (`hart1_main.c`) | `mode`, MSIE | wait for the console, take a command, sleep / soft loop / run | shared SRAM, MSIP, UART |
| 02 shared block (`shmem.c`) | `alive state cmd wake_count ipi_seen console_ready` (+ `tick entry_pc seq`, never read) | one word at a time, no lock; survives a reload | both harts |
| 02 reset manager driver (`cpu1.c`) | `struct cpu1_boot_result` | power on, hold, set vector, clear done, assert, release; park | `CPU1_RST_CTL`, LPI, RSTVEC |
| 03 exceptions | `trap_skip_insn`, `mepc` | the handler prints, finds the length of the faulting instruction and resumes behind it | main's trigger keys, start-up (it clears `trap_skip_insn`) |
| 04 privilege | `g_cur_mode`, `trap_expect`, `trap_saw`, PMP opened once | a shell per level; enter S or U by `mret`, leave by `ecall`; tests that trap and are skipped | trap handler |
| 05 PMP | as 04, and `g_pmp_policy`, pmpcfg0, pmpaddr0–2 | write the table on or off, force M at start, test a read and a write | trap handler |
| 06 TLB | `g_cur_mode`, `g_mmu_on`, page tables, satp, the TLB | build the tables, MMU on and off, clear a PTE and load before and after `sfence.vma` | trap handler, data cache, page-table walker |
| 07 cache | `probe_line`, the L1 tags | touch a line, call a function or flush, then read tag RAM way by way through mcindex/mcdata, decode, print | caches, stack and text, trap handler where the CSRs are missing |
| 08 CLINT access (`clint.c`) | none | 64-bit `mtime` read, 64-bit `mtimecmp` write, by halves | the running counter |
| 08 stopwatch (`timer.c`, `main.c`, `trap.c`) | `g_ticks g_running g_cmp`, `mtimecmp`, `mie`, `last` | start, pause, reset, timer interrupt, redraw | main loop and handler on one hart |
| 09 UART interrupt (`uart_irq.c`, `plic.c`, `main.c`) | ring, `irq_count`, `irq_on`, IER, `mie`, PLIC source | on, off, handler, getc, redraw | main loop, handler, UART, PLIC |

What is hard in it:

* two harts that share words with no lock and no read-modify-write instruction,
  and a message protocol (`cmd`, MSIP, `console_ready`) that must survive every
  interleaving, a reset that does not take, and a reload of one hart while the
  other runs on;
* interrupts between any two instructions of the main loop;
* a 64-bit counter that moves while it is read by halves;
* hardware that answers late or never, with polls that give up;
* state left over from before: SRAM that is not cleared, a pending interrupt, an
  old hart, the cache lines of the lesson that ran before;
* caches that fill, evict and write back at any step of a program that looks at them.

What makes each component correct:

* **01**: once started, a lesson finds the image in `.data` and zeros in `.bss`,
  whatever memory and the caches held, and from then on only its own stores change them.
* **02**: an IPI is counted at most once, and only if it was sent; the state word
  tells whether CPU1 sleeps; CPU1 keeps quiet until the console opens; nothing of
  an earlier boot is taken for this one's; CPU1 never waits for the console for ever.
* **02, reset**: CPU1 never starts from a vector that was not set; two good read-backs
  mean that CPU1 was stopped and let go, though not that it has power; the boot never hangs.
* **08**: a read is not torn; a half-written compare value raises no interrupt;
  no drift; never fast; a reset or paused clock stays so and is shown.
* **09**: the ring is a first-in first-out queue that drops only when full; a key
  is counted only in IRQ mode; the display is current; the line is served.
* **03**: every trap resumes behind the instruction that trapped, whatever its
  length, and the menu comes back.
* **04**: the prompt names the level the hart is at; each test traps exactly where
  the lesson's table says; a request to switch is heard; the stack does not grow;
  nothing runs below M before memory is opened to it.
* **05**: the policy shown is what the registers do; a restart at any level or in
  the middle of writing the table is recovered from; S and U can always run.
* **06**: the tests give what the lesson says whatever the TLB and the data cache
  do; no stale translation stays behind; a hart in S can fetch its code.
* **07**: the dump finds the touched line in exactly one way and the flushed line in
  none, although the ways are read one by one; a flush loses nothing; a core without
  the diagnostic CSRs answers too.

## 2. Modules

| Module | Models | Relation |
|---|---|---|
| `ResetLine` | what booting CPU1 promises: stopped first, then started, maybe neither | abstract |
| `Cpu1Boot` | `cpu1.c` register by register, and the reset and power managers | implements `ResetLine` (`LineSpec`) |
| `DualHart` | both harts of 02, the shared block, MSIP, the reset as CPU0 uses it | implements `ResetLine` (`LineSpec`) |
| `ClintTimer` | `clint.c` of 08, one 32-bit access at a time | `Stopwatch` takes its 64-bit accesses as whole because of it |
| `Stopwatch` | the main loop and the timer interrupt of 08 | uses `ClintTimer`'s result |
| `KeyQueue` | what the ring of 09 promises main: a bounded queue | abstract |
| `UartIrq` | both receive modes of 09, from the UART to the redraw | implements `KeyQueue` (`QueueSpec`) |
| `L1` | the L1 caches of a hart, and `cache.S` instruction by instruction | used by `Startup` |
| `Startup` | `start.S` and the linker script, and a load by J-Link with a reset or without | extends `L1` |
| `TrapSkip` | the traps and the tests of 03, the handler of 03 and 07 | extends `Startup` |
| `PlainMemory` | what start-up and caches promise a lesson: variables that only its stores change | abstract |
| `CacheTag` | 01, 03 and 07 from load to menu, with the tag dump of 07 | composes the three, implements `PlainMemory` (`MemorySpec`) |
| `Privilege` | lesson 04: shells, tests, switches, trap handler, restarts | on its own |
| `Pmp` | lesson 05: the same shells with the PMP table, NAPOT and both link addresses | on its own |
| `Tlb` | lesson 06: Sv39 with PTEs in data cache, memory and TLB | on its own |
| `DualHartProofs`, `Cpu1BootProofs`, `StopwatchProofs`, `UartIrqProofs`, `CacheTagProofs`, `PrivilegeProofs`, `PmpProofs`, `TlbProofs` | theorems | extend the module they are about; `StopwatchProofs` extends `ClintTimer` too |

### How state and actions correspond to the code

Variables have the names of the code's variables and registers. A `pc` (`pc0`,
`pc1`, `isr`) says where a hart is; its values name the next step. An action is
one access to something another actor can read or write, together with the local
computation that follows it; `Local`, `Local0` and `Local1` are the stretches that
access nothing shared, such as printing. An interrupt handler that runs with
interrupts off is one action (`Stopwatch!TimerIrq`), unless hardware moves while it
runs (`UartIrq`: the UART receives during the handler, so claim, each taken byte
and complete are separate).

* **DualHart.** `ShmemInit … PrintHelp` is `main` up to its loop, `Menu…` its
  keys, `Parked` the loop of `park_for_jlink`. `ShmemInit` is one store of `shmem_init` a
  step, since the CPU1 of before may write the block between any two. `Entry … RunDelay` is
  `_hart1_entry` and `hart1_main`; a counter increment is two actions, because
  `shmem_init` may run between. `HoldTakes` and `ReleaseTakes` are the reset
  manager's late answers: a release may take at any step after it was written, in the
  wait for alive, after "no shmem" or in the menu, until CPU0 parks. `Reload` is J-Link loading CPU0
  again: SRAM and CPU1 are left as they are; a download takes seconds, so a release that has not
  taken by then is taken to have failed. The block, MSIP and the counters start with anything.
  CPU1 has power in this module; that it may have none, or get it late, is in `Cpu1Boot`.
* **Cpu1Boot.** A register is the set of bits that read as 1. `RstWrite` is what a
  store does to a register with write-enable bits in the upper half and a
  write-1-to-clear bit. The power and reset managers are external: they are modelled from how
  the code uses them. Power comes at any step after its request or never, a written hold or
  release takes at any later step, whatever word wrote it, or never, and a CPU1 whose
  reset is already released starts the moment its power comes. What is open when the user
  parks or reloads, seconds later, has failed.
* **ClintTimer.** A 64-bit word is a pair of halves below `Base`.
* **Stopwatch.** `base` and `ticks0` are history: the value of `mtime` and `g_ticks`
  at the last start. The properties about drift are stated with them.
* **UartIrq.** `rbr` is the one byte the UART holds; a second overruns it. `gate` is
  source 16 in the PLIC: idle, pending, or claimed and not completed.
* **L1, Startup, TrapSkip, CacheTag.** Memory is words in lines. `core[w]` is the word a
  load finds, `mem[w]` the word in memory; a line of the D-cache that memory does not
  have is in `dirty`. A way holds a line or nothing, so the data words and the tags are one state.
  `Start … Mhcr` are `_start` and `thead_cpu_init`, one access each; `t0` is the
  register between the load and the store of the copy. `cold` is history: the caches were off when
  the lesson was started. A test of 03 is a sequence of halfwords with the two low
  bits the hart and `insn_len` look at; `mepc` is an index into it, and an index
  that is not the start of an instruction is a hart that went astray. `TagWords` is
  the tag array as the CSRs show it, and `mk_mcindex`, `tag_valid`, `tag_pa` are the
  program's view of it. `StackAndText` and `SomeWriteBack` go on beside every step.
* **Privilege, Pmp, Tlb.** `mode` is `g_cur_mode`, what the program believes; `priv` is
  where the hart is. `trap` holds what an ecall or fault leaves for the handler:
  `mcause`, `mstatus.MPP`, `a0` (the request) and the step after the skipped
  instruction. `expect` and `seen` are `trap_expect` and the `trap_*` results. A trap
  is two actions, the instruction and the handler, so that a restart falls between
  them. `Reload`, `Reset` and `Restart` are the probe starting the hart at `_start` at
  any step: with a reset the hart is in M, without one it stays in its level and
  keeps its CSRs, whose M-mode writes then trap and are skipped. `asked` is history:
  the level the user last asked for; `sound` in `Privilege` remembers that the hart was in M when
  it was last started. `lost` is a hart that has run past the end of its code.
* **Privilege.** `frames` counts the frames between `sp` and `_sp`.
* **Pmp.** Addresses are in words of 32 bits, as in `pmpaddr`. `Napot` encodes as the
  code does and `Match` decodes as the architecture does; `job` is the table being written, one
  CSR at a time. What the region holds is data and left out.
* **Tlb.** `core` is what the program's loads and stores see, `mem` what the walker
  may see, `tlb` what the TLB holds. `WriteBack`, `Fill` and `Evict` may happen at any
  step. A page is one of three classes: the image with its stack and UART, the
  probe page, and a page that is not mapped.

## 3. Runs

| Run | Bounds | What it shows |
|---|---|---|
| `dual` | 2 IPIs, 1 spurious resumption, 2 reloads, SRAM counters 0 or 3 | all safety and liveness properties of `DualHart`, and that it uses the reset line as `ResetLine` says, with releases that take as late as in the menu |
| `dual_command` | 1 IPI | **violation**: a command posted between CPU1's read of `cmd` and its clear is erased |
| `cpu1_boot` | 2 polls for power, 2 for the hold | `cpu1_boot` from a cold start and from reloads, with power, hold and release coming at any later step or never |
| `clint_timer` | halves below 3, high half up to 2 | torn reads and half-written compare values, with two carries |
| `stopwatch` | period 2, `mtime` up to 9 | every key and interrupt interleaving through four periods |
| `uart_irq` | ring of 3 (2 keys), 4 keys pressed | a full ring and a drop, wrap-around, every change of mode with keys arriving |
| `uart_stranded` | ring of 3, 2 keys | **violation**: a key received just before `uart_irq_off` masks the UART stays in the ring |
| `cache_tag` | 8 lines of 3 words, 2 sets of 2 ways, 2 words of `.data` and 2 of `.bss`, 2 lines of code, 3 lessons, 1 load after the first | start-up and menus of 01, 03 and 07, each started cold and over each other, with every fill and write-back in between |
| `privilege` | none: the module is finite | every order of keys, traps and restarts of lesson 04 |
| `pmp` | `Load = "sram"`; boundary words of each region and window | every order of switches, table writes and restarts of lesson 05 |
| `pmp_ddr` | `Load = "ddr"` | **violation**: the window that `pmp_enable` opens does not reach the RAM of the DDR build, so S and U cannot run |
| `tlb` | three classes of pages | every fill, eviction and write-back between the steps of lesson 06 |

Why the bounds are enough: each IPI, key and reload beyond the first matters only
by falling into the steps of an earlier one, so two of each (four keys, to fill a
ring, overflow it and go on) reach every pair of handlers; the counters are not
compared with constants, except for the polls' limits, which are constants of the
module, and the proofs hold for all of them. The violations are shortest
counterexamples and need no more than their bound. In `cache_tag` three words do not
divide evenly into the regions, so `.data` and `.bss` share a line with each other's
neighbours; two lines of each side compete for one set, the least in which a line
has to be told from another; and one load over each lesson, at any step, leaves every
dirty line the next start can meet. All runs check deadlock: the
programs never stop (`Parked` stutters as the code's `wfi` loop does).

`MaxKeys` also bounds how long the handler can keep main from running: on the
hardware a UART delivers a byte in about 87 µs and the handler needs a few.

## 4. Fairness

* `DualHart!FairSpec`: weak fairness of CPU0's own steps up to the menu and of
  CPU1's. Both harts execute instructions independently and nothing blocks them.
  Keys, reloads, spurious resumptions and the reset manager are not fair.
  `delay_ms` spins on `mcycle`, which is taken to count.
* `Cpu1Boot!FairSpec`: CPU0 only; the hardware may never answer.
* `Stopwatch!FairSpec`: main and the timer interrupt. Time is not fair: nothing
  depends on it passing.
* `UartIrq!FairSpec`: main, the handler, and the PLIC's forwarding of a line that is
  high. The user is not fair.
* `CacheTag!FairSpec`: the program's own steps (`Program`). The keys, loads, write-backs and
  the accesses to stack and text beside it are not fair, and none of them can keep
  the program from its next step.
* `Privilege`, `Pmp` and `Tlb` have safety properties only: each step of the one hart
  follows from the one before it, and nothing they promise depends on fairness.

## 5. Proofs

Each proof module has an inductive invariant `IInv`, which is also checked with TLC
before it is proved, lemmas that every step preserves it, and one
theorem per property. The constants are assumed to be what their `ASSUME`s say:
natural numbers, positive where zero makes no sense, the layout of the linker script
(`LayoutAssumption`), an image that fits the caches (`FitAssumption`), and for the tag dump
a number of sets that divides the 2048 that MCINDEX can name (`IndexAssumption`; the
code has 128).

* **DualHartProofs.** The counters alone are not inductive: what they will count
  is. `Budget` says that the wakes and the IPIs counted, those that CPU1 is about to
  count, and a pending MSIP are together no more than were sent or spurious. It counts
  from the last start of CPU0 that found CPU1 held: one that found it running may see a count of
  before stored back after `shmem_init` has cleared it, and only the longer count covers that.
  `BootOrder` ties CPU0's boot to where a new CPU1 can be, `Reported` and
  `Cleared` say what the words hold in between. `UsesResetLine` is the refinement
  of `ResetLine`: the initial states map to initial states, and each step to a
  step or a stutter.
* **Cpu1BootProofs.** `Writes` computes what the three words the code stores do to
  the register; the invariant says in which steps the reset holds, that a release is wanted only
  between `Deassert` and parking, since when the vector is set (`VectorSet`) and what CPU1 can be
  doing once a read-back was good (`ReadBacks`). `Refinement` is the other half of the composition.
  `BootIsBounded` counts what is `Left`: each action of CPU0 before the return leaves
  less, and no answer of the hardware changes it.
* **StopwatchProofs.** `Enabled` (the interrupt is enabled only while the clock runs,
  across the two stores that say so), `Rate` (the compare value is one period ahead
  of the ticks), `KeyPath` and `Display`. The second part is about the two CLINT
  accesses, which `Stopwatch` takes as whole. The module extends both, which is why the
  variables and the specification of `ClintTimer` have names of their own (`mtime64`,
  `ClintSpec`). `Bracketed` says that while the high half has not changed since it
  was read, the low half read is of the same carry.
* **UartIrqProofs.** The handler and main each own a part of the ring: the handler writes
  the slot at `ring_h` and main reads the one at `ring_t`, and `Filled` counts the slots
  between them modulo `RING_N`. The lemmas about that arithmetic carry `RingIsQueue`:
  a put appends to the sequence of waiting keys, `Advance` removes its head, and every
  other step of either leaves it. `Reading` is main between its test of the ring and the
  store of the tail. `Masked`, by which the interrupt comes only in IRQ mode because `uart_irq_off` masks
  it before it changes the mode, gives `CountsInIrqMode`; `Displayed` says that while
  `shown` is the present count the screen is what is to be drawn.
* **CacheTagProofs.** `Agree`: a line that is not dirty has the same words in memory and
  in the cache. `Off`: while the caches are off nothing is dirty or held, which is why `mcor`
  drops nothing after a cold start. `Progress` says what memory holds of `.data` and
  `.bss` at each step of a cold start, `Bounds` how far its loops can be, and `Placed` that
  the caches are on afterwards and nothing is dirty once the flush has cleaned. `StartIsPlain`
  maps the start to `Boot`, the two stores to `Store` and everything else to a
  stutter. It holds for every geometry and every layout of the linker script
  in `LayoutAssumption`.
  `DumpIsTrue` needs three more facts. `Tidy`: a way holds one line, of its set, and no
  line is in two ways; every access keeps it because it takes a free way for a line that
  is not held. `Aimed`: which line each key looks for, at every step of its way to the
  dump. `Marks`: the ways marked are those read so far that hold the line, although the
  ways are read one after the other: nothing between the reads touches the line, since
  `trap_skip_insn` and the stack lie in other lines and the called function in a line of its
  own. `IndexFields` takes apart what `mk_mcindex` packs, and `MarkedIs` shows that the
  test of `print_way`, V and the 4 KiB page, is the test for the line: two lines of one set
  in one page are the same (`SameLine`), because a way is not smaller than a page.
  `AccessesFit` turns `FitAssumption`, which counts lines, into what the model needs:
  were all ways of a set taken by other lines (`Fits`, `Tidy`), the set would have one
  line more than the assumption allows (`RoomLeft`, by the pigeonhole principle).
  `TrapsResume` is about the handler: `AtInsn`, mepc is at an instruction and not
  in the middle of one, since `insn_len` and the hart tell its length by the same two bits,
  and `Ready`, the handler finds `trap_skip_insn` set. `StartIsBounded` counts the steps of
  `start.S` that are left.
* **TlbProofs.** `Tables`: with the MMU on the tables of the image are in cache and memory as
  built, and the TLB holds nothing else. `Probe` follows the one entry that
  `test_tlb_stale` changes, from the drop through the fence to the restore. `Placed`
  and `Carried` are where the hart is and what a trap carries.
* **PmpProofs.** `NapotIsRegion` is about the code's arithmetic alone: the address that
  `pmpaddr_napot` computes matches the words of its region and no others, for every
  region from 8 bytes to 4 GiB that is a power of two in size and aligned to it.
  `Max` of the trailing ones is found through two lemmas on what such an address is modulo each power of two. `Regions`
  applies it to the three entries, and `TablePermits` adds the priority of the lowest match:
  what S and U may do is what the table says, for each of the 2^31 words, not
  only for the boundary words of the runs (`PolicyHoldsEverywhere`). The invariant says what is
  in the registers: `Registers`, a whole table whenever S or U may run, and the one of
  the policy at the shells; `Writing`, the old table is off before the first address
  changes; `InHandler`, the four traps that can occur; `Placed`, `Expecting` and `Judged` as in
  `Privilege`. `LowerAlwaysRuns` has the hypothesis `Load = "sram"`, for the DDR build
  violates it; `LowerKeepsProgram` holds of both: a hart in S or U always has the window that
  `pmp_enable` opens, but for the region, and the UART.
* **PrivilegeProofs.** `Stack` gives the frames at each step, `Expecting` says that
  `trap_expect` is set exactly around the instruction under test, `Opened` that PMP
  is open after the boot, `Placed` where the hart is, in the handler by what the
  trap saved, and `Judged` that what a test has seen agrees with what it expects.
  `Privilege` is finite, so TLC's run is complete too, except for `frames`, a
  natural number that the proof bounds; the proof adds the reason. `RequestsHeard`
  and `OpenWhenNeeded` hold for restarts below M too and are proved without a run.

Only model-checked: the liveness properties, `ConsoleOpens`, `CommandTaken`, `IpiConsumed`,
`BootReturns`, `TickServed`, `ByteTaken`, `RingServed` and `KeyAnswered`. They
rest on fairness and on when an action is enabled, which is beyond the prover. What the
code adds to two of them is proved: `BootIsBounded` for `BootReturns`, and for
`KeyAnswered` `StartIsBounded`, `AccessesFit` and `TrapsResume`, that the start-up is bounded,
no access waits and no trap is fatal.
Every other property of a passing run is a theorem; the type invariants are theorems
only, and no run of their own. `PmpProofs` computes with
powers of two up to 2^30 only, the largest that `pmpaddr_napot` meets, so it needs no
induction.

## 6. Where the code and its documents differ

The violation runs above are three places where the code does not do what its
documents or comments say; `PROJECT.json` quotes them. Seen while modelling, and
not given a run:

* `hart1_main.c:80` publishes WFI_SLEEP, prints a line, and `:82` then clears MSIP before
  `wfi`. An IPI sent in that stretch is erased and CPU1 sleeps on, although
  `K230_DUAL_CORE_CN.md:241` recommends the IPI to wake a hart that runs. CPU0 waits for
  no answer, so the key has to be pressed again. `IpiConsumed` begins when CPU1 is in `wfi`.
* `cpu1.c:25` to `:32` goes on when CPU1 gets no power, and `report_boot_result` looks at the
  two read-backs of the reset bit only: it prints no failure. The user is told by
  "cpu1: no shmem". `ReadBacksVouch` says what the silence is worth.
* After "cpu1: no shmem" CPU0 opens the console and serves its menu. A CPU1 that starts after
  the 800 ms then runs and obeys, and nothing corrects the message; only key `s` shows it.
* After a reload that finds CPU1 running, CPU1 may store a count it read before
  `shmem_init` cleared it (`shmem.c:79`): the status of the new boot starts with that count.
  `NoPhantomIpi` bounds it by IPIs that were sent.
* `thead_cpu_init` (`cache.S:41`, the same in every lesson) writes `mcor = 0x70013`: it invalidates the
  D-cache without cleaning it, and `start.S` calls it after it has written `.data` and
  `.bss`. With the caches off at `_start` nothing is lost, and `MemorySpec` is proved
  for that. A load by J-Link without a reset (`05-pmp/src/main.c:241` expects one) comes with
  the D-cache on, and the words that are still dirty at `mcor` fall back to what
  memory held before. `MemorySpec` without `cold` fails on that. In 04 to 06 the `Start` actions
  leave `g_cur_mode` and `g_pmp_policy` with any value after a start in M; what a test reads
  is stored again first. `trap_expect` and `trap_saw` are safe, as `trap_init` stores them after
  `mcor`. `g_mmu_on` of 06 is not: were its zero lost, tests would run with the MMU off.
* `cache_tag.c:106` ("match line") is never reached: a way with the same line has the
  same 4 KiB, which `:104` tests first.
* `cache_tag.c:161`: nothing keeps the compiler from inlining `icache_target` at `-O2`. Key `2` then
  dumps the set of a function that was not called, and the one way that `:173`
  expects need not be there. `DumpTells` promises at most one.
* `hart1_main.c:62` says that CPU1 holds the UART until CPU0 has finished its menu;
  `main.c:131` opens the console before the menu. `QuietUntilReady` is what holds.
* `K230_DUAL_CORE_CN.md:186` says the delays do not depend on `mcycle`;
  `hart1_main.c:32` does, and where `mcycle` stands still CPU1 never prints.
* `K230_DUAL_CORE_CN.md:123` says that the boot waits for done; `cpu1.c:94` does not.
* `cpu1.c:77` records whether the hold took, and nothing looks at it.
* `08-timer/src/main.c:95` draws `g_ticks` and then reads it again to remember what it
  drew: a tick between the two reads is shown one period late. Harmless.
* Lesson 04, restarted in S or U without a reset: the writes of `trap_init` and
  `pmp_allow_all` are skipped, and the shell shows `[M]` although the hart is below
  M. `PromptIsTrue` is therefore stated for harts started in M. Lessons 05 and 06 call
  `priv_force_m` first and keep it without that condition.
* Lesson 06, restarted without a reset: `satp` keeps Sv39 while "satp bare." is printed
  and `g_mmu_on` is 0, because this lesson's `priv_enter` does not clear `satp`. If the
  restart fell into `pgtbl_init`, after the tables were zeroed, key `s` then enters a
  shell that cannot be fetched. `Coherent` and `LowerRuns` speak of `g_mmu_on` set.

## 7. Not modelled, and why

* **UART output** and formatting: only text. Two harts write to one UART with no
  lock, so their lines may mix.
* **Caches of two harts.** The shared block of 02 is accessed with fences and flushes;
  memory is sequentially consistent in `DualHart` and in the models of 04, 05, 08 and 09.
* **What `L1` takes for granted.** The image with its data and stack fits the caches, so no set has to
  replace a line that is in use (`FitAssumption`); the prefetcher does not
  bring the probe line back after a flush; J-Link writes the image to memory behind the
  caches, and the lines of the image are never dirty. The effects of mcor, of CSR 0x5c1 and of the
  cache instructions, and the layout of a tag word, are the C908's, modelled from
  how the code uses them. `thead_cache_off` (02, before parking) is left out.
* **Start-up of a reload with interrupts on** (`start.S` does not clear `mstatus.MIE`
  or `mie`): what a probe leaves in CSRs is not in the code. The models start with
  interrupts off.
* **A reload inside the handler of 09** would leave the PLIC source claimed.
* **Other PLIC sources** (09): `plic_enable` adds one bit to the enables it finds, and they are
  taken to be clear. Of the branches of `uart_irq_on_mei` only the one for source 16 is modelled.
* **`g_mmu_on` after a restart of 06** in M, without a reset and with the D-cache on: `Tlb!Start` takes
  its clear to be effective (section 6).
* **Interrupts in 04 to 06.** These lessons enable none.
* **Hazards without a property.** `PROJECT.json` lists some with a note in place of one, because the code
  does go wrong there or the hardware decides: an IPI sent just before `wfi`, `mcycle` standing
  still, start-up with interrupts on, a PLIC claim left open, `mcor` after a warm load, lesson
  04 restarted below M, and lesson 06 restarted with satp set. Section 6 describes them.
* **MAEE and the attributes of pages** (06): taken as `mmu_on` sets them.

## 8. Plan

In order: (1) `DualHart` with `Cpu1Boot` and `ResetLine`; (2) `ClintTimer`,
`Stopwatch`; (3) `UartIrq`, `KeyQueue`; (4) `Privilege`, `Pmp`,
`Tlb`, in the order in which the lessons build on each other; (5) `L1`, `Startup`, `TrapSkip`,
`CacheTag` with `PlainMemory`, for 01, 03 and 07; (6) proofs of `UartIrq`, `Tlb`, `CacheTag`
and `Pmp`. All of these are done, and every safety property of the passing runs is proved. What is
left, in order:

1. A load of 08 or 09 with interrupts on, and one between claim and complete of 09.
2. `Startup` under the other lessons, in place of their `Start` actions, `g_mmu_on` first.
3. `Stopwatch` over `ClintTimer` as one module, with a refinement in place of the argument that
   the 64-bit accesses are whole.
