------------------------------- MODULE CacheTag -------------------------------
(***************************************************************************)
(* Lessons 01, 03 and 07 from J-Link's load to their menus: start.S, the   *)
(* echo of 01, the traps of 03, and the cache tag dump of 07.              *)
(***************************************************************************)
EXTENDS TrapSkip

CONSTANTS
  probe_line,     \* the word that 07 touches; it has a line of its own
  icache_target,  \* the line of the function that 07 calls
  Stack           \* the lines of the stack

ProbeLine == LineOf(probe_line)

ASSUME TagAssumption ==
  /\ probe_line \in Bss /\ LineOf(trap_skip_insn) # ProbeLine
  /\ icache_target \in Code
  /\ Stack \subseteq Used
  /\ \A w \in Data \cup Bss \cup Rom : LineOf(w) \in Used \ Stack
  /\ {"magic", "junk"} \subseteq Val

\* MCINDEX takes the bits of the address below 2^17: the number of sets divides what
\* they can name.
ASSUME IndexAssumption == 2048 % L1_SETS = 0

VARIABLES
  diag,  \* whether the core has the diagnostic CSRs
  dump   \* the dump that runs: its test, cache, line, next way, and the ways marked

vars == <<l1, pc, startup, test, dump, diag>>

NoDump == [key |-> "none", side |-> "D", line |-> 0, way |-> 0, hits |-> {}]

-----------------------------------------------------------------------------
(* MCINDEX, MCDATA0 and their decoding. *)

Rid == [I |-> 0, D |-> 2]
Address(l) == 64 * l

mk_mcindex(rid, way, addr) ==
  rid * 2^28 + (way % 16) * (2^21 + 2^17) + (addr % 2^17)

\* What the core may read from the tag array: V, D and the page of the line.  A way
\* that is not valid keeps the tag of any line.
TagWords(idx) ==
  LET side == IF idx \div 2^28 = Rid["D"] THEN "D" ELSE "I"
      way == (idx \div 2^17) % 16
      lines == held[side][(idx \div 64) % L1_SETS][way]
  IN IF lines = {}
     THEN {4096 * (l \div PAGE) : l \in Line}
     ELSE {1 + (IF side = "D" /\ l \in dirty THEN 4 ELSE 0) + 4096 * (l \div PAGE) : l \in lines}

tag_valid(d0) == d0 % 2
tag_pa(d0) == d0 \div 4096

\* Bug: V is not looked at.
MarkedInvalid(d0, l) == tag_pa(d0) = l \div PAGE

\* print_way marks a way of the same 4 KiB.  Its second test, for the same line,
\* implies the first and is never reached.
Marked(d0, l) == tag_valid(d0) = 1 /\ tag_pa(d0) = l \div PAGE

-----------------------------------------------------------------------------
(* J-Link, and what goes on beside the steps that are modelled. *)

Init ==
  /\ image \in Image
  /\ mem = [w \in Word |-> IF w \in Rom THEN image ELSE "junk"]
  /\ core = mem
  /\ held = [c \in Side |-> NoLines]
  /\ dirty = {}
  /\ on = FALSE /\ cold = TRUE
  /\ pc = "start" /\ ptr = 0 /\ t0 = "zero" /\ loads = 0
  /\ code = << >> /\ mepc = 1 /\ then = "prompt"
  /\ dump = NoDump /\ diag \in BOOLEAN

Load ==
  /\ \E i \in Image : Reset(i) \/ Reload(i)
  /\ code' = << >> /\ mepc' = 1 /\ then' = "prompt"
  /\ dump' = NoDump

\* Calls, printing and the trap frame use the stack and the text, at any step.  No
\* word of the stack is looked at, so a store to it is an access like a load.
StackAndText ==
  /\ pc # "start"
  /\ \/ \E l \in Stack : LoadLine(l)
     \/ \E l \in Code \ {icache_target} : FetchLine(l)
  /\ UNCHANGED <<pc, startup, test, dump>>

SomeWriteBack ==
  /\ \E l \in dirty : WriteBack(l)
  /\ UNCHANGED <<pc, startup, test, dump>>

-----------------------------------------------------------------------------
(* The menus.  The echo of 01 touches nothing but the UART. *)

\* Lesson 01 has no handler.
Main ==
  /\ pc = "main" /\ image = "01"
  /\ pc' = "prompt"
  /\ UNCHANGED <<l1, startup, test, dump>>

TrapInit ==
  /\ image # "01"
  /\ trap_init
  /\ UNCHANGED dump

TestKey ==
  /\ pc = "prompt" /\ image = "03"
  /\ \E t \in Tests : Run(t, "prompt")
  /\ UNCHANGED <<l1, startup, dump>>

\* Keys 1, 2, f and s of lesson 07.
Key(key, side, line, next) ==
  /\ pc = "prompt" /\ image = "07"
  /\ dump' = [key |-> key, side |-> side, line |-> line, way |-> 0, hits |-> {}]
  /\ pc' = next
  /\ UNCHANGED <<l1, startup, test>>

DumpKey ==
  \/ Key("1", "D", ProbeLine, "touch")
  \/ Key("2", "I", icache_target, "call")
  \/ Key("f", "D", ProbeLine, "touch")
  \/ Key("s", "D", 0, "dump")

\* The store brings the line in, and the load that follows finds it.
touch_probe ==
  /\ pc = "touch"
  /\ StoreWord(probe_line, "magic")
  /\ pc' = IF dump.key = "f" THEN "ciall" ELSE "dump"
  /\ UNCHANGED <<startup, test, dump>>

\* At -O2 the compiler may put a copy of the function in place of the call.
CallTarget ==
  /\ pc = "call"
  /\ FetchLine(icache_target) \/ UNCHANGED l1
  /\ pc' = "dump"
  /\ UNCHANGED <<startup, test, dump>>

\* thead_flush_caches: clean and invalidate, invalidate the I-cache, and invalidate
\* the D-cache again.
FlushStep(at, next) ==
  /\ pc = at
  /\ pc' = next
  /\ UNCHANGED <<startup, test, dump>>

thead_flush_caches ==
  \/ FlushStep("ciall", "iall") /\ CleanInvalidate
  \/ FlushStep("iall", "invalid") /\ InvalidateI
  \/ FlushStep("invalid", "dump") /\ Invalidate

-----------------------------------------------------------------------------
(* dump_set and test_dcache_scan_valid. *)

Csr == Long({~diag})

\* cache_diag_read: two writes and two reads of CSRs, which trap where the core has
\* no such CSRs.
ReadWay ==
  /\ pc = "dump" /\ dump.way < L1_WAYS
  /\ Run(Csr \o Csr \o Csr \o Csr, "tag")
  /\ UNCHANGED <<l1, startup, dump>>

\* A read that was skipped leaves anything in the register.  The scan marks nothing.
PrintWay ==
  /\ pc = "tag"
  /\ \E d0 \in IF diag THEN TagWords(mk_mcindex(Rid[dump.side], dump.way, Address(dump.line)))
                       ELSE {0, 1 + 4096 * (dump.line \div PAGE)} :
       dump' = [dump EXCEPT !.way = @ + 1,
                            !.hits = IF dump.key # "s" /\ Marked(d0, dump.line)
                                     THEN @ \cup {dump.way} ELSE @]
  /\ pc' = "dump"
  /\ UNCHANGED <<l1, startup, test>>

NextSet ==
  /\ pc = "dump" /\ dump.way = L1_WAYS
  /\ dump.key = "s" /\ dump.line + 1 < L1_SETS
  /\ dump' = [dump EXCEPT !.line = @ + 1, !.way = 0]
  /\ UNCHANGED <<l1, pc, startup, test>>

DumpDone ==
  /\ pc = "dump" /\ dump.way = L1_WAYS
  /\ dump.key = "s" => dump.line + 1 = L1_SETS
  /\ pc' = "expect"
  /\ UNCHANGED <<l1, startup, test, dump>>

\* "expect: one way V=1, pa~ probe (or same 4K)", and its likes.
Expect ==
  /\ pc = "expect"
  /\ dump' = NoDump
  /\ pc' = "prompt"
  /\ UNCHANGED <<l1, startup, test>>

-----------------------------------------------------------------------------
Program ==
  \/ (Boot \/ Trap) /\ UNCHANGED dump /\ (Boot => UNCHANGED test)
  \/ Main \/ TrapInit
  \/ touch_probe \/ CallTarget \/ thead_flush_caches
  \/ ReadWay \/ PrintWay \/ NextSet \/ DumpDone \/ Expect

User == TestKey \/ DumpKey \/ Load

Next == (Program \/ User \/ StackAndText \/ SomeWriteBack) /\ UNCHANGED diag

Spec == Init /\ [][Next]_vars

\* The hart goes on; the user, the caches and the stack need not.
FairSpec == Spec /\ WF_vars(Program /\ UNCHANGED diag)

-----------------------------------------------------------------------------
(* Properties. *)

Starting == {"start", "copy", "copystore", "clear", "mcor", "mhcr"}

TypeOK ==
  /\ mem \in [Word -> Val] /\ core \in [Word -> Val]
  /\ held \in [Side -> [Set -> [Way -> SUBSET Line]]]
  /\ dirty \subseteq Line /\ on \in BOOLEAN
  /\ pc \in Starting \cup {"main", "prompt", "run", "trap", "halt", "touch", "call", "ciall",
                          "iall", "invalid", "dump", "tag", "expect"}
  /\ image \in Image /\ ptr \in Nat /\ t0 \in Val /\ cold \in BOOLEAN /\ loads \in 0..MaxLoads
  /\ code \in Seq([low : 0..3, traps : SUBSET BOOLEAN])
  /\ mepc \in Nat /\ then \in {"prompt", "tag"}
  /\ diag \in BOOLEAN
  /\ dump \in [key : {"none", "1", "2", "f", "s"}, side : Side, line : Nat,
               way : 0..L1_WAYS, hits : SUBSET Way]

\* A lesson that was started with the caches off, and its variables.
Up == cold /\ pc \notin Starting
View == [w \in Data \cup Bss |-> Seen(w)]

Plain == INSTANCE PlainMemory WITH
  Fresh <- [i \in Image |-> [w \in Data \cup Bss |-> IF w \in Data THEN i ELSE "zero"]],
  Stores <- {<<trap_skip_insn, "one">>, <<probe_line, "magic">>},
  up <- Up,
  view <- View

\* After a start with the caches off the variables are what the image and C say,
\* whatever memory and the caches held, and from then on only the program's stores
\* change them: no flush, eviction or write-back does.
MemorySpec == Plain!Spec

\* The dump finds the touched line in exactly one way, although the ways are read one
\* after the other with other accesses between them, the called one in at most one,
\* and the flushed one in none.
DumpTells ==
  pc = "expect" /\ diag =>
    /\ dump.key = "1" => Cardinality(dump.hits) = 1
    /\ dump.key = "2" => Cardinality(dump.hits) <= 1
    /\ dump.key = "f" => dump.hits = {}

\* The menu comes back after every start and every key, through every trap and
\* where the core has no diagnostic CSRs.
KeyAnswered == []<>(pc = "prompt")

=============================================================================
