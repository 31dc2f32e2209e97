---------------------------------- MODULE L1 ----------------------------------
(***************************************************************************)
(* The two L1 caches of a C908 hart and the memory behind them, as the     *)
(* start-up code and cache.S of every lesson use them.  Memory is words in *)
(* lines; core[w] is the word a load finds with the cache on, mem[w] the   *)
(* word in memory, and a line that is not held has the same in both.       *)
(***************************************************************************)
EXTENDS Naturals, FiniteSets

CONSTANTS
  LINES,     \* lines of memory that are looked at
  L1_LINE,   \* words in a line
  L1_SETS,
  L1_WAYS,
  PAGE,      \* lines in 4 KiB
  Used,      \* the lines the program loads or stores
  Code,      \* the lines the program executes
  Val        \* what a word may hold

ASSUME L1Assumption ==
  /\ LINES \in Nat /\ L1_LINE \in Nat \ {0} /\ L1_SETS \in Nat \ {0}
  /\ L1_WAYS \in 1..16 /\ PAGE \in 1..L1_SETS
  /\ Used \subseteq 0..(LINES - 1) /\ Code \subseteq 0..(LINES - 1)

\* An image with its data and stack is smaller than an L1 cache: no set has to
\* hold more lines than it has ways.
ASSUME FitAssumption ==
  \A s \in 0..(L1_SETS - 1), used \in {Used, Code} :
    Cardinality({l \in used : l % L1_SETS = s}) <= L1_WAYS

VARIABLES
  mem,    \* the words in memory
  core,   \* the words as a load finds them
  held,   \* held[c][set][way]: {} or the line in that way of cache c
  dirty,  \* lines of the D-cache that memory does not have
  on      \* mhcr: both caches are enabled

l1 == <<mem, core, held, dirty, on>>

Line == 0..(LINES - 1)
Word == 0..(LINES * L1_LINE - 1)
Way == 0..(L1_WAYS - 1)
Set == 0..(L1_SETS - 1)
Side == {"I", "D"}

LineOf(w) == w \div L1_LINE
SetOf(l) == l % L1_SETS

NoLines == [s \in Set |-> [w \in Way |-> {}]]
Held(c, l) == \E w \in Way : held[c][SetOf(l)][w] = {l}

-----------------------------------------------------------------------------
(* Accesses. *)

Seen(w) == IF on THEN core[w] ELSE mem[w]

\* An access brings the line into a free way of its set.
Bring(c, l) ==
  IF ~on \/ Held(c, l) THEN UNCHANGED held
  ELSE \E w \in Way :
         /\ held[c][SetOf(l)][w] = {}
         /\ held' = [held EXCEPT ![c][SetOf(l)][w] = {l}]

LoadLine(l) == Bring("D", l) /\ UNCHANGED <<mem, core, dirty, on>>

FetchLine(l) == Bring("I", l) /\ UNCHANGED <<mem, core, dirty, on>>

\* Write-back and write-allocate.  With the cache off a store goes to memory, and
\* a word that is not held is not apart from it.
StoreWord(w, v) ==
  /\ Bring("D", LineOf(w))
  /\ core' = IF on \/ ~Held("D", LineOf(w)) THEN [core EXCEPT ![w] = v] ELSE core
  /\ mem' = IF on THEN mem ELSE [mem EXCEPT ![w] = v]
  /\ dirty' = IF on THEN dirty \cup {LineOf(w)} ELSE dirty
  /\ UNCHANGED on

\* The words of these lines are in memory as they are in the cache.
Cleaned(lines) == [w \in Word |-> IF LineOf(w) \in lines THEN core[w] ELSE mem[w]]

WriteBack(l) ==
  /\ l \in dirty
  /\ mem' = Cleaned({l})
  /\ dirty' = dirty \ {l}
  /\ UNCHANGED <<core, held, on>>

-----------------------------------------------------------------------------
(* cache.S. *)

\* Invalidation of the D-cache forgets its dirty lines.
Invalidate ==
  /\ held' = [held EXCEPT !["D"] = NoLines]
  /\ core' = mem
  /\ dirty' = {}
  /\ UNCHANGED <<mem, on>>

\* dcache.ciall
CleanInvalidate ==
  /\ mem' = Cleaned(dirty)
  /\ core' = mem'
  /\ held' = [held EXCEPT !["D"] = NoLines]
  /\ dirty' = {}
  /\ UNCHANGED on

\* icache.iall
InvalidateI ==
  /\ held' = [held EXCEPT !["I"] = NoLines]
  /\ UNCHANGED <<mem, core, dirty, on>>

\* mcor = 0x70013: both caches are invalidated, and nothing is written back.
InvalidateBoth ==
  /\ held' = [c \in Side |-> NoLines]
  /\ core' = mem
  /\ dirty' = {}
  /\ UNCHANGED <<mem, on>>

\* mhcr = 0x11ff
Enable == on' = TRUE /\ UNCHANGED <<mem, core, held, dirty>>

=============================================================================
