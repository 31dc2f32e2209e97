-------------------------------- MODULE Startup --------------------------------
(***************************************************************************)
(* start.S of the lessons for one hart (01, 03, 07 and, with the same      *)
(* text, 04 to 09): the D-cache is invalidated, .data copied, .bss         *)
(* cleared, and the caches are invalidated and enabled by thead_cpu_init,  *)
(* word by word, with write-backs between any two steps.  The image is     *)
(* loaded by J-Link, with a reset or without.                              *)
(***************************************************************************)
EXTENDS L1

CONSTANTS
  __data_load_start, __data_start, __data_end, _bss_start, _bss_end,
  Image,     \* the lessons; also what the words of their .data hold
  MaxLoads   \* bound on the loads

\* linker.ld: .data is loaded behind the code and runs in RAM, with .bss behind it.
\* A word that is .bss in part counts as .bss: .bss is padded to 16 bytes.
ASSUME LayoutAssumption ==
  /\ {__data_load_start, __data_start, __data_end, _bss_start, _bss_end} \subseteq Nat
  /\ __data_start <= __data_end /\ __data_end <= _bss_start /\ _bss_start <= _bss_end
  /\ __data_load_start + (__data_end - __data_start) <= __data_start
  /\ _bss_end <= LINES * L1_LINE
  /\ MaxLoads \in Nat
  /\ Image \cup {"zero"} \subseteq Val

VARIABLES
  pc,     \* the next step
  image,  \* the lesson loaded last
  ptr,    \* words of the loop done
  t0,     \* the register: the word being copied, or zero
  cold,   \* the caches were off at _start
  loads   \* bound

startup == <<image, ptr, t0, cold, loads>>

DataSize == __data_end - __data_start
BssSize == _bss_end - _bss_start

Data == __data_start..(__data_end - 1)
Bss == _bss_start..(_bss_end - 1)
Rom == __data_load_start..(__data_load_start + DataSize - 1)

-----------------------------------------------------------------------------
(* J-Link writes the image to memory and sets the pc.  A reset turns the   *)
(* caches off and empties them; without one they stay as they are, with    *)
(* the lines of the lesson before.                                         *)

Loaded(i) == [w \in Word |-> IF w \in Rom THEN i ELSE mem[w]]

ToStart(i) ==
  /\ loads < MaxLoads
  /\ loads' = loads + 1
  /\ image' = i
  /\ pc' = "start"
  /\ mem' = Loaded(i)
  /\ UNCHANGED <<ptr, t0>>

Reset(i) ==
  /\ ToStart(i)
  /\ core' = mem'
  /\ held' = [c \in Side |-> NoLines]
  /\ dirty' = {}
  /\ on' = FALSE
  /\ cold' = TRUE

Reload(i) ==
  /\ ToStart(i)
  /\ core' = [w \in Word |-> IF w \in Rom /\ ~Held("D", LineOf(w)) THEN i ELSE core[w]]
  /\ cold' = ~on
  /\ UNCHANGED <<held, dirty, on>>

-----------------------------------------------------------------------------
(* _start. *)

\* fence.i, csrrw CSR_INVALID_DCACHE, and the registers cleared.
Start ==
  /\ pc = "start"
  /\ held' = [c \in Side |-> NoLines]
  /\ core' = mem
  /\ dirty' = {}
  /\ ptr' = 0
  /\ t0' = "zero"
  /\ pc' = "copy"
  /\ UNCHANGED <<mem, on, image, cold, loads>>

\* lw t0 from the image, sw t0 to RAM.
CopyLoad ==
  /\ pc = "copy" /\ ptr < DataSize
  /\ LoadLine(LineOf(__data_load_start + ptr))
  /\ t0' = Seen(__data_load_start + ptr)
  /\ pc' = "copystore"
  /\ UNCHANGED <<image, ptr, cold, loads>>

CopyStore ==
  /\ pc = "copystore"
  /\ StoreWord(__data_start + ptr, t0)
  /\ t0' = "zero"
  /\ ptr' = ptr + 1
  /\ pc' = "copy"
  /\ UNCHANGED <<image, cold, loads>>

CopyDone ==
  /\ pc = "copy" /\ ptr >= DataSize
  /\ ptr' = 0
  /\ pc' = "clear"
  /\ UNCHANGED <<l1, image, t0, cold, loads>>

ClearWord ==
  /\ pc = "clear" /\ ptr < BssSize
  /\ StoreWord(_bss_start + ptr, "zero")
  /\ ptr' = ptr + 1
  /\ UNCHANGED <<pc, image, t0, cold, loads>>

ClearDone ==
  /\ pc = "clear" /\ ptr >= BssSize
  /\ ptr' = 0
  /\ pc' = "mcor"
  /\ UNCHANGED <<l1, image, t0, cold, loads>>

\* thead_cpu_init: mcor, then mhcr.
Mcor ==
  /\ pc = "mcor"
  /\ InvalidateBoth
  /\ pc' = "mhcr"
  /\ UNCHANGED startup

Mhcr ==
  /\ pc = "mhcr"
  /\ Enable
  /\ pc' = "main"
  /\ UNCHANGED startup

Boot == Start \/ CopyLoad \/ CopyStore \/ CopyDone \/ ClearWord \/ ClearDone \/ Mcor \/ Mhcr

=============================================================================
