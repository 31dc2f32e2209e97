------------------------------- MODULE TlbProofs -------------------------------
(***************************************************************************)
(* Theorems about Tlb, for every history of keys, traps, restarts and of   *)
(* what the data cache, the page-table walker and the TLB do beside.       *)
(***************************************************************************)
EXTENDS Tlb, TLAPS

\* Where the tables are not in use: a start, and pgtbl_init up to w_satp.
Building == {"start", "map", "flush", "satp", "on"}

Testing == {"load", "loaded", "mapped", "unmapped", "warm", "dropflush", "dropped", "fenced",
            "restoreflush", "restorefence"}

\* The place in a test, in the handler included.
InLoad == pc \in {"load", "loaded"} \/ (pc = "handler" /\ trap.next = "loaded")
Stage == IF InLoad THEN load.next ELSE pc

Whole(p) == core[p] = Built[p] /\ mem[p] = Built[p] /\ tlb[p] \in {"none", Built[p]}

\* With the MMU on the tables of the image are whole, as the program wrote them.
Tables ==
  /\ mmu /\ (priv = "S" \/ pc \notin Building) => satp /\ Whole("image") /\ Whole("hole")
  /\ pc = "map" => core["hole"] = "invalid"
  /\ pc \in {"flush", "satp", "on"} => core = Built
  /\ pc \in {"satp", "on"} => mem = Built
  /\ pc = "on" => satp

\* How far test_tlb_stale is with the PTE of its page.
Probe ==
  mmu /\ pc \notin Building =>
    /\ Stage \notin {"dropflush", "dropped", "fenced", "restoreflush", "restorefence"} =>
         Whole("probe")
    /\ Stage \in {"dropflush", "dropped", "fenced"} => core["probe"] = "invalid" /\ saved = "valid"
    /\ Stage \in {"dropped", "fenced"} => mem["probe"] = "invalid"
    /\ Stage = "fenced" => tlb["probe"] # "valid"
    /\ Stage \in {"restoreflush", "restorefence"} => core["probe"] = "valid"
    /\ Stage = "restorefence" => mem["probe"] = "valid"

\* Where the hart and the program's view of it are, step by step.
Placed ==
  /\ pc = "start" => asked = "M"
  /\ pc \in {"setup", "force", "boot"} => asked = "M" /\ ~mmu
  /\ pc \in {"zero", "map", "flush", "satp", "on"} => priv = "M" /\ mode = "M" /\ asked = "S"
  /\ pc = "boot" => priv = "M" /\ mode = "M"
  /\ pc = "shell" => priv = shell /\ asked = shell
  /\ pc = "prompt" => priv = mode /\ shell = mode /\ asked = mode
  /\ pc = "enter" => priv = "M" /\ mode = "S" /\ shell = "S" /\ asked = "S"
  /\ pc \in Testing => priv = "S" /\ mode = "S" /\ shell = "S" /\ asked = "S" /\ mmu

\* What each trap carries, by where it leads.
Carried ==
  /\ pc \in {"load", "loaded"} => expect
  /\ pc \notin {"start", "handler", "load", "loaded"} => ~expect
  /\ pc = "handler" =>
       /\ priv = "M"
       /\ trap.next = "force" => ~expect /\ trap.req = "none" /\ asked = "M" /\ ~mmu
       /\ trap.next = "boot" => ~expect /\ trap.req = "enter_m" /\ asked = "M" /\ ~mmu
       /\ trap.next = "prompt" => ~expect /\ trap.req \in {"M", "mmu_off"} /\ asked = "M"
       /\ trap.next \in {"boot", "prompt"} => trap.cause \in {9, 11}
       /\ trap.next = "loaded" =>
            /\ expect /\ trap.cause = 13 /\ trap.mpp = "S"
            /\ mode = "S" /\ shell = "S" /\ asked = "S" /\ mmu

\* What the load of a test has shown so far.
Judged ==
  /\ InLoad => load.page = IF load.next = "unmapped" THEN "hole" ELSE "probe"
  /\ pc = "load" => ~seen.saw
  /\ pc = "handler" /\ trap.next = "loaded" => load.next \notin {"mapped", "warm"}
  /\ pc \notin {"load", "handler", "start"} =>
       /\ Stage \in {"mapped", "warm"} => ~seen.saw
       /\ Stage \in {"unmapped", "fenced"} => seen.saw /\ seen.cause = 13

IInv == TypeOK /\ Tables /\ Probe /\ Placed /\ Carried /\ Judged

\* An empty TLB, and the causes of the two ecalls.
LEMMA EmptyTlb == Empty \in [Page -> Pte \cup {"none"}] /\ \A p \in Page : Empty[p] = "none"
BY DEF Empty

LEMMA Causes == \A l \in Level : EcallCause[l] \in {9, 11}
BY DEF Level, EcallCause

-----------------------------------------------------------------------------

\* The start of the program.
LEMMA StartIInv ==
  ASSUME IInv, Start \/ Setup \/ EnterM \/ Boot
  PROVE  IInv'
<1> USE EmptyTlb, Causes DEF IInv, Level, Page, Pte
<1>1. CASE Start
  <2> USE <1>1 DEF Start, prog, mmuState
  <2>1. TypeOK'
    <3>1. seen' \in [saw : BOOLEAN, cause : {0, 2, 9, 11, 13}] BY DEF TypeOK
    <3>2. tlb' \in [Page -> Pte \cup {"none"}] /\ core' \in [Page -> Pte] BY DEF TypeOK
    <3>3. mode' \in Level /\ mmu' \in BOOLEAN /\ expect' \in BOOLEAN /\ pc' = "setup" OBVIOUS
    <3> QED BY <3>1, <3>2, <3>3 DEF TypeOK
  <2>2. Tables' BY DEF TypeOK, Tables, Probe, Placed, Carried, Building, Whole, Built
  <2>3. Probe' BY DEF TypeOK, Tables, Probe, Placed, Carried, Building, Testing, Whole, Built, Stage, InLoad
  <2>4. Placed' /\ Carried' BY DEF TypeOK, Placed, Carried, Testing, Tables, Whole, Entry, Built, Building
  <2>5. Judged' BY DEF TypeOK, Tables, Probe, Placed, Carried, Judged, Building, Testing, Whole, Stage, InLoad, Entry, Built
  <2> QED BY <2>1, <2>2, <2>3, <2>4, <2>5
<1>2. CASE Setup
  <2> USE <1>2 DEF Setup, TakeTrap, prog, mmuState
  <2>1. TypeOK' BY DEF TypeOK
  <2>2. Tables' BY DEF TypeOK, Tables, Probe, Placed, Carried, Building, Whole, Built
  <2>3. Probe' BY DEF TypeOK, Tables, Probe, Placed, Carried, Building, Testing, Whole, Built, Stage, InLoad
  <2>4. Placed' /\ Carried' BY DEF TypeOK, Placed, Carried, Testing, Tables, Whole, Entry, Built, Building
  <2>5. Judged' BY DEF TypeOK, Tables, Probe, Placed, Carried, Judged, Building, Testing, Whole, Stage, InLoad, Entry, Built
  <2> QED BY <2>1, <2>2, <2>3, <2>4, <2>5
<1>3. CASE EnterM
  <2> USE <1>3 DEF EnterM, TakeTrap, prog, mmuState
  <2>1. TypeOK' BY DEF TypeOK
  <2>2. Tables' BY DEF TypeOK, Tables, Probe, Placed, Carried, Building, Whole, Built
  <2>3. Probe' BY DEF TypeOK, Tables, Probe, Placed, Carried, Building, Testing, Whole, Built, Stage, InLoad
  <2>4. Placed' /\ Carried' BY DEF TypeOK, Placed, Carried, Testing, Tables, Whole, Entry, Built, Building
  <2>5. Judged' BY DEF TypeOK, Tables, Probe, Placed, Carried, Judged, Building, Testing, Whole, Stage, InLoad, Entry, Built
  <2> QED BY <2>1, <2>2, <2>3, <2>4, <2>5
<1>4. CASE Boot
  <2> USE <1>4 DEF Boot, prog, mmuState
  <2>1. TypeOK' BY DEF TypeOK
  <2>2. Tables' BY DEF TypeOK, Tables, Probe, Placed, Carried, Building, Whole, Built
  <2>3. Probe' BY DEF TypeOK, Tables, Probe, Placed, Carried, Building, Testing, Whole, Built, Stage, InLoad
  <2>4. Placed' /\ Carried' BY DEF TypeOK, Placed, Carried, Testing, Tables, Whole, Entry, Built, Building
  <2>5. Judged' BY DEF TypeOK, Tables, Probe, Placed, Carried, Judged, Building, Testing, Whole, Stage, InLoad, Entry, Built
  <2> QED BY <2>1, <2>2, <2>3, <2>4, <2>5
<1> QED BY <1>1, <1>2, <1>3, <1>4

\* The tables are built and put to use.
LEMMA BuildIInv ==
  ASSUME IInv, MmuOn \/ Zero \/ Map \/ Flush \/ SetSatp \/ MmuIsOn
  PROVE  IInv'
<1> USE EmptyTlb, Causes DEF IInv, Level, Page, Pte
<1>1. CASE MmuOn
  <2> USE <1>1 DEF MmuOn, prog, mmuState
  <2>1. TypeOK' BY DEF TypeOK
  <2>2. Tables' BY DEF TypeOK, Tables, Probe, Placed, Carried, Building, Whole, Built
  <2>3. Probe' BY DEF TypeOK, Tables, Probe, Placed, Carried, Building, Testing, Whole, Built, Stage, InLoad
  <2>4. Placed' /\ Carried' BY DEF TypeOK, Placed, Carried, Testing, Tables, Whole, Entry, Built, Building
  <2>5. Judged' BY DEF TypeOK, Tables, Probe, Placed, Carried, Judged, Building, Testing, Whole, Stage, InLoad, Entry, Built
  <2> QED BY <2>1, <2>2, <2>3, <2>4, <2>5
<1>2. CASE Zero
  <2> USE <1>2 DEF Zero, prog, mmuState
  <2>1. TypeOK' BY DEF TypeOK
  <2>2. Tables' BY DEF TypeOK, Tables, Probe, Placed, Carried, Building, Whole, Built
  <2>3. Probe' BY DEF TypeOK, Tables, Probe, Placed, Carried, Building, Testing, Whole, Built, Stage, InLoad
  <2>4. Placed' /\ Carried' BY DEF TypeOK, Placed, Carried, Testing, Tables, Whole, Entry, Built, Building
  <2>5. Judged' BY DEF TypeOK, Tables, Probe, Placed, Carried, Judged, Building, Testing, Whole, Stage, InLoad, Entry, Built
  <2> QED BY <2>1, <2>2, <2>3, <2>4, <2>5
<1>3. CASE Map
  <2> USE <1>3 DEF Map, prog, mmuState
  <2>1. TypeOK' BY DEF TypeOK
  <2>2. Tables'
    <3>1. core' \in [Page -> Pte] /\ \A p \in Page : core'[p] = Built[p]
      BY DEF TypeOK, Tables, Built
    <3>2. core' = Built BY <3>1 DEF Built
    <3> QED BY <3>2 DEF Tables, Building, Placed
  <2>3. Probe' BY DEF TypeOK, Tables, Probe, Placed, Carried, Building, Testing, Whole, Built, Stage, InLoad
  <2>4. Placed' /\ Carried' BY DEF TypeOK, Placed, Carried, Testing, Tables, Whole, Entry, Built, Building
  <2>5. Judged' BY DEF TypeOK, Tables, Probe, Placed, Carried, Judged, Building, Testing, Whole, Stage, InLoad, Entry, Built
  <2> QED BY <2>1, <2>2, <2>3, <2>4, <2>5
<1>4. CASE Flush
  <2> USE <1>4 DEF Flush, prog, mmuState
  <2>1. TypeOK' BY DEF TypeOK
  <2>2. Tables' BY DEF TypeOK, Tables, Probe, Placed, Carried, Building, Whole, Built
  <2>3. Probe' BY DEF TypeOK, Tables, Probe, Placed, Carried, Building, Testing, Whole, Built, Stage, InLoad
  <2>4. Placed' /\ Carried' BY DEF TypeOK, Placed, Carried, Testing, Tables, Whole, Entry, Built, Building
  <2>5. Judged' BY DEF TypeOK, Tables, Probe, Placed, Carried, Judged, Building, Testing, Whole, Stage, InLoad, Entry, Built
  <2> QED BY <2>1, <2>2, <2>3, <2>4, <2>5
<1>5. CASE SetSatp
  <2> USE <1>5 DEF SetSatp, prog, mmuState
  <2>1. TypeOK' BY DEF TypeOK
  <2>2. Tables' BY DEF TypeOK, Tables, Probe, Placed, Carried, Building, Whole, Built
  <2>3. Probe' BY DEF TypeOK, Tables, Probe, Placed, Carried, Building, Testing, Whole, Built, Stage, InLoad
  <2>4. Placed' /\ Carried' BY DEF TypeOK, Placed, Carried, Testing, Tables, Whole, Entry, Built, Building
  <2>5. Judged' BY DEF TypeOK, Tables, Probe, Placed, Carried, Judged, Building, Testing, Whole, Stage, InLoad, Entry, Built
  <2> QED BY <2>1, <2>2, <2>3, <2>4, <2>5
<1>6. CASE MmuIsOn
  <2> USE <1>6 DEF MmuIsOn, prog, mmuState
  <2>1. TypeOK' BY DEF TypeOK
  <2>2. Tables' BY DEF TypeOK, Tables, Probe, Placed, Carried, Building, Whole, Built
  <2>3. Probe' BY DEF TypeOK, Tables, Probe, Placed, Carried, Building, Testing, Whole, Built, Stage, InLoad
  <2>4. Placed' /\ Carried' BY DEF TypeOK, Placed, Carried, Testing, Tables, Whole, Entry, Built, Building
  <2>5. Judged' BY DEF TypeOK, Tables, Probe, Placed, Carried, Judged, Building, Testing, Whole, Stage, InLoad, Entry, Built
  <2> QED BY <2>1, <2>2, <2>3, <2>4, <2>5
<1> QED BY <1>1, <1>2, <1>3, <1>4, <1>5, <1>6

\* The shells and their switches.
LEMMA SwitchIInv ==
  ASSUME IInv, Shell \/ SwitchDown \/ Enter \/ SwitchUp \/ MmuOff \/ AskMmuOff
  PROVE  IInv'
<1> USE EmptyTlb, Causes DEF IInv, Level, Page, Pte
<1>1. CASE Shell
  <2> USE <1>1 DEF Shell, prog, mmuState
  <2>1. TypeOK' BY DEF TypeOK
  <2>2. Tables' BY DEF TypeOK, Tables, Probe, Placed, Carried, Building, Whole, Built
  <2>3. Probe' BY DEF TypeOK, Tables, Probe, Placed, Carried, Building, Testing, Whole, Built, Stage, InLoad
  <2>4. Placed' /\ Carried' BY DEF TypeOK, Placed, Carried, Testing, Tables, Whole, Entry, Built, Building
  <2>5. Judged' BY DEF TypeOK, Tables, Probe, Placed, Carried, Judged, Building, Testing, Whole, Stage, InLoad, Entry, Built
  <2> QED BY <2>1, <2>2, <2>3, <2>4, <2>5
<1>2. CASE SwitchDown
  <2> USE <1>2 DEF SwitchDown, prog, mmuState
  <2>1. TypeOK' BY DEF TypeOK
  <2>2. Tables' BY DEF TypeOK, Tables, Probe, Placed, Carried, Building, Whole, Built
  <2>3. Probe' BY DEF TypeOK, Tables, Probe, Placed, Carried, Building, Testing, Whole, Built, Stage, InLoad
  <2>4. Placed' /\ Carried' BY DEF TypeOK, Placed, Carried, Testing, Tables, Whole, Entry, Built, Building
  <2>5. Judged' BY DEF TypeOK, Tables, Probe, Placed, Carried, Judged, Building, Testing, Whole, Stage, InLoad, Entry, Built
  <2> QED BY <2>1, <2>2, <2>3, <2>4, <2>5
<1>3. CASE Enter
  <2> USE <1>3 DEF Enter, Arrive, prog, mmuState
  <2>1. TypeOK' BY DEF TypeOK
  <2>2. Tables' BY DEF TypeOK, Tables, Probe, Placed, Carried, Building, Whole, Built
  <2>3. Probe' BY DEF TypeOK, Tables, Probe, Placed, Carried, Building, Testing, Whole, Built, Stage, InLoad
  <2>4. Placed' /\ Carried' BY DEF TypeOK, Placed, Carried, Testing, Tables, Whole, Entry, Built, Building
  <2>5. Judged' BY DEF TypeOK, Tables, Probe, Placed, Carried, Judged, Building, Testing, Whole, Stage, InLoad, Entry, Built
  <2> QED BY <2>1, <2>2, <2>3, <2>4, <2>5
<1>4. CASE SwitchUp
  <2> USE <1>4 DEF SwitchUp, TakeTrap, prog, mmuState
  <2>1. TypeOK' BY DEF TypeOK
  <2>2. Tables' BY DEF TypeOK, Tables, Probe, Placed, Carried, Building, Whole, Built
  <2>3. Probe' BY DEF TypeOK, Tables, Probe, Placed, Carried, Building, Testing, Whole, Built, Stage, InLoad
  <2>4. Placed' /\ Carried' BY DEF TypeOK, Placed, Carried, Testing, Tables, Whole, Entry, Built, Building
  <2>5. Judged' BY DEF TypeOK, Tables, Probe, Placed, Carried, Judged, Building, Testing, Whole, Stage, InLoad, Entry, Built
  <2> QED BY <2>1, <2>2, <2>3, <2>4, <2>5
<1>5. CASE MmuOff
  <2> USE <1>5 DEF MmuOff, TurnOff, prog, mmuState
  <2>1. TypeOK'
    <3>1. tlb' \in [Page -> Pte \cup {"none"}] BY DEF TypeOK
    <3>2. satp' \in BOOLEAN /\ mmu' \in BOOLEAN OBVIOUS
    <3> QED BY <3>1, <3>2 DEF TypeOK
  <2>2. Tables' BY DEF TypeOK, Tables, Probe, Placed, Carried, Building, Whole, Built
  <2>3. Probe' BY DEF TypeOK, Tables, Probe, Placed, Carried, Building, Testing, Whole, Built, Stage, InLoad
  <2>4. Placed' /\ Carried' BY DEF TypeOK, Placed, Carried, Testing, Tables, Whole, Entry, Built, Building
  <2>5. Judged' BY DEF TypeOK, Tables, Probe, Placed, Carried, Judged, Building, Testing, Whole, Stage, InLoad, Entry, Built
  <2> QED BY <2>1, <2>2, <2>3, <2>4, <2>5
<1>6. CASE AskMmuOff
  <2> USE <1>6 DEF AskMmuOff, TakeTrap, prog, mmuState
  <2>1. TypeOK' BY DEF TypeOK
  <2>2. Tables' BY DEF TypeOK, Tables, Probe, Placed, Carried, Building, Whole, Built
  <2>3. Probe' BY DEF TypeOK, Tables, Probe, Placed, Carried, Building, Testing, Whole, Built, Stage, InLoad
  <2>4. Placed' /\ Carried' BY DEF TypeOK, Placed, Carried, Testing, Tables, Whole, Entry, Built, Building
  <2>5. Judged' BY DEF TypeOK, Tables, Probe, Placed, Carried, Judged, Building, Testing, Whole, Stage, InLoad, Entry, Built
  <2> QED BY <2>1, <2>2, <2>3, <2>4, <2>5
<1> QED BY <1>1, <1>2, <1>3, <1>4, <1>5, <1>6

\* The handler.
LEMMA HandlerIInv ==
  ASSUME IInv, HandleEnterM \/ HandleSwitch \/ HandleExpected \/ HandleUnexpected
  PROVE  IInv'
<1> USE EmptyTlb, Causes DEF IInv, Level, Page, Pte
<1>1. CASE HandleEnterM
  <2> USE <1>1 DEF HandleEnterM, IsRequest, prog, mmuState
  <2>1. TypeOK' BY DEF TypeOK
  <2>2. Tables' BY DEF TypeOK, Tables, Probe, Placed, Carried, Building, Whole, Built
  <2>3. Probe' BY DEF TypeOK, Tables, Probe, Placed, Carried, Building, Testing, Whole, Built, Stage, InLoad
  <2>4. Placed' /\ Carried' BY DEF TypeOK, Placed, Carried, Testing, Tables, Whole, Entry, Built, Building
  <2>5. Judged' BY DEF TypeOK, Tables, Probe, Placed, Carried, Judged, Building, Testing, Whole, Stage, InLoad, Entry, Built
  <2> QED BY <2>1, <2>2, <2>3, <2>4, <2>5
<1>2. CASE HandleSwitch
  <2> USE <1>2 DEF HandleSwitch, TurnOff, Arrive, IsRequest, prog, mmuState
  <2>1. TypeOK'
    <3>1. tlb' \in [Page -> Pte \cup {"none"}] BY DEF TypeOK
    <3>2. satp' \in BOOLEAN /\ mmu' \in BOOLEAN BY DEF TypeOK
    <3>3. priv' \in Level /\ shell' \in Level /\ pc' = "shell" OBVIOUS
    <3> QED BY <3>1, <3>2, <3>3 DEF TypeOK
  <2>2. Tables' BY DEF TypeOK, Tables, Probe, Placed, Carried, Building, Whole, Built
  <2>3. Probe' BY DEF TypeOK, Tables, Probe, Placed, Carried, Building, Testing, Whole, Built, Stage, InLoad
  <2>4. Placed' /\ Carried' BY DEF TypeOK, Placed, Carried, Testing, Tables, Whole, Entry, Built, Building
  <2>5. Judged' BY DEF TypeOK, Tables, Probe, Placed, Carried, Judged, Building, Testing, Whole, Stage, InLoad, Entry, Built
  <2> QED BY <2>1, <2>2, <2>3, <2>4, <2>5
<1>3. CASE HandleExpected
  <2> USE <1>3 DEF HandleExpected, prog, mmuState
  <2>1. TypeOK' BY DEF TypeOK
  <2>2. Tables' BY DEF TypeOK, Tables, Probe, Placed, Carried, Building, Whole, Built
  <2>3. Probe' BY DEF TypeOK, Tables, Probe, Placed, Carried, Building, Testing, Whole, Built, Stage, InLoad
  <2>4. Placed' /\ Carried' BY DEF TypeOK, Placed, Carried, Testing, Tables, Whole, Entry, Built, Building
  <2>5. Judged' BY DEF TypeOK, Tables, Probe, Placed, Carried, Judged, Building, Testing, Whole, Stage, InLoad, Entry, Built
  <2> QED BY <2>1, <2>2, <2>3, <2>4, <2>5
<1>4. CASE HandleUnexpected
  <2> USE <1>4 DEF HandleUnexpected, IsRequest, prog, mmuState
  <2>1. TypeOK' BY DEF TypeOK
  <2>2. Tables' BY DEF TypeOK, Tables, Probe, Placed, Carried, Building, Whole, Built
  <2>3. Probe' BY DEF TypeOK, Tables, Probe, Placed, Carried, Building, Testing, Whole, Built, Stage, InLoad
  <2>4. Placed' /\ Carried' BY DEF TypeOK, Placed, Carried, Testing, Tables, Whole, Entry, Built, Building
  <2>5. Judged' BY DEF TypeOK, Tables, Probe, Placed, Carried, Judged, Building, Testing, Whole, Stage, InLoad, Entry, Built
  <2> QED BY <2>1, <2>2, <2>3, <2>4, <2>5
<1> QED BY <1>1, <1>2, <1>3, <1>4

\* The tests.
LEMMA TestIInv ==
  ASSUME IInv, Test("probe", "mapped") \/ Test("hole", "unmapped") \/ Test("probe", "warm") \/ Load \/ Loaded \/ Report
  PROVE  IInv'
<1> USE EmptyTlb, Causes DEF IInv, Level, Page, Pte
<1>1. CASE Test("probe", "mapped")
  <2> USE <1>1 DEF Test, StartLoad, need_s_mmu, prog, mmuState
  <2>1. TypeOK'
    <3>1. load' \in [page : Page, next : {"mapped", "unmapped", "warm", "dropped", "fenced"}] BY DEF TypeOK
    <3>2. seen' \in [saw : BOOLEAN, cause : {0, 2, 9, 11, 13}] BY DEF TypeOK
    <3> QED BY <3>1, <3>2 DEF TypeOK
  <2>2. Tables' BY DEF TypeOK, Tables, Probe, Placed, Carried, Building, Whole, Built
  <2>3. Probe' BY DEF TypeOK, Tables, Probe, Placed, Carried, Building, Testing, Whole, Built, Stage, InLoad
  <2>4. Placed' /\ Carried' BY DEF TypeOK, Placed, Carried, Testing, Tables, Whole, Entry, Built, Building
  <2>5. Judged' BY DEF TypeOK, Tables, Probe, Placed, Carried, Judged, Building, Testing, Whole, Stage, InLoad, Entry, Built
  <2> QED BY <2>1, <2>2, <2>3, <2>4, <2>5
<1>2. CASE Test("hole", "unmapped")
  <2> USE <1>2 DEF Test, StartLoad, need_s_mmu, prog, mmuState
  <2>1. TypeOK'
    <3>1. load' \in [page : Page, next : {"mapped", "unmapped", "warm", "dropped", "fenced"}] BY DEF TypeOK
    <3>2. seen' \in [saw : BOOLEAN, cause : {0, 2, 9, 11, 13}] BY DEF TypeOK
    <3> QED BY <3>1, <3>2 DEF TypeOK
  <2>2. Tables' BY DEF TypeOK, Tables, Probe, Placed, Carried, Building, Whole, Built
  <2>3. Probe' BY DEF TypeOK, Tables, Probe, Placed, Carried, Building, Testing, Whole, Built, Stage, InLoad
  <2>4. Placed' /\ Carried' BY DEF TypeOK, Placed, Carried, Testing, Tables, Whole, Entry, Built, Building
  <2>5. Judged' BY DEF TypeOK, Tables, Probe, Placed, Carried, Judged, Building, Testing, Whole, Stage, InLoad, Entry, Built
  <2> QED BY <2>1, <2>2, <2>3, <2>4, <2>5
<1>3. CASE Test("probe", "warm")
  <2> USE <1>3 DEF Test, StartLoad, need_s_mmu, prog, mmuState
  <2>1. TypeOK'
    <3>1. load' \in [page : Page, next : {"mapped", "unmapped", "warm", "dropped", "fenced"}] BY DEF TypeOK
    <3>2. seen' \in [saw : BOOLEAN, cause : {0, 2, 9, 11, 13}] BY DEF TypeOK
    <3> QED BY <3>1, <3>2 DEF TypeOK
  <2>2. Tables' BY DEF TypeOK, Tables, Probe, Placed, Carried, Building, Whole, Built
  <2>3. Probe' BY DEF TypeOK, Tables, Probe, Placed, Carried, Building, Testing, Whole, Built, Stage, InLoad
  <2>4. Placed' /\ Carried' BY DEF TypeOK, Placed, Carried, Testing, Tables, Whole, Entry, Built, Building
  <2>5. Judged' BY DEF TypeOK, Tables, Probe, Placed, Carried, Judged, Building, Testing, Whole, Stage, InLoad, Entry, Built
  <2> QED BY <2>1, <2>2, <2>3, <2>4, <2>5
<1>4. CASE Load
  <2> USE <1>4 DEF Load, TakeTrap, Entry, prog, mmuState
  <2>1. TypeOK' BY DEF TypeOK
  <2>2. Tables' BY DEF TypeOK, Tables, Probe, Placed, Carried, Building, Whole, Built
  <2>3. Probe' BY DEF TypeOK, Tables, Probe, Placed, Carried, Building, Testing, Whole, Built, Stage, InLoad
  <2>4. Placed' /\ Carried' BY DEF TypeOK, Placed, Carried, Testing, Tables, Whole, Entry, Built, Building
  <2>5. Judged' BY DEF TypeOK, Tables, Probe, Placed, Carried, Judged, Building, Testing, Whole, Stage, InLoad, Entry, Built
  <2> QED BY <2>1, <2>2, <2>3, <2>4, <2>5
<1>5. CASE Loaded
  <2> USE <1>5 DEF Loaded, prog, mmuState
  <2>1. TypeOK'
    <3>1. load' \in [page : Page, next : {"mapped", "unmapped", "warm", "dropped", "fenced"}] BY DEF TypeOK
    <3>2. pc' \in {"mapped", "unmapped", "warm", "dropped", "fenced"} BY DEF TypeOK
    <3>3. expect' \in BOOLEAN OBVIOUS
    <3> QED BY <3>1, <3>2, <3>3 DEF TypeOK
  <2>2. Tables' BY DEF TypeOK, Tables, Probe, Placed, Carried, Building, Whole, Built
  <2>3. Probe' BY DEF TypeOK, Tables, Probe, Placed, Carried, Building, Testing, Whole, Built, Stage, InLoad
  <2>4. Placed' /\ Carried' BY DEF TypeOK, Placed, Carried, Testing, Tables, Whole, Entry, Built, Building
  <2>5. Judged' BY DEF TypeOK, Tables, Probe, Placed, Carried, Judged, Building, Testing, Whole, Stage, InLoad, Entry, Built
  <2> QED BY <2>1, <2>2, <2>3, <2>4, <2>5
<1>6. CASE Report
  <2> USE <1>6 DEF Report, prog, mmuState
  <2>1. TypeOK' BY DEF TypeOK
  <2>2. Tables' BY DEF TypeOK, Tables, Probe, Placed, Carried, Building, Whole, Built
  <2>3. Probe' BY DEF TypeOK, Tables, Probe, Placed, Carried, Building, Testing, Whole, Built, Stage, InLoad
  <2>4. Placed' /\ Carried' BY DEF TypeOK, Placed, Carried, Testing, Tables, Whole, Entry, Built, Building
  <2>5. Judged' BY DEF TypeOK, Tables, Probe, Placed, Carried, Judged, Building, Testing, Whole, Stage, InLoad, Entry, Built
  <2> QED BY <2>1, <2>2, <2>3, <2>4, <2>5
<1> QED BY <1>1, <1>2, <1>3, <1>4, <1>5, <1>6

\* The stale translation.
LEMMA StaleIInv ==
  ASSUME IInv, Drop \/ DropFlush \/ Fence \/ Restore \/ RestoreFlush \/ RestoreFence
  PROVE  IInv'
<1> USE EmptyTlb, Causes DEF IInv, Level, Page, Pte
<1>1. CASE Drop
  <2> USE <1>1 DEF Drop, prog, mmuState
  <2>1. TypeOK' BY DEF TypeOK
  <2>2. Tables' BY DEF TypeOK, Tables, Probe, Placed, Carried, Building, Whole, Built
  <2>3. Probe' BY DEF TypeOK, Tables, Probe, Placed, Carried, Building, Testing, Whole, Built, Stage, InLoad
  <2>4. Placed' /\ Carried' BY DEF TypeOK, Placed, Carried, Testing, Tables, Whole, Entry, Built, Building
  <2>5. Judged' BY DEF TypeOK, Tables, Probe, Placed, Carried, Judged, Building, Testing, Whole, Stage, InLoad, Entry, Built
  <2> QED BY <2>1, <2>2, <2>3, <2>4, <2>5
<1>2. CASE DropFlush
  <2> USE <1>2 DEF DropFlush, StartLoad, prog, mmuState
  <2>1. TypeOK'
    <3>1. load' \in [page : Page, next : {"mapped", "unmapped", "warm", "dropped", "fenced"}] BY DEF TypeOK
    <3>2. seen' \in [saw : BOOLEAN, cause : {0, 2, 9, 11, 13}] BY DEF TypeOK
    <3>3. mem' \in [Page -> Pte] BY DEF TypeOK
    <3> QED BY <3>1, <3>2, <3>3 DEF TypeOK
  <2>2. Tables' BY DEF TypeOK, Tables, Probe, Placed, Carried, Building, Whole, Built
  <2>3. Probe' BY DEF TypeOK, Tables, Probe, Placed, Carried, Building, Testing, Whole, Built, Stage, InLoad
  <2>4. Placed' /\ Carried' BY DEF TypeOK, Placed, Carried, Testing, Tables, Whole, Entry, Built, Building
  <2>5. Judged' BY DEF TypeOK, Tables, Probe, Placed, Carried, Judged, Building, Testing, Whole, Stage, InLoad, Entry, Built
  <2> QED BY <2>1, <2>2, <2>3, <2>4, <2>5
<1>3. CASE Fence
  <2> USE <1>3 DEF Fence, StartLoad, prog, mmuState
  <2>1. TypeOK'
    <3>1. load' \in [page : Page, next : {"mapped", "unmapped", "warm", "dropped", "fenced"}] BY DEF TypeOK
    <3>2. seen' \in [saw : BOOLEAN, cause : {0, 2, 9, 11, 13}] BY DEF TypeOK
    <3> QED BY <3>1, <3>2 DEF TypeOK
  <2>2. Tables' BY DEF TypeOK, Tables, Probe, Placed, Carried, Building, Whole, Built
  <2>3. Probe' BY DEF TypeOK, Tables, Probe, Placed, Carried, Building, Testing, Whole, Built, Stage, InLoad
  <2>4. Placed' /\ Carried' BY DEF TypeOK, Placed, Carried, Testing, Tables, Whole, Entry, Built, Building
  <2>5. Judged' BY DEF TypeOK, Tables, Probe, Placed, Carried, Judged, Building, Testing, Whole, Stage, InLoad, Entry, Built
  <2> QED BY <2>1, <2>2, <2>3, <2>4, <2>5
<1>4. CASE Restore
  <2> USE <1>4 DEF Restore, prog, mmuState
  <2>1. TypeOK'
    <3>1. saved = "valid" BY DEF Probe, Placed, Testing, Building, Stage, InLoad
    <3>2. core' \in [Page -> Pte] BY <3>1 DEF TypeOK
    <3> QED BY <3>2 DEF TypeOK
  <2>2. Tables' BY DEF TypeOK, Tables, Probe, Placed, Carried, Building, Whole, Built
  <2>3. Probe' BY DEF TypeOK, Tables, Probe, Placed, Carried, Building, Testing, Whole, Built, Stage, InLoad
  <2>4. Placed' /\ Carried' BY DEF TypeOK, Placed, Carried, Testing, Tables, Whole, Entry, Built, Building
  <2>5. Judged' BY DEF TypeOK, Tables, Probe, Placed, Carried, Judged, Building, Testing, Whole, Stage, InLoad, Entry, Built
  <2> QED BY <2>1, <2>2, <2>3, <2>4, <2>5
<1>5. CASE RestoreFlush
  <2> USE <1>5 DEF RestoreFlush, prog, mmuState
  <2>1. TypeOK' BY DEF TypeOK
  <2>2. Tables' BY DEF TypeOK, Tables, Probe, Placed, Carried, Building, Whole, Built
  <2>3. Probe' BY DEF TypeOK, Tables, Probe, Placed, Carried, Building, Testing, Whole, Built, Stage, InLoad
  <2>4. Placed' /\ Carried' BY DEF TypeOK, Placed, Carried, Testing, Tables, Whole, Entry, Built, Building
  <2>5. Judged' BY DEF TypeOK, Tables, Probe, Placed, Carried, Judged, Building, Testing, Whole, Stage, InLoad, Entry, Built
  <2> QED BY <2>1, <2>2, <2>3, <2>4, <2>5
<1>6. CASE RestoreFence
  <2> USE <1>6 DEF RestoreFence, prog, mmuState
  <2>1. TypeOK' BY DEF TypeOK
  <2>2. Tables' BY DEF TypeOK, Tables, Probe, Placed, Carried, Building, Whole, Built
  <2>3. Probe' BY DEF TypeOK, Tables, Probe, Placed, Carried, Building, Testing, Whole, Built, Stage, InLoad
  <2>4. Placed' /\ Carried' BY DEF TypeOK, Placed, Carried, Testing, Tables, Whole, Entry, Built, Building
  <2>5. Judged' BY DEF TypeOK, Tables, Probe, Placed, Carried, Judged, Building, Testing, Whole, Stage, InLoad, Entry, Built
  <2> QED BY <2>1, <2>2, <2>3, <2>4, <2>5
<1> QED BY <1>1, <1>2, <1>3, <1>4, <1>5, <1>6

\* J-Link, the caches and the walker.
LEMMA OutsideIInv ==
  ASSUME IInv, Caches \/ Reset \/ Restart
  PROVE  IInv'
<1> USE EmptyTlb, Causes DEF IInv, Level, Page, Pte
<1>1. CASE Caches
  <2>1. PICK p \in Page : WriteBack(p) \/ Fill(p) \/ Evict(p) BY <1>1 DEF Caches
  <2>2. Placed' /\ Carried' /\ Judged'
    BY <2>1 DEF WriteBack, Fill, Evict, prog, Placed, Carried, Judged, Stage, InLoad
  <2>3. CASE WriteBack(p)
    <3> USE <2>3 DEF WriteBack, prog
    <3>1. TypeOK' BY DEF TypeOK
    <3>2. Tables' BY DEF TypeOK, Tables, Whole
    <3>3. Probe' BY DEF TypeOK, Probe, Whole, Stage, InLoad
    <3> QED BY <2>2, <3>1, <3>2, <3>3
  <2>4. CASE Fill(p)
    <3> USE <2>4 DEF Fill, prog
    <3>1. TypeOK' BY DEF TypeOK
    <3>2. Tables' BY DEF TypeOK, Tables, Whole
    <3>3. Probe' BY DEF TypeOK, Probe, Whole, Stage, InLoad
    <3> QED BY <2>2, <3>1, <3>2, <3>3
  <2>5. CASE Evict(p)
    <3> USE <2>5 DEF Evict, prog
    <3>1. TypeOK' BY DEF TypeOK
    <3>2. Tables' BY DEF TypeOK, Tables, Whole
    <3>3. Probe' BY DEF TypeOK, Probe, Whole, Stage, InLoad
    <3> QED BY <2>2, <3>1, <3>2, <3>3
  <2> QED BY <2>1, <2>3, <2>4, <2>5
<1>2. CASE Reset
  <2> USE <1>2 DEF Reset, prog, mmuState
  <2>1. TypeOK'
    <3>1. tlb' \in [Page -> Pte \cup {"none"}] BY DEF TypeOK
    <3>2. satp' \in BOOLEAN /\ priv' \in Level /\ asked' \in Level /\ pc' = "start" OBVIOUS
    <3>3. core' \in [Page -> Pte] BY DEF TypeOK
    <3> QED BY <3>1, <3>2, <3>3 DEF TypeOK
  <2>2. Tables' BY DEF TypeOK, Tables, Probe, Placed, Carried, Building, Whole, Built
  <2>3. Probe' BY DEF TypeOK, Tables, Probe, Placed, Carried, Building, Testing, Whole, Built, Stage, InLoad
  <2>4. Placed' /\ Carried' BY DEF TypeOK, Placed, Carried, Testing, Tables, Whole, Entry, Built, Building
  <2>5. Judged' BY DEF TypeOK, Tables, Probe, Placed, Carried, Judged, Building, Testing, Whole, Stage, InLoad, Entry, Built
  <2> QED BY <2>1, <2>2, <2>3, <2>4, <2>5
<1>3. CASE Restart
  <2> USE <1>3 DEF Restart, prog, mmuState
  <2>1. TypeOK' BY DEF TypeOK
  <2>2. Tables' BY DEF TypeOK, Tables, Probe, Placed, Carried, Building, Whole, Built
  <2>3. Probe' BY DEF TypeOK, Tables, Probe, Placed, Carried, Building, Testing, Whole, Built, Stage, InLoad
  <2>4. Placed' /\ Carried' BY DEF TypeOK, Placed, Carried, Testing, Tables, Whole, Entry, Built, Building
  <2>5. Judged' BY DEF TypeOK, Tables, Probe, Placed, Carried, Judged, Building, Testing, Whole, Stage, InLoad, Entry, Built
  <2> QED BY <2>1, <2>2, <2>3, <2>4, <2>5
<1> QED BY <1>1, <1>2, <1>3

LEMMA InitIInv == Init => IInv
<1> SUFFICES ASSUME Init PROVE IInv OBVIOUS
<1> USE EmptyTlb DEF Init
<1>1. TypeOK BY DEF TypeOK, Level, Page, Pte
<1>2. Tables /\ Probe /\ Placed BY DEF Tables, Probe, Placed, Building, Testing
<1>3. Carried /\ Judged BY DEF Carried, Judged, Stage, InLoad
<1> QED BY <1>1, <1>2, <1>3 DEF IInv

LEMMA Invariance == Spec => []IInv
<1>1. IInv /\ UNCHANGED vars => IInv'
  <2> SUFFICES ASSUME IInv, UNCHANGED vars PROVE IInv' OBVIOUS
  <2> USE DEF IInv, vars, prog, mmuState
  <2>1. TypeOK' BY DEF TypeOK
  <2>2. Tables' /\ Probe' BY DEF Tables, Probe, Whole, Stage, InLoad
  <2>3. Placed' /\ Carried' /\ Judged' BY DEF Placed, Carried, Judged, Stage, InLoad
  <2> QED BY <2>1, <2>2, <2>3
<1>2. IInv /\ [Next]_vars => IInv'
  BY <1>1, StartIInv, BuildIInv, SwitchIInv, HandlerIInv, TestIInv, StaleIInv, OutsideIInv
     DEF Next, Program
<1> QED BY InitIInv, <1>2, PTL DEF Spec

\* Every variable keeps its type.
THEOREM TypeCorrect == Spec => []TypeOK
<1>1. IInv => TypeOK BY DEF IInv
<1> QED BY <1>1, Invariance, PTL

\* The prompt names the level of the hart, the one that was asked for.
THEOREM PromptTells == Spec => []PromptIsTrue
<1>1. IInv => PromptIsTrue BY DEF IInv, Placed, Testing, PromptIsTrue
<1> QED BY <1>1, Invariance, PTL

\* Every test of the TLB gives what the lesson expects, whatever the caches do.
THEOREM TestsPass == Spec => []VerdictsPass
<1>1. IInv => VerdictsPass BY DEF IInv, Judged, Stage, InLoad, VerdictsPass
<1> QED BY <1>1, Invariance, PTL

\* At a prompt with the MMU on, no copy of a PTE is stale.
THEOREM TablesCoherent == Spec => []Coherent
<1>1. IInv => Coherent
  <2> SUFFICES ASSUME IInv, pc = "prompt", mmu
               PROVE  satp /\ core = Built /\ mem = Built
                      /\ \A p \in Page : tlb[p] \in {"none", Built[p]}
    BY DEF Coherent
  <2>1. satp /\ \A p \in Page : Whole(p)
    BY DEF IInv, Tables, Probe, Stage, InLoad, Building, Page
  <2>2. core \in [Page -> Pte] /\ mem \in [Page -> Pte] BY DEF IInv, TypeOK
  <2>3. core = Built /\ mem = Built BY <2>1, <2>2 DEF Whole, Built
  <2> QED BY <2>1, <2>3 DEF Whole
<1> QED BY <1>1, Invariance, PTL

\* With the MMU on a hart in S can always fetch its code.
THEOREM LowerAlwaysRuns == Spec => []LowerRuns
<1>1. IInv => LowerRuns
  BY DEF IInv, Tables, Whole, Built, Entry, Page, LowerRuns
<1> QED BY <1>1, Invariance, PTL

=============================================================================
