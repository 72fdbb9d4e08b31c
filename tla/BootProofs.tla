----------------------------- MODULE BootProofs -----------------------------
(***************************************************************************)
(* Theorems about module Boot: whatever the core list, the number of cores *)
(* and of per-CPU blocks, every core boots on its own stack and in its own *)
(* block and finds itself when it schedules, provided no core that took a  *)
(* SIPI is later than the BSP waits; and the cores woken are those of the  *)
(* list, however late they are.                                            *)
(***************************************************************************)
EXTENDS Boot, FiniteSetTheorems, TLAPS

Moving == {"trampoline", "entry", "setup", "queued"}
Up == {"online", "parked", "running"}
Off == {"off", "init", "trampoline"}

\* What the BSP told the core it is waking.
Told == pc \in {"init", "sipi", "sipi2", "wait"} =>
          /\ pos \in DOMAIN cores /\ Wanted(pos) /\ cpuIdx < MaxCpus
          /\ apIndex = cpuIdx /\ scratch = cpuIdx
          /\ block[cpuIdx].apic = Target

\* The BSP is waking c, and has sent it a SIPI.
Waking(c) == pc \in {"sipi2", "wait"} /\ Target = c

\* Only the core being woken is on its way.
OneMoving == \A c \in Ap : at[c] \in Moving => Waking(c)

\* A core whose turn has not come is off.
NotYet == /\ pc = "smp" => \A c \in Ap : at[c] = "off"
          /\ \A i \in DOMAIN cores :
               /\ cores[i].apic \in Ap /\ i >= pos
               /\ i = pos => pc \notin {"sipi", "sipi2", "wait"}
               => at[cores[i].apic] = "off"

\* The stacks taken are those of the cores woken so far.
Stacks == \A c \in Ap :
            /\ OnStack(c) => stack[c] <= cpuIdx
            /\ OnStack(c) /\ stack[c] = cpuIdx => Waking(c)
            /\ OnStack(c) /\ at[c] \in Moving => stack[c] = cpuIdx

\* The blocks name their cores, and are online when these are.
Blocks == /\ pc # "smp" => block[0] = [apic |-> Bsp, online |-> TRUE]
          /\ \A c \in Ap : OnStack(c) => block[stack[c]].apic = c
          /\ \A c \in Ap : at[c] \in Up => block[stack[c]].online
          /\ \A i \in Index \ {0} : block[i].online => \E c \in Ap : at[c] \in Up /\ stack[c] = i

\* The run queues hold the root tasks of the cores that have set one up.
Queues == /\ \A c \in Ap : at[c] \in Up \cup {"queued"} => queue[stack[c]] = c
          /\ \A i \in Index \ {0} : queue[i] # NoCore =>
               \E c \in Ap : at[c] \in Up \cup {"queued"} /\ stack[c] = i

\* ONLINE_CPUS counts the BSP and then some.
Counted == /\ pc # "smp" => count >= 1
           /\ \A c \in Ap : at[c] \in {"parked", "running"} => count >= 2

BootInv == TypeOK /\ Told /\ OneMoving /\ NotYet /\ Stacks /\ OwnBlock /\ Blocks /\ Queues /\ Counted

\* At power-on nothing is awake.
LEMMA InitBoot == Init => BootInv
  <1> SUFFICES ASSUME Init PROVE BootInv
    BY Zenon
  <1> USE BootAssumption DEF Init
  <1>1. TypeOK
    <2>1. 0 \in Index
      BY DEF Index
    <2>2. /\ block \in [Index -> [apic : Core \cup {0}, online : BOOLEAN]]
          /\ queue \in [Index -> Core \cup {NoCore}]
      BY Zenon DEF NoCore
    <2>3. /\ at \in [Ap -> {"off", "init", "trampoline", "entry", "setup", "queued",
                         "online", "parked", "running"}]
          /\ idx \in [Ap -> Index] /\ stack \in [Ap -> Index]
      BY <2>1, Zenon
    <2>4. /\ pos \in Nat \ {0} /\ cpuIdx \in Nat \ {0} /\ count \in Nat
      OBVIOUS
    <2>5. started \in BOOLEAN
      BY ZenonT(30)
    <2>6. QED BY <2>1, <2>2, <2>3, <2>4, <2>5, Zenon DEF TypeOK
  <1>2. Told /\ OneMoving /\ NotYet /\ Stacks /\ OwnBlock /\ Counted
    BY Zenon DEF Told, OneMoving, Moving, NotYet, Stacks, OwnBlock, OnStack, Indexed, Counted
  <1>3. Blocks /\ Queues
    BY Zenon DEF Blocks, Queues, OnStack, Up, Index
  <1>4. QED BY <1>1, <1>2, <1>3, Zenon DEF BootInv

\* What the core list is.
LEMMA ListIs ==
  ASSUME cores \in CoreLists
  PROVE  /\ Len(cores) \in Nat /\ DOMAIN cores = 1 .. Len(cores)
         /\ \A i \in DOMAIN cores : cores[i].apic \in Core /\ cores[i].enabled \in BOOLEAN
  <1> DEFINE E == [apic : Core, enabled : BOOLEAN]
  <1>1. cores \in Seq(E)
    BY BootAssumption, ZenonT(30)
  <1>2. \A e \in E : e.apic \in Core /\ e.enabled \in BOOLEAN
    BY Zenon
  <1> HIDE DEF E
  <1>3. Len(cores) \in Nat /\ DOMAIN cores = 1 .. Len(cores) /\ \A i \in 1 .. Len(cores) : cores[i] \in E
    BY <1>1
  <1> QED
    BY <1>2, <1>3, Zenon

\* The list and the entries of it are well-formed.
LEMMA ListFacts ==
    ASSUME TypeOK
    PROVE  /\ Len(cores) \in Nat /\ DOMAIN cores = 1 .. Len(cores)
           /\ \A i \in DOMAIN cores : cores[i].apic \in Core /\ cores[i].enabled \in BOOLEAN
           /\ \A i, j \in DOMAIN cores : cores[i].apic = cores[j].apic => i = j
  <1>1. cores \in CoreLists
    BY Zenon DEF TypeOK
  <1>2. QED BY <1>1, ListIs, BootAssumption, Zenon

\* Steps of the BSP that leave the cores and what they were told alone.
LEMMA BspGoesOn ==
    ASSUME Late = {}, BootInv, LoopEnds \/ Skip \/ Wait \/ StartAps
    PROVE  BootInv'
  <1> USE DEF BootInv
  <1>1. /\ UNCHANGED <<cores, apIndex, scratch, block, queue, count, at, idx, stack>>
        /\ pc' \in {"next", "rest", "done"} /\ pc \in {"next", "wait", "rest"}
        /\ (pos' = pos /\ cpuIdx' = cpuIdx) \/ (pos' = pos + 1 /\ (cpuIdx' = cpuIdx \/ cpuIdx' = cpuIdx + 1))
        /\ pc = "wait" => pos' = pos + 1 /\ cpuIdx' = cpuIdx + 1
        /\ started' \in BOOLEAN
    BY ZenonT(30) DEF LoopEnds, Skip, Wait, StartAps, apVars, TypeOK
  <1>2. \A c \in Ap : at[c] \notin Moving
    <2> SUFFICES ASSUME NEW c \in Ap, at[c] \in Moving PROVE FALSE
      BY Zenon
    <2>1. pc = "wait" /\ Target = c
      BY <1>1, Zenon DEF OneMoving, Waking
    <2>2. block[cpuIdx].online
      BY <2>1, Zenon DEF LoopEnds, Skip, Wait, StartAps, Moving
    <2>3. cpuIdx \in Index \ {0}
      BY <2>1, BootAssumption, Zenon DEF Told, TypeOK, Index
    <2>4. PICK d \in Ap : at[d] \in Up /\ stack[d] = cpuIdx
      BY <2>2, <2>3, Zenon DEF Blocks
    <2>5. d = c
      BY <2>1, <2>4, Zenon DEF Stacks, Waking, OnStack, Up
    <2>6. QED BY <2>4, <2>5, Zenon DEF Up, Moving
  <1>3. TypeOK'
    BY <1>1 DEF TypeOK
  <1>4. Told' /\ OneMoving'
    BY <1>1, <1>2, Zenon DEF Told, OneMoving
  <1>5. NotYet'
    BY <1>1, ListFacts DEF NotYet, TypeOK
  <1>6. Stacks'
    BY <1>1, <1>2 DEF Stacks, OnStack, Waking, TypeOK, Index
  <1>7. OwnBlock' /\ Blocks' /\ Queues' /\ Counted'
    BY <1>1 DEF OwnBlock, OnStack, Indexed, Blocks, Queues, Counted
  <1>8. QED BY <1>3, <1>4, <1>5, <1>6, <1>7, Zenon

\* Steps of the BSP up to the second SIPI.
LEMMA BspWakes ==
    ASSUME BootInv, SmpInit \/ Prepare \/ SendInit \/ FirstSipi \/ SecondSipi
    PROVE  BootInv'
  <1> USE BootAssumption, ListFacts DEF BootInv
  <1>1. CASE SmpInit
    <2> USE <1>1 DEF SmpInit, apVars
    <2>1. 0 \in Index
      BY DEF Index
    <2>2. TypeOK'
      BY <2>1, Zenon DEF TypeOK
    <2>3. \A c \in Ap : at'[c] = "off"
      BY Zenon DEF NotYet
    <2>4. Told' /\ OneMoving' /\ NotYet' /\ Stacks' /\ OwnBlock' /\ Counted'
      BY <2>3, SMTT(30) DEF Told, OneMoving, Moving, NotYet, Stacks, OwnBlock, OnStack, Indexed, Counted
    <2>5. Blocks' /\ Queues'
      BY <2>1, <2>3 DEF Blocks, Queues, OnStack, Up, TypeOK
    <2>6. QED BY <2>2, <2>4, <2>5, Zenon
  <1>2. CASE Prepare
    <2> USE <1>2 DEF Prepare, apVars
    <2>1. cpuIdx \in Index \ {0} /\ pos \in DOMAIN cores
      BY DEF TypeOK, Index
    <2>2. TypeOK'
      <3>1. block' \in [Index -> [apic : Core \cup {0}, online : BOOLEAN]]
        <4>1. block[cpuIdx] \in [apic : Core \cup {0}, online : BOOLEAN] /\ cores[pos].apic \in Core
          BY <2>1, Zenon DEF TypeOK
        <4>2. [block[cpuIdx] EXCEPT !.apic = cores[pos].apic] \in [apic : Core \cup {0}, online : BOOLEAN]
          BY <4>1, Zenon
        <4>3. QED BY <4>2, <2>1, Zenon DEF TypeOK
      <3>2. QED BY <2>1, <3>1, Zenon DEF TypeOK
    <2>3. Told'
      BY <2>1 DEF Told, Target, Wanted, TypeOK
    <2>4. \A c \in Ap : at[c] \notin Moving
      BY Zenon DEF OneMoving, Waking
    <2>5. \A c \in Ap : OnStack(c) => stack[c] # cpuIdx
      BY Zenon DEF Stacks, Waking
    <2>6. OneMoving' /\ NotYet' /\ Stacks' /\ OwnBlock' /\ Counted'
      BY <2>4, <2>5, Zenon DEF OneMoving, NotYet, Stacks, OwnBlock, OnStack, Indexed, Counted
    <2>7. Blocks'
      BY <2>1, <2>5 DEF Blocks, OnStack, Up, TypeOK
    <2>8. Queues'
      BY Zenon DEF Queues
    <2>9. QED BY <2>2, <2>3, <2>6, <2>7, <2>8, Zenon
  <1>3. CASE SendInit
    <2> USE <1>3 DEF SendInit
    <2>1. pos \in DOMAIN cores /\ Target \in Ap
      BY Zenon DEF Told, Wanted, Target, Ap
    <2>2. at[Target] = "off" /\ at' \in [Ap -> {"off", "init", "trampoline", "entry", "setup",
                                              "queued", "online", "parked", "running"}]
      BY <2>1 DEF NotYet, Target, TypeOK
    <2>3. /\ \A c \in Ap : c # Target => at'[c] = at[c]
          /\ at'[Target] \in {"off", "init"}
      BY <2>1, <2>2, Zenon DEF TypeOK
    <2>4. TypeOK'
      BY <2>2, Zenon DEF TypeOK
    <2>5. Told'
      BY Zenon DEF Told, Wanted, Target
    <2>6. OneMoving' /\ Stacks' /\ OwnBlock' /\ Counted'
      BY <2>2, <2>3 DEF OneMoving, Moving, Waking, Stacks, OwnBlock, OnStack, Indexed, Counted
    <2>7. NotYet'
      BY <2>1, <2>2, <2>3, SMTT(30) DEF NotYet, Target, TypeOK
    <2>8. Blocks' /\ Queues'
      BY <2>2, <2>3 DEF Blocks, Queues, OnStack, Up
    <2>9. QED BY <2>4, <2>5, <2>6, <2>7, <2>8, Zenon
  <1>4. CASE FirstSipi \/ SecondSipi
    <2>1. /\ UNCHANGED <<cores, pos, cpuIdx, apIndex, scratch, block, queue, count, started, idx, stack>>
          /\ pc \in {"sipi", "sipi2"} /\ pc' \in {"sipi2", "wait"}
          /\ UNCHANGED at \/ at' = [at EXCEPT ![Target] = IF @ = "init" THEN "trampoline" ELSE @]
      BY <1>4, Zenon DEF FirstSipi, SecondSipi, Sipi
    <2>2. pos \in DOMAIN cores /\ Target \in Ap /\ Target' = Target
      BY <2>1, Zenon DEF Told, Wanted, Target, Ap
    <2>3. TypeOK'
      <3>1. at' \in [Ap -> {"off", "init", "trampoline", "entry", "setup", "queued",
                            "online", "parked", "running"}]
        BY <2>1, <2>2, SMTT(30) DEF TypeOK
      <3>2. QED BY <2>1, <3>1, Zenon DEF TypeOK
    <2>4. \A c \in Ap : at'[c] = at[c] \/ (c = Target /\ at[c] = "init" /\ at'[c] = "trampoline")
      BY <2>1, <2>2 DEF TypeOK
    <2>5. Told'
      BY <2>1, <2>2, Zenon DEF Told, Wanted
    <2>6. OneMoving' /\ Stacks' /\ OwnBlock' /\ Counted'
      BY <2>1, <2>2, <2>4, SMTT(30) DEF OneMoving, Moving, Waking, Stacks, OwnBlock, OnStack, Indexed, Counted
    <2>7. NotYet'
      BY <2>1, <2>2, <2>4 DEF NotYet, Target, TypeOK
    <2>8. /\ \A c \in Ap : OnStack(c)' <=> OnStack(c)
          /\ \A c \in Ap : at'[c] \in Up <=> at[c] \in Up
          /\ \A c \in Ap : at'[c] \in Up \cup {"queued"} <=> at[c] \in Up \cup {"queued"}
      BY <2>4, Zenon DEF OnStack, Up
    <2>9. Blocks'
      BY <2>1, <2>8, ZenonT(30) DEF Blocks
    <2>10. Queues'
      BY <2>1, <2>8, ZenonT(30) DEF Queues
    <2>11. QED BY <2>3, <2>5, <2>6, <2>7, <2>9, <2>10, Zenon
  <1>5. QED BY <1>1, <1>2, <1>3, <1>4, Zenon

\* Core d is on the stack it was on, or has just come to one whose block is its own.
Kept(d) == at'[d] \notin Off => \/ at[d] \notin Off /\ stack'[d] = stack[d]
                                \/ at'[d] \notin Up /\ block[stack'[d]].apic = d

\* A step that changes no block, and puts no core into or out of Up.
LEMMA BlocksStay ==
    ASSUME Blocks, UNCHANGED <<block, pc>>,
           \A d \in Ap : at'[d] \in Up <=> at[d] \in Up,
           \A d \in Ap : Kept(d)
    PROVE  Blocks'
  <1>1. \A d \in Ap : at[d] \in Up => stack'[d] = stack[d]
    BY Zenon DEF Kept, Up, Off
  <1>2. \A d \in Ap : at'[d] \notin Off => block'[stack'[d]].apic = d
    BY Zenon DEF Blocks, Kept, OnStack, Off
  <1>3. \A d \in Ap : at'[d] \in Up => block'[stack'[d]].online
    BY <1>1, Zenon DEF Blocks
  <1>4. \A i \in Index \ {0} : block'[i].online => \E d \in Ap : at'[d] \in Up /\ stack'[d] = i
    BY <1>1 DEF Blocks
  <1>5. QED BY <1>2, <1>3, <1>4, Zenon DEF Blocks, OnStack, Off

\* A step that changes no queue, and sets up no root task.
LEMMA QueuesStay ==
    ASSUME Queues, UNCHANGED queue,
           \A d \in Ap : /\ at'[d] \in Up \cup {"queued"} <=> at[d] \in Up \cup {"queued"}
                         /\ at[d] \in Up \cup {"queued"} => stack'[d] = stack[d]
    PROVE  Queues'
  BY DEF Queues

\* Steps of a core on its way.
LEMMA CoreSteps ==
    ASSUME BootInv, NEW c \in Ap, ApStep(c)
    PROVE  BootInv'
  <1> USE DEF BootInv
  <1> DEFINE Places == {"off", "init", "trampoline", "entry", "setup", "queued",
                        "online", "parked", "running"}
  <1>1. UNCHANGED <<cores, pc, pos, cpuIdx, apIndex, scratch, started>>
    BY Zenon DEF ApStep, Trampoline, ReadIndex, InitAp, SetOnline, Count, Release, bspVars
  <1>2. /\ at'[c] \in Places /\ at' = [at EXCEPT ![c] = at'[c]]
        /\ at' \in [Ap -> Places] /\ at[c] \notin {"off", "init"}
        /\ at'[c] \notin {"off", "init", "trampoline"}
        /\ at'[c] \in Moving => at[c] \in Moving
    <2> DEFINE Move(l, m) == at[c] = l /\ at' = [at EXCEPT ![c] = m]
    <2>1. \/ Move("trampoline", "entry") \/ Move("entry", "setup") \/ Move("setup", "queued")
          \/ Move("queued", "online") \/ Move("online", "parked") \/ Move("parked", "running")
      BY Zenon DEF ApStep, Trampoline, ReadIndex, InitAp, SetOnline, Count, Release
    <2>2. at \in [Ap -> Places]
      BY Zenon DEF TypeOK
    <2>3. at' = [at EXCEPT ![c] = at'[c]]
      BY <2>1, <2>2, Zenon
    <2>4. QED BY <2>1, <2>2, <2>3, ZenonT(30) DEF Moving
  <1>3. \A d \in Ap : d # c => at'[d] = at[d]
    BY <1>2, Zenon DEF TypeOK
  <1>4. Told' /\ OneMoving' /\ NotYet'
    <2>1. Target' = Target /\ \A d \in Ap : Waking(d)' = Waking(d)
      BY <1>1, Zenon DEF Target, Waking
    <2>2. Told'
      <3>1. pc' \in {"init", "sipi", "sipi2", "wait"} =>
              block'[cpuIdx].apic = block[cpuIdx].apic
        <4>1. CASE SetOnline(c)
          <5>1. block' = [block EXCEPT ![idx[c]].online = TRUE] /\ idx[c] \in Index
            BY <4>1, Zenon DEF SetOnline, TypeOK
          <5>2. \A i \in Index : block'[i].apic = block[i].apic
            BY <5>1, Zenon DEF TypeOK
          <5>3. pc \in {"init", "sipi", "sipi2", "wait"} => cpuIdx \in Index
            BY Zenon DEF Told, TypeOK, Index
          <5>4. QED BY <1>1, <5>2, <5>3, Zenon
        <4>2. CASE UNCHANGED block
          BY <4>2, Zenon
        <4>3. QED
          BY <4>1, <4>2, Zenon DEF ApStep, Trampoline, ReadIndex, InitAp, SetOnline, Count, Release
      <3>2. QED BY <1>1, <2>1, <3>1, Zenon DEF Told, Wanted
    <2>3. OneMoving'
      BY <1>2, <1>3, <2>1, Zenon DEF OneMoving
    <2>4. NotYet'
      BY <1>1, <1>2, <1>3 DEF NotYet
    <2>5. QED BY <2>2, <2>3, <2>4, Zenon
  <1>5. \A d \in Ap : Waking(d)' = Waking(d)
    BY <1>1, Zenon DEF Target, Waking
  <1>6. at[c] \in Moving => /\ Waking(c) /\ cpuIdx \in Index \ {0}
                            /\ apIndex = cpuIdx /\ scratch = cpuIdx
                            /\ block[cpuIdx].apic = c
    BY Zenon DEF OneMoving, Waking, Told, TypeOK, Index
  <1>7. CASE Trampoline(c)
    <2>1. cpuIdx \in Index \ {0} /\ scratch = cpuIdx /\ Waking(c) /\ block[cpuIdx].apic = c
      BY <1>6, <1>7, Zenon DEF Trampoline, Moving
    <2>2. stack'[c] = cpuIdx /\ (\A d \in Ap : d # c => stack'[d] = stack[d])
          /\ stack' \in [Ap -> Index]
      BY <1>7, <2>1, Zenon DEF Trampoline, TypeOK
    <2>3. \A d \in Ap : at[d] \notin Off => stack[d] # cpuIdx
      BY <1>7, <2>1, Zenon DEF Trampoline, Stacks, Waking, OnStack, Off
    <2>4. at[c] = "trampoline" /\ at'[c] = "entry" /\ UNCHANGED <<block, queue, count, idx>>
      BY <1>7, Zenon DEF Trampoline, bspVars, TypeOK
    <2>5. TypeOK'
      BY <1>1, <1>2, <2>2, <2>4, Zenon DEF TypeOK
    <2>6. Stacks'
      BY <1>1, <1>2, <1>3, <1>5, <2>1, <2>2, <2>4, SMTT(30) DEF Stacks, OnStack, Off, TypeOK
    <2>7. OwnBlock'
      <3>1. \A d, e \in Ap : at'[d] \notin Off /\ at'[e] \notin Off /\ stack'[d] = stack'[e] => d = e
        <4>1. \A d \in Ap : d # c => (at'[d] \notin Off => at[d] \notin Off) /\ stack'[d] = stack[d]
          BY <1>3, <2>2, Zenon DEF OnStack, Off
        <4>2. ASSUME NEW d \in Ap, NEW e \in Ap, d # c, e # c, at'[d] \notin Off, at'[e] \notin Off, stack'[d] = stack'[e]
              PROVE  d = e
          BY <4>1, <4>2, Zenon DEF OwnBlock, OnStack, Off
        <4>3. ASSUME NEW d \in Ap, d # c, at'[d] \notin Off PROVE stack'[d] # stack'[c]
          BY <2>2, <2>3, <4>1, <4>3, Zenon
        <4>4. QED BY <4>2, <4>3, Zenon
      <3>2. \A d \in Ap : at'[d] \notin Off => stack'[d] # 0
        BY <1>3, <2>1, <2>2, Zenon DEF OwnBlock, OnStack, Off
      <3>3. \A d \in Ap : at'[d] \notin Off \cup {"entry"} => idx'[d] = stack'[d]
        BY <1>3, <2>2, <2>4, Zenon DEF OwnBlock, OnStack, Off, Indexed
      <3>4. QED BY <3>1, <3>2, <3>3, Zenon DEF OwnBlock, OnStack, Indexed, Off
    <2>8. /\ \A d \in Ap : at'[d] \in Up <=> at[d] \in Up
          /\ \A d \in Ap : Kept(d)
          /\ \A d \in Ap : at[d] \in Up \cup {"queued"} => stack'[d] = stack[d]
      <3>1. /\ at'[c] \notin Up /\ at[c] \notin Up \cup {"queued"}
            /\ block[stack'[c]].apic = c
        BY <2>1, <2>2, <2>4, Zenon DEF Up
      <3>2. \A d \in Ap : d # c => (at'[d] \notin Off => at[d] \notin Off) /\ stack'[d] = stack[d]
        BY <1>3, <2>2 DEF OnStack, Off
      <3>3. at[c] \notin Up
        BY <3>1, Zenon
      <3>4. ASSUME NEW d \in Ap
            PROVE  /\ at'[d] \in Up <=> at[d] \in Up
                   /\ Kept(d)
                   /\ at[d] \in Up \cup {"queued"} => stack'[d] = stack[d]
        <4>1. CASE d = c
          BY <3>1, <3>3, <4>1, Zenon DEF Kept
        <4>2. CASE d # c
          BY <1>3, <3>2, <4>2, Zenon DEF Kept
        <4>3. QED BY <4>1, <4>2, Zenon
      <3>5. QED BY <3>4, Zenon
    <2>9. Blocks'
      <3>1. UNCHANGED <<block, pc>>
        BY <1>1, <2>4, Zenon
      <3>2. QED BY <2>8, <3>1, BlocksStay, Zenon
    <2>10. Queues'
      BY <1>1, <1>3, <2>4, <2>8, QueuesStay, Zenon DEF Up
    <2>11. Counted'
      BY <1>1, <1>3, <2>4, Zenon DEF Counted
    <2>12. QED BY <1>4, <2>5, <2>6, <2>7, <2>9, <2>10, <2>11, Zenon
  <1>8. CASE ReadIndex(c)
    <2>1. cpuIdx \in Index \ {0} /\ apIndex = cpuIdx /\ stack[c] = cpuIdx
      BY <1>6, <1>8, Zenon DEF ReadIndex, Moving, Stacks, OnStack, Off
    <2>2. idx'[c] = stack[c] /\ (\A d \in Ap : d # c => idx'[d] = idx[d]) /\ idx' \in [Ap -> Index]
      BY <1>8, <2>1, Zenon DEF ReadIndex, TypeOK
    <2>3. at[c] = "entry" /\ at'[c] = "setup" /\ UNCHANGED <<block, queue, count, stack>>
      BY <1>8, Zenon DEF ReadIndex, bspVars, TypeOK
    <2>4. TypeOK'
      BY <1>1, <1>2, <2>2, <2>3, Zenon DEF TypeOK
    <2>5. Stacks'
      BY <1>1, <1>3, <1>5, <2>1, <2>3, Zenon DEF Stacks, OnStack, Off, Moving
    <2>6. OwnBlock'
      BY <1>3, <2>2, <2>3 DEF OwnBlock, OnStack, Off, Indexed
    <2>7. Blocks'
      <3>1. /\ \A d \in Ap : at'[d] \in Up <=> at[d] \in Up
            /\ \A d \in Ap : Kept(d)
        <4>1. (at'[c] \in Up <=> at[c] \in Up) /\ (at'[c] \notin Off => at[c] \notin Off)
          BY <2>3, Zenon DEF OnStack, Off, Up
        <4>2. \A d \in Ap : d # c => at'[d] = at[d] /\ (at'[d] \notin Off => at[d] \notin Off)
          BY <1>3, Zenon
        <4>3. \A d \in Ap : stack'[d] = stack[d]
          BY <2>3, Zenon
        <4>4. QED BY <4>1, <4>2, <4>3, Zenon DEF Kept
      <3>2. UNCHANGED <<block, pc>>
        BY <1>1, <2>3, Zenon
      <3>3. QED BY <3>1, <3>2, BlocksStay, ZenonT(30)
    <2>8. Queues'
      BY <1>1, <1>3, <2>3, QueuesStay, Zenon DEF Up
    <2>9. Counted'
      BY <1>1, <1>3, <2>3, Zenon DEF Counted
    <2>10. QED BY <1>4, <2>4, <2>5, <2>6, <2>7, <2>8, <2>9
  <1>9. CASE InitAp(c)
    <2>1. cpuIdx \in Index \ {0} /\ idx[c] = cpuIdx /\ stack[c] = cpuIdx
      BY <1>6, <1>9, Zenon DEF InitAp, Moving, Stacks, OwnBlock, OnStack, Off, Indexed
    <2>2. at[c] = "setup" /\ at'[c] = "queued" /\ UNCHANGED <<block, count, idx, stack>>
      BY <1>9, Zenon DEF InitAp, bspVars, TypeOK
    <2>3. queue[cpuIdx] = NoCore
      <3> SUFFICES ASSUME queue[cpuIdx] # NoCore PROVE FALSE
        BY Zenon
      <3>1. PICK d \in Ap : at[d] \in Up \cup {"queued"} /\ stack[d] = cpuIdx
        BY <2>1, Zenon DEF Queues
      <3>2. d = c
        BY <2>1, <2>2, <3>1, ZenonT(30) DEF OwnBlock, OnStack, Off, Up
      <3>3. QED BY <2>2, <3>1, <3>2, Zenon DEF Up
    <2>4. queue' = [queue EXCEPT ![cpuIdx] = c] /\ queue' \in [Index -> Core \cup {NoCore}]
      BY <1>9, <2>1, <2>3, Zenon DEF InitAp, TypeOK, Ap
    <2>5. TypeOK'
      BY <1>1, <1>2, <2>2, <2>4, Zenon DEF TypeOK
    <2>6. Stacks'
      BY <1>1, <1>3, <1>5, <2>1, <2>2, Zenon DEF Stacks, OnStack, Off, Moving
    <2>7. OwnBlock'
      BY <1>3, <2>2, ZenonT(30) DEF OwnBlock, OnStack, Off, Indexed
    <2>8. Blocks'
      <3>1. /\ \A d \in Ap : at'[d] \in Up <=> at[d] \in Up
            /\ \A d \in Ap : Kept(d)
        <4>1. (at'[c] \in Up <=> at[c] \in Up) /\ (at'[c] \notin Off => at[c] \notin Off)
          BY <2>2, Zenon DEF OnStack, Off, Up
        <4>2. \A d \in Ap : d # c => at'[d] = at[d] /\ (at'[d] \notin Off => at[d] \notin Off)
          BY <1>3
        <4>3. \A d \in Ap : stack'[d] = stack[d]
          BY <2>2, Zenon
        <4>4. QED BY <4>1, <4>2, <4>3 DEF Kept
      <3>2. UNCHANGED <<block, pc>>
        BY <1>1, <2>2, Zenon
      <3>3. QED BY <3>1, <3>2, BlocksStay, Zenon
    <2>9. Counted'
      BY <1>1, <1>3, <2>2, Zenon DEF Counted
    <2>10. queue'[cpuIdx] = c /\ \A i \in Index : i # cpuIdx => queue'[i] = queue[i]
      BY <2>1, <2>4, ZenonT(30) DEF TypeOK
    <2>11. \A d \in Ap : at'[d] \in Up \cup {"queued"} => queue'[stack'[d]] = d
      <3>1. ASSUME NEW d \in Ap, d # c, at'[d] \in Up \cup {"queued"} PROVE queue'[stack'[d]] = d
        <4>1. at[d] \in Up \cup {"queued"} /\ stack'[d] = stack[d] /\ stack[d] \in Index
          BY <1>3, <2>2, <3>1, Zenon DEF TypeOK
        <4>2. queue[stack[d]] = d
          BY <3>1, <4>1, Zenon DEF Queues
        <4>3. stack[d] # cpuIdx
          BY <2>1, <2>2, <3>1, <4>1, Zenon DEF OwnBlock, OnStack, Off, Up
        <4>4. QED BY <2>10, <4>1, <4>2, <4>3, Zenon
      <3>2. QED BY <2>1, <2>2, <2>10, <3>1, ZenonT(30)
    <2>12. \A i \in Index \ {0} : queue'[i] # NoCore =>
             \E d \in Ap : at'[d] \in Up \cup {"queued"} /\ stack'[d] = i
      <3>1. ASSUME NEW i \in Index \ {0}, queue'[i] # NoCore, i # cpuIdx
            PROVE  \E d \in Ap : at'[d] \in Up \cup {"queued"} /\ stack'[d] = i
        <4>1. PICK d \in Ap : at[d] \in Up \cup {"queued"} /\ stack[d] = i
          BY <2>10, <3>1, Zenon DEF Queues
        <4>2. d # c
          BY <2>1, <3>1, <4>1, Zenon
        <4>3. QED BY <1>3, <2>2, <4>1, <4>2, Zenon
      <3>2. QED BY <2>1, <2>2, <3>1, Zenon
    <2>13. QED BY <1>4, <2>5, <2>6, <2>7, <2>8, <2>9, <2>11, <2>12, ZenonT(30) DEF Queues
  <1>10. CASE SetOnline(c)
    <2>1. cpuIdx \in Index \ {0} /\ idx[c] = cpuIdx /\ stack[c] = cpuIdx
      BY <1>6, <1>10, Zenon DEF SetOnline, Moving, Stacks, OwnBlock, OnStack, Off, Indexed
    <2>2. at[c] = "queued" /\ at'[c] = "online" /\ UNCHANGED <<queue, count, idx, stack>>
      BY <1>10, Zenon DEF SetOnline, bspVars, TypeOK
    <2>3. block' \in [Index -> [apic : Core \cup {0}, online : BOOLEAN]]
      <3>1. [block[cpuIdx] EXCEPT !.online = TRUE] \in [apic : Core \cup {0}, online : BOOLEAN]
        <4>1. block[cpuIdx] \in [apic : Core \cup {0}, online : BOOLEAN]
          BY <2>1, Zenon DEF TypeOK
        <4>2. QED BY <4>1, ZenonT(30)
      <3>2. QED BY <1>10, <2>1, <3>1 DEF SetOnline, TypeOK
    <2>4. /\ block'[cpuIdx].online /\ block'[cpuIdx].apic = block[cpuIdx].apic
          /\ \A i \in Index : i # cpuIdx => block'[i] = block[i]
      BY <1>10, <2>1 DEF SetOnline, TypeOK
    <2>5. TypeOK'
      BY <1>1, <1>2, <2>2, <2>3, Zenon DEF TypeOK
    <2>6. Stacks'
      BY <1>1, <1>3, <1>5, <2>1, <2>2, Zenon DEF Stacks, OnStack, Off, Moving
    <2>7. OwnBlock'
      BY <1>3, <2>2, ZenonT(30) DEF OwnBlock, OnStack, Off, Indexed
    <2>8. Queues'
      BY <1>1, <1>3, <2>2, QueuesStay, Zenon DEF Up
    <2>9. Counted'
      BY <1>1, <1>3, <2>2, Zenon DEF Counted
    <2>10. Blocks'
      <3>1. 0 \in Index /\ \A d \in Ap : stack[d] \in Index
        BY BootAssumption, SMTT(30) DEF Index, TypeOK
      <3>2. pc' # "smp" => block'[0] = [apic |-> Bsp, online |-> TRUE]
        BY <1>1, <2>1, <2>4, <3>1, Zenon DEF Blocks
      <3>3. \A d \in Ap : at'[d] \notin Off => block'[stack'[d]].apic = d
        <4>1. \A d \in Ap : at'[d] \notin Off => at[d] \notin Off
          BY <1>3, <2>2, Zenon DEF OnStack, Off
        <4>2. \A i \in Index : block'[i].apic = block[i].apic
          BY <2>4, Zenon
        <4>3. QED BY <2>2, <3>1, <4>1, <4>2, Zenon DEF Blocks, OnStack, Off
      <3>4. \A d \in Ap : at'[d] \in Up => block'[stack'[d]].online
        <4>1. \A i \in Index : block[i].online => block'[i].online
          BY <2>4, Zenon
        <4>2. QED BY <1>3, <2>1, <2>2, <2>4, <3>1, <4>1, Zenon DEF Blocks
      <3>5. \A i \in Index \ {0} : block'[i].online => \E d \in Ap : at'[d] \in Up /\ stack'[d] = i
        <4>1. ASSUME NEW i \in Index \ {0}, block'[i].online, i # cpuIdx
              PROVE  \E d \in Ap : at'[d] \in Up /\ stack'[d] = i
          <5>1. PICK d \in Ap : at[d] \in Up /\ stack[d] = i
            BY <2>4, <4>1, Zenon DEF Blocks
          <5>2. d # c
            BY <2>1, <4>1, <5>1, Zenon
          <5>3. QED BY <1>3, <2>2, <5>1, <5>2, Zenon
        <4>2. at'[c] \in Up /\ stack'[c] = cpuIdx
          BY <2>1, <2>2, Zenon DEF Up
        <4>3. QED BY <4>1, <4>2, Zenon
      <3>6. QED BY <3>2, <3>3, <3>4, <3>5, Zenon DEF Blocks, OnStack, Off
    <2>11. QED BY <1>4, <2>5, <2>6, <2>7, <2>8, <2>9, <2>10, ZenonT(30)
  <1>11. CASE Count(c) \/ Release(c)
    <2>1. /\ at[c] \in {"online", "parked"} /\ at'[c] \in {"parked", "running"}
          /\ UNCHANGED <<block, queue, idx, stack>>
          /\ (at[c] = "parked" /\ count' = count) \/ count' = count + 1
      BY <1>11, Zenon DEF Count, Release, bspVars, TypeOK
    <2>2. TypeOK'
      BY <1>1, <1>2, <2>1, SMTT(30) DEF TypeOK
    <2>3. Stacks'
      BY <1>1, <1>3, <1>5, <2>1, Zenon DEF Stacks, OnStack, Off, Moving
    <2>4. OwnBlock'
      BY <1>3, <2>1, ZenonT(30) DEF OwnBlock, OnStack, Off, Indexed
    <2>5. Blocks'
      <3>1. /\ \A d \in Ap : at'[d] \in Up <=> at[d] \in Up
            /\ \A d \in Ap : Kept(d)
        <4>1. (at'[c] \in Up <=> at[c] \in Up) /\ (at'[c] \notin Off => at[c] \notin Off)
          BY <2>1, Zenon DEF OnStack, Off, Up
        <4>2. \A d \in Ap : d # c => at'[d] = at[d] /\ (at'[d] \notin Off => at[d] \notin Off)
          BY <1>3
        <4>3. \A d \in Ap : stack'[d] = stack[d]
          BY <2>1, Zenon
        <4>4. QED BY <4>1, <4>2, <4>3 DEF Kept
      <3>2. UNCHANGED <<block, pc>>
        BY <1>1, <2>1, Zenon
      <3>3. QED BY <3>1, <3>2, BlocksStay, Zenon
    <2>6. Queues'
      BY <1>1, <1>3, <2>1, QueuesStay, Zenon DEF Up
    <2>7. Counted'
      <3>1. count \in Nat /\ pc # "smp" /\ count >= 1
        BY <2>1, Zenon DEF Counted, NotYet, TypeOK
      <3>2. QED BY <1>1, <1>3, <2>1, <3>1, SMTT(30) DEF Counted
    <2>8. QED BY <1>4, <2>2, <2>3, <2>4, <2>5, <2>6, <2>7
  <1>12. QED BY <1>7, <1>8, <1>9, <1>10, <1>11, Zenon DEF ApStep

\* With no core later than the BSP waits, every step keeps the invariant.
LEMMA NextBoot ==
    ASSUME Late = {}, BootInv, [Next]_vars
    PROVE  BootInv'
  <1>1. CASE UNCHANGED vars
    <2>1. TypeOK' /\ Counted' /\ NotYet'
      BY <1>1, Zenon DEF vars, BootInv, TypeOK, Counted, NotYet
    <2>2. Told' /\ OneMoving'
      BY <1>1, Zenon DEF vars, BootInv, Told, Wanted, Target, OneMoving, Waking
    <2>3. Stacks' /\ OwnBlock'
      BY <1>1, Zenon DEF vars, BootInv, Stacks, OwnBlock, OnStack, Indexed, Waking, Target
    <2>4. Blocks'
      BY <1>1, Zenon DEF vars, BootInv, Blocks, OnStack
    <2>5. Queues'
      BY <1>1, Zenon DEF vars, BootInv, Queues
    <2>6. QED BY <2>1, <2>2, <2>3, <2>4, <2>5, Zenon DEF BootInv
  <1>2. CASE BspStep
    BY <1>2, BspGoesOn, BspWakes, Zenon DEF BspStep
  <1>3. CASE \E c \in Ap : ApStep(c)
    BY <1>3, CoreSteps, Zenon
  <1>4. QED BY <1>1, <1>2, <1>3, Zenon DEF Next

\* The invariant gives what SchedulesOwn says of a core that schedules.
LEMMA InvSchedules == BootInv => SchedulesOwn
  <1> SUFFICES ASSUME BootInv, NEW c \in Ap, at[c] = "running"
               PROVE  CurrentCpu(c) = idx[c] /\ queue[idx[c]] = c
    BY Zenon DEF SchedulesOwn
  <1> USE DEF BootInv
  <1>1. idx[c] = stack[c] /\ stack[c] \in Index \ {0} /\ queue[idx[c]] = c
    BY ZenonT(30) DEF OwnBlock, OnStack, Indexed, Queues, Up, TypeOK
  <1>2. count >= 2 /\ ~(count <= 1)
    BY DEF Counted, TypeOK
  <1>3. pc # "smp"
    BY Zenon DEF NotYet
  <1>4. {i \in Index : block[i].online /\ block[i].apic = c} = {stack[c]}
    <2>1. block[stack[c]].online /\ block[stack[c]].apic = c
      BY Zenon DEF Blocks, Up, OnStack
    <2>2. ASSUME NEW i \in Index, block[i].online, block[i].apic = c PROVE i = stack[c]
      <3>1. i # 0
        BY <1>3, <2>2, SMTT(30) DEF Blocks, Ap
      <3>2. PICK d \in Ap : at[d] \in Up /\ stack[d] = i
        BY <2>2, <3>1, Zenon DEF Blocks
      <3>3. QED BY <2>2, <3>2, Zenon DEF Blocks, OnStack, Up
    <2>3. QED BY <1>1, <2>1, <2>2, Zenon
  <1>5. CurrentCpu(c) = CHOOSE i \in {stack[c]} : \A j \in {stack[c]} : i <= j
    BY <1>2, <1>4, Zenon DEF CurrentCpu
  <1>6. stack[c] <= stack[c]
    <2>1. MaxCpus \in Nat
      BY BootAssumption, Zenon
    <2>2. QED BY <1>1, <2>1 DEF Index
  <1>7. (CHOOSE i \in {stack[c]} : \A j \in {stack[c]} : i <= j) = stack[c]
    BY <1>6, Zenon
  <1>8. QED BY <1>1, <1>5, <1>7, Zenon

\* Every core boots on the stack and in the per-CPU block meant for it and shares
\* them with no other, for every core list, MAX_CPUS and set of cores without an
\* answer, when no core that took its SIPI needs longer than smp::init waits.
THEOREM CoresApart ==
    ASSUME Late = {}
    PROVE  Spec => []OwnBlock
  <1>1. BootInv /\ [Next]_vars => BootInv'
    BY NextBoot, Zenon
  <1>2. BootInv => OwnBlock
    BY Zenon DEF BootInv
  <1>3. QED BY InitBoot, <1>1, <1>2, PTL DEF Spec

\* A core that schedules finds itself with current_cpu, in the run queue of its own
\* root task, under the same condition.
THEOREM CoresFindThemselves ==
    ASSUME Late = {}
    PROVE  Spec => []SchedulesOwn
  <1>1. BootInv /\ [Next]_vars => BootInv'
    BY NextBoot
  <1>2. QED BY InitBoot, <1>1, InvSchedules, PTL DEF Spec

-----------------------------------------------------------------------------

\* Where a core may be.
Places == {"off", "init", "trampoline", "entry", "setup", "queued", "online", "parked", "running"}

\* The entries of the core list before position n that are to be woken.
WantedBefore(n) == {i \in 1 .. n - 1 : i \in DOMAIN cores /\ Wanted(i)}

\* The loop has sent INIT to entry i, if it is to be woken.
Passed(i) == i < pos \/ (i = pos /\ pc \in {"sipi", "sipi2", "wait"})

\* smp::init numbers the cores it wakes one after the other, as long as there
\* are per-CPU blocks.
Numbered ==
  /\ cores \in CoreLists /\ pos \in 1 .. Len(cores) + 1 /\ cpuIdx \in 1 .. MaxCpus
  /\ cpuIdx - 1 = Cardinality(WantedBefore(pos))
  /\ pc \in {"init", "sipi", "sipi2", "wait"} =>
       pos <= Len(cores) /\ Wanted(pos) /\ cpuIdx < MaxCpus
  /\ pc \in {"rest", "done"} =>
       \/ Len(cores) <= 1 \/ \A i \in DOMAIN cores : ~ Wanted(i)
       \/ pos = Len(cores) + 1
       \/ Wanted(pos) /\ cpuIdx = MaxCpus
  /\ at \in [Ap -> Places]
  /\ \A c \in Ap : at[c] # "off" => \E i \in DOMAIN cores : Wanted(i) /\ cores[i].apic = c
  /\ \A i \in DOMAIN cores :
       Wanted(i) /\ cores[i].apic \notin Dead /\ Passed(i) => at[cores[i].apic] # "off"

\* When the boot is over, the enabled cores of the list have got the indices from 1
\* on, as far as there are per-CPU blocks; a core has been woken only if it is one of
\* them, and every one of them has that is early enough in the list and answers.
ListWoken ==
  pc = "done" /\ Len(cores) > 1 =>
    LET wanted == {i \in DOMAIN cores : Wanted(i)}
    IN  /\ cpuIdx - 1 = IF Cardinality(wanted) < MaxCpus THEN Cardinality(wanted)
                        ELSE MaxCpus - 1
        /\ \A c \in Ap : at[c] # "off" => \E i \in wanted : cores[i].apic = c
        /\ \A i \in wanted :
             Cardinality(WantedBefore(i)) < MaxCpus - 1 /\ cores[i].apic \notin Dead =>
               at[cores[i].apic] # "off"

\* The entries before a position are finitely many, and one position on there is
\* one more of them or as many.
LEMMA BeforeNext ==
  ASSUME cores \in CoreLists, NEW n \in 1 .. Len(cores)
  PROVE  /\ IsFiniteSet(WantedBefore(n)) /\ Cardinality(WantedBefore(n)) \in Nat
         /\ Cardinality(WantedBefore(n + 1)) =
              Cardinality(WantedBefore(n)) + (IF Wanted(n) THEN 1 ELSE 0)
  <1>1. n \in Nat \ {0} /\ Len(cores) \in Nat /\ n \in DOMAIN cores
    BY ListIs
  <1>2. IsFiniteSet(1 .. n - 1)
    BY <1>1, FS_Interval
  <1>3. WantedBefore(n) \in SUBSET (1 .. n - 1)
    BY Zenon DEF WantedBefore
  <1>4. IsFiniteSet(WantedBefore(n)) /\ Cardinality(WantedBefore(n)) \in Nat
    BY <1>2, <1>3, FS_Subset, FS_CardinalityType, Zenon
  <1>5. WantedBefore(n + 1) = IF Wanted(n) THEN WantedBefore(n) \union {n} ELSE WantedBefore(n)
    <2>1. \A i : i \in 1 .. n + 1 - 1 <=> i \in 1 .. n - 1 \/ i = n
      BY <1>1
    <2>2. \A i : i \in WantedBefore(n + 1) <=> i \in WantedBefore(n) \/ (i = n /\ Wanted(n))
      BY <1>1, <2>1 DEF WantedBefore
    <2> QED
      BY <2>2, Zenon
  <1>6. n \notin WantedBefore(n)
    BY <1>1 DEF WantedBefore
  <1>7. CASE Wanted(n)
    BY <1>4, <1>5, <1>6, <1>7, FS_AddElement, Zenon
  <1>8. CASE ~ Wanted(n)
    BY <1>4, <1>5, <1>8
  <1> QED
    BY <1>4, <1>7, <1>8, Zenon

\* At power-on no core has been numbered.
LEMMA InitNumbered == Init => Numbered
  <1> SUFFICES ASSUME Init PROVE Numbered
    OBVIOUS
  <1>1. cores \in CoreLists /\ pos = 1 /\ cpuIdx = 1 /\ pc = "smp" /\ at = [c \in Ap |-> "off"]
    BY Zenon DEF Init
  <1>2. WantedBefore(1) = {}
    BY DEF WantedBefore
  <1>3. Len(cores) \in Nat /\ MaxCpus \in Nat \ {0}
    BY <1>1, ListIs, BootAssumption, Zenon
  <1>4. cpuIdx - 1 = Cardinality(WantedBefore(pos))
    <2>1. Cardinality(WantedBefore(1)) = 0
      BY <1>2, FS_EmptySet, Zenon
    <2> QED
      BY <1>1, <2>1
  <1>5. at \in [Ap -> Places] /\ \A c \in Ap : at[c] = "off"
    BY <1>1, Zenon DEF Places
  <1>6. pos \in 1 .. Len(cores) + 1 /\ cpuIdx \in 1 .. MaxCpus
    BY <1>1, <1>3
  <1> QED
    BY <1>1, <1>4, <1>5, <1>6, SMTT(30) DEF Numbered, Passed

\* The steps of the BSP that leave the list position and the cores alone.
LEMMA KeepsNumbered ==
  ASSUME Numbered, UNCHANGED <<cores, pos, cpuIdx, at>>,
         \A i \in DOMAIN cores : Passed(i)' => Passed(i),
         pc' \in {"init", "sipi", "sipi2", "wait"} =>
           pos <= Len(cores) /\ Wanted(pos) /\ cpuIdx < MaxCpus,
         pc' \in {"rest", "done"} =>
           \/ Len(cores) <= 1 \/ \A i \in DOMAIN cores : ~ Wanted(i)
           \/ pos = Len(cores) + 1
           \/ Wanted(pos) /\ cpuIdx = MaxCpus
  PROVE  Numbered'
<1>1. WantedBefore(pos)' = WantedBefore(pos) /\ \A i : Wanted(i)' <=> Wanted(i)
    BY Zenon DEF WantedBefore, Wanted
  <1> QED
    BY <1>1, Zenon DEF Numbered

\* Every step of the BSP keeps the numbering.
LEMMA BspNumbered == Numbered /\ BspStep => Numbered'
  <1> SUFFICES ASSUME Numbered, BspStep PROVE Numbered'
    BY Zenon
  <1>0. /\ cores \in CoreLists /\ Len(cores) \in Nat /\ MaxCpus \in Nat \ {0}
        /\ pos \in Nat \ {0} /\ pos <= Len(cores) + 1
        /\ cpuIdx \in Nat \ {0} /\ cpuIdx <= MaxCpus
        /\ DOMAIN cores = 1 .. Len(cores)
    BY ListIs, BootAssumption DEF Numbered
  <1>1. CASE SmpInit
    BY <1>1, KeepsNumbered, Zenon DEF SmpInit, apVars, Passed
  <1>2. CASE LoopEnds
    <2>1. UNCHANGED <<cores, pos, cpuIdx, at>> /\ pc' = "rest"
      BY <1>2, Zenon DEF LoopEnds, apVars
    <2>2. pos = Len(cores) + 1 \/ (Wanted(pos) /\ cpuIdx = MaxCpus)
      BY <1>0, <1>2 DEF LoopEnds
    <2> QED
      BY <2>1, <2>2, KeepsNumbered, Zenon DEF Passed
  <1>3. CASE Skip
    <2>1. /\ UNCHANGED <<cores, cpuIdx, at, pc>> /\ pc = "next"
          /\ pos' = pos + 1 /\ pos \in 1 .. Len(cores) /\ ~ Wanted(pos)
      BY <1>0, <1>3 DEF Skip, apVars
    <2>2. Cardinality(WantedBefore(pos + 1)) = Cardinality(WantedBefore(pos))
      BY <1>0, <2>1, BeforeNext
    <2>3. cpuIdx' - 1 = Cardinality(WantedBefore(pos)')
      <3>1. WantedBefore(pos)' = WantedBefore(pos + 1)
        BY <2>1, Zenon DEF WantedBefore, Wanted
      <3> QED
        BY <2>1, <2>2, <3>1, Zenon DEF Numbered
    <2>4. pos' \in 1 .. Len(cores) + 1
      BY <1>0, <2>1
    <2> QED
      BY <1>0, <2>1, <2>3, <2>4 DEF Numbered, Wanted, Passed
  <1>4. CASE Prepare
    <2>1. /\ UNCHANGED <<cores, pos, cpuIdx, at>> /\ pc' = "init"
          /\ pos <= Len(cores) /\ Wanted(pos) /\ cpuIdx < MaxCpus
      BY <1>4, Zenon DEF Prepare, apVars
    <2> QED
      BY <2>1, KeepsNumbered, Zenon DEF Passed
  <1>5. ASSUME pc \in {"init", "sipi", "sipi2"}, UNCHANGED <<cores, pos, cpuIdx>>,
               pc' \in {"sipi", "sipi2", "wait"},
               \/ UNCHANGED at
               \/ \E l \in {"init", "trampoline", at[Target]} : at' = [at EXCEPT ![Target] = l],
               pc = "init" => Target \in Dead \/ at' = [at EXCEPT ![Target] = "init"]
        PROVE  Numbered'
    <2>1. /\ pos <= Len(cores) /\ Wanted(pos) /\ cpuIdx < MaxCpus /\ pos \in DOMAIN cores
          /\ Target \in Ap
      <3>1. pos <= Len(cores) /\ Wanted(pos) /\ cpuIdx < MaxCpus
        BY <1>5, Zenon DEF Numbered
      <3>2. pos \in DOMAIN cores
        BY <1>0, <3>1
      <3> QED
        BY <1>0, <3>1, <3>2, ListIs, Zenon DEF Wanted, Target, Ap
    <2>2. at \in [Ap -> Places] /\ at' \in [Ap -> Places]
      <3>1. at \in [Ap -> Places]
        BY Zenon DEF Numbered
      <3>2. {"init", "trampoline", at[Target]} \subseteq Places
        BY <2>1, <3>1, Zenon DEF Places
      <3> QED
        BY <1>5, <2>1, <3>1, <3>2, Zenon
    <2>3. /\ \A c \in Ap : at'[c] # "off" => at[c] # "off" \/ c = Target
          /\ \A c \in Ap : at[c] # "off" => at'[c] # "off"
          /\ pc = "init" => Target \in Dead \/ at'[Target] # "off"
      BY <1>5, <2>1, <2>2, Zenon
    <2>4. \A c \in Ap : at'[c] # "off" => \E i \in DOMAIN cores : Wanted(i) /\ cores[i].apic = c
      BY <2>1, <2>3, Zenon DEF Numbered, Target
    <2>5. ASSUME NEW i \in DOMAIN cores, Wanted(i), cores[i].apic \notin Dead, Passed(i)'
          PROVE  at'[cores[i].apic] # "off"
      <3>1. cores[i].apic \in Ap
        BY <1>0, <2>5, ListIs, Zenon DEF Wanted, Ap
      <3>2. CASE Passed(i)
        BY <2>3, <2>5, <3>1, <3>2, Zenon DEF Numbered
      <3>3. CASE i = pos /\ pc = "init"
        BY <2>3, <2>5, <3>3, Zenon DEF Target
      <3> QED
        BY <1>5, <2>5, <3>2, <3>3, Zenon DEF Passed
    <2>6. WantedBefore(pos)' = WantedBefore(pos) /\ \A i : Wanted(i)' <=> Wanted(i)
      BY <1>5, Zenon DEF WantedBefore, Wanted
    <2> QED
      BY <1>5, <2>1, <2>2, <2>4, <2>5, <2>6, Zenon DEF Numbered
  <1>6. CASE SendInit
    BY <1>5, <1>6, Zenon DEF SendInit
  <1>7. CASE FirstSipi
    BY <1>5, <1>7, Zenon DEF FirstSipi, Sipi
  <1>8. CASE SecondSipi
    BY <1>5, <1>8, Zenon DEF SecondSipi, Sipi
  <1>9. CASE Wait
    <2>1. /\ UNCHANGED <<cores, at>> /\ pc = "wait" /\ pc' = "next"
          /\ pos' = pos + 1 /\ cpuIdx' = cpuIdx + 1
      BY <1>9, Zenon DEF Wait, apVars
    <2>2. pos \in 1 .. Len(cores) /\ Wanted(pos) /\ cpuIdx < MaxCpus
      BY <1>0, <2>1 DEF Numbered
    <2>3. /\ Cardinality(WantedBefore(pos + 1)) = Cardinality(WantedBefore(pos)) + 1
          /\ Cardinality(WantedBefore(pos)) \in Nat
      BY <1>0, <2>2, BeforeNext, Zenon
    <2>4. cpuIdx' - 1 = Cardinality(WantedBefore(pos)')
      <3>1. WantedBefore(pos)' = WantedBefore(pos + 1)
        BY <2>1, Zenon DEF WantedBefore, Wanted
      <3>2. cpuIdx - 1 = Cardinality(WantedBefore(pos))
        BY Zenon DEF Numbered
      <3> QED
        BY <1>0, <2>1, <2>3, <3>1, <3>2
    <2>5. pos' \in 1 .. Len(cores) + 1 /\ cpuIdx' \in 1 .. MaxCpus
      BY <1>0, <2>1, <2>2
    <2> QED
      BY <1>0, <2>1, <2>4, <2>5 DEF Numbered, Wanted, Passed
  <1>10. CASE StartAps
    <2>1. UNCHANGED <<cores, pos, cpuIdx, at>> /\ pc = "rest" /\ pc' = "done"
      BY <1>10, Zenon DEF StartAps, apVars
    <2> QED
      BY <2>1, KeepsNumbered, Zenon DEF Numbered, Passed
  <1> QED
    BY <1>1, <1>2, <1>3, <1>4, <1>6, <1>7, <1>8, <1>9, <1>10, ZenonT(30) DEF BspStep

\* The cores number nobody.
LEMMA CoreNumbered == ASSUME Numbered, NEW c \in Ap, ApStep(c) PROVE Numbered'
  <1>1. /\ UNCHANGED <<cores, pc, pos, cpuIdx>> /\ at[c] # "off"
        /\ \E l \in Places \ {"off"} : at' = [at EXCEPT ![c] = l]
    BY Zenon DEF ApStep, Trampoline, ReadIndex, InitAp, SetOnline, Count, Release, bspVars, Places
  <1>2. at' \in [Ap -> Places] /\ \A d \in Ap : at'[d] # "off" <=> at[d] # "off"
    BY <1>1 DEF Numbered
  <1>3. WantedBefore(pos)' = WantedBefore(pos) /\ \A i : (Wanted(i)' <=> Wanted(i)) /\ (Passed(i)' <=> Passed(i))
    BY <1>1, Zenon DEF WantedBefore, Wanted, Passed
  <1>4. \A i \in DOMAIN cores : Wanted(i) => cores[i].apic \in Ap
    BY ListIs, Zenon DEF Numbered, Wanted, Ap
  <1> QED
    BY <1>1, <1>2, <1>3, <1>4, Zenon DEF Numbered

\* When the boot ends the numbering is that of the whole list.
LEMMA NumberedWoken == Numbered => ListWoken
  <1> SUFFICES ASSUME Numbered, pc = "done", Len(cores) > 1 PROVE ListWoken
    BY Zenon DEF ListWoken
  <1> DEFINE wanted == {i \in DOMAIN cores : Wanted(i)}
  <1>0. /\ cores \in CoreLists /\ Len(cores) \in Nat /\ MaxCpus \in Nat \ {0}
        /\ pos \in Nat \ {0} /\ pos <= Len(cores) + 1
        /\ cpuIdx \in Nat \ {0} /\ cpuIdx <= MaxCpus
        /\ DOMAIN cores = 1 .. Len(cores)
        /\ cpuIdx - 1 = Cardinality(WantedBefore(pos))
    BY ListIs, BootAssumption DEF Numbered
  <1>1. IsFiniteSet(wanted) /\ Cardinality(wanted) \in Nat
    <2>1. IsFiniteSet(1 .. Len(cores)) /\ wanted \in SUBSET (1 .. Len(cores))
      BY <1>0, FS_Interval
    <2> QED
      BY <2>1, FS_Subset, FS_CardinalityType, Zenon
  <1>2. cpuIdx - 1 = IF Cardinality(wanted) < MaxCpus THEN Cardinality(wanted) ELSE MaxCpus - 1
    <2>1. CASE \A i \in DOMAIN cores : ~ Wanted(i)
      <3>1. wanted = {} /\ WantedBefore(pos) = {}
        BY <2>1, Zenon DEF WantedBefore
      <3>2. Cardinality(wanted) = 0 /\ Cardinality(WantedBefore(pos)) = 0
        BY <3>1, FS_EmptySet, Zenon
      <3> HIDE DEF wanted
      <3> QED
        BY <1>0, <3>2
    <2>2. CASE pos = Len(cores) + 1
      <3>1. WantedBefore(pos) = wanted
        BY <1>0, <2>2 DEF WantedBefore
      <3> QED
        BY <1>0, <1>1, <3>1
    <2>3. CASE pos <= Len(cores) /\ Wanted(pos) /\ cpuIdx = MaxCpus
      <3>1. pos \in 1 .. Len(cores) /\ pos + 1 \in Nat
        BY <1>0, <2>3
      <3>2. /\ Cardinality(WantedBefore(pos + 1)) = Cardinality(WantedBefore(pos)) + 1
        BY <1>0, <2>3, <3>1, BeforeNext, Zenon
      <3>3. WantedBefore(pos + 1) \in SUBSET wanted
        BY Zenon DEF WantedBefore
      <3>4. Cardinality(WantedBefore(pos + 1)) <= Cardinality(wanted)
        BY <1>1, <3>3, FS_Subset, Zenon
      <3> QED
        BY <1>0, <1>1, <2>3, <3>2, <3>4
    <2> QED
      BY <1>0, <2>1, <2>2, <2>3, SMTT(30) DEF Numbered
  <1>3. \A c \in Ap : at[c] # "off" => \E i \in wanted : cores[i].apic = c
    BY Zenon DEF Numbered
  <1>4. ASSUME NEW i \in wanted, Cardinality(WantedBefore(i)) < MaxCpus - 1, cores[i].apic \notin Dead
        PROVE  at[cores[i].apic] # "off"
    <2>1. i \in DOMAIN cores /\ Wanted(i) /\ i \in Nat \ {0}
      BY <1>0
    <2>2. CASE i < pos
      BY <1>4, <2>1, <2>2, Zenon DEF Numbered, Passed
    <2>3. CASE pos <= i
      <3>1. WantedBefore(pos) \in SUBSET WantedBefore(i)
        BY <1>0, <2>1, <2>3 DEF WantedBefore
      <3>2. IsFiniteSet(WantedBefore(i)) /\ Cardinality(WantedBefore(i)) \in Nat
        BY <1>0, <2>1, BeforeNext, Zenon
      <3>3. Cardinality(WantedBefore(pos)) <= Cardinality(WantedBefore(i))
        BY <3>1, <3>2, FS_Subset, Zenon
      <3>4. cpuIdx = MaxCpus
        BY <1>0, <2>1, <2>3, SMTT(30) DEF Numbered
      <3> QED
        BY <1>0, <1>4, <3>2, <3>3, <3>4
    <2> QED
      BY <1>0, <2>1, <2>2, <2>3
  <1> QED
    BY <1>2, <1>3, <1>4, Zenon DEF ListWoken

\* smp::init wakes the cores ACPI lists, neither fewer than there are blocks for
\* nor any other, whichever of them answer and however late.
THEOREM CoresWoken == Spec => []ListWoken
  <1>1. Numbered /\ [Next]_vars => Numbered'
    <2> SUFFICES ASSUME Numbered, [Next]_vars PROVE Numbered'
      BY Zenon
    <2>1. CASE UNCHANGED vars
      BY <2>1, KeepsNumbered, Zenon DEF vars, Numbered, Passed
    <2>2. CASE BspStep
      BY <2>2, BspNumbered, Zenon
    <2>3. CASE \E c \in Ap : ApStep(c)
      BY <2>3, CoreNumbered, Zenon
    <2> QED
      BY <2>1, <2>2, <2>3, Zenon DEF Next
  <1> QED
    BY InitNumbered, <1>1, NumberedWoken, PTL DEF Spec
=============================================================================
