-------------------------------- MODULE Boot --------------------------------
(***************************************************************************)
(* How the boot processor (BSP) wakes the application processors           *)
(* (src/arch/smp.rs, called from src/main.rs) and what an application      *)
(* processor does until it schedules (ap_entry, task::init_ap).  The BSP   *)
(* tells each core its index through one word and its stack through        *)
(* another, both used again for the next core, so everything rests on the  *)
(* BSP not going on while a core is on its way.                            *)
(*                                                                         *)
(* A core is named by its APIC id.  External: a core is in the wait-for-   *)
(* SIPI state after INIT, and a SIPI starts it only in that state and may  *)
(* be missed.                                                              *)
(***************************************************************************)
EXTENDS Integers, Sequences

CONSTANTS Bsp,         \* APIC id of the boot processor
          CoreLists,   \* the core lists ACPI may report
          Core,        \* all APIC ids
          MaxCpus,     \* MAX_CPUS
          Dead,        \* cores that never answer an IPI
          Late         \* cores that may need longer than the BSP waits

ASSUME BootAssumption == /\ MaxCpus \in Nat \ {0}
                         /\ Bsp \in Core
                         /\ CoreLists \subseteq Seq([apic : Core, enabled : BOOLEAN])
                         /\ Dead \subseteq Core /\ Late \subseteq Core
                         /\ \A l \in CoreLists : \A i, j \in DOMAIN l :
                               l[i].apic = l[j].apic => i = j

Index == 0 .. MaxCpus - 1
Ap == Core \ {Bsp}

VARIABLES cores,       \* the core list of ACPI_DATA
          pc,          \* where the BSP is
          pos,         \* position of core_info in the list
          cpuIdx,      \* cpu_idx of smp::init
          apIndex,     \* AP_CPU_INDEX
          scratch,     \* the stack named at AP_SCRATCH_BASE, by its index
          block,       \* PER_CPU: apic_id and online
          queue,       \* CPU_SCHEDULERS: the core whose root task is first, or -1
          count,       \* ONLINE_CPUS
          started,     \* SMP_STARTED
          at,          \* core -> where it is
          idx,         \* core -> the index it read
          stack        \* core -> the stack it took

vars == <<cores, pc, pos, cpuIdx, apIndex, scratch, block, queue, count, started, at, idx, stack>>
bspVars == <<cores, pc, pos, cpuIdx, apIndex, scratch, count, started>>
apVars == <<at, idx, stack>>

NoCore == -1

\* After acpi::init, apic::init and task::init: the BSP's queue exists.
Init == /\ cores \in CoreLists
        /\ pc = "smp" /\ pos = 1 /\ cpuIdx = 1 /\ apIndex = 0 /\ scratch = 0
        /\ block = [i \in Index |-> [apic |-> 0, online |-> FALSE]]
        /\ queue = [i \in Index |-> IF i = 0 THEN Bsp ELSE NoCore]
        /\ count = 0 /\ started = FALSE
        /\ at = [c \in Ap |-> "off"]
        /\ idx = [c \in Ap |-> 0] /\ stack = [c \in Ap |-> 0]

\* A core of the list that is to be woken.
Wanted(i) == cores[i].enabled /\ cores[i].apic # Bsp

\* smp::init: mark the BSP online; return if there is nobody to wake.
SmpInit == /\ pc = "smp"
           /\ block' = [block EXCEPT ![0] = [apic |-> Bsp, online |-> TRUE]]
           /\ count' = 1
           /\ pc' = IF Len(cores) <= 1 \/ \A i \in DOMAIN cores : ~Wanted(i) THEN "rest" ELSE "next"
           /\ UNCHANGED <<cores, pos, cpuIdx, apIndex, scratch, queue, started, apVars>>

\* The loop over the list: it ends at the end of the list or at MAX_CPUS.
LoopEnds == /\ pc = "next"
            /\ pos <= Len(cores) => Wanted(pos) /\ cpuIdx >= MaxCpus
            /\ pc' = "rest"
            /\ UNCHANGED <<cores, pos, cpuIdx, apIndex, scratch, block, queue, count, started, apVars>>

\* A disabled core, or the BSP itself, is passed over.
Skip == /\ pc = "next" /\ pos <= Len(cores) /\ ~Wanted(pos)
        /\ pos' = pos + 1
        /\ UNCHANGED <<cores, pc, cpuIdx, apIndex, scratch, block, queue, count, started, apVars>>

\* Variant: the APIC id is not recorded in the block.
PrepareNoApic ==
    /\ pc = "next" /\ pos <= Len(cores) /\ Wanted(pos) /\ cpuIdx < MaxCpus
    /\ apIndex' = cpuIdx
    /\ scratch' = cpuIdx
    /\ pc' = "init"
    /\ UNCHANGED <<cores, pos, cpuIdx, block, queue, count, started, apVars>>

\* Fill the core's block, AP_CPU_INDEX and the scratch words.
Prepare == /\ pc = "next" /\ pos <= Len(cores) /\ Wanted(pos) /\ cpuIdx < MaxCpus
           /\ block' = [block EXCEPT ![cpuIdx].apic = cores[pos].apic]
           /\ apIndex' = cpuIdx
           /\ scratch' = cpuIdx
           /\ pc' = "init"
           /\ UNCHANGED <<cores, pos, cpuIdx, queue, count, started, apVars>>

\* The core being woken.
Target == cores[pos].apic

\* INIT, and its de-assert: the core waits for a SIPI.
SendInit == /\ pc = "init" /\ pc' = "sipi"
            /\ at' = IF Target \in Dead THEN at ELSE [at EXCEPT ![Target] = "init"]
            /\ UNCHANGED <<cores, pos, cpuIdx, apIndex, scratch, block, queue, count, started, idx, stack>>

\* A SIPI reaches the core: it starts the trampoline if it waits for one.
Sipi == \/ at' = [at EXCEPT ![Target] = IF @ = "init" THEN "trampoline" ELSE @]
        \/ UNCHANGED at

\* The first SIPI.
FirstSipi == /\ pc = "sipi" /\ Sipi /\ pc' = "sipi2"
             /\ UNCHANGED <<cores, pos, cpuIdx, apIndex, scratch, block, queue, count, started, idx, stack>>

\* The second SIPI, unless the core is online by then.
SecondSipi == /\ pc = "sipi2"
              /\ IF block[cpuIdx].online THEN UNCHANGED at ELSE Sipi
              /\ pc' = "wait"
              /\ UNCHANGED <<cores, pos, cpuIdx, apIndex, scratch, block, queue, count, started, idx, stack>>

\* Variant: the BSP waits for the core without a limit.
WaitForever == /\ pc = "wait" /\ block[cpuIdx].online
               /\ pc' = "next" /\ pos' = pos + 1 /\ cpuIdx' = cpuIdx + 1
               /\ UNCHANGED <<cores, apIndex, scratch, block, queue, count, started, apVars>>

\* Variant: the BSP does not wait for the core.
WaitNot == /\ pc = "wait"
           /\ pc' = "next" /\ pos' = pos + 1 /\ cpuIdx' = cpuIdx + 1
           /\ UNCHANGED <<cores, apIndex, scratch, block, queue, count, started, apVars>>

\* The BSP waits until the core is online, or 100 ms.  A core that took a SIPI
\* and is not Late is online by then (the timing the code relies on).
Wait == /\ pc = "wait"
        /\ block[cpuIdx].online \/ at[Target] \in {"off", "init"} \/ Target \in Late
        /\ pc' = "next" /\ pos' = pos + 1 /\ cpuIdx' = cpuIdx + 1
        /\ UNCHANGED <<cores, apIndex, scratch, block, queue, count, started, apVars>>

\* The rest of the boot, up to start_aps.
StartAps == /\ pc = "rest" /\ started' = TRUE /\ pc' = "done"
            /\ UNCHANGED <<cores, pos, cpuIdx, apIndex, scratch, block, queue, count, apVars>>

BspStep == \/ SmpInit \/ LoopEnds \/ Skip \/ Prepare \/ SendInit \/ FirstSipi \/ SecondSipi
           \/ Wait \/ StartAps

-----------------------------------------------------------------------------

\* The trampoline takes the stack from the scratch words.
Trampoline(c) == /\ at[c] = "trampoline"
                 /\ stack' = [stack EXCEPT ![c] = scratch]
                 /\ at' = [at EXCEPT ![c] = "entry"]
                 /\ UNCHANGED <<bspVars, block, queue, idx>>

\* ap_entry reads its index.
ReadIndex(c) == /\ at[c] = "entry"
                /\ idx' = [idx EXCEPT ![c] = apIndex]
                /\ at' = [at EXCEPT ![c] = "setup"]
                /\ UNCHANGED <<bspVars, block, queue, stack>>

\* ap_entry: GDT, TSS, IDT, syscall MSRs and local APIC (init_cpu_state,
\* init_on_cpu), then init_ap: the core's root task, if the queue is empty.
InitAp(c) == /\ at[c] = "setup"
             /\ queue' = IF queue[idx[c]] = NoCore THEN [queue EXCEPT ![idx[c]] = c] ELSE queue
             /\ at' = [at EXCEPT ![c] = "queued"]
             /\ UNCHANGED <<bspVars, block, idx, stack>>

\* set_online.
SetOnline(c) == /\ at[c] = "queued"
                /\ block' = [block EXCEPT ![idx[c]].online = TRUE]
                /\ at' = [at EXCEPT ![c] = "online"]
                /\ UNCHANGED <<bspVars, queue, idx, stack>>

\* ONLINE_CPUS.fetch_add.
Count(c) == /\ at[c] = "online"
            /\ count' = count + 1
            /\ at' = [at EXCEPT ![c] = "parked"]
            /\ UNCHANGED <<cores, pc, pos, cpuIdx, apIndex, scratch, started, block, queue, idx, stack>>

\* The core leaves its wait for SMP_STARTED and enters ap_idle_loop.
Release(c) == /\ at[c] = "parked" /\ started
              /\ at' = [at EXCEPT ![c] = "running"]
              /\ UNCHANGED <<bspVars, block, queue, idx, stack>>

ApStep(c) == Trampoline(c) \/ ReadIndex(c) \/ InitAp(c) \/ SetOnline(c) \/ Count(c) \/ Release(c)

Next == BspStep \/ \E c \in Ap : ApStep(c)

\* Every processor executes its instructions.
Spec == Init /\ [][Next]_vars /\ WF_vars(BspStep) /\ \A c \in Ap : WF_vars(ApStep(c))

-----------------------------------------------------------------------------

\* smp::current_cpu on core c.
CurrentCpu(c) ==
    LET hits == {i \in Index : block[i].online /\ block[i].apic = c}
    IN  IF count <= 1 \/ hits = {} THEN 0 ELSE CHOOSE i \in hits : \A j \in hits : i <= j

TypeOK == /\ cores \in CoreLists
          /\ pc \in {"smp", "next", "init", "sipi", "sipi2", "wait", "rest", "done"}
          /\ pos \in Nat \ {0} /\ cpuIdx \in Nat \ {0}
          /\ apIndex \in Index /\ scratch \in Index
          /\ block \in [Index -> [apic : Core \cup {0}, online : BOOLEAN]]
          /\ queue \in [Index -> Core \cup {NoCore}]
          /\ count \in Nat /\ started \in BOOLEAN
          /\ at \in [Ap -> {"off", "init", "trampoline", "entry", "setup", "queued",
                            "online", "parked", "running"}]
          /\ idx \in [Ap -> Index] /\ stack \in [Ap -> Index]

\* The core c has taken a stack; it has read its index.
OnStack(c) == at[c] \notin {"off", "init", "trampoline"}
Indexed(c) == OnStack(c) /\ at[c] # "entry"

\* Every core runs on the stack and in the per-CPU block (GDT, TSS, run queue)
\* meant for it and no two share one, although all of them are told through
\* the same two words.
OwnBlock == /\ \A c, d \in Ap : OnStack(c) /\ OnStack(d) /\ stack[c] = stack[d] => c = d
            /\ \A c \in Ap : /\ OnStack(c) => stack[c] # 0
                             /\ Indexed(c) => idx[c] = stack[c]

\* A core that schedules finds itself: current_cpu gives the index it booted
\* with, and that index is the run queue that holds its own root task.  Holes
\* that cores without an answer leave do not shift it.
SchedulesOwn == \A c \in Ap : at[c] = "running" => /\ CurrentCpu(c) = idx[c]
                                                   /\ queue[idx[c]] = c

\* The boot ends whichever cores answer, and every core whose SIPI arrived
\* schedules in the end.
BootEnds == /\ <>(pc = "done")
            /\ \A c \in Ap : at[c] = "trampoline" ~> at[c] = "running"
=============================================================================
