# A TLA+ verification project for AuraOS

AuraOS is a bare-metal x86_64 kernel in Rust: symmetric multiprocessing with one run queue
per CPU, work stealing, ring-3 processes with their own address spaces and demand paging, a
message router, per-CPU serial buffers, an in-memory file system, FAT32 on ATA, an e1000
network stack and a shell. This project models the parts of it whose correctness depends on
interleavings, long call sequences or boundary values, checks the models with TLC on small
instances and proves the central invariants with TLAPS for every size.

All paths below are relative to the repository root; `task/mod.rs` means `src/task/mod.rs`.

## 1. The system

| Part | State | Operations | Meets | What is hard about it |
|---|---|---|---|---|
| Scheduler (`task/mod.rs`) | per-CPU `tasks`, `current`, task state, `wake_tick`, `quantum_ticks`, saved `rsp`, `TICKS` | `yield_now`, `sleep_ticks`, `spawn*`, `try_steal_task`, `kill_task`, `reap_*`, `timer_tick`, `smp_timer_tick`, `preempt_schedule*`, `switch_context`, `ap_idle_loop` | both timers, page faults, system calls, shell | the lock is released before the context is saved; CPU numbers are read before interrupts are disabled; indices shift when tasks are removed; queues are scanned one lock at a time |
| IPC (`task/ipc.rs`) | `mailboxes`, `total_sent`, `total_delivered` | `send`, `receive` | `SYS_SEND`, `SYS_RECV`, shell | full mailboxes, truncation at 64 bytes, routing |
| System calls (`arch/syscall.rs`) | three static words of the entry stub, kernel stacks | `syscall_entry`, dispatch | scheduler, IPC, memory | words shared by all tasks and all CPUs, calls that yield half-way |
| Spinlock (`sync.rs`) | lock flag, saved IF | `lock`, `try_lock`, drop, `force_unlock` | everything | `force_unlock` from exception paths while another CPU holds the lock |
| Kernel heap (`memory/allocator.rs`) | address-ordered free list | `alloc`, `dealloc`, `add_free_region`, `coalesce` | every collection in the kernel | splitting, alignment padding, coalescing both ways, no leak over long sequences |
| Frame allocator (`memory/pmm.rs`) | bitmap, regions and totals | `init`, `alloc_frame` (first fit), `free_frame`, `reserve_frame` | address spaces, drivers | the last frame, a frame freed twice |
| Address spaces (`memory/user_space.rs`, `vmm.rs`), ELF loading (`fs/elf.rs`) | page tables, `allocated_frames`, VMAs, `mmap_bump`, `heap_end` | `new`, `map_user_page`, `mmap`, `munmap`, `brk`, `handle_demand_fault`, `Drop` | frame allocator, page-fault handler, system calls | frames running out in the middle of an operation and the roll back; VMA splitting; teardown |
| Serial output (`drivers/serial.rs`), panic (`main.rs`, `arch/idt.rs`) | per-CPU rings, `SERIAL1`, `PANICKING` | `push_byte`, `pop_byte`, `write_str`, `serial_flush_all`, `_print`, the panic handler | every CPU prints, the boot CPU flushes from two contexts | lock-free ring, full ring, a printing task that migrates, a halted flusher |
| ACPI and SMP boot (`arch/acpi.rs`, `arch/smp.rs`) | firmware tables; `PER_CPU`, `ONLINE_CPU_COUNT`, `AP_CPU_INDEX`, release flag | `init_with_rsdp`; `init`, `ap_entry`, `start_aps`, `current_cpu` | scheduler, APIC | partly broken tables; one index word reused for every core; a core that never answers |
| VFS (`fs/mod.rs`) | inode table, free list, current directory | create, mkdir, read, write, remove, path resolution | shell | inode numbers that are reused while the current directory still names them |
| FAT32 on ATA (`fs/fat32.rs`, `drivers/ata.rs`) | FAT copies, directories, clusters on disk | format, mount, write, mkdir, delete | shell | chain allocation, a full disk in the middle of a write, drive errors and power failures |
| e1000 (`drivers/e1000.rs`) | descriptor rings, cursors, four registers | `send_packet`, `receive_packet`, `init` | network, the card | ring wrap-around, ownership shared with a card that runs on its own |
| Network (`net/`) | ARP table, ping state | ARP, IPv4, ICMP, UDP handlers, `poll` | e1000, shell | a network that loses, delays and repeats; a late echo reply |
| Console and main loop (`drivers/keyboard.rs`, `shell/mod.rs`, `main.rs`) | key ring, line buffer, command in progress | interrupt handler, `process_pending_keys`, commands, `hlt` | everything the boot task serves | the interrupt handler against the drain loop; a command that waits for the network |
| Shell (other commands), GUI, mouse, VGA, framebuffer, BGA | windows, pixels | commands, drawing | everything | presentation |
| GDT, IDT, APIC, PIC, PIT, PCI, CMOS, CPUID, MSR, boot loaders, klog, power | tables and device registers | initialisation, register access | hardware | no interleaving once started |

The behaviours that no unit test reaches are listed, each at its line, under `hazards` in
`PROJECT.json`.

## 2. Modules

| Module | Models | State and actions against the code |
|---|---|---|
| `Tasks` | what both scheduler modules need to say about tasks and CPUs | the number of CPUs, the tasks, which of them are roots, the sentinel or user tasks |
| `RunQueues` | what `CPU_SCHEDULERS` promises | `tasks`, `current`, `state` as in `Scheduler`/`Task`; `flight` holds tasks between two locks; `locked` marks a reaping loop. One action per critical section. |
| `Scheduler` | execution on CPUs | each function split where a lock is released or an interrupt can come. `exec` is the stack a CPU is on, `frame` a context's program point and locals, `mode`/`arg`/`pend` the locals of code with interrupts off, `rsp` where a saved stack pointer leads, `cap` the identity of the `Vec`'s buffer: a raw pointer taken into a buffer that a push has since moved is lost. |
| `Ipc` | `IpcRouter` | `mailboxes` and both counters; `Send`, `Receive`. |
| `Syscall` | the entry stub, the dispatcher and the switch between callers, on top of `Ipc` | the three static words, each task's kernel stack and where it is in its call; one step per instruction that touches a shared word. |
| `HeapBlocks` | what the heap promises | sets of live and free blocks; any fitting block may be chosen. |
| `Heap` | `LinkedListAllocator` | the free list in order, `size_align`, first fit, `add_free_region`, `coalesce`. |
| `LossyFifo` | what a serial ring promises | a bounded queue that refuses when full. |
| `Serial` | per-CPU rings, both printing modes, both flushers, panic | loads and stores of `head`, `tail` and `data` are separate steps. |
| `FramePool` | what the frame allocator promises its users | owners trade frames with a pool; some are forgotten. |
| `Memory` | bitmap and `AddressSpace` | page-table tree (`tables`, `ptes`), `allocated_frames` as a bag (its order is never observed), VMAs, bump pointer and break; `Load`, `SysMmap`, `SysMunmap`, `SysBrk`, `PageFault`, `Die`, `Reap`, `UserDemo` and the failures of loading. |
| `FsTree` | what a file system promises | a tree of paths; a command takes effect as a whole or not at all; `damaged` is the exception clause. |
| `Vfs` | the in-memory file system | inode table, free list, current directory; one action per shell command, since the topology lock is held throughout. |
| `Fat32` | the FAT32 driver on its disk | an operation is a plan, the sequence of its sector writes; each write is a step, and a drive error or a power failure may come between two. |
| `Acpi` | the search for the processors | pure operators from a firmware's tables to the core list. |
| `Boot` | INIT-SIPI-SIPI, `ap_entry`, the way to the scheduler | the two words each core is told its index and stack through, the per-CPU blocks, where each core is. |
| `E1000` | both descriptor rings, the driver and the card | a receive descriptor holds `None` while its DD bit is clear; the card fills and sends on its own. |
| `Net` | ARP, IPv4, ICMP, UDP on `E1000` | frames are records of the fields a decision depends on; the frames a handler sends leave one step at a time. |
| `Console` | keyboard interrupt, key ring, serial input, line editor | the interrupt may come between any two steps of the drain loop. |
| `MainLoop` | the boot task's loop over `Console` and `Net` | one step per turn of a loop; `ping` polls inside its command. |

`Scheduler` implements `RunQueues`, `Heap` implements `HeapBlocks`, the rings of `Serial`
implement `LossyFifo`, `Memory` implements `FramePool`, and `Vfs` and `Fat32` both implement
`FsTree`, each by `INSTANCE ... WITH`. `Syscall` composes the entry stub with `Ipc`, `MainLoop`
composes `Console` with `Net` and `E1000`, `MCBoot` composes `Acpi` with `Boot`.
The `MC*` modules hold the instances, the `*Proofs` modules the theorems. Definitions whose
comment starts with "Variant" or "Mutant" are plausible mistakes in the code; replacing the
real definition by one of them must make TLC report the property it belongs to.

## 3. Runs

| Run | Instance | Shows |
|---|---|---|
| `sched_smp` | 2 CPUs, two roots, the sentinel and a worker that is killed from either CPU: queues never long enough to steal from | each CPU executes the current task of its queue, with the context saved last; a stack is freed under a CPU only between an election and its switch; `sleep_ticks` returns only when the time is over |
| `sched_steal` | 2 CPUs, 5 tasks: stealing, remote kill, reaping | no task lost or duplicated; the queues implement `RunQueues`, even once a CPU has gone astray (section 6) |
| `sched_live` | 1 CPU, shell, sentinel and a user task that is killed, fair | a ready task runs eventually; `sleep_ticks` returns |
| `syscalls` | 1 CPU, shell and two user tasks, mailboxes of 2, payload 1 of up to 2 bytes, 2 sends | each call runs on its caller's stack and does what was asked; delivery in order, cut as announced, counters balance |
| `heap` | 128 bytes, nodes of 16, four layouts with alignments below and above 8 | nodes placed soundly, nothing handed out twice, nothing lost, implements `HeapBlocks` |
| `serial` | 2 CPUs, ring of 3, a migrating worker, the shell, two flushers, panics, fair | one flusher at a time, rings are FIFOs; without a panic all bytes accounted for and drained |
| `memory` | 12 frames; a read-only code segment and a bss; one process alone with many arguments (holes in the heap, populated areas without access), or two processes and the demo that compete | areas agree with page tables, break and protection, up to three stated exceptions: a heap with a hole may overlap its neighbours and be shorter than the break, and file pages are writable; frames exclusive and tracked; a failed `mmap` rolls back; implements `FramePool` |
| `file_systems` | VFS: 2 names, 5 inodes, depth 2; FAT32: 6 clusters, 2 entries a sector, 1 fault | a removed current directory is never silently replaced by another; the inode table is a tree; every reachable file owns its chain; both implement `FsTree` |
| `main_loop` | receive ring of 2, transmit and key rings of 3, 4 keys, 2 arrivals, fair | driver and card agree at every wrap; keys and frames in order; the ARP table holds the latest answer; until a ping gives up or a reply is repeated, the round-trip time is that of the latest request; keys and frames are served in the end |
| `boot` | 6 cores of which 5 are declared, 4 blocks, one dead core, firmwares that describe the same machine soundly or not (one MADT breaks off, one entry is too short), fair | every core boots on its own stack and block and finds itself; the declared cores are woken, as far as there are blocks, whatever the tables; the boot ends |
| `sched_steal_window` | as `sched_steal`, two workers | violated, section 6 |
| `memory_tables` | 2 processes, 13 frames, mappings behind their own table | violated, section 6 |

**Bounds.** The constants stand for larger ones in the code: quantum 1 (10), reaping every 1
or 2 ticks (25), serial ring of 3 bytes (8192), mailbox of 2 (32), payload of 1 (64), heap of
128 bytes, pages of 2 units (4096 bytes), 12 or 13 frames, descriptor rings of 2 and 3 (8), key
ring of 3 (128), 2 directory entries in a sector (16), 4 per-CPU blocks (8), ping numbers modulo
4 (2^16). Each is the smallest at which its limit is met and passed: the quantum expires, rings and mailboxes fill and
wrap, a sliver too small for a node arises, frames run out in the middle of loading and of
populating, a directory needs a second cluster, the disk fills in the middle of a write, there
are more cores than blocks.
`MaxSent`, `MaxMsgs`, `MaxLoads`, `MaxDemos`, `MaxFaults`, `MaxKeys` and `MaxArrivals`
bound what would run for ever. Deadlock is not checked where these bounds, a halted CPU, a lost
context or the end of the boot stop a run.

**What the instances leave out.** Each of these would break a property; section 6 says how.

- `sched_smp` has no stealing, and one worker, so that nothing is spawned into the slot a remote
  reap has freed: otherwise `FreshContext`, `FreedInWindow` and `SleepMarksCaller` fail.
- `syscalls` has one CPU and `boot` no late core: otherwise `CallIntact` and `OwnBlock` fail.
- `memory` loads segments that share no page, and one page table reaches everything, so that a
  table can be lacking only while loading: otherwise `AreasSound` and `FramesSound` fail.
- `file_systems` gives FAT32 no name `.`: otherwise `VolumeSound` and `FatImplementsTree` fail.

And these are limits of the models. A CPU that loads a stale stack pointer executes undefined
code and takes no further step (`Wild`). One memory operation is one step; two CPUs inside two
operations at once are not interleaved. The two file systems share no state, and a behaviour of
`MCFiles` is one of either; `FsTree` says that a step is the whole effect of a command or none,
not of which command. Of the shell's commands `main_loop` has `ping` and `udpsend`; `FramesServed`
and `KeysServed` say nothing of the others. `Drained` speaks of runs in which nothing panics.

**Fairness.** A CPU executes its next instruction (weak fairness of `Proceed`), and so does
every context that is scheduled again and again (strong, per context: a quantum is many
instructions long). Timer interrupts are latched by the controller until IF is set, so they
are strongly fair. In `Serial` the worker's turns come from the scheduler (`NoStarvation`).
`MainLoop` assumes weak fairness of the boot task and none of the card, the network or the
user; `Boot` that the BSP and every core that has started execute on.

## 4. Proofs

Each theorem is checked by TLAPS for every value of the constants: any number of CPUs, tasks,
messages and network frames, and any size of a ring or a heap. TLC checked each inductive invariant on
the instance of its run before it was proved.

| Module | Proved | Inductive invariant and why it is needed |
|---|---|---|
| `RunQueuesProofs` | tasks conserved, `current` sound, a queued root only in the first slot of its own queue (a killed root may be reaped), `CurrentKept`, `UsersStay`, `ReapOnlyIdleDead` | `IInv`: types, `current` in range, one slot per task, conservation, Running only if current, `RootsPinned` and `RootsHeld`. Conservation alone is not inductive: a removed slot must have been the task's only one. `RootsPinned` needs `RootsHeld` (no root is in flight): an insertion could otherwise append a root elsewhere. |
| `ControlProofs`, `SchedulerProofs` | `Refines`: the whole scheduler, with both timers, interrupted spawns, steals and reaps, implements `RunQueues`; `Conserved` | `IInv` is `Ctl` with the invariant of `RunQueues`. `Ctl` holds whatever the queues contain, even once a CPU has loaded a stale stack pointer: no stack is executed twice or saved while it is executed, a context at a point between two locks has a task in hand and no other has the same one, two reaping loops hold two queues. Without the last two a push could insert a task twice and a reap could remove a slot another CPU holds. |
| | under `N = 1` or no kills, and `Alone` (one CPU, or no queue longer than two tasks): `ExecIsCurrent`, `FreshContext`, `SleepHonoured`; for `N = 1` these and `StackAlive` without further condition (`OneCpuSound`) | `J`: between an election and its switch the pending pointers name the slot of the task that executes and the buffer in use; a task that does not execute has saved its stack pointer; a CPU number a context has read is that of its queue; a sleeper is marked or its time is over. A steal in the window before `switch_context` breaks the second and a steal of a caller the third (section 6), hence the condition. |
| `SyscallProofs` | of `Ipc`: `Bounded`, `InOrder`, `PayloadIntact`; of `Syscall`: `CallIntact` on one CPU, the calls use the router only as `Ipc` says (`CallsUseRouter`), hence `InOrder`, `PayloadIntact` and `CountsBalance` of the system | types, bound and order; payload follows from the messages' type and order. `Balance`: what was sent is what was delivered and the number of places taken in the mailboxes; a sum over the mailboxes is turned into the size of that one set (`SumIsCardinality`), which a call changes by one element. For the stub: between `syscall` and the dispatcher a task keeps its CPU, whose words were set for it. |
| `SerialProofs` | `OneFlusher`; `RingsRefine`: every ring implements `LossyFifo`; `Accounted` | `IInv`: a context is on one CPU, the interrupt came while interrupts were on and the shell drains with them off (so never both); a context between lock and unlock holds its ring alone; what `push_byte` and `pop_byte` have read stays true until they store, although the other side moves (`Found`). `Books` adds that no byte is twice in a queue: a ring with a repeated byte could send it once and still hold it. |
| `MainLoopProofs` | `RxWindow`, `TxInOrder`, `KeysInOrder`, `ReplyMatches`, `ArpFresh` | `CardInv`: the descriptors between the driver's cursor and RDH hold frames and no others do; those between TDH and TDT carry the last send numbers in order. `RingInv` is `KeysInOrder` without remainders. `ArpInv`: one entry an address, so that `lookup`'s first match is the one told last. `EchoInv`: unless replies may be stray, the latest ping is in one place only, as a request waiting, a request under way, or its one reply coming, and no other request or reply is anywhere; that a reply handled is the right one follows, that it stays so needs all the places a frame can be. |
| `BootProofs` | `OwnBlock`, `SchedulesOwn`, if no core is later than the BSP waits | `BootInv`: at most one core is between its start-up IPI and its claim, and the words hold what it was told |
| | however late: `ListWoken`, the cores woken are the enabled ones of the list, as far as there are blocks | `Numbered`: the index is one more than the number of wanted entries passed |
| `MemoryProofs` | of `Heap`: `ImplementsBlocks`, `Disjoint`, `NodesWellPlaced`, `NoLeak`, and `Covered`, `Merged`, `WholeAgain` of the blocks | `HeapInv`: the list is sorted by address, nodes and live blocks are aligned, a live block is known by its address; with the invariant of `HeapBlocks`: blocks inside the heap, disjoint, merged, covering it. The order is what makes one walk of `coalesce` enough, alignment what makes every remainder hold a node; covering needs merging's arithmetic, `WholeAgain` covering and merging together, `NoLeak` that disjoint blocks that cover the heap add up to it. |

**Assumptions.** At least one CPU, distinct roots which are neither the sentinel nor user tasks
(`RunQueuesAssumption`); markers that are no tasks (`SchedulerAssumption`); a first buffer for
two tasks, as `Vec` allocates (`SizeAssumption`); a zero byte and a positive capacity
(`IpcAssumption`); every task has a home CPU (`SyscallAssumption`); rings, messages and CPUs
that are not empty, contexts and markers that differ (`SerialAssumption`); descriptor and key
rings of at least two (`E1000Assumption`, `ConsoleAssumption`); an initial ARP table with one
entry an address, `None` not a frame and no echo reply before a request (`NetAssumption`); as
hypotheses, since the answers of the network are an operator parameter, that `None` is no answer
(`ReceiveSound`, `TransmitOrdered`) and that an echo request is answered by one reply with its
number and nothing else by a reply (`Answering`, for `RepliesMatch`); core lists
without repeated APIC ids (`BootAssumption`); sizes no smaller than a list node
(`HeapAssumption`), and alignments of which the larger is a multiple of the smaller, as powers of
two are (`ListAssumption`). TLC evaluates all named assumptions on the runs.

**How the larger proofs are laid out.** There is one lemma for each action of `Scheduler`, which
shows `Ctl'` and names the critical section of `RunQueues` that the step is, or that it leaves
the queues alone; lemmas whose names end in `Goes` then show `J` for each action. Those of the
actions that scan no queue are in `ControlProofs`, the others and the theorems in
`SchedulerProofs`. There the lemma `NextIInv` of `RunQueuesProofs`, instantiated with the refinement mapping (`flight <- Flight`,
`locked <- Locks`), gives the invariant of the queues in the next state. `SerialProofs` proves
what a ring is with the remainders worked out once (`Ring`, `Steps`), then how each load and
store changes it.

`MemoryProofs` goes in four layers. The theorems about `HeapBlocks` know no list. The list lemmas
say what `LinkAt`, `Unlink` and `FirstSuch` do to a sorted list, and what `Coalesce` makes of one
(`Walk`): merged and sorted, with the same bytes. The alignment lemmas turn `AlignUp` and
`Size` into inequalities. `AllocStep` and `DeallocStep` then show that the list operation is the
step of `HeapBlocks`.

**Induction.** The library's induction rules take a predicate as a parameter, which these provers
cannot instantiate; the proofs of the heap and of the mailboxes use a set instead. A non-empty
set of naturals has a least element (`WFMin`, in `Least`), so a set that contains 0 and with
every number the next contains all (`Induction`). The folds of the community modules are
functions chosen by an equation; that one exists is proved by that rule (`FoldExists`,
`SumExists`), and what the fold computes by it once more.

**Only model-checked.** Liveness (`NoStarvation`, `SleepReturns`, `Drained`, `FramesServed`,
`KeysServed`, `BootEnds`), which this prover does not treat. `AreasSound`, `FramesSound`,
`RollBack` and `ImplementsPool` of `Memory`: `mmap`, `munmap`, `brk` and loading are loops over
pages inside loops over tables, and the first two hold only under conditions on the arguments and
on the page tables (section 6). The file systems, which resolve paths and walk chains with recursive
operators. `AllWoken`, which is `ListWoken` together with what the firmware tables of its
instance say. `FreedInWindow`. Outside `Alone`, and on several CPUs with kills, the properties of
contexts are not theorems: they are false (section 6).

## 5. Not modelled

Presentation (GUI, VGA, framebuffer, BGA, the mouse that only the GUI reads), register
programming done once (GDT, IDT, APIC, PIC, PIT, PCI, CMOS, MSR, UART and e1000 set-up, FADT and
power-off), the boot loaders, and the log's level filter have no interleaving and no property
beyond their layout. Inside the modelled parts the following are abstracted: names, TIDs and
statistics of tasks; `msg_type`; packet and byte counters, checksums, the round-trip time in
milliseconds; scancode tables, shift and Escape; the contents of `/proc`; the FSInfo sector,
which is never read back; clusters of more than one sector; the port protocol within a sector;
`pmm::init`; the tests of an ELF file's headers and offsets. `AddressSpace::new` copies the kernel's
entries into the new tables. `map_user_page` and `unmap_user_page` (`memory/user_space.rs:238`)
neither tell these apart nor look for huge pages, and the addresses given to `mmap` with
`MAP_FIXED` and to `munmap` are not restricted; low ones would lead into the kernel's tables. The
model's addresses lie outside that range, and nothing is claimed of the others. The stripe locks
of the VFS guard nothing more, since the topology lock is held wherever a file is read or
written. Only the shell's task calls either file system. Each component's status and the reason
are under `components` in `PROJECT.json`.

## 6. Where code and stated intent part

Two have runs, and are recorded as findings: a task is stolen while it still executes
(`sched_steal_window`), and a frame freed after a failed table allocation stays listed and is
freed again under its next owner (`memory_tables`). TLC also refuted the following properties,
which are defined in the modules. The instance names the constants to change in the
configuration given.

| Property | Instance | What happens |
|---|---|---|
| `StackAlive` | `MCSchedulerSmp` | a CPU has elected another task and not yet switched; a second CPU, which had killed the first task, reaps it and frees the stack in use (`task/mod.rs:700`) |
| `FreshContext`, `FreedInWindow` | `MCSchedulerSmp`, a second worker `k2`, no sleepers and exiters | as above, and the shell spawns `k2` into the freed slot: `switch_context` saves the dead task's stack pointer into it (`task/mod.rs:773`) |
| `SleepMarksCaller` | `MCSchedulerSteal`, `Sleepers = {k, s}`, no targets | `sleep_ticks` reads its CPU number (`task/mod.rs:804`) before the lock; a caller moved meanwhile puts another CPU's current task to sleep |
| `DeadStaysDead` | `MCSchedulerLive` | `sleep_ticks` writes `Sleeping` over a `Dead` set by a kill (`task/mod.rs:813`), also on one CPU |
| `KillFinds` | `MCSchedulerSteal`, `Targets = {s}` | the scan of `kill_task` (`task/mod.rs:650`) misses a task that a steal carries past it |
| `ShellSurvivesKill` | `MCSchedulerLive`, `Targets = {r0}` | `kill 0` marks the shell, though `shell/mod.rs:539` lists "root shell" among the refusals |
| `DeadNeverResumes` | `MCSchedulerLive` | with all others asleep, the last `yield_now` of an exiting task returns into it (`task/mod.rs:373`) |
| `OwnerWrites` | `MCSerial` | `_print` writes the ring of a CPU it has left (`drivers/serial.rs:367`); harmless, because the ring's lock is held |
| `MessagesWhole` | `MCSerial` | the flusher leaves a ring in the middle of a message (`drivers/serial.rs:318`, against INV-S1) |
| `PanicIsWritten` | `MCSerial` | a panic's message stays in the ring (`main.rs:306`, against INV-S2) |
| `PanicNotBlocked` | `MCSerial` | a panic inside a print waits for its own CPU's ring lock (`main.rs:303`) |
| `NonePagesTrap` | `MCMemory` | populated pages without access are present (`memory/user_space.rs:551`) |
| `PagesCleared` | `MCMemory` | one byte of a frame is cleared, not the frame (`memory/user_space.rs:294`) |
| `NothingLost` | `MCMemory`, `NumFrames = 1`, or `MaxDemos = 1` | a failed `AddressSpace::new` (`memory/user_space.rs:173`) and `userdemo` (`shell/mod.rs:420`) lose frames |
| `AreasSound` | `MCMemory`, segments `[vaddr 2, filesz 1, memsz 3]` and `[vaddr 5, filesz 1, memsz 1]` | the second segment starts in the first one's last page: its VMA is refused as an overlap and the loader goes on (`fs/elf.rs:333`) |
| `FramesSound` | `MCMemory`, segments `[vaddr 2, filesz 3, memsz 3]` and `[vaddr 5, filesz 1, memsz 1]` | the shared page is mapped twice: the first frame, still listed, is reachable by no entry |
| `CallIntact` | `MCSyscall` with two CPUs and a user task on each | the entry stub's words are static (`arch/syscall.rs:111`): two CPUs in the stub overwrite each other's, in five steps. `arch/syscall.rs:86` says "a single global slot is safe on this UP kernel", `arch/smp.rs:14` "The syscall scratch slots at GS:0x00/0x08/0x10 are filled by `init_cpu_state` and used by the naked syscall entry assembly" |
| `OwnBlock` | `MCBoot`, `Late = {0}` | a core that answers after its time-out reads the index and stack meant for the next one (`arch/smp.rs:514`) |
| `NamesUnique` | `MCFiles`, `MCShort` mapping two names to one | `write_file` looks for the long name and stores the short one (`fs/fat32.rs:633` says "creating it if it doesn't exist or overwriting it if it does"); two long names that are cut alike make two entries |
| `VolumeSound`, `FatImplementsTree` | `MCFiles`, `MCRemoves` with `<<"D", ".">>` | `delete_entry` takes the entry `.` for a child (`fs/fat32.rs:843`): the chain of `D` is freed while `D` stays |
| `NoLostClusters` | `MCFiles` | a write that runs out of clusters leaves those it had chained (`fs/fat32.rs:660`) |

Further differences the models make visible, without a property of their own:

- FAT32: the old chain is freed before the directory entry names the new one
  (`fs/fat32.rs:693`), and a new cluster is linked before it is cleared (`fs/fat32.rs:365`
  against 371-379). `Fat32` marks these stretches as risks, and `FsTree` promises nothing after
  an interruption inside one; the same holds for an interrupted `format`.
- FAT32: `write_file` onto an existing directory is not refused (`fs/fat32.rs:692`), and what the
  directory held is lost. `VolumeSound` and `FatImplementsTree` hold with such a write as well;
  the run leaves it out because it takes too long with it.
- Memory: lowering the break stretches the heap's VMA over a mapping made in a hole of the heap
  (`memory/user_space.rs:786`), and file-backed pages are writable whatever the segment says
  (`fs/elf.rs:276`). `AreasSound` states both as its exceptions; without them TLC refutes it on
  `MCMemory` in six and in two states.
- VFS: a name that contains `/` or is `.` or `..` creates an entry no path reaches.
- Network: an echo reply is not compared with the request (`net/mod.rs:240`), and the shell
  prints the number of the last request with it: the late reply of a ping that gave up is taken
  for that of the next. `ReplyMatches` is what remains true.
- e1000: `send_packet` does not look at the done bit (`drivers/e1000.rs:412`); with as many
  frames waiting as descriptors, TDT meets TDH and the card takes the ring for empty. What is
  sent stays in order (`TxInOrder`), the lapped frames are lost.
- Boot: a dead core leaves a hole in the indices, and the loops up to `cpu_count`
  (`task/mod.rs:479`, 593, 646, 675, 845, 975; `drivers/serial.rs:286`) miss the core behind it.
