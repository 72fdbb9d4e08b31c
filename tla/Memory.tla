-------------------------------- MODULE Memory --------------------------------
(***************************************************************************)
(* The frame allocator of src/memory/pmm.rs and the address spaces of      *)
(* src/memory/user_space.rs built on it: page tables, the list of frames   *)
(* an address space will free, its VMAs, mmap, munmap, brk, demand paging, *)
(* loading and teardown.                                                   *)
(*                                                                         *)
(* An address space is used by one task and only under the lock of the     *)
(* queue its task is in, so each operation on it is one step; the frame    *)
(* bitmap is shared by all of them.  allocated_frames is a bag: it may     *)
(* list a frame twice, and nothing depends on its order.  Addresses and    *)
(* sizes are in units of which PageSize make a page, so that lengths and   *)
(* the break need not be multiples of a page.  They are those of the       *)
(* user's part: a walk meets no entry copied from the kernel's tables.     *)
(***************************************************************************)
EXTENDS Integers, Sequences, Bags, SequencesExt, FiniteSetsExt, Functions, TLC

CONSTANTS
  Space,      \* the address spaces
  NumFrames,  \* frames of the PMM window
  PageSize,
  Table,      \* the page tables below the PDPT
  Path,       \* Path[p]: the tables a walk to page p goes through, in order
  Segments,   \* the PT_LOAD headers of the program, in order: records with
              \* fields vaddr, filesz, memsz, prot
  CodeBase,   \* where userdemo puts its code
  HeapStart, MmapStart, MmapEnd,
  StackTop, StackPages,
  MmapArgs,   \* records with fields hint (0: none), fixed, len, prot, populate
  MunmapArgs, \* pairs <<addr, length>>
  BrkArgs,
  Touched,    \* the pages the program accesses
  MaxLoads,   \* how many programs are loaded
  MaxDemos    \* how often the shell's userdemo command is run

VARIABLES
  used,    \* the bitmap
  dirty,   \* frames handed to a space and not cleared since
  status,  \* status[s]: whether s exists and whether its task still runs
  space,   \* space[s]: the AddressSpace
  lost,    \* frames in use that no AddressSpace lists
  loads,   \* programs loaded so far
  demos    \* runs of userdemo so far

vars == <<used, dirty, status, space, lost, loads, demos>>

Frame == 0 .. NumFrames - 1
Page == {a \in 0 .. StackTop - 1 : a % PageSize = 0}
Prot == {"none", "ro", "rw"}

AlignUp(a) == ((a + PageSize - 1) \div PageSize) * PageSize
PageOf(a) == (a \div PageSize) * PageSize
Pages(a, n) == [i \in 1 .. n \div PageSize |-> a + (i - 1) * PageSize]

VmArea(start, size, prot, guard, name, pop) ==
  [start |-> start, size |-> size, prot |-> prot, guard |-> guard, name |-> name,
   pop |-> pop]

End(v) == v.start + v.size
Holds(v, a) == v.start <= a /\ a < End(v)
Overlaps(v, a, n) == ~ (a + n <= v.start \/ a >= End(v))
AnyOverlap(vmas, a, n) == \E i \in DOMAIN vmas : Overlaps(vmas[i], a, n)

\* holed is not in the code: the program has unmapped some of its own heap.
Fresh ==
  [frames |-> EmptyBag, tables |-> <<>>, ptes |-> <<>>, vmas |-> <<>>,
   bump |-> MmapStart, heapEnd |-> HeapStart, holed |-> FALSE]

-----------------------------------------------------------------------------
(* Operations work on a record w of the bitmap, one space and whether the  *)
(* operation has succeeded so far.                                         *)

Start(sp) == [used |-> used, dirty |-> dirty, ok |-> TRUE, sp |-> sp]

Fail(w) == [w EXCEPT !.ok = FALSE]

NoFrame(w) == Frame \subseteq w.used

\* The first zero bit of the bitmap.
AllocFrame(w) == Min(Frame \ w.used)

FreeFrame(w, f) == [w EXCEPT !.used = @ \ {f}, !.dirty = @ \ {f}]

\* Mark frame f used and list it in allocated_frames; it is cleared or not.
Take(w, f, clear) ==
  [w EXCEPT !.used = @ \cup {f},
            !.dirty = IF clear THEN @ \ {f} ELSE @ \cup {f},
            !.sp.frames = @ (+) SetToBag({f})]

\* The entry for table t, allocated and linked if it is not present.
EnsureTable(w, t) ==
  IF ~ w.ok \/ t \in DOMAIN w.sp.tables THEN w
  ELSE IF NoFrame(w) THEN Fail(w)
  ELSE LET f == AllocFrame(w)
       IN  [Take(w, f, TRUE) EXCEPT !.sp.tables = (t :> f) @@ @]

\* map_user_page: the tables made on the way stay linked when it fails.
MapUserPage(w, p, f, writable) ==
  LET x == FoldLeft(EnsureTable, w, Path[p])
  IN  IF x.ok THEN [x EXCEPT !.sp.ptes = (p :> [frame |-> f, w |-> writable]) @@ @]
      ELSE x

\* allocate_and_map_page clears one byte of the frame only, and leaves the
\* frame listed when the mapping fails.
AllocateAndMapPage(w, p) ==
  IF ~ w.ok THEN w
  ELSE IF NoFrame(w) THEN Fail(w)
  ELSE LET f == AllocFrame(w) IN MapUserPage(Take(w, f, FALSE), p, f, TRUE)

\* Variant: the frame stays listed.
UnmapKeepsFrame(w, p) ==
  IF p \notin DOMAIN w.sp.ptes THEN w
  ELSE FreeFrame([w EXCEPT !.sp.ptes = Restrict(@, DOMAIN @ \ {p})], w.sp.ptes[p].frame)

\* unmap_user_page and the free_frame of its caller.
UnmapUserPage(w, p) ==
  IF p \notin DOMAIN w.sp.ptes THEN w
  ELSE LET f == w.sp.ptes[p].frame
       IN  FreeFrame([w EXCEPT !.sp.ptes = Restrict(@, DOMAIN @ \ {p}),
                               !.sp.frames = @ (-) SetToBag({f})], f)

-----------------------------------------------------------------------------
\* Variant: the populated pages of the right part are not moved to it.
CutForgetsRight(v, a, b) ==
  LET pop == {p \in v.pop : p < a \/ b <= p}
      left == [v EXCEPT !.size = a - v.start, !.pop = pop]
      right == [v EXCEPT !.start = b, !.size = End(v) - b, !.pop = {}]
  IN  IF ~ Overlaps(v, a, b - a) THEN <<v>>
      ELSE (IF v.start < a THEN <<left>> ELSE <<>>) \o (IF b < End(v) THEN <<right>> ELSE <<>>)

\* What munmap leaves of a VMA outside [a, b): nothing, one end or both.
Cut(v, a, b) ==
  LET pop == {p \in v.pop : p < a \/ b <= p}
      left == [v EXCEPT !.size = a - v.start, !.pop = {p \in pop : p < a}]
      right == [v EXCEPT !.start = b, !.size = End(v) - b, !.pop = {p \in pop : b <= p}]
  IN  IF ~ Overlaps(v, a, b - a) THEN <<v>>
      ELSE (IF v.start < a THEN <<left>> ELSE <<>>) \o (IF b < End(v) THEN <<right>> ELSE <<>>)

\* munmap, which refuses a length of zero and an address inside a page.
Munmap(w, a, len) ==
  LET n == AlignUp(len)
      x == FoldLeft(UnmapUserPage, w, Pages(a, n))
  IN  IF len = 0 \/ a % PageSize # 0 THEN w
      ELSE [x EXCEPT !.sp.vmas = FlattenSeq([i \in DOMAIN @ |-> Cut(@[i], a, a + n)])]

\* add_vma; its callers do not look at the result.
AddVma(w, v) ==
  IF v.size = 0 \/ v.start % PageSize # 0 \/ AnyOverlap(w.sp.vmas, v.start, v.size)
  THEN w
  ELSE [w EXCEPT !.sp.vmas = Append(@, v)]

\* The address mmap settles on, if any: the one asked for, or the first free
\* one from the hint or from where the last search ended.  A candidate that
\* overlaps a VMA moves to its end, and every address skipped overlaps it too.
MmapBases(w, r) ==
  LET n == AlignUp(r.len)
      h == AlignUp(r.hint)
      from == IF r.hint # 0 /\ MmapStart <= h /\ h < MmapEnd THEN h ELSE AlignUp(w.sp.bump)
      fits == {c \in from .. MmapEnd - n : c % PageSize = 0 /\ ~ AnyOverlap(w.sp.vmas, c, n)}
  IN  IF r.fixed
      THEN {c \in {r.hint} \ {0} : c % PageSize = 0 /\ ~ AnyOverlap(w.sp.vmas, c, n)}
      ELSE {c \in fits : \A d \in fits : c <= d}

\* Variant: gives up without unmapping what it has mapped.
PopulateNoRollBack(w, base, n, writable) ==
  LET Step(x, p) ==
        IF ~ x.ok THEN x
        ELSE IF NoFrame(x) THEN Fail(x)
        ELSE MapUserPage(Take(x, AllocFrame(x), TRUE), p, AllocFrame(x), writable)
  IN  FoldLeft(Step, w, Pages(base, n))

\* MAP_POPULATE.  Out of frames: the pages mapped so far are unmapped.  Out of
\* frames for a table: the page's own frame is freed as well, and stays listed.
Populate(w, base, n, writable) ==
  LET Step(x, p) ==
        LET f == AllocFrame(x)
            y == MapUserPage(Take(x, f, TRUE), p, f, writable)
        IN  IF ~ x.ok THEN x
            ELSE IF NoFrame(x) THEN Fail(Munmap(x, base, p - base))
            ELSE IF y.ok THEN y
            ELSE Munmap(FreeFrame(y, f), base, p - base)
  IN  FoldLeft(Step, w, Pages(base, n))

\* The syscall's whole effect.
Mmap(w, r) ==
  LET n == AlignUp(r.len)
      base == CHOOSE c \in MmapBases(w, r) : TRUE
      x == IF r.fixed THEN w ELSE [w EXCEPT !.sp.bump = base + n]
      y == IF r.populate THEN Populate(x, base, n, r.prot = "rw") ELSE x
      pop == IF r.populate THEN ToSet(Pages(base, n)) ELSE {}
  IN  IF r.len = 0 \/ MmapBases(w, r) = {} THEN Fail(w)
      ELSE IF ~ y.ok THEN y
      ELSE [y EXCEPT !.sp.vmas = Append(@, VmArea(base, n, r.prot, FALSE, "mmap", pop))]

\* handle_demand_fault for an address in page p.
DemandFault(w, p, write) ==
  LET i == SelectInSeq(w.sp.vmas, LAMBDA v : Holds(v, p))
      v == w.sp.vmas[i]
      f == AllocFrame(w)
      x == MapUserPage(Take(w, f, TRUE), p, f, v.prot = "rw")
  IN  IF i = 0 THEN Fail(w)
      ELSE IF v.guard \/ v.prot = "none" \/ (write /\ v.prot # "rw") \/ NoFrame(w) THEN Fail(w)
      ELSE IF x.ok THEN [x EXCEPT !.sp.vmas[i].pop = @ \cup {p}]
      ELSE FreeFrame(x, f)

HeapVma(w) == SelectInSeq(w.sp.vmas, LAMBDA v : v.name = "heap")

\* brk upwards: the heap's first VMA is extended, or made.
GrowHeap(w, brk) ==
  LET i == HeapVma(w)
      start == IF i = 0 THEN HeapStart ELSE w.sp.vmas[i].start
      size == AlignUp(brk) - start
      x == [w EXCEPT !.sp.heapEnd = brk]
  IN  IF \E j \in DOMAIN w.sp.vmas \ {i} : Overlaps(w.sp.vmas[j], start, size) THEN w
      ELSE IF i = 0
      THEN [x EXCEPT !.sp.vmas = Append(@, VmArea(start, size, "rw", FALSE, "heap", {}))]
      ELSE [x EXCEPT !.sp.vmas[i].size = size]

\* brk downwards: munmap of the pages above, then the size of the first VMA
\* that is still called [heap] is set.
ShrinkHeap(w, brk) ==
  LET new == AlignUp(brk)
      x == Munmap(w, new, AlignUp(w.sp.heapEnd) - new)
      i == HeapVma(x)
      y == [x EXCEPT !.sp.heapEnd = brk]
  IN  IF i = 0 THEN y
      ELSE [y EXCEPT !.sp.vmas[i].size = new - x.sp.vmas[i].start]

Brk(w, brk) ==
  IF brk < HeapStart \/ brk = w.sp.heapEnd \/ brk > MmapStart THEN w
  ELSE IF brk > w.sp.heapEnd THEN GrowHeap(w, brk)
  ELSE ShrinkHeap(w, brk)

-----------------------------------------------------------------------------
\* AddressSpace::new: the root table and a PDPT of its own.
New == FoldLeft(EnsureTable, Start(Fresh), <<"pml4", "pdpt">>)

\* The pages of a segment that load_elf maps at once: those with file data.
EagerPages(g) ==
  LET start == PageOf(g.vaddr)
  IN  Pages(start, IF g.filesz = 0 THEN 0 ELSE AlignUp(g.vaddr + g.filesz) - start)

\* load_elf's loop body: empty segments are passed over, the pages of the bss are
\* left to demand paging, and a VMA that overlaps an earlier one is not added.
LoadSegment(w, g) ==
  LET start == PageOf(g.vaddr)
      x == FoldLeft(AllocateAndMapPage, w, EagerPages(g))
      name == IF g.filesz = 0 THEN "elf_bss" ELSE "elf_segment"
  IN  IF ~ w.ok \/ g.memsz = 0 THEN w
      ELSE IF g.filesz > g.memsz THEN Fail(w)
      ELSE IF ~ x.ok THEN x
      ELSE AddVma(x, VmArea(start, AlignUp(g.vaddr + g.memsz) - start, g.prot, FALSE, name,
                            ToSet(EagerPages(g))))

\* allocate_user_stack: guard page, pages from the top, VMA.
AllocateUserStack(w) ==
  LET size == StackPages * PageSize
      base == StackTop - size
      x == AddVma(w, VmArea(base - PageSize, PageSize, "none", TRUE, "guard", {}))
      y == FoldLeft(AllocateAndMapPage, x, Reverse(Pages(base, size)))
  IN  IF ~ y.ok THEN y
      ELSE AddVma(y, VmArea(base, size, "rw", FALSE, "stack", ToSet(Pages(base, size))))

\* load_elf: the segments in order, at least one, then the stack.
Loaded ==
  LET x == FoldLeft(LoadSegment, New, Segments)
  IN  IF ~ x.ok THEN x
      ELSE IF \A i \in DOMAIN Segments : Segments[i].memsz = 0 THEN Fail(x)
      ELSE AllocateUserStack(x)

\* Variant: frees everything but the root table.
DropButRoot(w) ==
  [w EXCEPT !.used = @ \ (BagToSet(w.sp.frames) \ {w.sp.tables["pml4"]}), !.dirty = @ \ BagToSet(w.sp.frames), !.sp = Fresh]

\* Drop: free_frame for each listed frame, whoever has it now.
Drop(w) ==
  [w EXCEPT !.used = @ \ BagToSet(w.sp.frames), !.dirty = @ \ BagToSet(w.sp.frames), !.sp = Fresh]

Commit(s, w) ==
  /\ used' = w.used
  /\ dirty' = w.dirty
  /\ space' = [space EXCEPT ![s] = w.sp]

Init ==
  /\ used = {}
  /\ dirty = {}
  /\ status = [s \in Space |-> "none"]
  /\ space = [s \in Space |-> Fresh]
  /\ lost = {}
  /\ loads = 0
  /\ demos = 0

\* load_and_spawn.
Load(s) ==
  /\ status[s] = "none"
  /\ loads < MaxLoads
  /\ Loaded.ok
  /\ Commit(s, Loaded)
  /\ status' = [status EXCEPT ![s] = "running"]
  /\ loads' = loads + 1
  /\ UNCHANGED <<lost, demos>>

\* load_elf fails after new: the space is dropped.
LoadFails(s) ==
  /\ status[s] = "none"
  /\ New.ok /\ ~ Loaded.ok
  /\ Commit(s, Drop(Loaded))
  /\ UNCHANGED <<status, lost, loads, demos>>

\* new fails at the second table: there is no AddressSpace yet to drop, and
\* the Vec that lists the first one is just freed.
NewFails(s) ==
  /\ status[s] = "none"
  /\ ~ New.ok
  /\ used' = New.used
  /\ lost' = lost \cup BagToSet(New.sp.frames)
  /\ UNCHANGED <<dirty, status, space, loads, demos>>

\* The shell's userdemo: code without a VMA, a stack, and mem::forget of the
\* space; a step of it that fails does not stop the command.
UserDemo ==
  /\ demos < MaxDemos
  /\ demos' = demos + 1
  /\ LET code == AllocateAndMapPage(New, CodeBase)
         w == IF New.ok THEN AllocateUserStack([code EXCEPT !.ok = TRUE]) ELSE New
     IN  /\ used' = w.used
         /\ lost' = lost \cup BagToSet(w.sp.frames)
  /\ UNCHANGED <<dirty, status, space, loads>>

Syscall(s, w) ==
  /\ status[s] = "running"
  /\ Commit(s, w)
  /\ UNCHANGED <<status, lost, loads, demos>>

SysMmap(s, r) == Syscall(s, Mmap(Start(space[s]), r))

\* The call cuts into a VMA of the heap.
HolesHeap(vmas, a, len) ==
  /\ len # 0 /\ a % PageSize = 0
  /\ \E i \in DOMAIN vmas : vmas[i].name = "heap" /\ Overlaps(vmas[i], a, AlignUp(len))

SysMunmap(s, r) ==
  LET sp == [space[s] EXCEPT !.holed = @ \/ HolesHeap(space[s].vmas, r[1], r[2])]
  IN  Syscall(s, Munmap(Start(sp), r[1], r[2]))

SysBrk(s, brk) == Syscall(s, Brk(Start(space[s]), brk))

\* The page-fault handler on a page that is not present: the access is
\* retried if the fault was resolved, the task is marked Dead if not.
PageFault(s, p, write) ==
  LET w == DemandFault(Start(space[s]), p, write)
  IN  /\ status[s] = "running"
      /\ p \notin DOMAIN space[s].ptes
      /\ Commit(s, w)
      /\ status' = [status EXCEPT ![s] = IF w.ok THEN @ ELSE "dead"]
      /\ UNCHANGED <<lost, loads, demos>>

\* The task exits or is killed.
Die(s) ==
  /\ status[s] = "running"
  /\ status' = [status EXCEPT ![s] = "dead"]
  /\ UNCHANGED <<used, dirty, space, lost, loads, demos>>

\* reap_dead_tasks_on_cpu drops the task and its AddressSpace.
Reap(s) ==
  /\ status[s] = "dead"
  /\ Commit(s, Drop(Start(space[s])))
  /\ status' = [status EXCEPT ![s] = "none"]
  /\ UNCHANGED <<lost, loads, demos>>

Next ==
  \/ \E s \in Space :
       \/ Load(s) \/ LoadFails(s) \/ NewFails(s) \/ Die(s) \/ Reap(s)
       \/ \E r \in MmapArgs : SysMmap(s, r)
       \/ \E r \in MunmapArgs : SysMunmap(s, r)
       \/ \E brk \in BrkArgs : SysBrk(s, brk)
       \/ \E p \in Touched, write \in BOOLEAN : PageFault(s, p, write)
  \/ UserDemo

Spec == Init /\ [][Next]_vars

-----------------------------------------------------------------------------
Vmas(s) == ToSet(space[s].vmas)
Mapped(s) == DOMAIN space[s].ptes
Listed(s) == BagToSet(space[s].frames)

TypeOK ==
  /\ used \subseteq Frame /\ dirty \subseteq Frame /\ lost \subseteq Frame
  /\ status \in [Space -> {"none", "running", "dead"}]
  /\ loads \in 0 .. MaxLoads /\ demos \in 0 .. MaxDemos
  /\ \A s \in Space :
       /\ IsABag(space[s].frames) /\ Listed(s) \subseteq Frame
       /\ DOMAIN space[s].tables \subseteq Table \cup {"pml4", "pdpt"}
       /\ Range(space[s].tables) \subseteq Frame
       /\ Mapped(s) \subseteq Page
       /\ \A p \in Mapped(s) : space[s].ptes[p] \in [frame : Frame, w : BOOLEAN]
       /\ \A v \in Vmas(s) :
            /\ v.start \in Page /\ v.size > 0 /\ v.size % PageSize = 0 /\ End(v) <= StackTop
            /\ v.prot \in Prot /\ v.guard \in BOOLEAN
            /\ v.pop \subseteq Page
       /\ space[s].heapEnd \in HeapStart .. MmapStart
       /\ space[s].bump \in MmapStart .. MmapEnd
       /\ space[s].holed \in BOOLEAN

\* No two VMAs of an address space overlap, whatever sequence of mmap, munmap
\* (with its trims and splits) and brk led there; but brk may stretch the heap over
\* a mapping the program has put where it had unmapped some of its heap.
VmasDisjoint ==
  \A s \in Space : \A i, j \in DOMAIN space[s].vmas :
    LET v == space[s].vmas[i]
        u == space[s].vmas[j]
    IN  i # j /\ Overlaps(v, u.start, u.size) => space[s].holed /\ "heap" \in {v.name, u.name}

\* The pages recorded as populated, which populated_memory_size counts, are
\* exactly the pages the tables map, each recorded in the VMA it lies in.
PopulatedIffMapped ==
  \A s \in Space :
    /\ Mapped(s) = UNION {v.pop : v \in Vmas(s)}
    /\ \A v \in Vmas(s) : \A p \in v.pop : Holds(v, p)

\* The heap's VMAs are between the heap's start and the page boundary above the
\* break, and fill this as one VMA unless the program unmaps some of it.
HeapMatchesBrk ==
  \A s \in Space :
    LET heap == {v \in Vmas(s) : v.name = "heap"}
        end == AlignUp(space[s].heapEnd)
    IN  /\ \A v \in heap : HeapStart <= v.start /\ End(v) <= end
        /\ ~ space[s].holed =>
             IF end = HeapStart THEN heap = {}
             ELSE \E v \in heap : heap = {v} /\ v.start = HeapStart /\ End(v) = end

\* A page inside a guard VMA or one without access is never mapped.
NonePagesTrap ==
  \A s \in Space : \A v \in Vmas(s) :
    v.prot = "none" => \A p \in Mapped(s) : ~ Holds(v, p)

\* A page is writable only in a VMA that allows writing, or where load_elf put file
\* data, whatever the segment's flags are.
PagesMatchProt ==
  LET file == UNION {ToSet(EagerPages(g)) : g \in ToSet(Segments)}
  IN  \A s \in Space : \A p \in Mapped(s) :
        space[s].ptes[p].w =>
          \E v \in Vmas(s) :
            Holds(v, p) /\ (v.prot = "rw" \/ (v.name = "elf_segment" /\ p \in file))

\* The areas and the page tables of an address space agree, after any sequence of
\* mmap, munmap, brk, demand faults and failed calls, for a program whose segments
\* share no page.
AreasSound == VmasDisjoint /\ PopulatedIffMapped /\ HeapMatchesBrk /\ PagesMatchProt

\* An address space lists exactly the frames its tables and pages use, each
\* once: Drop frees them all, and no frame twice.
FramesTracked ==
  \A s \in Space :
    /\ space[s].frames = SetToBag(Listed(s))
    /\ Listed(s) = Range(space[s].tables) \cup {space[s].ptes[p].frame : p \in Mapped(s)}

\* What a running task's tables and pages refer to is marked used, and is not
\* in use by another address space.
FramesExclusive ==
  LET InUse(s) == Range(space[s].tables) \cup {space[s].ptes[p].frame : p \in Mapped(s)}
  IN  /\ \A s \in Space : InUse(s) \subseteq used
      /\ \A s, t \in Space : s # t => InUse(s) \cap InUse(t) = {}

\* The frames of an address space are its own, and its list of them is exact.
FramesSound == FramesTracked /\ FramesExclusive

\* Every frame in use is on some address space's list.
NothingLost == lost = {}

\* A frame is cleared before a user page maps it.
PagesCleared ==
  \A s \in Space : \A p \in Mapped(s) : space[s].ptes[p].frame \notin dirty

Extents(vmas) == [i \in DOMAIN vmas |-> <<vmas[i].start, vmas[i].size>>]

\* A call that leaves the extents of the VMAs as they were takes no page away
\* and adds at most the one of a demand fault: an mmap that runs out of frames
\* half way has undone what it did.
RollBack ==
  [][\A s \in Space :
       status[s] = "running" /\ status'[s] = "running"
       /\ Extents(space[s].vmas) = Extents(space'[s].vmas)
       => /\ IsRestriction(space[s].ptes, space'[s].ptes)
          /\ \E p \in Page : DOMAIN space'[s].ptes \subseteq Mapped(s) \cup {p}]_vars

Pool == INSTANCE FramePool
        WITH Owner <- Space, owned <- [s \in Space |-> Listed(s)], lost <- lost

\* Seen through their lists of frames, the address spaces use the frame
\* allocator as FramePool says: a frame has one owner at a time.
ImplementsPool == Pool!Spec
=============================================================================
