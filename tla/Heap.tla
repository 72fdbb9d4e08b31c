--------------------------------- MODULE Heap ---------------------------------
(***************************************************************************)
(* The kernel heap of src/memory/allocator.rs: a first-fit linked list     *)
(* ordered by address.  free is the list behind `head`; live is what the   *)
(* callers hold, since dealloc is only ever called with a pointer and the  *)
(* layout it was allocated with (the contract of GlobalAlloc).  Every      *)
(* operation runs under the allocator's Spinlock, so each is one step.     *)
(* Addresses are offsets from the start of HEAP_STORAGE, which is aligned  *)
(* to 4096 bytes, more than any layout used.                               *)
(***************************************************************************)
EXTENDS HeapParams, Sequences, FiniteSetsExt

CONSTANTS
  NodeAlign,  \* align_of::<ListNode>(), 8
  Layouts     \* the layouts callers use: records with fields size and align

\* Alignments are powers of two, as Layout guarantees: the larger of two is a
\* multiple of the smaller.
ASSUME ListAssumption ==
  /\ NodeAlign \in Nat \ {0}
  /\ NodeSize % NodeAlign = 0 /\ HeapSize % NodeAlign = 0
  /\ Layouts \subseteq [size : Nat, align : Nat \ {0}]
  /\ \A layout \in Layouts : layout.align > NodeAlign => layout.align % NodeAlign = 0

VARIABLES
  free,  \* the list, from the node after head
  live   \* records with fields start and layout

vars == <<free, live>>

End(b) == b.start + b.size

AlignUp(addr, align) == ((addr + align - 1) \div align) * align

\* Variant: leaves a small alignment as it is.
AlignAsAsked(layout) == layout.align

\* size_align: the alignment is raised to the node's, the size padded to a
\* multiple of it, and to at least one node.
Align(layout) == Max({layout.align, NodeAlign})
Size(layout) == Max({AlignUp(layout.size, Align(layout)), NodeSize})

-----------------------------------------------------------------------------
\* The list with b linked in at position k, and with the node at k unlinked.
LinkAt(list, k, b) == SubSeq(list, 1, k - 1) \o <<b>> \o SubSeq(list, k, Len(list))
Unlink(list, k) == SubSeq(list, 1, k - 1) \o SubSeq(list, k + 1, Len(list))

\* The first of the positions whose nodes pass a test, 0 if none does.
FirstSuch(found) == IF found # {} THEN Min(found) ELSE 0

\* One walk over the list; the node reached absorbs its successors as long as
\* they start where it ends.
Absorb(done, b) ==
  IF done # <<>> /\ End(done[Len(done)]) = b.start
  THEN [done EXCEPT ![Len(done)].size = @ + b.size]
  ELSE Append(done, b)

Coalesce(list) ==
  MapThenFoldSet(LAMBDA b, done : Absorb(done, b), <<>>, LAMBDA i : list[i], Max,
                 DOMAIN list)

AddFreeRegion(list, addr, size) ==
  IF size < NodeSize THEN list
  ELSE LET k == FirstSuch({i \in 1 .. Len(list) : addr < list[i].start})
           at == IF k = 0 THEN Len(list) + 1 ELSE k
       IN  Coalesce(LinkAt(list, at, [start |-> addr, size |-> size]))

\* Variant: the end of the region is not tested.
FitsPastEnd(region, size, align) ==
  LET at == AlignUp(region.start, align)
  IN  /\ ~ (at - region.start \in 1 .. NodeSize - 1)
      /\ ~ (End(region) - (at + size) \in 1 .. NodeSize - 1)

\* Variant: only the prefix is tested for a sliver.
FitsAnySuffix(region, size, align) ==
  LET at == AlignUp(region.start, align)
  IN  /\ at + size <= End(region)
      /\ ~ (at - region.start \in 1 .. NodeSize - 1)

\* alloc_from_region returns Ok: the aligned block lies in the region, and what
\* it leaves before and after is empty or holds a node.
Fits(region, size, align) ==
  LET at == AlignUp(region.start, align)
  IN  /\ at + size <= End(region)
      /\ ~ (at - region.start \in 1 .. NodeSize - 1)
      /\ ~ (End(region) - (at + size) \in 1 .. NodeSize - 1)

\* find_region: the first region that fits, 0 if none does.
FindRegion(size, align) ==
  FirstSuch({i \in 1 .. Len(free) : Fits(free[i], size, align)})

-----------------------------------------------------------------------------
Init ==
  /\ free = AddFreeRegion(<<>>, 0, HeapSize)
  /\ live = {}

\* alloc: the region is unlinked, then the suffix and the prefix are given
\* back, in that order.
Alloc(layout) ==
  LET size == Size(layout)
      k == FindRegion(size, Align(layout))
      region == free[k]
      at == AlignUp(region.start, Align(layout))
      suffix == AddFreeRegion(Unlink(free, k), at + size, End(region) - (at + size))
  IN  /\ k # 0
      /\ free' = AddFreeRegion(suffix, region.start, at - region.start)
      /\ live' = live \union {[start |-> at, layout |-> layout]}

AllocNull(layout) ==
  /\ FindRegion(Size(layout), Align(layout)) = 0
  /\ UNCHANGED vars

\* Variant: gives back the size asked for, not the padded one.
DeallocShort(b) ==
  /\ free' = AddFreeRegion(free, b.start, b.layout.size)
  /\ live' = live \ {b}

Dealloc(b) ==
  /\ free' = AddFreeRegion(free, b.start, Size(b.layout))
  /\ live' = live \ {b}

Next ==
  \/ \E layout \in Layouts : Alloc(layout) \/ AllocNull(layout)
  \/ \E b \in live : Dealloc(b)

Spec == Init /\ [][Next]_vars

-----------------------------------------------------------------------------
TypeOK ==
  /\ \A i \in DOMAIN free :
       free[i].start \in 0 .. HeapSize - 1 /\ free[i].size \in 1 .. HeapSize
  /\ \A b \in live : b.start \in 0 .. HeapSize - 1 /\ b.layout \in Layouts

\* A list node is only ever written at an address aligned for it and inside
\* free bytes: in use, a block's bytes are the caller's.
NodesWellPlaced ==
  \A i \in DOMAIN free :
    /\ free[i].start % NodeAlign = 0 /\ free[i].size >= NodeSize
    /\ \A b \in live : \/ free[i].start + NodeSize <= b.start
                       \/ b.start + b.layout.size <= free[i].start

\* The list implements the set of blocks: every call is an allocation or a
\* deallocation there.
FreeBlocks == {free[i] : i \in DOMAIN free}
LiveBlocks == {[start |-> b.start, size |-> Size(b.layout)] : b \in live}
Blocks == INSTANCE HeapBlocks WITH free <- FreeBlocks, live <- LiveBlocks
ImplementsBlocks == Blocks!Spec

\* No byte is handed out twice, and no byte in use is on the free list, where
\* its contents would be overwritten by a list node.
Disjoint == Blocks!Disjoint

\* free_memory (and used_memory) accounts for every byte: the sum over the list
\* is the heap less the padded sizes in use; and once everything has been given
\* back, in whatever order, the heap is one block again, since add_free_region
\* merged every pair of neighbours.
FreeMemory == MapThenSumSet(LAMBDA i : free[i].size, DOMAIN free)
NoLeak ==
  /\ FreeMemory + MapThenSumSet(LAMBDA b : Size(b.layout), live) = HeapSize
  /\ Blocks!WholeAgain
=============================================================================
