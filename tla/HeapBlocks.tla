------------------------------ MODULE HeapBlocks ------------------------------
(***************************************************************************)
(* What the kernel heap (src/memory/allocator.rs) promises, with the free  *)
(* list seen as a set of blocks: an allocation is cut out of some free     *)
(* block that leaves no sliver too small for a list node, a deallocation   *)
(* puts the bytes back and merges them with the free blocks they touch.    *)
(* The order of the list and the choice of the first fit are left open;    *)
(* module Heap has them and implements this specification.                 *)
(***************************************************************************)
EXTENDS HeapParams

\* The padded sizes callers may ask for: size_align gives at least a node.
Sizes == NodeSize .. HeapSize

VARIABLES
  free,  \* the free blocks
  live   \* the blocks handed out and not given back

vars == <<free, live>>

Block == [start : Nat, size : Nat]

End(b) == b.start + b.size

MkBlock(start, size) == [start |-> start, size |-> size]

\* A remainder of an allocation: either there is none or it holds a node.
RoomForNode(n) == n = 0 \/ n >= NodeSize

\* The remainder as a set of at most one block.
Piece(start, size) == IF size = 0 THEN {} ELSE {MkBlock(start, size)}

Init ==
  /\ free = {MkBlock(0, HeapSize)}
  /\ live = {}

Alloc(size) ==
  \E r \in free : \E at \in r.start .. End(r) :
    /\ at + size <= End(r)
    /\ RoomForNode(at - r.start)
    /\ RoomForNode(End(r) - (at + size))
    /\ free' = (free \ {r}) \union Piece(at + size, End(r) - (at + size))
                            \union Piece(r.start, at - r.start)
    /\ live' = live \union {MkBlock(at, size)}

\* The free blocks that touch b on either side.
Before(b) == {f \in free : End(f) = b.start}
After(b) == {f \in free : f.start = End(b)}

Lo(b) == IF Before(b) = {} THEN b.start ELSE (CHOOSE f \in Before(b) : TRUE).start
Hi(b) == IF After(b) = {} THEN End(b) ELSE End(CHOOSE f \in After(b) : TRUE)

\* A block is freed and merged with the free neighbours on both sides.
Dealloc(b) ==
  /\ live' = live \ {b}
  /\ free' = (free \ (Before(b) \union After(b)))
               \union {MkBlock(Lo(b), Hi(b) - Lo(b))}

Next ==
  \/ \E size \in Sizes : Alloc(size)
  \/ \E b \in live : Dealloc(b)

Spec == Init /\ [][Next]_vars

-----------------------------------------------------------------------------
TypeOK ==
  /\ free \subseteq Block
  /\ live \subseteq Block

Apart(a, b) == End(a) <= b.start \/ End(b) <= a.start

\* Every block is a non-empty part of the heap that can hold a list node: a
\* block given back can always be entered in the free list.
InHeap ==
  \A b \in free \union live : b.size >= NodeSize /\ End(b) <= HeapSize

\* No byte is handed out twice, and no byte in use is on the free list, where
\* its contents would be overwritten by a list node.
Disjoint ==
  /\ \A a, b \in live : a # b => Apart(a, b)
  /\ \A a \in live, b \in free : Apart(a, b)

\* Free blocks never touch: whatever was freed in whatever order has been
\* merged (the coalescing of add_free_region).
Merged ==
  \A a, b \in free : a # b => End(a) < b.start \/ End(b) < a.start

\* No byte leaks: each one is in a live block or in a free one.
Covered ==
  \A x \in 0 .. HeapSize - 1 :
    \E b \in free \union live : b.start <= x /\ x < End(b)

\* Once everything has been given back the heap is one block again.
WholeAgain == live = {} => free = {MkBlock(0, HeapSize)}

IInv == TypeOK /\ InHeap /\ Disjoint /\ Merged /\ Covered
=============================================================================
