---------------------------- MODULE MemoryProofs ----------------------------
(***************************************************************************)
(* Proofs about the kernel heap, for every size of the heap, of a list     *)
(* node and of the requests: the sorted list of module Heap implements the *)
(* set of blocks of HeapBlocks, whatever is allocated and freed in         *)
(* whatever order, and so no byte is handed out twice or lost.             *)
(*                                                                         *)
(* The argument has four parts: HeapBlocks keeps the heap partitioned; one *)
(* walk of coalesce over a sorted list with a node linked in at its place  *)
(* merges that node with the neighbours it touches and nothing else; sizes *)
(* and addresses stay multiples of the node's alignment; and the sums of   *)
(* free_memory and used_memory count the bytes of the partition.           *)
(***************************************************************************)
EXTENDS Heap, FiniteSetTheorems, TLAPS

\* A block built from naturals has the fields it was built from.
LEMMA MkBlockFacts ==
  ASSUME NEW s \in Nat, NEW n \in Nat
  PROVE  /\ Blocks!MkBlock(s, n) \in Blocks!Block
         /\ Blocks!MkBlock(s, n).start = s
         /\ Blocks!MkBlock(s, n).size = n
         /\ Blocks!End(Blocks!MkBlock(s, n)) = s + n
  BY Zenon DEF Blocks!MkBlock, Blocks!Block, Blocks!End

\* A free block and a live one are never the same block, since blocks hold at
\* least one byte.
LEMMA FreeNotLive ==
  ASSUME Blocks!IInv, NEW b \in FreeBlocks
  PROVE  b \notin LiveBlocks
  BY HeapAssumption
  DEF Blocks!IInv, Blocks!TypeOK, Blocks!InHeap, Blocks!Disjoint, Blocks!Apart,
      Blocks!End, Blocks!Block

\* The heap starts as one free block (init).
LEMMA BlocksInit == Blocks!Init => Blocks!IInv
<1> SUFFICES ASSUME Blocks!Init PROVE Blocks!IInv
  BY Zenon
<1>1. /\ Blocks!MkBlock(0, HeapSize) \in Blocks!Block
      /\ Blocks!MkBlock(0, HeapSize).start = 0
      /\ Blocks!MkBlock(0, HeapSize).size = HeapSize
      /\ Blocks!End(Blocks!MkBlock(0, HeapSize)) = HeapSize
  BY MkBlockFacts, HeapAssumption
<1> QED
  BY <1>1, HeapAssumption
  DEF Blocks!Init, Blocks!IInv, Blocks!TypeOK, Blocks!InHeap, Blocks!Disjoint,
      Blocks!Merged, Blocks!Covered

\* Cutting a block out of a free one keeps the partition of the heap (alloc and
\* the two add_free_region calls in it).
LEMMA BlocksAlloc ==
  ASSUME Blocks!IInv, NEW size \in Blocks!Sizes, Blocks!Alloc(size)
  PROVE  Blocks!IInv'
<1>0. PICK r \in FreeBlocks : \E at \in r.start .. Blocks!End(r) :
        /\ at + size <= Blocks!End(r)
        /\ Blocks!RoomForNode(at - r.start)
        /\ Blocks!RoomForNode(Blocks!End(r) - (at + size))
        /\ FreeBlocks' = (FreeBlocks \ {r}) \union Blocks!Piece(at + size, Blocks!End(r) - (at + size))
                                \union Blocks!Piece(r.start, at - r.start)
        /\ LiveBlocks' = LiveBlocks \union {Blocks!MkBlock(at, size)}
  BY Zenon DEF Blocks!Alloc
<1>1. PICK at \in r.start .. Blocks!End(r) :
        /\ at + size <= Blocks!End(r)
        /\ Blocks!RoomForNode(at - r.start)
        /\ Blocks!RoomForNode(Blocks!End(r) - (at + size))
        /\ FreeBlocks' = (FreeBlocks \ {r}) \union Blocks!Piece(at + size, Blocks!End(r) - (at + size))
                                \union Blocks!Piece(r.start, at - r.start)
        /\ LiveBlocks' = LiveBlocks \union {Blocks!MkBlock(at, size)}
  BY <1>0, Zenon
<1> DEFINE new == Blocks!MkBlock(at, size)
           suf == Blocks!MkBlock(at + size, Blocks!End(r) - (at + size))
           pre == Blocks!MkBlock(r.start, at - r.start)
<1>2. /\ r.start \in Nat /\ r.size \in Nat /\ Blocks!End(r) = r.start + r.size
      /\ at \in Nat /\ size \in Nat /\ size >= NodeSize
      /\ NodeSize \in Nat /\ NodeSize > 0
      /\ Blocks!End(r) <= HeapSize /\ HeapSize \in Nat
      /\ at >= r.start /\ at <= Blocks!End(r)
      /\ at - r.start \in Nat /\ Blocks!End(r) - (at + size) \in Nat
      /\ at + size \in Nat
  BY <1>1, HeapAssumption
  DEF Blocks!Sizes, Blocks!IInv, Blocks!TypeOK, Blocks!Block, Blocks!End, Blocks!InHeap
<1>3. /\ new \in Blocks!Block /\ new.start = at /\ new.size = size /\ Blocks!End(new) = at + size
  BY <1>2, MkBlockFacts, Zenon
<1>4. /\ suf \in Blocks!Block /\ suf.start = at + size
      /\ suf.size = Blocks!End(r) - (at + size) /\ Blocks!End(suf) = Blocks!End(r)
  <2> DEFINE s == at + size
             n == Blocks!End(r) - (at + size)
  <2>1. s \in Nat /\ n \in Nat /\ s + n = Blocks!End(r)
    BY <1>2
  <2> HIDE DEF s, n
  <2>2. /\ Blocks!MkBlock(s, n) \in Blocks!Block /\ Blocks!MkBlock(s, n).start = s
        /\ Blocks!MkBlock(s, n).size = n /\ Blocks!End(Blocks!MkBlock(s, n)) = Blocks!End(r)
    BY <2>1, MkBlockFacts, Zenon
  <2> QED BY <2>2, Zenon DEF s, n
<1>5. /\ pre \in Blocks!Block /\ pre.start = r.start
      /\ pre.size = at - r.start /\ Blocks!End(pre) = at
  <2> DEFINE s == r.start
             n == at - r.start
  <2>1. s \in Nat /\ n \in Nat /\ s + n = at
    BY <1>2
  <2> HIDE DEF s, n
  <2>2. /\ Blocks!MkBlock(s, n) \in Blocks!Block /\ Blocks!MkBlock(s, n).start = s
        /\ Blocks!MkBlock(s, n).size = n /\ Blocks!End(Blocks!MkBlock(s, n)) = at
    BY <2>1, MkBlockFacts, ZenonT(30)
  <2> QED BY <2>2, Zenon DEF s, n
<1> HIDE DEF new, suf, pre
<1>6. \A b \in FreeBlocks' : \/ b \in FreeBlocks /\ b # r
                             \/ b = suf /\ b.size >= NodeSize
                             \/ b = pre /\ b.size >= NodeSize
  <2>1. \A b \in Blocks!Piece(at + size, Blocks!End(r) - (at + size)) : b = suf /\ b.size >= NodeSize
    BY <1>1, <1>2, <1>4, Zenon DEF Blocks!Piece, Blocks!RoomForNode, suf
  <2>2. \A b \in Blocks!Piece(r.start, at - r.start) : b = pre /\ b.size >= NodeSize
    BY <1>1, <1>2, <1>5, Zenon DEF Blocks!Piece, Blocks!RoomForNode, pre
  <2> QED BY <1>1, <2>1, <2>2, Zenon
<1>7. /\ suf.size # 0 => suf \in FreeBlocks'
      /\ pre.size # 0 => pre \in FreeBlocks'
      /\ \A b \in FreeBlocks : b # r => b \in FreeBlocks'
  BY <1>1, <1>4, <1>5, Zenon DEF Blocks!Piece, suf, pre
<1>8. LiveBlocks' = LiveBlocks \union {new}
  BY <1>1, Zenon DEF new
<1>9. Blocks!TypeOK'
  BY <1>3, <1>4, <1>5, <1>6, <1>8, Zenon DEF Blocks!IInv, Blocks!TypeOK
<1>10. Blocks!InHeap'
  BY <1>2, <1>3, <1>4, <1>5, <1>6, <1>8 DEF Blocks!IInv, Blocks!InHeap
<1>11. \A a \in LiveBlocks : /\ Blocks!Apart(a, r) /\ a.start \in Nat /\ a.size \in Nat
                             /\ a.size > 0 /\ Blocks!End(a) = a.start + a.size
  BY <1>2
  DEF Blocks!IInv, Blocks!Disjoint, Blocks!InHeap, Blocks!TypeOK, Blocks!Block,
      Blocks!End
<1>12. \A b \in FreeBlocks : b # r =>
          /\ Blocks!End(b) < r.start \/ Blocks!End(r) < b.start
          /\ b.start \in Nat /\ b.size \in Nat /\ b.size > 0 /\ Blocks!End(b) = b.start + b.size
  BY <1>2
  DEF Blocks!IInv, Blocks!Merged, Blocks!InHeap, Blocks!TypeOK, Blocks!Block, Blocks!End
<1>13. Blocks!Disjoint'
  <2>1. \A a, b \in LiveBlocks' : a # b => Blocks!Apart(a, b)
    BY <1>2, <1>3, <1>8, <1>11 DEF Blocks!IInv, Blocks!Disjoint, Blocks!Apart
  <2>2. ASSUME NEW a \in LiveBlocks', NEW b \in FreeBlocks' PROVE Blocks!Apart(a, b)
    <3>1. CASE a \in LiveBlocks
      BY <3>1, <1>2, <1>4, <1>5, <1>6, <1>11 DEF Blocks!IInv, Blocks!Disjoint, Blocks!Apart
    <3>2. CASE a = new
      BY <3>2, <1>2, <1>3, <1>4, <1>5, <1>6, <1>12 DEF Blocks!Apart
    <3> QED BY <3>1, <3>2, <1>8, Zenon
  <2> QED BY <2>1, <2>2, Zenon DEF Blocks!Disjoint, Blocks!Apart, Blocks!End
<1>14. Blocks!Merged'
  <2> SUFFICES ASSUME NEW a \in FreeBlocks', NEW b \in FreeBlocks', a # b
               PROVE  Blocks!End(a) < b.start \/ Blocks!End(b) < a.start
    BY Zenon DEF Blocks!Merged, Blocks!End
  <2>1. CASE a \in FreeBlocks /\ a # r
    BY <2>1, <1>2, <1>4, <1>5, <1>6, <1>12 DEF Blocks!IInv, Blocks!Merged
  <2>2. CASE a = suf
    BY <2>2, <1>2, <1>4, <1>5, <1>6, <1>12
  <2>3. CASE a = pre
    BY <2>3, <1>2, <1>4, <1>5, <1>6, <1>12
  <2> QED BY <2>1, <2>2, <2>3, <1>6, Zenon
<1>15. Blocks!Covered'
  <2> SUFFICES ASSUME NEW x \in 0 .. HeapSize - 1
               PROVE  \E b \in FreeBlocks' \union LiveBlocks' : b.start <= x /\ x < Blocks!End(b)
    BY Zenon DEF Blocks!Covered, Blocks!End
  <2>1. PICK b \in FreeBlocks \union LiveBlocks : b.start <= x /\ x < Blocks!End(b)
    BY Zenon DEF Blocks!IInv, Blocks!Covered
  <2>2. CASE b # r
    BY <2>1, <2>2, <1>7, <1>8, Zenon
  <2>3. CASE b = r /\ x < at
    <3>1. pre.size # 0 /\ pre.start <= x /\ x < Blocks!End(pre)
      BY <2>1, <2>3, <1>2, <1>5
    <3> QED BY <3>1, <1>7, Zenon
  <2>4. CASE b = r /\ at <= x /\ x < at + size
    BY <2>4, <1>3, <1>8, Zenon
  <2>5. CASE b = r /\ at + size <= x
    <3>1. suf.size # 0 /\ suf.start <= x /\ x < Blocks!End(suf)
      BY <2>1, <2>5, <1>2, <1>4
    <3> QED BY <3>1, <1>7, Zenon
  <2> QED BY <2>2, <2>3, <2>4, <2>5, <1>2
<1> QED
  BY <1>9, <1>10, <1>13, <1>14, <1>15, Zenon DEF Blocks!IInv

\* At most one free block ends where b starts, and Lo(b) is where it starts.
LEMMA LoFacts ==
  ASSUME Blocks!IInv, NEW b \in LiveBlocks
  PROVE  \/ Blocks!Before(b) = {} /\ Blocks!Lo(b) = b.start
         \/ \E f \in FreeBlocks : /\ Blocks!Before(b) = {f} /\ Blocks!End(f) = b.start
                                  /\ Blocks!Lo(b) = f.start
<1>1. CASE Blocks!Before(b) = {}
  BY <1>1, Zenon DEF Blocks!Lo
<1>2. CASE Blocks!Before(b) # {}
  <2> DEFINE f == CHOOSE g \in Blocks!Before(b) : TRUE
  <2>1. f \in Blocks!Before(b)
    BY <1>2, Zenon
  <2>2. f \in FreeBlocks /\ Blocks!End(f) = b.start
    BY <2>1, ZenonT(30) DEF Blocks!Before
  <2>3. ASSUME NEW g \in Blocks!Before(b) PROVE g = f
    <3>1. g \in FreeBlocks /\ Blocks!End(g) = Blocks!End(f)
      BY <2>2, Zenon DEF Blocks!Before
    <3> HIDE DEF f
    <3> QED BY <3>1, <2>2
    DEF Blocks!IInv, Blocks!Merged, Blocks!TypeOK, Blocks!Block, Blocks!End
  <2>4. Blocks!Before(b) = {f}
    BY <2>1, <2>3, Zenon
  <2>5. Blocks!Lo(b) = f.start
    BY <1>2, Zenon DEF Blocks!Lo
  <2> HIDE DEF f
  <2> QED BY <2>2, <2>4, <2>5, Zenon
<1> QED BY <1>1, <1>2, Zenon

\* At most one free block starts where b ends, and Hi(b) is where it ends.
LEMMA HiFacts ==
  ASSUME Blocks!IInv, NEW b \in LiveBlocks
  PROVE  \/ Blocks!After(b) = {} /\ Blocks!Hi(b) = Blocks!End(b)
         \/ \E f \in FreeBlocks : /\ Blocks!After(b) = {f} /\ f.start = Blocks!End(b)
                                  /\ Blocks!Hi(b) = Blocks!End(f)
<1>1. CASE Blocks!After(b) = {}
  BY <1>1, Zenon DEF Blocks!Hi
<1>2. CASE Blocks!After(b) # {}
  <2> DEFINE f == CHOOSE g \in Blocks!After(b) : TRUE
  <2>1. f \in Blocks!After(b)
    BY <1>2
  <2>2. f \in FreeBlocks /\ f.start = Blocks!End(b)
    BY <2>1, Zenon DEF Blocks!After
  <2>3. ASSUME NEW g \in Blocks!After(b) PROVE g = f
    <3>1. g \in FreeBlocks /\ g.start = f.start
      BY <2>2, Zenon DEF Blocks!After
    <3> HIDE DEF f
    <3> QED BY <3>1, <2>2
    DEF Blocks!IInv, Blocks!Merged, Blocks!TypeOK, Blocks!Block, Blocks!End
  <2>4. Blocks!After(b) = {f}
    BY <2>1, <2>3
  <2>5. Blocks!Hi(b) = Blocks!End(f)
    BY <1>2, Zenon DEF Blocks!Hi
  <2> HIDE DEF f
  <2> QED BY <2>2, <2>4, <2>5, Zenon
<1> QED BY <1>1, <1>2, Zenon

\* Giving a block back and merging it with its neighbours keeps the partition
\* (dealloc, add_free_region and coalesce).
LEMMA BlocksDealloc ==
  ASSUME Blocks!IInv, NEW b \in LiveBlocks, Blocks!Dealloc(b)
  PROVE  Blocks!IInv'
<1> DEFINE lo == Blocks!Lo(b)
           hi == Blocks!Hi(b)
           m == Blocks!MkBlock(lo, hi - lo)
<1>1. /\ \A c \in FreeBlocks \union LiveBlocks :
            /\ c.start \in Nat /\ c.size \in Nat /\ c.size > 0 /\ c.size >= NodeSize
            /\ Blocks!End(c) = c.start + c.size /\ Blocks!End(c) \in Nat /\ Blocks!End(c) <= HeapSize
      /\ NodeSize \in Nat /\ HeapSize \in Nat
  BY HeapAssumption DEF Blocks!IInv, Blocks!TypeOK, Blocks!InHeap, Blocks!Block, Blocks!End
<1>2. \A f \in FreeBlocks : Blocks!End(f) <= b.start \/ Blocks!End(b) <= f.start
  BY Zenon DEF Blocks!IInv, Blocks!Disjoint, Blocks!Apart
<1>3. lo \in Nat /\ lo <= b.start
  BY LoFacts, <1>1
<1>4. hi \in Nat /\ Blocks!End(b) <= hi /\ hi <= HeapSize
  BY HiFacts, <1>1
<1>5. /\ m \in Blocks!Block /\ m.start = lo /\ m.size = hi - lo /\ Blocks!End(m) = hi
      /\ m.size >= NodeSize
  <2>1. hi - lo \in Nat /\ hi - lo >= NodeSize /\ lo + (hi - lo) = hi
    BY <1>1, <1>3, <1>4
  <2> QED BY <2>1, <1>3, MkBlockFacts, ZenonT(30)
<1>6. \A x \in Int : lo <= x /\ x < b.start =>
        \E f \in Blocks!Before(b) : f \in FreeBlocks /\ f.start <= x /\ x < Blocks!End(f)
  BY LoFacts, <1>1
<1>7. \A x \in Int : Blocks!End(b) <= x /\ x < hi =>
        \E f \in Blocks!After(b) : f \in FreeBlocks /\ f.start <= x /\ x < Blocks!End(f)
  BY HiFacts, <1>1
<1>8. /\ \A f \in Blocks!Before(b) : f.start = lo /\ Blocks!End(f) = b.start
      /\ \A f \in Blocks!After(b) : f.start = Blocks!End(b) /\ Blocks!End(f) = hi
  BY LoFacts, HiFacts
<1>9. LiveBlocks' = LiveBlocks \ {b} /\ FreeBlocks' = (FreeBlocks \ (Blocks!Before(b) \union Blocks!After(b))) \union {m}
  BY Zenon DEF Blocks!Dealloc
<1>10. \A f \in FreeBlocks : f \notin Blocks!Before(b) /\ f \notin Blocks!After(b) =>
         Blocks!End(f) < lo \/ hi < f.start
  <2> SUFFICES ASSUME NEW f \in FreeBlocks, f \notin Blocks!Before(b), f \notin Blocks!After(b)
               PROVE  Blocks!End(f) < lo \/ hi < f.start
    BY Zenon
  <2>1. Blocks!End(f) < b.start \/ Blocks!End(b) < f.start
    BY <1>1, <1>2 DEF Blocks!Before, Blocks!After
  <2>2. Blocks!End(f) < b.start => Blocks!End(f) < lo
    <3>1. CASE Blocks!Before(b) = {} /\ lo = b.start
      BY <3>1, Zenon
    <3>2. ASSUME NEW g \in FreeBlocks, Blocks!Before(b) = {g}, Blocks!End(g) = b.start, lo = g.start
          PROVE  Blocks!End(f) < b.start => Blocks!End(f) < lo
      BY <3>2, <1>1 DEF Blocks!IInv, Blocks!Merged
    <3> QED BY <3>1, <3>2, LoFacts, Zenon
  <2>3. Blocks!End(b) < f.start => hi < f.start
    <3>1. CASE Blocks!After(b) = {} /\ hi = Blocks!End(b)
      BY <3>1, Zenon
    <3>2. ASSUME NEW g \in FreeBlocks, Blocks!After(b) = {g}, g.start = Blocks!End(b), hi = Blocks!End(g)
          PROVE  Blocks!End(b) < f.start => hi < f.start
      BY <3>2, <1>1 DEF Blocks!IInv, Blocks!Merged
    <3> QED BY <3>1, <3>2, HiFacts, Zenon
  <2> QED BY <2>1, <2>2, <2>3, Zenon
<1>11. \A a \in LiveBlocks : a # b => Blocks!End(a) <= lo \/ hi <= a.start
  <2> SUFFICES ASSUME NEW a \in LiveBlocks, a # b
               PROVE  Blocks!End(a) <= lo \/ hi <= a.start
    BY Zenon
  <2>1. Blocks!End(a) <= b.start \/ Blocks!End(b) <= a.start
    BY Zenon DEF Blocks!IInv, Blocks!Disjoint, Blocks!Apart
  <2>2. \A f \in FreeBlocks : Blocks!End(a) <= f.start \/ Blocks!End(f) <= a.start
    BY Zenon DEF Blocks!IInv, Blocks!Disjoint, Blocks!Apart
  <2>3. Blocks!End(a) <= b.start => Blocks!End(a) <= lo
    BY <2>2, <1>1, LoFacts
  <2>4. Blocks!End(b) <= a.start => hi <= a.start
    BY <2>2, <1>1, HiFacts
  <2> QED BY <2>1, <2>3, <2>4, Zenon
<1> HIDE DEF lo, hi, m
<1>12. Blocks!TypeOK'
  BY <1>5, <1>9, Zenon DEF Blocks!IInv, Blocks!TypeOK
<1>13. Blocks!InHeap'
  BY <1>4, <1>5, <1>9, Zenon DEF Blocks!IInv, Blocks!InHeap
<1>14. Blocks!Disjoint'
  BY <1>5, <1>9, <1>11, Zenon DEF Blocks!IInv, Blocks!Disjoint, Blocks!Apart
<1>15. Blocks!Merged'
  <2> SUFFICES ASSUME NEW p \in FreeBlocks', NEW q \in FreeBlocks', p # q
               PROVE  Blocks!End(p) < q.start \/ Blocks!End(q) < p.start
    BY Zenon DEF Blocks!Merged, Blocks!End
  <2> QED BY <1>5, <1>9, <1>10, Zenon DEF Blocks!IInv, Blocks!Merged
<1>16. Blocks!Covered'
  <2> SUFFICES ASSUME NEW x \in 0 .. HeapSize - 1
               PROVE  \E c \in FreeBlocks' \union LiveBlocks' : c.start <= x /\ x < Blocks!End(c)
    BY Zenon DEF Blocks!Covered, Blocks!End
  <2>1. PICK c \in FreeBlocks \union LiveBlocks : c.start <= x /\ x < Blocks!End(c)
    BY Zenon DEF Blocks!IInv, Blocks!Covered
  <2>2. CASE c = b \/ c \in Blocks!Before(b) \/ c \in Blocks!After(b)
    <3>1. lo <= x /\ x < hi
      BY <2>1, <2>2, <1>1, <1>3, <1>4, <1>8
    <3> QED BY <3>1, <1>5, <1>9, Zenon
  <2>3. CASE c # b /\ c \notin Blocks!Before(b) /\ c \notin Blocks!After(b)
    BY <2>1, <2>3, <1>9, Zenon
  <2> QED BY <2>2, <2>3, Zenon
<1> QED
  BY <1>12, <1>13, <1>14, <1>15, <1>16, Zenon DEF Blocks!IInv

\* The partition of the heap is kept by every call.
LEMMA BlocksNext == Blocks!IInv /\ [Blocks!Next]_Blocks!vars => Blocks!IInv'
<1> SUFFICES ASSUME Blocks!IInv, [Blocks!Next]_Blocks!vars PROVE Blocks!IInv'
  BY Zenon
<1>1. ASSUME NEW size \in Blocks!Sizes, Blocks!Alloc(size) PROVE Blocks!IInv'
  BY <1>1, BlocksAlloc, Zenon
<1>2. ASSUME NEW b \in LiveBlocks, Blocks!Dealloc(b) PROVE Blocks!IInv'
  BY <1>2, BlocksDealloc, Zenon
<1>3. CASE UNCHANGED Blocks!vars
  BY <1>3, Zenon DEF Blocks!vars, Blocks!IInv, Blocks!TypeOK, Blocks!InHeap, Blocks!Disjoint,
              Blocks!Merged, Blocks!Covered, Blocks!Apart, Blocks!End
<1> QED BY <1>1, <1>2, <1>3, Zenon DEF Blocks!Next

\* When nothing is in use the partition has one free block left in it.
LEMMA OneBlock == Blocks!IInv => Blocks!WholeAgain
<1> SUFFICES ASSUME Blocks!IInv, LiveBlocks = {} PROVE FreeBlocks = {Blocks!MkBlock(0, HeapSize)}
  BY Zenon DEF Blocks!WholeAgain
<1>1. /\ \A c \in FreeBlocks :
            /\ c.start \in Nat /\ c.size \in Nat /\ c.size > 0 /\ c \in Blocks!Block
            /\ Blocks!End(c) = c.start + c.size /\ Blocks!End(c) \in Nat /\ Blocks!End(c) <= HeapSize
      /\ HeapSize \in Nat /\ HeapSize > 0
  BY HeapAssumption DEF Blocks!IInv, Blocks!TypeOK, Blocks!InHeap, Blocks!Block, Blocks!End
<1>2. PICK b \in FreeBlocks : b.start <= 0 /\ 0 < Blocks!End(b)
  BY <1>1 DEF Blocks!IInv, Blocks!Covered
<1>3. b.start = 0
  BY <1>1, <1>2
<1>4. Blocks!End(b) = HeapSize
  <2> SUFFICES ASSUME Blocks!End(b) < HeapSize PROVE FALSE
    BY <1>1
  <2>1. PICK c \in FreeBlocks : c.start <= Blocks!End(b) /\ Blocks!End(b) < Blocks!End(c)
    BY <1>1 DEF Blocks!IInv, Blocks!Covered
  <2> QED BY <2>1, <1>1, <1>3 DEF Blocks!IInv, Blocks!Merged
<1>5. b = Blocks!MkBlock(0, HeapSize)
  BY <1>1, <1>3, <1>4 DEF Blocks!MkBlock, Blocks!Block
<1>6. \A c \in FreeBlocks : c = b
  BY <1>1, <1>3, <1>4 DEF Blocks!IInv, Blocks!Merged
<1> QED BY <1>5, <1>6, Zenon

-----------------------------------------------------------------------------
\* A node of the list.
Block == [start : Nat, size : Nat]

\* A list as the allocator keeps it between calls: in the order of the
\* addresses, with a gap between neighbours.
Sorted(list) ==
  /\ list \in Seq(Block)
  /\ \A i \in 1 .. Len(list) : list[i].size > 0
  /\ \A i, j \in 1 .. Len(list) : i < j => End(list[i]) < list[j].start

\* Blocks and their ends are numbers.
LEMMA BlockFacts ==
  ASSUME NEW b \in Block
  PROVE  /\ b.start \in Nat /\ b.size \in Nat /\ End(b) = b.start + b.size /\ End(b) \in Nat
         /\ b = [start |-> b.start, size |-> b.size]
BY DEF Block, End

\* Sequences of blocks are functions.
LEMMA ListFacts ==
  ASSUME NEW l \in Seq(Block)
  PROVE  /\ Len(l) \in Nat /\ DOMAIN l = 1 .. Len(l)
         /\ \A i \in 1 .. Len(l) : l[i] \in Block
OBVIOUS

\* The node reached takes over its successor, or is followed by it.
LEMMA AbsorbFacts ==
  ASSUME NEW d \in Seq(Block), NEW b \in Block
  PROVE  /\ Absorb(d, b) \in Seq(Block)
         /\ Len(d) > 0 /\ End(d[Len(d)]) = b.start =>
              /\ Len(Absorb(d, b)) = Len(d)
              /\ \A j \in 1 .. Len(d) - 1 : Absorb(d, b)[j] = d[j]
              /\ Absorb(d, b)[Len(d)] = [start |-> d[Len(d)].start,
                                         size |-> d[Len(d)].size + b.size]
         /\ ~ (Len(d) > 0 /\ End(d[Len(d)]) = b.start) =>
              /\ Len(Absorb(d, b)) = Len(d) + 1
              /\ \A j \in 1 .. Len(d) : Absorb(d, b)[j] = d[j]
              /\ Absorb(d, b)[Len(d) + 1] = b
<1>1. Len(d) > 0 <=> d # <<>>
  OBVIOUS
<1>2. CASE Len(d) > 0 /\ End(d[Len(d)]) = b.start
  <2>1. Absorb(d, b) = [d EXCEPT ![Len(d)].size = d[Len(d)].size + b.size]
    BY <1>1, <1>2, Zenon DEF Absorb
  <2>2. Len(d) \in 1 .. Len(d) /\ d[Len(d)] \in Block
    BY <1>2
  <2>3. [d[Len(d)] EXCEPT !.size = d[Len(d)].size + b.size] =
          [start |-> d[Len(d)].start, size |-> d[Len(d)].size + b.size]
    BY <2>2 DEF Block
  <2>4. d[Len(d)].size + b.size \in Nat
    BY <2>2 DEF Block
  <2> QED
    BY <1>2, <2>1, <2>2, <2>3, <2>4 DEF Block
<1>3. CASE ~ (Len(d) > 0 /\ End(d[Len(d)]) = b.start)
  <2>1. Absorb(d, b) = Append(d, b)
    BY <1>1, <1>3, Zenon DEF Absorb
  <2> QED
    BY <1>3, <2>1
<1> QED
  BY <1>2, <1>3, Zenon

\* The list with a node inserted.
LEMMA InsertFacts ==
  ASSUME NEW l \in Seq(Block), NEW k \in 1 .. Len(l) + 1, NEW x \in Block
  PROVE  /\ LinkAt(l, k, x) \in Seq(Block)
         /\ Len(LinkAt(l, k, x)) = Len(l) + 1
         /\ \A i \in 1 .. k - 1 : LinkAt(l, k, x)[i] = l[i]
         /\ LinkAt(l, k, x)[k] = x
         /\ \A i \in k + 1 .. Len(l) + 1 : LinkAt(l, k, x)[i] = l[i - 1]
<1> DEFINE p == SubSeq(l, 1, k - 1)
           q == p \o <<x>>
           s == SubSeq(l, k, Len(l))
<1>1. p \in Seq(Block) /\ Len(p) = k - 1 /\ \A i \in 1 .. k - 1 : p[i] = l[i]
  OBVIOUS
<1>2. s \in Seq(Block) /\ Len(s) = Len(l) + 1 - k /\ \A i \in 1 .. Len(l) + 1 - k : s[i] = l[i + k - 1]
  OBVIOUS
<1>3. LinkAt(l, k, x) = q \o s
  BY Zenon DEF LinkAt
<1> HIDE DEF p, s
<1>4. q \in Seq(Block) /\ Len(q) = k /\ (\A i \in 1 .. k - 1 : q[i] = l[i]) /\ q[k] = x
  BY <1>1
<1> HIDE DEF q
<1>5. q \o s \in Seq(Block) /\ Len(q \o s) = Len(l) + 1
  BY <1>2, <1>4
<1>6. (\A i \in 1 .. k : (q \o s)[i] = q[i]) /\ k \in 1 .. k
  BY <1>2, <1>4
<1>7. ASSUME NEW i \in k + 1 .. Len(l) + 1 PROVE (q \o s)[i] = l[i - 1]
  <2>1. (q \o s)[i] = s[i - k]
    BY <1>2, <1>4
  <2>2. s[i - k] = l[i - k + k - 1]
    BY <1>2, SMTT(30)
  <2>3. i - k + k - 1 = i - 1
    OBVIOUS
  <2> QED
    BY <2>1, <2>2, <2>3, Zenon
<1>8. \A i \in 1 .. k - 1 : (q \o s)[i] = l[i]
  BY <1>4, <1>6
<1>9. (q \o s)[k] = x
  BY <1>4, <1>6, Zenon
<1> QED
  BY <1>3, <1>5, <1>7, <1>8, <1>9, Zenon

\* The list with a node unlinked.
LEMMA UnlinkFacts ==
  ASSUME NEW l \in Seq(Block), NEW k \in 1 .. Len(l)
  PROVE  /\ Unlink(l, k) \in Seq(Block)
         /\ Len(Unlink(l, k)) = Len(l) - 1
         /\ \A i \in 1 .. k - 1 : Unlink(l, k)[i] = l[i]
         /\ \A i \in k .. Len(l) - 1 : Unlink(l, k)[i] = l[i + 1]
<1> DEFINE p == SubSeq(l, 1, k - 1)
           s == SubSeq(l, k + 1, Len(l))
<1>1. p \in Seq(Block) /\ Len(p) = k - 1 /\ \A i \in 1 .. k - 1 : p[i] = l[i]
  OBVIOUS
<1>2. s \in Seq(Block) /\ Len(s) = Len(l) - k /\ \A i \in 1 .. Len(l) - k : s[i] = l[i + k]
  OBVIOUS
<1>3. Unlink(l, k) = p \o s
  BY Zenon DEF Unlink
<1> HIDE DEF p, s
<1>4. p \o s \in Seq(Block) /\ Len(p \o s) = Len(l) - 1
  BY <1>1, <1>2
<1>5. \A i \in 1 .. k - 1 : (p \o s)[i] = l[i]
  BY <1>1, <1>2
<1>6. ASSUME NEW i \in k .. Len(l) - 1 PROVE (p \o s)[i] = l[i + 1]
  <2>1. (p \o s)[i] = s[i - (k - 1)]
    BY <1>1, <1>2
  <2>2. s[i - (k - 1)] = l[i - (k - 1) + k]
    BY <1>2
  <2>3. i - (k - 1) + k = i + 1
    OBVIOUS
  <2> QED
    BY <2>1, <2>2, <2>3, Zenon
<1> QED
  BY <1>3, <1>4, <1>5, <1>6, Zenon

\* The walk of Coalesce over a sorted list with the node x inserted at k: da says
\* whether x touches the node before it, db whether it touches the one after.
Placed(l, x, k, da, db) ==
  /\ Sorted(l) /\ x \in Block /\ k \in 1 .. Len(l) + 1
  /\ \A i \in 1 .. k - 1 : End(l[i]) <= x.start
  /\ \A i \in k .. Len(l) : End(x) <= l[i].start
  /\ da \in {0, 1} /\ (da = 1 <=> k > 1 /\ End(l[k - 1]) = x.start)
  /\ db \in {0, 1} /\ (db = 1 <=> k <= Len(l) /\ End(x) = l[k].start)

\* x merged with the nodes it touches.
From(l, x, k, da) == IF da = 1 THEN l[k - 1].start ELSE x.start

UpTo(l, x, k, db) == IF db = 1 THEN End(l[k]) ELSE End(x)

Joined(l, x, k, da, db) ==
  [start |-> From(l, x, k, da), size |-> UpTo(l, x, k, db) - From(l, x, k, da)]

\* The walk so far has changed nothing.
Copy(v, l, n) == v \in Seq(Block) /\ Len(v) = n /\ \A j \in 1 .. n : v[j] = l[j]

\* The walk so far has put m at position p and shifted what follows by s.
Shape(v, l, p, m, s, n) ==
  /\ v \in Seq(Block) /\ Len(v) = n
  /\ \A j \in 1 .. p - 1 : v[j] = l[j]
  /\ v[p] = m
  /\ \A j \in p + 1 .. n : v[j] = l[j + s]

\* Neighbours with a gap between them stay apart.
LEMMA CopyStep ==
  ASSUME NEW l, Sorted(l), NEW i \in 1 .. Len(l), NEW v, Copy(v, l, i - 1)
  PROVE  Copy(Absorb(v, l[i]), l, i)
<1>1. /\ l \in Seq(Block) /\ Len(l) \in Nat /\ l[i] \in Block
      /\ v \in Seq(Block) /\ Len(v) = i - 1 /\ \A j \in 1 .. i - 1 : v[j] = l[j]
  BY ListFacts, Zenon DEF Sorted, Copy
<1>2. ~ (Len(v) > 0 /\ End(v[Len(v)]) = l[i].start)
  <2>1. SUFFICES ASSUME i - 1 \in 1 .. Len(l) PROVE End(l[i - 1]) # l[i].start
    BY <1>1
  <2>2. End(l[i - 1]) < l[i].start
    BY <2>1 DEF Sorted
  <2>3. l[i - 1] \in Block
    BY <1>1, <2>1
  <2>4. End(l[i - 1]) \in Nat /\ l[i].start \in Nat
    BY <1>1, <2>3, BlockFacts, ZenonT(30)
  <2> QED
    BY <2>2, <2>4
<1> DEFINE r == Absorb(v, l[i])
<1>3. r \in Seq(Block) /\ Len(r) = i /\ (\A j \in 1 .. i - 1 : r[j] = v[j]) /\ r[i] = l[i]
  <2> DEFINE b == l[i]
  <2> HIDE DEF b
  <2>1. v \in Seq(Block) /\ b \in Block /\ ~ (Len(v) > 0 /\ End(v[Len(v)]) = b.start)
    BY <1>1, <1>2, Zenon DEF b
  <2>2. /\ Absorb(v, b) \in Seq(Block) /\ Len(Absorb(v, b)) = Len(v) + 1
        /\ \A j \in 1 .. Len(v) : Absorb(v, b)[j] = v[j]
        /\ Absorb(v, b)[Len(v) + 1] = b
    BY <2>1, AbsorbFacts, Zenon
  <2>3. Len(v) + 1 = i /\ Len(v) = i - 1
    BY <1>1
  <2> QED
    BY <2>2, <2>3, Zenon DEF b
<1> HIDE DEF r
<1>4. \A j \in 1 .. i : r[j] = l[j]
  BY <1>1, <1>3
<1>5. Copy(r, l, i)
  BY <1>3, <1>4, Zenon DEF Copy
<1> QED
  BY <1>5, Zenon DEF r

\* A node appended behind the shape.
LEMMA Onward ==
  ASSUME NEW l \in Seq(Block), NEW p \in Nat \ {0}, NEW s \in Int, NEW n \in Nat, n >= p, NEW m,
         NEW v, Shape(v, l, p, m, s, n), n + 1 + s \in 1 .. Len(l),
         n > 0 => End(v[n]) # l[n + 1 + s].start
  PROVE  Shape(Absorb(v, l[n + 1 + s]), l, p, m, s, n + 1)
<1> DEFINE b == l[n + 1 + s]
           r == Absorb(v, b)
<1>1. /\ v \in Seq(Block) /\ Len(v) = n /\ b \in Block
      /\ \A j \in 1 .. p - 1 : v[j] = l[j]
      /\ v[p] = m
      /\ \A j \in p + 1 .. n : v[j] = l[j + s]
  BY DEF Shape
<1>2. ~ (Len(v) > 0 /\ End(v[Len(v)]) = b.start)
  BY <1>1, Zenon
<1> HIDE DEF b
<1>3. r \in Seq(Block) /\ Len(r) = n + 1 /\ (\A j \in 1 .. n : r[j] = v[j]) /\ r[n + 1] = b
  BY <1>1, <1>2, AbsorbFacts, ZenonT(30)
<1> HIDE DEF r
<1>4. ASSUME NEW j \in 1 .. p - 1 PROVE r[j] = l[j]
  <2>1. j \in 1 .. n
    OBVIOUS
  <2> QED
    BY <1>1, <1>3, <2>1, Zenon
<1>5. r[p] = m
  <2>1. p \in 1 .. n
    OBVIOUS
  <2> QED
    BY <1>1, <1>3, <2>1, Zenon
<1>6. ASSUME NEW j \in p + 1 .. n + 1 PROVE r[j] = l[j + s]
  <2>1. CASE j = n + 1
    BY <1>3, <2>1, Zenon DEF b
  <2>2. CASE j # n + 1
    <3>1. j \in p + 1 .. n /\ j \in 1 .. n
      BY <2>2
    <3> QED
      BY <1>1, <1>3, <3>1, Zenon
  <2> QED
    BY <2>1, <2>2, Zenon
<1>7. Shape(r, l, p, m, s, n + 1)
  BY <1>3, <1>4, <1>5, <1>6, Zenon DEF Shape
<1> QED
  BY <1>7, Zenon DEF r, b

\* What Placed says of the node x and its neighbours.
LEMMA PlacedFacts ==
  ASSUME NEW l, NEW x, NEW k, NEW da, NEW db, Placed(l, x, k, da, db)
  PROVE  /\ l \in Seq(Block) /\ Sorted(l) /\ x \in Block /\ k \in 1 .. Len(l) + 1 /\ k \in Nat
         /\ Len(l) \in Nat /\ da \in {0, 1} /\ db \in {0, 1}
         /\ da = 1 => k - 1 \in 1 .. Len(l) /\ End(l[k - 1]) = x.start
         /\ da = 0 /\ k > 1 => End(l[k - 1]) # x.start
         /\ db = 1 => k \in 1 .. Len(l) /\ End(x) = l[k].start
         /\ db = 0 /\ k <= Len(l) => End(x) # l[k].start
<1>1. l \in Seq(Block) /\ Sorted(l)
  BY Zenon DEF Placed, Sorted
<1>2. Len(l) \in Nat
  BY <1>1
<1>3. /\ x \in Block /\ k \in 1 .. Len(l) + 1
      /\ da \in {0, 1} /\ (da = 1 <=> k > 1 /\ End(l[k - 1]) = x.start)
      /\ db \in {0, 1} /\ (db = 1 <=> k <= Len(l) /\ End(x) = l[k].start)
  BY Zenon DEF Placed
<1> QED
  BY <1>1, <1>2, <1>3

\* Ends and sizes of the merged node.
LEMMA JoinedFacts ==
  ASSUME NEW l, NEW x, NEW k, NEW da, NEW db, Placed(l, x, k, da, db)
  PROVE  /\ From(l, x, k, da) \in Nat /\ From(l, x, k, da) <= x.start
         /\ UpTo(l, x, k, db) \in Nat /\ End(x) <= UpTo(l, x, k, db)
         /\ Joined(l, x, k, da, db) \in Block
         /\ Joined(l, x, k, da, db).start = From(l, x, k, da)
         /\ End(Joined(l, x, k, da, db)) = UpTo(l, x, k, db)
<1>1. /\ l \in Seq(Block) /\ x \in Block /\ Len(l) \in Nat /\ k \in Nat
      /\ da \in {0, 1} /\ db \in {0, 1}
      /\ da = 1 => k - 1 \in 1 .. Len(l) /\ End(l[k - 1]) = x.start
      /\ db = 1 => k \in 1 .. Len(l) /\ End(x) = l[k].start
  BY PlacedFacts
<1>2. x.start \in Nat /\ x.size \in Nat /\ End(x) = x.start + x.size
  BY <1>1, BlockFacts, Zenon
<1>3. From(l, x, k, da) \in Nat /\ From(l, x, k, da) <= x.start
  <2>1. CASE da = 1
    <3>0. k - 1 \in 1 .. Len(l) /\ l \in Seq(Block)
      BY <1>1, <2>1, Zenon
    <3>1. l[k - 1] \in Block
      BY <3>0, ListFacts, Zenon
    <3>2. /\ l[k - 1].start \in Nat /\ l[k - 1].size \in Nat
          /\ End(l[k - 1]) = l[k - 1].start + l[k - 1].size
      BY <3>1, BlockFacts, Zenon
    <3>3. From(l, x, k, da) = l[k - 1].start
      BY <2>1, Zenon DEF From
    <3> QED
      BY <1>1, <1>2, <2>1, <3>2, <3>3, SMTT(30)
  <2>2. CASE da = 0
    BY <1>2, <2>2 DEF From
  <2> QED
    BY <1>1, <2>1, <2>2, Zenon
<1>4. UpTo(l, x, k, db) \in Nat /\ End(x) <= UpTo(l, x, k, db)
  <2>1. CASE db = 1
    <3>0. k \in 1 .. Len(l) /\ l \in Seq(Block)
      BY <1>1, <2>1, Zenon
    <3>1. l[k] \in Block
      BY <3>0, ListFacts, Zenon
    <3>2. /\ l[k].start \in Nat /\ l[k].size \in Nat
          /\ End(l[k]) = l[k].start + l[k].size
      BY <3>1, BlockFacts, Zenon
    <3>3. UpTo(l, x, k, db) = End(l[k])
      BY <2>1, Zenon DEF UpTo
    <3> QED
      BY <1>1, <1>2, <2>1, <3>2, <3>3, SMTT(30)
  <2>2. CASE db = 0
    BY <1>2, <2>2 DEF UpTo
  <2> QED
    BY <1>1, <2>1, <2>2, Zenon
<1> DEFINE f == From(l, x, k, da)
           t == UpTo(l, x, k, db)
           b == [start |-> f, size |-> t - f]
<1> HIDE DEF f, t
<1>5. t - f \in Nat /\ f \in Nat /\ t \in Nat
  BY <1>2, <1>3, <1>4 DEF f, t
<1>6. b \in Block /\ b.start = f /\ b.size = t - f /\ End(b) = t
  BY <1>5 DEF Block, End
<1>7. Joined(l, x, k, da, db) = b
  BY Zenon DEF Joined, f, t
<1> HIDE DEF b
<1> QED
  BY <1>3, <1>4, <1>6, <1>7, Zenon DEF f, t

\* The walk reaches x.
LEMMA MeetBefore ==
  ASSUME NEW l, NEW x, NEW k, NEW da, NEW db, Placed(l, x, k, da, db),
         NEW v, Copy(v, l, k - 1), NEW y, y = [start |-> From(l, x, k, da), size |-> End(x) - From(l, x, k, da)]
  PROVE  Shape(Absorb(v, x), l, k - da, y, 0, k - da)
<1>1. /\ l \in Seq(Block) /\ x \in Block /\ Len(l) \in Nat /\ k \in Nat /\ k >= 1 /\ k <= Len(l) + 1
      /\ da \in {0, 1}
      /\ da = 1 => k - 1 \in 1 .. Len(l) /\ End(l[k - 1]) = x.start
      /\ da = 0 /\ k > 1 => End(l[k - 1]) # x.start
  BY PlacedFacts
<1>2. x.start \in Nat /\ x.size \in Nat /\ End(x) = x.start + x.size /\ x = [start |-> x.start, size |-> x.size]
  BY <1>1, BlockFacts, Zenon
<1>3. v \in Seq(Block) /\ Len(v) = k - 1 /\ \A j \in 1 .. k - 1 : v[j] = l[j]
  BY Zenon DEF Copy
<1> DEFINE r == Absorb(v, x)
<1> HIDE DEF r
<1>4. CASE da = 0
  <2>1. ~ (Len(v) > 0 /\ End(v[Len(v)]) = x.start)
    BY <1>1, <1>3, <1>4
  <2>2. /\ r \in Seq(Block) /\ Len(r) = Len(v) + 1
        /\ \A j \in 1 .. Len(v) : r[j] = v[j]
        /\ r[Len(v) + 1] = x
    BY <1>1, <1>3, <2>1, AbsorbFacts, ZenonT(30) DEF r
  <2>3. /\ Len(v) + 1 = k /\ k - da = k
    BY <1>1, <1>3, <1>4
  <2>4. y = x
    <3>1. From(l, x, k, da) = x.start
      BY <1>4 DEF From
    <3>2. End(x) - x.start = x.size
      BY <1>2
    <3> QED
      BY <1>2, <3>1, <3>2, Zenon
  <2>5. \A j \in 1 .. k - 1 : r[j] = l[j]
    BY <1>3, <2>2, Zenon
  <2>6. \A j \in k + 1 .. k : r[j] = l[j + 0]
    BY <1>1
  <2>7. Shape(r, l, k, y, 0, k)
    BY <2>2, <2>3, <2>4, <2>5, <2>6, ZenonT(30) DEF Shape
  <2> QED
    BY <2>3, <2>7, Zenon DEF r
<1>5. CASE da = 1
  <2> DEFINE p == k - 1
  <2>0. p \in Nat /\ p \in 1 .. Len(l) /\ Len(v) = p /\ k - da = p /\ p \in 1 .. p
    BY <1>1, <1>3, <1>5
  <2>1. End(l[p]) = x.start /\ From(l, x, k, da) = l[p].start
    BY <1>1, <1>5, Zenon DEF From
  <2> HIDE DEF p
  <2>2. v[p] = l[p] /\ Len(v) > 0 /\ End(v[Len(v)]) = x.start
    BY <1>3, <2>0, <2>1 DEF p
  <2>3. /\ r \in Seq(Block) /\ Len(r) = Len(v)
        /\ \A j \in 1 .. Len(v) - 1 : r[j] = v[j]
        /\ r[Len(v)] = [start |-> v[Len(v)].start, size |-> v[Len(v)].size + x.size]
    BY <1>1, <1>3, <2>2, AbsorbFacts, ZenonT(30) DEF r
  <2>4. l[p] \in Block
    BY <1>1, <2>0, ListFacts
  <2>5. l[p].start \in Nat /\ l[p].size \in Nat /\ End(l[p]) = l[p].start + l[p].size
    BY <2>4, BlockFacts, Zenon
  <2>6. End(x) - l[p].start = l[p].size + x.size
    BY <1>2, <2>1, <2>5
  <2>7. r[p] = y
    BY <2>0, <2>1, <2>2, <2>3, <2>6, Zenon
  <2>8. ASSUME NEW j \in 1 .. p - 1 PROVE r[j] = l[j]
    <3>1. j \in 1 .. Len(v) - 1 /\ j \in 1 .. k - 1
      BY <1>3, <2>0
    <3> QED
      BY <1>3, <2>3, <3>1, Zenon
  <2>9. \A j \in p + 1 .. p : r[j] = l[j + 0]
    BY <2>0
  <2>10. Shape(r, l, p, y, 0, p)
    BY <2>0, <2>3, <2>7, <2>8, <2>9, ZenonT(30) DEF Shape
  <2> QED
    BY <2>0, <2>10, Zenon DEF r
<1> QED
  BY <1>1, <1>4, <1>5, Zenon

\* The walk reaches the node after x.
LEMMA MeetAfter ==
  ASSUME NEW l, NEW x, NEW k, NEW da, NEW db, Placed(l, x, k, da, db), k <= Len(l),
         NEW v, NEW y, y = [start |-> From(l, x, k, da), size |-> End(x) - From(l, x, k, da)],
         Shape(v, l, k - da, y, 0, k - da)
  PROVE  Shape(Absorb(v, l[k]), l, k - da, Joined(l, x, k, da, db), da + db - 1, k + 1 - da - db)
<1> DEFINE p == k - da
           b == l[k]
           r == Absorb(v, b)
           f == From(l, x, k, da)
<1>1. /\ l \in Seq(Block) /\ x \in Block /\ Len(l) \in Nat /\ k \in 1 .. Len(l) /\ k \in Nat
      /\ da \in {0, 1} /\ db \in {0, 1} /\ p \in Nat /\ p >= 1
      /\ db = 1 => End(x) = b.start
      /\ db = 0 => End(x) # b.start
  <2>1. /\ l \in Seq(Block) /\ x \in Block /\ Len(l) \in Nat /\ k \in Nat /\ k >= 1
        /\ da \in {0, 1} /\ db \in {0, 1}
        /\ da = 1 => k - 1 \in 1 .. Len(l)
        /\ db = 1 => End(x) = b.start
        /\ db = 0 => End(x) # b.start
    BY PlacedFacts
  <2> QED
    BY <2>1
<1>2. x.start \in Nat /\ x.size \in Nat /\ End(x) = x.start + x.size
  BY <1>1, BlockFacts, Zenon
<1>3. b \in Block
  BY <1>1, ListFacts, Zenon
<1>4. b.start \in Nat /\ b.size \in Nat /\ End(b) = b.start + b.size
  BY <1>3, BlockFacts, Zenon
<1>5. f \in Nat /\ f <= x.start
  BY JoinedFacts, Zenon
<1>6. /\ v \in Seq(Block) /\ Len(v) = p /\ v[p] = y
      /\ \A j \in 1 .. p - 1 : v[j] = l[j]
  BY Zenon DEF Shape
<1> HIDE DEF r, b, p, f
<1>7. y.start = f /\ y.size = End(x) - f /\ End(y) = End(x)
  <2>1. y = [start |-> f, size |-> End(x) - f]
    BY Zenon DEF f
  <2> QED
    BY <2>1, <1>2, <1>5 DEF End
<1>8. Len(v) > 0 /\ End(v[Len(v)]) = End(x)
  BY <1>1, <1>6, <1>7
<1>9. CASE db = 0
  <2>1. ~ (Len(v) > 0 /\ End(v[Len(v)]) = b.start)
    BY <1>1, <1>8, <1>9, Zenon
  <2>2. /\ r \in Seq(Block) /\ Len(r) = Len(v) + 1
        /\ \A j \in 1 .. Len(v) : r[j] = v[j]
        /\ r[Len(v) + 1] = b
    BY <1>3, <1>6, <2>1, AbsorbFacts, ZenonT(30) DEF r
  <2>3. Joined(l, x, k, da, db) = y
    <3>1. UpTo(l, x, k, db) = End(x)
      BY <1>9 DEF UpTo
    <3> QED
      BY <3>1, Zenon DEF Joined
  <2>4. p + 1 = k + 1 - da - db /\ p \in 1 .. p
    BY <1>1, <1>9 DEF p
  <2>5. ASSUME NEW j \in 1 .. p - 1 PROVE r[j] = l[j]
    <3>1. j \in 1 .. Len(v)
      BY <1>1, <1>6
    <3> QED
      BY <1>6, <2>2, <3>1, ZenonT(30)
  <2>6. r[p] = y
    BY <1>6, <2>2, <2>4, ZenonT(30)
  <2>7. ASSUME NEW j \in p + 1 .. p + 1 PROVE r[j] = l[j + (da + db - 1)]
    <3>1. j = p + 1 /\ j + (da + db - 1) = k
      BY <1>1, <1>9 DEF p
    <3> QED
      BY <3>1, <1>6, <2>2, Zenon DEF b
  <2>8. Shape(r, l, p, y, da + db - 1, p + 1)
    BY <1>6, <2>2, <2>5, <2>6, <2>7, ZenonT(30) DEF Shape
  <2> QED
    BY <2>3, <2>4, <2>8, Zenon DEF r, b, p
<1>10. CASE db = 1
  <2>1. Len(v) > 0 /\ End(v[Len(v)]) = b.start
    BY <1>1, <1>8, <1>10, Zenon
  <2>2. /\ r \in Seq(Block) /\ Len(r) = Len(v)
        /\ \A j \in 1 .. Len(v) - 1 : r[j] = v[j]
        /\ r[Len(v)] = [start |-> v[Len(v)].start, size |-> v[Len(v)].size + b.size]
    BY <1>3, <1>6, <2>1, AbsorbFacts, Zenon DEF r
  <2>3. Joined(l, x, k, da, db) = [start |-> f, size |-> End(b) - f]
    BY <1>10, Zenon DEF Joined, UpTo, b, f
  <2>4. p = k + 1 - da - db
    BY <1>1, <1>10 DEF p
  <2>5. End(b) - f = y.size + b.size
    BY <1>1, <1>2, <1>4, <1>5, <1>7, <1>10, SMTT(30)
  <2>6. r[p] = Joined(l, x, k, da, db)
    BY <1>6, <1>7, <2>2, <2>3, <2>5, Zenon
  <2>7. \A j \in 1 .. p - 1 : r[j] = l[j]
    BY <1>6, <2>2, ZenonT(30)
  <2>8. \A j \in p + 1 .. p : r[j] = l[j + (da + db - 1)]
    BY <1>1
  <2>9. Shape(r, l, p, Joined(l, x, k, da, db), da + db - 1, p)
    BY <1>6, <2>2, <2>6, <2>7, <2>8, ZenonT(30) DEF Shape
  <2> QED
    BY <2>4, <2>9, Zenon DEF r, b, p
<1> QED
  BY <1>1, <1>9, <1>10, Zenon

\* The walk goes on behind the merged node.
LEMMA WalkOn ==
  ASSUME NEW l, NEW x, NEW k, NEW da, NEW db, Placed(l, x, k, da, db),
         NEW v, NEW i \in Nat, i >= k + 1, i <= Len(l),
         Shape(v, l, k - da, Joined(l, x, k, da, db), da + db - 1, i - da - db)
  PROVE  Shape(Absorb(v, l[i]), l, k - da, Joined(l, x, k, da, db), da + db - 1, i + 1 - da - db)
<1> DEFINE p == k - da
           s == da + db - 1
           n == i - da - db
           m == Joined(l, x, k, da, db)
<1>1. /\ l \in Seq(Block) /\ Sorted(l) /\ Len(l) \in Nat /\ k \in Nat /\ k >= 1
      /\ da \in {0, 1} /\ db \in {0, 1} /\ (da = 1 => k - 1 \in 1 .. Len(l))
  BY PlacedFacts
<1>2. /\ p \in Nat \ {0} /\ s \in Int /\ n \in Nat /\ n >= p /\ n > 0
      /\ n + 1 + s = i /\ i \in 1 .. Len(l) /\ n + 1 = i + 1 - da - db
      /\ n > p => n \in p + 1 .. n /\ n + s = i - 1
      /\ n = p => db = 1 /\ i = k + 1
      /\ i - 1 \in 1 .. Len(l)
  <2>1. i \in Int /\ k \in Int /\ (da = 0 \/ da = 1) /\ (db = 0 \/ db = 1) /\ (da = 1 => k >= 2)
    BY <1>1
  <2>2. CASE da = 0 /\ db = 0
    BY <1>1, <2>1, <2>2
  <2>3. CASE da = 0 /\ db = 1
    BY <1>1, <2>1, <2>3
  <2>4. CASE da = 1 /\ db = 0
    BY <1>1, <2>1, <2>4
  <2>5. CASE da = 1 /\ db = 1
    BY <1>1, <2>1, <2>5
  <2> QED
    BY <2>1, <2>2, <2>3, <2>4, <2>5, Zenon
<1>3. Shape(v, l, p, m, s, n)
  BY Zenon
<1> HIDE DEF p, s, n, m
<1>4. v[p] = m /\ \A j \in p + 1 .. n : v[j] = l[j + s]
  BY <1>3, Zenon DEF Shape
<1>5. End(l[i - 1]) < l[i].start
  <2>1. i - 1 < i
    OBVIOUS
  <2> QED
    BY <1>1, <1>2, <2>1, Zenon DEF Sorted
<1>6. l[i] \in Block /\ l[i - 1] \in Block
  BY <1>1, <1>2, ListFacts, ZenonT(30)
<1>7. l[i].start \in Nat /\ End(l[i - 1]) \in Nat
  BY <1>6, BlockFacts, Zenon
<1>8. End(v[n]) # l[i].start
  <2>1. CASE n > p
    <3>1. v[n] = l[i - 1]
      BY <1>2, <1>4, <2>1, Zenon
    <3> QED
      BY <1>5, <1>7, <3>1
  <2>2. CASE n = p
    <3>1. End(m) = UpTo(l, x, k, db)
      BY JoinedFacts, Zenon DEF m
    <3>2. UpTo(l, x, k, db) = End(l[k]) /\ i - 1 = k
      BY <1>1, <1>2, <2>2 DEF UpTo
    <3> QED
      BY <1>4, <1>5, <1>7, <2>2, <3>1, <3>2
  <2> QED
    BY <1>2, <2>1, <2>2
<1>9. Shape(Absorb(v, l[n + 1 + s]), l, p, m, s, n + 1)
  BY <1>1, <1>2, <1>3, <1>8, Onward, Zenon
<1> QED
  BY <1>2, <1>9, Zenon DEF p, s, m

\* What the merged node is apart from.
LEMMA Gaps ==
  ASSUME NEW l, NEW x, NEW k, NEW da, NEW db, Placed(l, x, k, da, db), x.size > 0,
         NEW i \in 1 .. Len(l)
  PROVE  /\ i < k - da => /\ End(l[i]) < From(l, x, k, da)
                          /\ End(l[i]) # x.start /\ l[i].start # End(x)
         /\ i >= k + db => /\ UpTo(l, x, k, db) < l[i].start
                           /\ End(l[i]) # x.start /\ l[i].start # End(x)
         /\ i = k - 1 /\ da = 1 => End(l[i]) = x.start
         /\ i = k /\ db = 1 => l[i].start = End(x)
<1>1. /\ l \in Seq(Block) /\ Sorted(l) /\ x \in Block /\ k \in 1 .. Len(l) + 1 /\ k \in Nat
      /\ Len(l) \in Nat /\ da \in {0, 1} /\ db \in {0, 1}
      /\ da = 1 => k - 1 \in 1 .. Len(l) /\ End(l[k - 1]) = x.start
      /\ da = 0 /\ k > 1 => End(l[k - 1]) # x.start
      /\ db = 1 => k \in 1 .. Len(l) /\ End(x) = l[k].start
      /\ db = 0 /\ k <= Len(l) => End(x) # l[k].start
  BY PlacedFacts, Zenon
<1>2. /\ x.start \in Nat /\ x.size \in Nat /\ End(x) = x.start + x.size /\ End(x) \in Nat
  BY <1>1, BlockFacts, Zenon
<1>3. \A j \in 1 .. Len(l) : l[j].start \in Nat /\ l[j].size \in Nat /\ l[j].size > 0 /\ End(l[j]) = l[j].start + l[j].size
  <2>1. \A j \in 1 .. Len(l) : l[j] \in Block /\ l[j].size > 0
    BY <1>1, ListFacts, Zenon DEF Sorted
  <2> QED
    BY <2>1, BlockFacts, Zenon
<1>4. \A j, g \in 1 .. Len(l) : j < g => End(l[j]) < l[g].start
  BY <1>1, Zenon DEF Sorted
<1>5. /\ \A j \in 1 .. k - 1 : End(l[j]) <= x.start
      /\ \A j \in k .. Len(l) : End(x) <= l[j].start
  BY Zenon DEF Placed
<1>6. ASSUME i < k - da
      PROVE  End(l[i]) < From(l, x, k, da) /\ End(l[i]) # x.start /\ l[i].start # End(x)
  <2>1. CASE da = 1
    <3>1. k - 1 \in 1 .. Len(l) /\ i < k - 1 /\ End(l[k - 1]) = x.start
      BY <1>1, <1>6, <2>1, Zenon
    <3>2. End(l[i]) < l[k - 1].start
      BY <1>4, <3>1, Zenon
    <3>3. From(l, x, k, da) = l[k - 1].start
      BY <2>1, Zenon DEF From
    <3>4. /\ l[i].start \in Nat /\ l[i].size \in Nat /\ End(l[i]) = l[i].start + l[i].size
          /\ l[k - 1].start \in Nat /\ l[k - 1].size \in Nat
          /\ End(l[k - 1]) = l[k - 1].start + l[k - 1].size
      BY <1>3, <3>1, ZenonT(30)
    <3>5. End(l[i]) < x.start
      BY <1>2, <3>1, <3>2, <3>4, SMTT(30)
    <3>6. End(l[i]) # x.start /\ l[i].start # End(x)
      BY <1>2, <3>4, <3>5, SMTT(30)
    <3> QED
      BY <3>2, <3>3, <3>6, Zenon
  <2>2. CASE da = 0
    <3>1. i \in 1 .. k - 1 /\ i < k
      BY <1>1, <1>6, <2>2
    <3>2. End(l[i]) <= x.start
      BY <1>5, <3>1, Zenon
    <3>3. End(l[i]) # x.start
      <4>1. CASE i = k - 1
        BY <1>1, <2>2, <3>1, <4>1
      <4>2. CASE i < k - 1
        <5>1. k - 1 \in 1 .. Len(l) /\ k - 1 \in 1 .. k - 1
          BY <1>1, <4>2
        <5>2. End(l[i]) < l[k - 1].start /\ End(l[k - 1]) <= x.start
          BY <1>4, <1>5, <4>2, <5>1, ZenonT(30)
        <5> QED
          BY <1>2, <1>3, <5>1, <5>2, SMTT(30)
      <4> QED
        BY <1>1, <3>1, <4>1, <4>2
    <3>4. From(l, x, k, da) = x.start
      BY <2>2 DEF From
    <3>5. l[i].start \in Nat /\ l[i].size \in Nat /\ End(l[i]) = l[i].start + l[i].size
      BY <1>3, ZenonT(30)
    <3> QED
      BY <1>2, <3>2, <3>3, <3>4, <3>5
  <2> QED
    BY <1>1, <2>1, <2>2, Zenon
<1>7. ASSUME i >= k + db
      PROVE  UpTo(l, x, k, db) < l[i].start /\ End(l[i]) # x.start /\ l[i].start # End(x)
  <2>1. CASE db = 1
    <3>1. k \in 1 .. Len(l) /\ k < i /\ l[k].start = End(x)
      BY <1>1, <1>7, <2>1
    <3>2. End(l[k]) < l[i].start
      BY <1>4, <3>1, Zenon
    <3>3. UpTo(l, x, k, db) = End(l[k])
      BY <2>1 DEF UpTo
    <3>4. /\ l[i].start \in Nat /\ l[i].size \in Nat /\ End(l[i]) = l[i].start + l[i].size
          /\ l[k].start \in Nat /\ l[k].size \in Nat /\ l[k].size > 0
          /\ End(l[k]) = l[k].start + l[k].size
      BY <1>3, <3>1, ZenonT(30)
    <3> QED
      BY <1>2, <3>1, <3>2, <3>3, <3>4, SMTT(30)
  <2>2. CASE db = 0
    <3>1. i \in k .. Len(l) /\ k \in 1 .. Len(l) /\ k \in k .. Len(l)
      BY <1>1, <1>7, <2>2
    <3>2. End(x) <= l[i].start
      BY <1>5, <3>1, Zenon
    <3>3. End(x) # l[i].start
      <4>1. CASE i = k
        BY <1>1, <2>2, <3>1, <4>1, SMTT(30)
      <4>2. CASE k < i
        <5>1. End(l[k]) < l[i].start /\ End(x) <= l[k].start
          BY <1>4, <1>5, <4>2, <3>1, Zenon
        <5> QED
          BY <1>2, <1>3, <3>1, <5>1, SMTT(30)
      <4> QED
        BY <1>1, <3>1, <4>1, <4>2
    <3>4. UpTo(l, x, k, db) = End(x)
      BY <2>2 DEF UpTo
    <3>5. l[i].start \in Nat /\ l[i].size \in Nat /\ End(l[i]) = l[i].start + l[i].size
      BY <1>3, Zenon
    <3> QED
      BY <1>2, <3>2, <3>3, <3>4, <3>5
  <2> QED
    BY <1>1, <2>1, <2>2, Zenon
<1> QED
  BY <1>1, <1>6, <1>7, Zenon

\* The blocks of a list, and the ones among them that touch a block.
Elems(l) == {l[i] : i \in DOMAIN l}

Touching(l, x) == {b \in Elems(l) : End(b) = x.start \/ b.start = End(x)}

\* m is x together with the blocks of the list that touch it.
Merges(l, x, m) ==
  /\ m \in Block /\ m.start <= x.start /\ End(x) <= End(m)
  /\ \/ m.start = x.start /\ \A b \in Elems(l) : End(b) # x.start
     \/ \E b \in Elems(l) : End(b) = x.start /\ m.start = b.start
  /\ \/ End(m) = End(x) /\ \A b \in Elems(l) : b.start # End(x)
     \/ \E b \in Elems(l) : b.start = End(x) /\ End(m) = End(b)

\* The merged list is sorted, with a gap between neighbours.
LEMMA ShapeSorted ==
  ASSUME NEW l, NEW x, NEW k, NEW da, NEW db, Placed(l, x, k, da, db), x.size > 0,
         NEW r, Shape(r, l, k - da, Joined(l, x, k, da, db), da + db - 1, Len(l) + 1 - da - db)
  PROVE  Sorted(r)
<1> DEFINE p == k - da
           s == da + db - 1
           n == Len(l) + 1 - da - db
           m == Joined(l, x, k, da, db)
<1>1. /\ l \in Seq(Block) /\ Sorted(l) /\ x \in Block /\ k \in 1 .. Len(l) + 1 /\ k \in Nat
      /\ Len(l) \in Nat /\ da \in {0, 1} /\ db \in {0, 1}
      /\ (da = 1 => k - 1 \in 1 .. Len(l)) /\ (db = 1 => k \in 1 .. Len(l))
  BY PlacedFacts
<1>2. /\ r \in Seq(Block) /\ Len(r) = n
      /\ \A j \in 1 .. p - 1 : r[j] = l[j]
      /\ r[p] = m
      /\ \A j \in p + 1 .. n : r[j] = l[j + s]
  BY Zenon DEF Shape
<1>3. /\ m \in Block /\ m.start = From(l, x, k, da) /\ End(m) = UpTo(l, x, k, db)
      /\ m.start <= x.start /\ End(x) <= End(m) /\ m.start \in Nat /\ m.size \in Nat
      /\ End(m) = m.start + m.size
  BY JoinedFacts, BlockFacts
<1>4. x.start \in Nat /\ x.size \in Nat /\ End(x) = x.start + x.size
  BY <1>1, BlockFacts, Zenon
<1>5. m.size > 0
  BY <1>3, <1>4
<1>6. /\ p \in Nat /\ p >= 1 /\ n \in Nat /\ p <= n /\ s \in Int
      /\ \A j \in 1 .. p - 1 : j \in 1 .. Len(l) /\ j < k - da
      /\ \A j \in p + 1 .. n : j + s \in 1 .. Len(l) /\ j + s >= k + db
  <2>1. CASE da = 0 /\ db = 0
    BY <1>1, <2>1
  <2>2. CASE da = 0 /\ db = 1
    BY <1>1, <2>2
  <2>3. CASE da = 1 /\ db = 0
    BY <1>1, <2>3
  <2>4. CASE da = 1 /\ db = 1
    BY <1>1, <2>4
  <2> QED
    BY <1>1, <2>1, <2>2, <2>3, <2>4, Zenon
<1> HIDE DEF p, s, n, m
<1>7. ASSUME NEW j \in 1 .. p - 1 PROVE End(r[j]) < m.start /\ r[j].size > 0
  <2>1. j \in 1 .. Len(l) /\ j < k - da
    BY <1>6, ZenonT(30)
  <2>2. End(l[j]) < From(l, x, k, da)
    BY <2>1, Gaps
  <2>3. l[j].size > 0
    BY <1>1, <2>1, Zenon DEF Sorted
  <2>4. r[j] = l[j]
    BY <1>2, Zenon
  <2> QED
    BY <1>3, <2>2, <2>3, <2>4, Zenon
<1>8. ASSUME NEW j \in p + 1 .. n PROVE End(m) < r[j].start /\ r[j].size > 0
  <2>1. j + s \in 1 .. Len(l) /\ j + s >= k + db
    BY <1>6, ZenonT(30)
  <2>2. UpTo(l, x, k, db) < l[j + s].start
    BY <2>1, Gaps
  <2>3. l[j + s].size > 0
    BY <1>1, <2>1, Zenon DEF Sorted
  <2>4. r[j] = l[j + s]
    BY <1>2, Zenon
  <2> QED
    BY <1>3, <2>2, <2>3, <2>4, Zenon
<1>9. \A j \in 1 .. n : j \in 1 .. p - 1 \/ j = p \/ j \in p + 1 .. n
  BY <1>6, SMTT(30)
<1>10. \A j \in 1 .. n : r[j].size > 0
  BY <1>2, <1>5, <1>7, <1>8, <1>9, ZenonT(30)
<1>11. ASSUME NEW i \in 1 .. n, NEW j \in 1 .. n, i < j PROVE End(r[i]) < r[j].start
  <2>1. CASE j \in 1 .. p - 1
    <3>1. i \in 1 .. p - 1 /\ i \in 1 .. Len(l) /\ j \in 1 .. Len(l)
      BY <1>6, <1>11, <2>1, SMTT(30)
    <3>2. End(l[i]) < l[j].start
      BY <1>1, <1>11, <3>1, ZenonT(30) DEF Sorted
    <3> QED
      BY <1>2, <2>1, <3>1, <3>2, ZenonT(30)
  <2>2. CASE j = p
    <3>1. i \in 1 .. p - 1
      BY <1>6, <1>11, <2>2
    <3> QED
      BY <1>2, <1>7, <2>2, <3>1, Zenon
  <2>3. CASE j \in p + 1 .. n /\ i \in p + 1 .. n
    <3>1. i + s \in 1 .. Len(l) /\ j + s \in 1 .. Len(l) /\ i + s < j + s
      BY <1>6, <1>11, <2>3
    <3>2. End(l[i + s]) < l[j + s].start
      BY <1>1, <3>1, Zenon DEF Sorted
    <3> QED
      BY <1>2, <2>3, <3>2, ZenonT(30)
  <2>4. CASE j \in p + 1 .. n /\ i = p
    BY <1>2, <1>8, <2>4, Zenon
  <2>5. CASE j \in p + 1 .. n /\ i \in 1 .. p - 1
    <3>1. End(r[i]) < m.start /\ End(m) < r[j].start
      BY <1>7, <1>8, <2>5, ZenonT(30)
    <3>2. r[i] \in Block /\ r[j] \in Block
      BY <1>2, ListFacts
    <3>3. End(r[i]) \in Nat /\ r[j].start \in Nat
      BY <3>2, BlockFacts, Zenon
    <3> QED
      BY <1>3, <3>1, <3>3, SMTT(30)
  <2> QED
    BY <1>9, <2>1, <2>2, <2>3, <2>4, <2>5, ZenonT(30)
<1> QED
  BY <1>2, <1>10, <1>11, ZenonT(30) DEF Sorted

\* The blocks of the merged list: what touched x is in the merged node.
LEMMA ShapeElems ==
  ASSUME NEW l, NEW x, NEW k, NEW da, NEW db, Placed(l, x, k, da, db), x.size > 0,
         NEW r, NEW m, m = Joined(l, x, k, da, db),
         Shape(r, l, k - da, m, da + db - 1, Len(l) + 1 - da - db)
  PROVE  Elems(r) = (Elems(l) \ Touching(l, x)) \union {m}
<1> DEFINE p == k - da
           s == da + db - 1
           n == Len(l) + 1 - da - db
<1>1. /\ l \in Seq(Block) /\ Len(l) \in Nat /\ k \in 1 .. Len(l) + 1 /\ k \in Nat
      /\ da \in {0, 1} /\ db \in {0, 1}
      /\ (da = 1 => k - 1 \in 1 .. Len(l)) /\ (db = 1 => k \in 1 .. Len(l))
  BY PlacedFacts
<1>2. /\ r \in Seq(Block) /\ Len(r) = n
      /\ \A j \in 1 .. p - 1 : r[j] = l[j]
      /\ r[p] = m
      /\ \A j \in p + 1 .. n : r[j] = l[j + s]
  BY ZenonT(30) DEF Shape
<1>3. /\ p \in 1 .. n
      /\ \A j \in 1 .. n : j = p \/ j \in 1 .. p - 1 \/ j \in p + 1 .. n
      /\ \A j \in 1 .. p - 1 : j \in 1 .. Len(l) /\ j < k - da
      /\ \A j \in p + 1 .. n : j + s \in 1 .. Len(l) /\ j + s >= k + db
      /\ \A i \in 1 .. Len(l) : i < k - da => i \in 1 .. p - 1 /\ i \in 1 .. n
      /\ \A i \in 1 .. Len(l) : i >= k + db => i - s \in p + 1 .. n /\ i - s \in 1 .. n /\ i - s + s = i
      /\ \A i \in 1 .. Len(l) : i < k - da \/ i >= k + db \/ (i = k - 1 /\ da = 1) \/ (i = k /\ db = 1)
  <2>1. CASE da = 0 /\ db = 0
    BY <1>1, <2>1
  <2>2. CASE da = 0 /\ db = 1
    BY <1>1, <2>2
  <2>3. CASE da = 1 /\ db = 0
    BY <1>1, <2>3
  <2>4. CASE da = 1 /\ db = 1
    BY <1>1, <2>4
  <2> QED
    BY <1>1, <2>1, <2>2, <2>3, <2>4, Zenon
<1> HIDE DEF p, s, n
<1>4. DOMAIN l = 1 .. Len(l) /\ DOMAIN r = 1 .. n
  BY <1>1, <1>2
<1>5. ASSUME NEW j \in 1 .. n PROVE r[j] \in (Elems(l) \ Touching(l, x)) \union {m}
  <2>1. CASE j = p
    BY <1>2, <2>1, Zenon
  <2>2. CASE j \in 1 .. p - 1
    <3>1. j \in 1 .. Len(l) /\ j < k - da
      BY <1>3, <2>2, ZenonT(30)
    <3>2. End(l[j]) # x.start /\ l[j].start # End(x)
      BY <3>1, Gaps
    <3> QED
      BY <1>2, <1>4, <2>2, <3>1, <3>2, Zenon DEF Elems, Touching
  <2>3. CASE j \in p + 1 .. n
    <3> DEFINE i == j + s
    <3>1. i \in 1 .. Len(l) /\ i >= k + db
      BY <1>3, <2>3, Zenon
    <3>2. r[j] = l[i]
      BY <1>2, <2>3, ZenonT(30)
    <3> HIDE DEF i
    <3>3. End(l[i]) # x.start /\ l[i].start # End(x)
      BY <3>1, Gaps
    <3> QED
      BY <1>4, <3>1, <3>2, <3>3, Zenon DEF Elems, Touching
  <2> QED
    BY <1>3, <2>1, <2>2, <2>3, Zenon
<1>6. ASSUME NEW i \in 1 .. Len(l), l[i] \notin Touching(l, x) PROVE l[i] \in Elems(r)
  <2>1. CASE i < k - da
    <3>1. i \in 1 .. p - 1 /\ i \in 1 .. n
      BY <1>3, <2>1, Zenon
    <3> QED
      BY <1>2, <1>4, <3>1, Zenon DEF Elems
  <2>2. CASE i >= k + db
    <3> DEFINE j == i - s
    <3>1. j \in p + 1 .. n /\ j \in 1 .. n /\ j + s = i
      BY <1>3, <2>2, Zenon
    <3> HIDE DEF j
    <3>2. r[j] = l[i]
      BY <1>2, <3>1, Zenon
    <3> QED
      BY <1>4, <3>1, <3>2, Zenon DEF Elems
  <2>3. CASE (i = k - 1 /\ da = 1) \/ (i = k /\ db = 1)
    <3>1. End(l[i]) = x.start \/ l[i].start = End(x)
      BY <2>3, Gaps, Zenon
    <3> QED
      BY <1>4, <1>6, <3>1, Zenon DEF Elems, Touching
  <2> QED
    BY <1>3, <2>1, <2>2, <2>3, Zenon
<1>7. m \in Elems(r)
  BY <1>2, <1>3, <1>4, Zenon DEF Elems
<1>8. ASSUME NEW b \in Elems(r) PROVE b \in (Elems(l) \ Touching(l, x)) \union {m}
  BY <1>4, <1>5, Zenon DEF Elems
<1>9. ASSUME NEW b \in Elems(l), b \notin Touching(l, x) PROVE b \in Elems(r)
  BY <1>4, <1>6, <1>9, Zenon DEF Elems
<1> QED
  BY <1>7, <1>8, <1>9, ZenonT(30)

\* The merged node.
LEMMA JoinedMerges ==
  ASSUME NEW l, NEW x, NEW k, NEW da, NEW db, Placed(l, x, k, da, db), x.size > 0
  PROVE  Merges(l, x, Joined(l, x, k, da, db))
<1> DEFINE m == Joined(l, x, k, da, db)
<1>1. /\ l \in Seq(Block) /\ Len(l) \in Nat /\ k \in 1 .. Len(l) + 1 /\ k \in Nat
      /\ da \in {0, 1} /\ db \in {0, 1}
      /\ da = 1 => k - 1 \in 1 .. Len(l) /\ End(l[k - 1]) = x.start
      /\ db = 1 => k \in 1 .. Len(l) /\ End(x) = l[k].start
  BY PlacedFacts
<1>2. /\ m \in Block /\ m.start = From(l, x, k, da) /\ End(m) = UpTo(l, x, k, db)
      /\ m.start <= x.start /\ End(x) <= End(m)
  BY JoinedFacts, SMTT(30)
<1> HIDE DEF m
<1>3. DOMAIN l = 1 .. Len(l)
  BY <1>1
<1>4. \/ m.start = x.start /\ \A b \in Elems(l) : End(b) # x.start
      \/ \E b \in Elems(l) : End(b) = x.start /\ m.start = b.start
  <2>1. CASE da = 1
    <3>1. m.start = l[k - 1].start
      BY <1>2, <2>1, Zenon DEF From
    <3>2. k - 1 \in 1 .. Len(l) /\ End(l[k - 1]) = x.start
      BY <1>1, <2>1, Zenon
    <3>3. l[k - 1] \in Elems(l)
      BY <1>3, <3>2, Zenon DEF Elems
    <3> QED
      BY <3>1, <3>2, <3>3, ZenonT(30)
  <2>2. CASE da = 0
    <3>1. m.start = x.start
      BY <1>2, <2>2, SMTT(30) DEF From
    <3>2. ASSUME NEW i \in 1 .. Len(l) PROVE End(l[i]) # x.start
      <4>1. i < k - da \/ i >= k + db \/ (i = k /\ db = 1)
        BY <1>1, <2>2, SMTT(30)
      <4>2. CASE i = k /\ db = 1
        <5>1. l[i] \in Block /\ x \in Block
          BY <1>1, ListFacts, PlacedFacts, Zenon
        <5>2. l[i].start = x.start + x.size /\ End(l[i]) = l[i].start + l[i].size
          BY <1>1, <4>2, <5>1, Zenon DEF End
        <5>3. l[i].size \in Nat /\ x.start \in Nat /\ x.size \in Nat
          BY <5>1, BlockFacts, ZenonT(30)
        <5> QED
          BY <5>2, <5>3, SMTT(30)
      <4> QED
        BY <4>1, <4>2, Gaps, SMTT(30)
    <3> QED
      BY <1>3, <3>1, <3>2, ZenonT(30) DEF Elems
  <2> QED
    BY <1>1, <2>1, <2>2, Zenon
<1>5. \/ End(m) = End(x) /\ \A b \in Elems(l) : b.start # End(x)
      \/ \E b \in Elems(l) : b.start = End(x) /\ End(m) = End(b)
  <2>1. CASE db = 1
    <3>1. End(m) = End(l[k])
      BY <1>2, <2>1, Zenon DEF UpTo
    <3>2. k \in 1 .. Len(l) /\ l[k].start = End(x)
      BY <1>1, <2>1
    <3>3. l[k] \in Elems(l)
      BY <1>3, <3>2, Zenon DEF Elems
    <3> QED
      BY <3>1, <3>2, <3>3, Zenon
  <2>2. CASE db = 0
    <3>1. End(m) = End(x)
      BY <1>2, <2>2, SMTT(30) DEF UpTo
    <3>2. ASSUME NEW i \in 1 .. Len(l) PROVE l[i].start # End(x)
      <4>1. i < k - da \/ i >= k + db \/ (i = k - 1 /\ da = 1)
        BY <1>1, <2>2, SMTT(30)
      <4>2. CASE i = k - 1 /\ da = 1
        <5>1. l[i] \in Block /\ x \in Block
          BY <1>1, ListFacts, PlacedFacts
        <5>2. l[i].start + l[i].size = x.start /\ End(x) = x.start + x.size
          BY <1>1, <4>2, <5>1, Zenon DEF End
        <5>3. l[i].start \in Nat /\ l[i].size \in Nat /\ x.start \in Nat /\ x.size \in Nat
          BY <5>1, BlockFacts, Zenon
        <5> QED
          BY <5>2, <5>3, SMTT(30)
      <4> QED
        BY <4>1, <4>2, Gaps, SMTT(30)
    <3> QED
      BY <1>3, <3>1, <3>2, ZenonT(30) DEF Elems
  <2> QED
    BY <1>1, <2>1, <2>2, Zenon
<1> QED
  BY <1>2, <1>4, <1>5, ZenonT(30) DEF Merges, m

-----------------------------------------------------------------------------
\* The multiples of a number.
LEMMA Multiples ==
  ASSUME NEW a \in Nat, NEW d \in Nat \ {0}
  PROVE  a % d = 0 <=> \E q \in Nat : a = q * d
<1> DEFINE c == a \div d
           e == a % d
<1>1. c \in Nat /\ e \in Nat /\ e < d /\ a = c * d + e
  OBVIOUS
<1> HIDE DEF c, e
<1>2. ASSUME NEW q \in Nat, a = q * d PROVE e = 0
  <2>1. (q - c) * d = e
    BY <1>1, <1>2
  <2>2. q - c < 1
    <3>1. SUFFICES ASSUME q - c >= 1 PROVE FALSE
      BY <1>1
    <3>2. (q - c) * d >= d
      BY <1>1, <3>1
    <3> QED
      BY <1>1, <2>1, <3>2
  <2>3. q - c > 0 - 1
    <3>1. SUFFICES ASSUME c - q >= 1 PROVE FALSE
      BY <1>1
    <3>2. (c - q) * d >= d
      BY <1>1, <3>1
    <3>3. (c - q) * d = 0 - e
      BY <1>1, <2>1
    <3> QED
      BY <1>1, <3>2, <3>3
  <2>4. q - c = 0
    BY <1>1, <2>2, <2>3
  <2> QED
    BY <2>1, <2>4
<1>3. e = 0 => a = c * d
  BY <1>1
<1>4. e = 0 => \E q \in Nat : a = q * d
  BY <1>1, <1>3, Zenon
<1> QED
  BY <1>2, <1>4, Zenon DEF e

\* Rounding up gives a multiple that is not smaller (align_up).
LEMMA UpFacts ==
  ASSUME NEW a \in Nat, NEW d \in Nat \ {0}
  PROVE  /\ AlignUp(a, d) \in Nat /\ AlignUp(a, d) >= a
         /\ \E q \in Nat : AlignUp(a, d) = q * d
<1>1. (a + d - 1) \div d \in Nat
  OBVIOUS
<1>2. ((a + d - 1) \div d) * d >= a
  OBVIOUS
<1> DEFINE q == (a + d - 1) \div d
<1>3. AlignUp(a, d) = q * d
  BY Zenon DEF AlignUp
<1> HIDE DEF q
<1>4. q \in Nat /\ q * d >= a
  BY <1>1, <1>2, Zenon DEF q
<1>5. q * d \in Nat
  BY <1>4
<1> QED
  BY <1>3, <1>4, <1>5, Zenon

\* A sum of multiples is a multiple.
LEMMA SumMultiple ==
  ASSUME NEW a \in Nat, NEW b \in Nat, NEW d \in Nat \ {0}, a % d = 0, b % d = 0
  PROVE  (a + b) % d = 0
<1>1. PICK q \in Nat : a = q * d
  BY Multiples, Zenon
<1>2. PICK p \in Nat : b = p * d
  BY Multiples, Zenon
<1>3. a + b = (q + p) * d /\ q + p \in Nat /\ a + b \in Nat
  BY <1>1, <1>2
<1>4. \E u \in Nat : a + b = u * d
  BY <1>3, Zenon
<1> DEFINE c == a + b
<1> HIDE DEF c
<1>5. c \in Nat /\ \E u \in Nat : c = u * d
  BY <1>3, <1>4 DEF c
<1>6. c % d = 0
  BY <1>5, Multiples
<1> QED
  BY <1>6, Zenon DEF c

\* A multiple of a multiple is a multiple.
LEMMA TransMultiple ==
  ASSUME NEW a \in Nat, NEW e \in Nat \ {0}, NEW d \in Nat \ {0}, NEW q \in Nat, a = q * e, e % d = 0
  PROVE  a % d = 0
<1>1. PICK p \in Nat : e = p * d
  BY Multiples, Zenon
<1>2. a = (q * p) * d
  BY <1>1
<1>3. q * p \in Nat
  BY <1>1
<1> QED
  BY <1>2, <1>3, Multiples

\* The larger of two numbers.
LEMMA MaxOfTwo ==
  ASSUME NEW a \in Nat, NEW b \in Nat
  PROVE  /\ Max({a, b}) \in {a, b} /\ Max({a, b}) >= a /\ Max({a, b}) >= b
<1> DEFINE S == {a, b}
<1>1. \E z \in S : \A y \in S : z >= y
  <2>1. CASE a >= b
    BY <2>1
  <2>2. CASE b >= a
    BY <2>2
  <2> QED
    BY <2>1, <2>2
<1>2. Max(S) \in S /\ \A y \in S : Max(S) >= y
  BY <1>1, Zenon DEF Max
<1> QED
  BY <1>2, Zenon

\* size_align: sizes hold a node, and sizes and alignments keep nodes aligned.
LEMMA LayoutFacts ==
  ASSUME NEW layout \in Layouts
  PROVE  /\ Align(layout) \in Nat \ {0} /\ Align(layout) % NodeAlign = 0
         /\ Size(layout) \in Nat /\ Size(layout) >= NodeSize /\ Size(layout) % NodeAlign = 0
         /\ Size(layout) >= layout.size /\ layout.size \in Nat
<1>1. /\ layout.size \in Nat /\ layout.align \in Nat \ {0}
      /\ NodeAlign \in Nat \ {0} /\ NodeSize \in Nat /\ NodeSize % NodeAlign = 0
      /\ layout.align > NodeAlign => layout.align % NodeAlign = 0
  BY ListAssumption, HeapAssumption, Zenon
<1> DEFINE al == Align(layout)
<1>2. al \in {layout.align, NodeAlign} /\ al >= layout.align /\ al >= NodeAlign
  BY <1>1, MaxOfTwo, Zenon DEF Align
<1> HIDE DEF al
<1>3. NodeAlign % NodeAlign = 0
  BY <1>1
<1>4. al \in Nat \ {0} /\ al % NodeAlign = 0
  BY <1>1, <1>2, <1>3
<1> DEFINE up == AlignUp(layout.size, al)
<1>5. up \in Nat /\ up >= layout.size /\ \E q \in Nat : up = q * al
  BY <1>1, <1>4, UpFacts, ZenonT(30)
<1> HIDE DEF up
<1>6. PICK q \in Nat : up = q * al
  BY <1>5, Zenon
<1>7. up % NodeAlign = 0
  BY <1>1, <1>4, <1>5, <1>6, TransMultiple, ZenonT(30)
<1> DEFINE sz == Size(layout)
<1>8. sz = Max({up, NodeSize})
  BY Zenon DEF Size, up, al
<1>9. sz \in {up, NodeSize} /\ sz >= up /\ sz >= NodeSize
  BY <1>1, <1>5, <1>8, MaxOfTwo
<1> HIDE DEF sz
<1>10. sz \in Nat /\ sz % NodeAlign = 0 /\ sz >= layout.size
  BY <1>1, <1>5, <1>7, <1>9
<1> QED
  BY <1>1, <1>4, <1>9, <1>10, Zenon DEF al, sz

-----------------------------------------------------------------------------
\* The numbers in their order.
Below == {p \in Nat \X Nat : p[1] < p[2]}

\* A non-empty set of numbers has a least element.
LEMMA Least ==
  ASSUME NEW S, S \subseteq Nat, S # {}
  PROVE  \E x \in S : \A y \in S : x <= y
<1>1. IsWellFoundedOn(Below, Nat)
  BY NatLessThanWellFounded, Zenon DEF NatLessThanWellFounded, OpToRel, Below
<1>2. PICK x \in S : \A y \in S : ~ (<<y, x>> \in Below)
  BY <1>1, WFMin, Zenon DEF WFMin
<1>3. SUFFICES ASSUME NEW y \in S PROVE x <= y
  BY <1>2, Zenon
<1>4. x \in Nat /\ y \in Nat
  BY <1>2, <1>3, Zenon
<1>5. y < x => <<y, x>> \in Below
  BY <1>4, Zenon DEF Below
<1> QED
  BY <1>2, <1>3, <1>4, <1>5

\* Induction, with the property as a set.
LEMMA Induction ==
  ASSUME NEW S, 0 \in S, \A n \in Nat : n \in S => n + 1 \in S
  PROVE  \A n \in Nat : n \in S
<1> DEFINE T == {n \in Nat : n \notin S}
<1>1. SUFFICES ASSUME T # {} PROVE FALSE
  BY Zenon
<1>2. T \subseteq Nat
  BY Zenon
<1> HIDE DEF T
<1>3. PICK x \in T : \A y \in T : x <= y
  BY <1>1, <1>2, Least, ZenonT(30)
<1>4. x \in Nat \ {0} /\ x \notin S
  BY <1>3, Zenon DEF T
<1>5. x - 1 \in Nat /\ x - 1 + 1 = x /\ ~ (x <= x - 1)
  BY <1>4
<1>6. x - 1 \notin T
  BY <1>3, <1>5, ZenonT(30)
<1>7. x - 1 \in S
  BY <1>5, <1>6, ZenonT(30) DEF T
<1> QED
  BY <1>4, <1>5, <1>7, Zenon

\* it sums f over the sets of a family F, as MapThenSumSet does.
Sums(it, F, f) ==
  it = [s \in F |-> IF s = {} THEN 0
                    ELSE f[CHOOSE x \in s : TRUE] + it[s \ {CHOOSE x \in s : TRUE}]]

\* The subsets with at most n elements.
Small(I, n) == {s \in SUBSET I : Cardinality(s) <= n}

\* Taking an element away makes a finite set smaller by one.
LEMMA OneLess ==
  ASSUME NEW I, IsFiniteSet(I), NEW s \in SUBSET I, s # {}
  PROVE  LET x == CHOOSE y \in s : TRUE
         IN  /\ x \in s /\ s \ {x} \in SUBSET I
             /\ Cardinality(s) \in Nat \ {0} /\ Cardinality(s \ {x}) = Cardinality(s) - 1
<1> DEFINE x == CHOOSE y \in s : TRUE
<1>1. x \in s
  BY Zenon
<1>2. IsFiniteSet(s)
  BY FS_Subset, Zenon
<1> HIDE DEF x
<1>3. Cardinality(s) \in Nat /\ Cardinality(s) # 0
  BY <1>2, FS_CardinalityType, FS_EmptySet
<1>4. Cardinality(s \ {x}) = Cardinality(s) - 1
  BY <1>1, <1>2, FS_RemoveElement, ZenonT(30)
<1>5. s \ {x} \in SUBSET I
  BY Zenon
<1> QED
  BY <1>1, <1>3, <1>4, <1>5, ZenonT(30) DEF x

\* Only the empty set has no elements.
LEMMA NoneLeft ==
  ASSUME NEW I, IsFiniteSet(I), NEW s \in SUBSET I
  PROVE  Cardinality(s) \in Nat /\ (Cardinality(s) <= 0 <=> s = {})
<1>1. IsFiniteSet(s)
  BY FS_Subset, Zenon
<1>2. Cardinality(s) \in Nat /\ (Cardinality(s) = 0 <=> s = {})
  BY <1>1, FS_CardinalityType, FS_EmptySet, Zenon
<1> QED
  BY <1>2

\* There is a function that sums f.
LEMMA SumExists ==
  ASSUME NEW I, IsFiniteSet(I), NEW f
  PROVE  \E it : Sums(it, SUBSET I, f)
<1> DEFINE P == {n \in Nat : \E it : Sums(it, Small(I, n), f)}
<1>1. 0 \in P
  <2> DEFINE it == [s \in Small(I, 0) |-> 0]
  <2>1. ASSUME NEW s \in Small(I, 0) PROVE s = {}
    <3>1. s \in SUBSET I /\ Cardinality(s) <= 0
      BY Zenon DEF Small
    <3> QED
      BY <3>1, NoneLeft, Zenon
  <2>2. Sums(it, Small(I, 0), f)
    BY <2>1, Zenon DEF Sums
  <2> QED
    BY <2>2, Zenon
<1>2. ASSUME NEW n \in Nat, n \in P PROVE n + 1 \in P
  <2>1. PICK it : Sums(it, Small(I, n), f)
    BY <1>2, Zenon
  <2> DEFINE jt == [s \in Small(I, n + 1) |->
                      IF s = {} THEN 0
                      ELSE f[CHOOSE x \in s : TRUE] + it[s \ {CHOOSE x \in s : TRUE}]]
             Body(s) == IF s = {} THEN 0
                        ELSE f[CHOOSE x \in s : TRUE] + jt[s \ {CHOOSE x \in s : TRUE}]
  <2>2. ASSUME NEW s \in Small(I, n + 1) PROVE jt[s] = Body(s)
    <3>1. CASE s = {}
      BY <3>1, Zenon
    <3>2. CASE s # {}
      <4> DEFINE x == CHOOSE y \in s : TRUE
                 t == s \ {x}
      <4>1. s \in SUBSET I /\ Cardinality(s) <= n + 1
        BY Zenon DEF Small
      <4>2. t \in SUBSET I /\ Cardinality(s) \in Nat /\ Cardinality(t) = Cardinality(s) - 1
        BY <3>2, <4>1, OneLess, ZenonT(30)
      <4> HIDE DEF t
      <4>3. Cardinality(t) <= n /\ Cardinality(t) <= n + 1
        BY <4>1, <4>2
      <4>4. t \in Small(I, n) /\ t \in Small(I, n + 1)
        BY <4>2, <4>3, Zenon DEF Small
      <4>5. it[t] = IF t = {} THEN 0
                    ELSE f[CHOOSE y \in t : TRUE] + it[t \ {CHOOSE y \in t : TRUE}]
        BY <2>1, <4>4, Zenon DEF Sums
      <4>6. jt[t] = it[t]
        BY <4>4, <4>5, Zenon
      <4>7. jt[s] = f[x] + it[t]
        BY <3>2, Zenon DEF t
      <4> QED
        BY <3>2, <4>6, <4>7, Zenon DEF t
    <3> QED
      BY <3>1, <3>2
  <2>3. jt = [s \in Small(I, n + 1) |-> Body(s)]
    BY <2>2, ZenonT(90)
  <2>4. Sums(jt, Small(I, n + 1), f)
    BY <2>3, Zenon DEF Sums
  <2>5. n + 1 \in Nat
    OBVIOUS
  <2> QED
    BY <2>4, <2>5, Zenon
<1> HIDE DEF P
<1>3. \A n \in Nat : n \in P
  BY <1>1, <1>2, Induction, Zenon
<1>4. Cardinality(I) \in Nat
  BY FS_CardinalityType
<1>5. Small(I, Cardinality(I)) = SUBSET I
  <2>1. ASSUME NEW s \in SUBSET I PROVE Cardinality(s) <= Cardinality(I)
    BY FS_Subset, Zenon
  <2> QED
    BY <2>1, Zenon DEF Small
<1> QED
  BY <1>3, <1>4, <1>5, ZenonT(30) DEF P

\* The bytes, or other items, of the members of s.
All(B, s) == UNION {B[i] : i \in s}

\* The sum of the sizes of sets that have nothing in common is the size of
\* their union.
LEMMA SumIsCardinality ==
  ASSUME NEW I, IsFiniteSet(I), NEW f, NEW it, Sums(it, SUBSET I, f), NEW B,
         \A i \in I : IsFiniteSet(B[i]) /\ Cardinality(B[i]) = f[i],
         \A i, j \in I : i # j => B[i] \cap B[j] = {}
  PROVE  IsFiniteSet(All(B, I)) /\ it[I] = Cardinality(All(B, I))
<1> DEFINE Right(s) == IsFiniteSet(All(B, s)) /\ it[s] = Cardinality(All(B, s))
           P == {n \in Nat : \A s \in SUBSET I : Cardinality(s) = n => Right(s)}
<1>0. \A s \in SUBSET I :
        it[s] = IF s = {} THEN 0
                ELSE f[CHOOSE x \in s : TRUE] + it[s \ {CHOOSE x \in s : TRUE}]
  BY Zenon DEF Sums
<1>1. 0 \in P
  <2>1. ASSUME NEW s \in SUBSET I, Cardinality(s) = 0 PROVE Right(s)
    <3>1. s = {}
      BY <2>1, NoneLeft
    <3>2. All(B, s) = {}
      BY <3>1, Zenon DEF All
    <3> QED
      BY <1>0, <3>1, <3>2, FS_EmptySet, Zenon
  <2> QED
    BY <2>1
<1>2. ASSUME NEW n \in Nat, n \in P PROVE n + 1 \in P
  <2>1. ASSUME NEW s \in SUBSET I, Cardinality(s) = n + 1 PROVE Right(s)
    <3> DEFINE x == CHOOSE y \in s : TRUE
               t == s \ {x}
    <3>1. s # {}
      BY <2>1, NoneLeft
    <3>2. /\ x \in s /\ t \in SUBSET I
          /\ Cardinality(s) \in Nat /\ Cardinality(t) = Cardinality(s) - 1
      BY <3>1, OneLess, Zenon
    <3>3. it[s] = f[x] + it[t]
      BY <1>0, <3>1, ZenonT(30)
    <3>4. x \in I /\ s = t \union {x} /\ x \notin t
      BY <3>2, Zenon
    <3> HIDE DEF x, t
    <3>5. Right(t)
      <4>1. Cardinality(t) = n
        BY <2>1, <3>2
      <4> QED
        BY <1>2, <3>2, <4>1, ZenonT(30)
    <3>6. All(B, s) = All(B, t) \union B[x] /\ All(B, t) \cap B[x] = {}
      <4>1. \A y : y \in All(B, s) <=> y \in All(B, t) \/ y \in B[x]
        BY <3>4, Zenon DEF All
      <4>2. \A i \in t : B[i] \cap B[x] = {}
        BY <3>2, <3>4, Zenon
      <4>3. \A y \in All(B, t) : y \notin B[x]
        BY <4>2, Zenon DEF All
      <4> QED
        BY <4>1, <4>3, Zenon
    <3>7. IsFiniteSet(B[x]) /\ Cardinality(B[x]) = f[x]
      BY <3>4, Zenon
    <3>8. /\ IsFiniteSet(All(B, s))
          /\ Cardinality(All(B, s)) =
               Cardinality(All(B, t)) + Cardinality(B[x]) - Cardinality({})
      <4>1. IsFiniteSet(All(B, t))
        BY <3>5, Zenon
      <4>2. /\ IsFiniteSet(All(B, t) \union B[x])
            /\ Cardinality(All(B, t) \union B[x]) =
                 Cardinality(All(B, t)) + Cardinality(B[x])
                   - Cardinality(All(B, t) \cap B[x])
        BY <3>7, <4>1, FS_Union, Zenon
      <4> QED
        BY <3>6, <4>2, Zenon
    <3>9. Cardinality(All(B, t)) \in Nat /\ Cardinality(B[x]) \in Nat /\ Cardinality({}) = 0
      BY <3>5, <3>7, FS_CardinalityType, FS_EmptySet, ZenonT(30)
    <3> QED
      BY <3>3, <3>5, <3>7, <3>8, <3>9, SMTT(30)
  <2> QED
    BY <2>1, SMTT(30)
<1>3. \A n \in Nat : n \in P
  <2> HIDE DEF P
  <2> QED
    BY <1>1, <1>2, Induction, Zenon
<1>4. Cardinality(I) \in Nat
  BY FS_CardinalityType, Zenon
<1> QED
  BY <1>3, <1>4

\* The largest of the first n numbers.
LEMMA MaxTop ==
  ASSUME NEW n \in Nat, NEW s, s \subseteq 1 .. n + 1, n + 1 \in s
  PROVE  Max(s) = n + 1
<1>1. \A y \in s : n + 1 >= y
  OBVIOUS
<1>2. Max(s) \in s /\ \A y \in s : Max(s) >= y
  BY <1>1, Zenon DEF Max
<1>3. PICK x \in s : x = Max(s) /\ \A y \in s : x >= y
  BY <1>2, Zenon
<1>4. x = n + 1
  BY <1>1, <1>3
<1> QED
  BY <1>3, <1>4, Zenon

\* g computes the walk of Coalesce over the sets of positions up to m.
Folds(g, list, m) ==
  g = [s \in SUBSET (1 .. m) |->
         IF s = {} THEN <<>> ELSE Absorb(g[s \ {Max(s)}], list[Max(s)])]

\* There is such a function.
LEMMA FoldExists ==
  ASSUME NEW list
  PROVE  \A m \in Nat : \E g : Folds(g, list, m)
<1> DEFINE S == {m \in Nat : \E g : Folds(g, list, m)}
<1>1. 0 \in S
  <2> DEFINE g == [s \in SUBSET (1 .. 0) |-> <<>>]
  <2>1. \A s \in SUBSET (1 .. 0) : s = {}
    OBVIOUS
  <2>2. Folds(g, list, 0)
    BY <2>1, Zenon DEF Folds
  <2> QED
    BY <2>2, Zenon
<1>2. ASSUME NEW m \in Nat, m \in S PROVE m + 1 \in S
  <2>1. PICK g : Folds(g, list, m)
    BY <1>2, Zenon
  <2> DEFINE n == m + 1
             h == [s \in SUBSET (1 .. n) |->
                     IF n \in s THEN Absorb(g[s \ {n}], list[n]) ELSE g[s]]
             Body(s) == IF s = {} THEN <<>> ELSE Absorb(h[s \ {Max(s)}], list[Max(s)])
  <2>2. ASSUME NEW s \in SUBSET (1 .. n), n \in s PROVE h[s] = Body(s)
    <3>1. Max(s) = n /\ s # {}
      BY <2>2, MaxTop, ZenonT(30)
    <3>2. s \ {n} \in SUBSET (1 .. n) /\ n \notin s \ {n}
      BY Zenon
    <3> QED
      BY <2>2, <3>1, <3>2, Zenon
  <2>3. ASSUME NEW s \in SUBSET (1 .. n), n \notin s PROVE h[s] = Body(s)
    <3>1. s \in SUBSET (1 .. m)
      BY <2>3
    <3>2. h[s] = g[s]
      BY <2>3, Zenon
    <3>3. g[s] = IF s = {} THEN <<>> ELSE Absorb(g[s \ {Max(s)}], list[Max(s)])
      BY <2>1, <3>1, Zenon DEF Folds
    <3>4. s \ {Max(s)} \in SUBSET (1 .. n) /\ n \notin s \ {Max(s)}
      BY <2>3, ZenonT(30)
    <3>5. h[s \ {Max(s)}] = g[s \ {Max(s)}]
      BY <3>4, Zenon
    <3> QED
      BY <3>2, <3>3, <3>5, Zenon
  <2>4. \A s \in SUBSET (1 .. n) : h[s] = Body(s)
    BY <2>2, <2>3, Zenon
  <2>5. h = [s \in SUBSET (1 .. n) |-> Body(s)]
    BY <2>4, Zenon
  <2>6. Folds(h, list, n)
    BY <2>5, Zenon DEF Folds
  <2>7. m + 1 \in Nat
    OBVIOUS
  <2> QED
    BY <2>6, <2>7, Zenon
<1> HIDE DEF S
<1>3. \A m \in Nat : m \in S
  BY <1>1, <1>2, Induction, Zenon
<1> QED
  BY <1>3, Zenon DEF S

\* Coalesce is a walk over the list, one node after the other.
LEMMA CoalesceWalks ==
  ASSUME NEW list, NEW n \in Nat, DOMAIN list = 1 .. n
  PROVE  \E w : /\ w[0] = <<>>
                /\ \A i \in 1 .. n : w[i] = Absorb(w[i - 1], list[i])
                /\ Coalesce(list) = w[n]
<1> DEFINE g == CHOOSE f : Folds(f, list, n)
           w == [i \in 0 .. n |-> g[1 .. i]]
<1>1. Folds(g, list, n)
  BY FoldExists, Zenon
<1>2. Coalesce(list) = g[1 .. n]
  BY Zenon DEF Coalesce, MapThenFoldSet, Folds
<1>3. \A s \in SUBSET (1 .. n) :
        g[s] = IF s = {} THEN <<>> ELSE Absorb(g[s \ {Max(s)}], list[Max(s)])
  BY <1>1, Zenon DEF Folds
<1> HIDE DEF g
<1>4. w[0] = <<>>
  <2>1. 1 .. 0 = {} /\ w[0] = g[1 .. 0]
    OBVIOUS
  <2> QED
    BY <1>3, <2>1, ZenonT(30)
<1>5. ASSUME NEW i \in 1 .. n PROVE w[i] = Absorb(w[i - 1], list[i])
  <2>1. w[i] = g[1 .. i] /\ w[i - 1] = g[1 .. (i - 1)]
    OBVIOUS
  <2>2. 1 .. i \in SUBSET (1 .. n) /\ i \in 1 .. i
    OBVIOUS
  <2>3. (1 .. i) \ {i} = 1 .. (i - 1)
    <3>1. \A x : x \in (1 .. i) \ {i} <=> x \in 1 .. (i - 1)
      OBVIOUS
    <3> QED
      BY <3>1, Zenon
  <2>4. Max(1 .. i) = i
    <3>1. i - 1 \in Nat /\ 1 .. i \subseteq 1 .. (i - 1) + 1 /\ (i - 1) + 1 = i
      OBVIOUS
    <3>2. (i - 1) + 1 \in 1 .. i
      OBVIOUS
    <3>3. Max(1 .. i) = (i - 1) + 1
      BY <3>1, <3>2, MaxTop, Zenon
    <3> QED
      BY <3>1, <3>3, Zenon
  <2> QED
    BY <1>3, <2>1, <2>2, <2>3, <2>4, Zenon
<1>6. w[n] = g[1 .. n]
  OBVIOUS
<1> QED
  BY <1>2, <1>4, <1>5, <1>6, Zenon

\* The walk over a sorted list with x inserted at its place merges x with the
\* nodes it touches and leaves the others (coalesce).
LEMMA Walk ==
  ASSUME NEW l, NEW x, NEW k, NEW da, NEW db, Placed(l, x, k, da, db)
  PROVE  Shape(Coalesce(LinkAt(l, k, x)), l, k - da, Joined(l, x, k, da, db),
               da + db - 1, Len(l) + 1 - da - db)
<1> DEFINE list == LinkAt(l, k, x)
           L == Len(l)
           y == [start |-> From(l, x, k, da), size |-> End(x) - From(l, x, k, da)]
           m == Joined(l, x, k, da, db)
<1>1. /\ l \in Seq(Block) /\ Sorted(l) /\ x \in Block /\ k \in 1 .. L + 1 /\ k \in Nat
      /\ L \in Nat /\ da \in {0, 1} /\ db \in {0, 1} /\ (db = 1 => k \in 1 .. L)
  BY PlacedFacts
<1>2. /\ list \in Seq(Block) /\ Len(list) = L + 1
      /\ \A i \in 1 .. k - 1 : list[i] = l[i]
      /\ list[k] = x
      /\ \A i \in k + 1 .. L + 1 : list[i] = l[i - 1]
  <2>1. l \in Seq(Block) /\ k \in 1 .. Len(l) + 1 /\ x \in Block
    BY <1>1, Zenon
  <2>2. /\ LinkAt(l, k, x) \in Seq(Block)
        /\ Len(LinkAt(l, k, x)) = Len(l) + 1
        /\ \A i \in 1 .. k - 1 : LinkAt(l, k, x)[i] = l[i]
        /\ LinkAt(l, k, x)[k] = x
        /\ \A i \in k + 1 .. Len(l) + 1 : LinkAt(l, k, x)[i] = l[i - 1]
    BY <2>1, InsertFacts, ZenonT(30)
  <2> QED
    BY <2>2, Zenon
<1> HIDE DEF list, L, y, m
<1>3. PICK w : /\ w[0] = <<>>
               /\ \A i \in 1 .. L + 1 : w[i] = Absorb(w[i - 1], list[i])
               /\ Coalesce(list) = w[L + 1]
  BY <1>2, CoalesceWalks, SMTT(30)
<1>4. \A i \in Nat : i <= k - 1 => Copy(w[i], l, i)
  <2> DEFINE S == {i \in Nat : i <= k - 1 => Copy(w[i], l, i)}
  <2>1. 0 \in S
    <3>1. <<>> \in Seq(Block) /\ Len(<<>>) = 0 /\ \A j \in 1 .. 0 : <<>>[j] = l[j]
      OBVIOUS
    <3>2. Copy(w[0], l, 0)
      BY <1>3, <3>1, Zenon DEF Copy
    <3> QED
      BY <3>2, Zenon
  <2>2. ASSUME NEW i \in Nat, i \in S PROVE i + 1 \in S
    <3>0. i + 1 \in Nat
      OBVIOUS
    <3>1. SUFFICES ASSUME i + 1 <= k - 1 PROVE Copy(w[i + 1], l, i + 1)
      BY <3>0, Zenon
    <3>2. /\ i + 1 \in 1 .. L /\ i + 1 \in 1 .. L + 1 /\ i + 1 \in 1 .. k - 1 /\ i + 1 - 1 = i
      BY <1>1, <3>1
    <3>3. Copy(w[i], l, i)
      BY <1>1, <2>2, <3>1, SMTT(30)
    <3>4. w[i + 1] = Absorb(w[i], l[i + 1])
      BY <1>2, <1>3, <3>2
    <3>5. Copy(w[i], l, i + 1 - 1) /\ i + 1 \in 1 .. Len(l) /\ Sorted(l)
      BY <1>1, <3>2, <3>3, ZenonT(30) DEF L
    <3>6. Copy(Absorb(w[i], l[i + 1]), l, i + 1)
      BY <3>5, CopyStep
    <3> QED
      BY <3>4, <3>6, Zenon
  <2> HIDE DEF S
  <2>3. \A i \in Nat : i \in S
    BY <2>1, <2>2, Induction, Zenon
  <2> QED
    BY <2>3, Zenon DEF S
<1>5. Shape(w[k], l, k - da, y, 0, k - da)
  <2>1. Copy(w[k - 1], l, k - 1)
    BY <1>1, <1>4, SMTT(30)
  <2>2. k \in 1 .. L + 1
    BY <1>1, Zenon
  <2>3. w[k] = Absorb(w[k - 1], x)
    BY <1>2, <1>3, <2>2, ZenonT(30)
  <2> QED
    BY <2>1, <2>3, MeetBefore, ZenonT(30) DEF y
<1>6. CASE k = L + 1
  <2>1. db = 0 /\ m = y
    <3>1. db = 0
      BY <1>1, <1>6
    <3> QED
      BY <3>1 DEF m, y, Joined, UpTo
  <2>2. k - da = L + 1 - da - db
    BY <1>1, <1>6, <2>1
  <2>3. Shape(w[k], l, k - da, m, da + db - 1, k - da)
    <3>1. \A j \in k - da + 1 .. k - da : w[k][j] = l[j + (da + db - 1)]
      BY <1>1
    <3> QED
      BY <1>5, <2>1, <3>1, ZenonT(30) DEF Shape
  <2> QED
    BY <1>3, <1>6, <2>2, <2>3, Zenon DEF list, L, m
<1>8. ASSUME NEW c \in Nat, c >= k, c <= L PROVE w[c + 1] = Absorb(w[c], l[c])
  <2> DEFINE e == c + 1
  <2>1. e \in 1 .. L + 1 /\ e \in k + 1 .. L + 1 /\ e - 1 = c
    BY <1>1, <1>8
  <2> HIDE DEF e
  <2>2. w[e] = Absorb(w[e - 1], list[e])
    BY <1>3, <2>1, Zenon
  <2>3. list[e] = l[e - 1]
    BY <1>2, <2>1, ZenonT(30)
  <2> QED
    BY <2>1, <2>2, <2>3, ZenonT(30) DEF e
<1>7. CASE k # L + 1
  <2>0. k \in 1 .. L /\ k + 1 \in k + 1 .. L + 1 /\ k + 1 \in 1 .. L + 1 /\ k + 1 - 1 = k /\ k <= Len(l)
    BY <1>1, <1>7 DEF L
  <2>1. Shape(w[k + 1], l, k - da, m, da + db - 1, k + 1 - da - db)
    <3>1. w[k + 1] = Absorb(w[k], l[k])
      BY <1>1, <1>8, <2>0, SMTT(30) DEF L
    <3> QED
      BY <1>5, <2>0, <3>1, MeetAfter, ZenonT(30) DEF y, m
  <2> DEFINE T(i) == k + 1 + i <= L + 1 =>
                       Shape(w[k + 1 + i], l, k - da, m, da + db - 1, k + 1 + i - da - db)
             S == {i \in Nat : T(i)}
  <2>2. 0 \in S
    <3>1. k + 1 + 0 = k + 1 /\ 0 \in Nat /\ k + 1 + 0 - da - db = k + 1 - da - db
      BY <1>1
    <3> QED
      BY <2>1, <3>1, Zenon
  <2>3. ASSUME NEW i \in Nat, i \in S PROVE i + 1 \in S
    <3> DEFINE c == k + 1 + i
    <3>0. /\ i + 1 \in Nat /\ k + 1 + (i + 1) = c + 1 /\ c \in Nat /\ c >= k + 1
          /\ k + 1 + (i + 1) - da - db = c + 1 - da - db
      BY <1>1
    <3>1. SUFFICES ASSUME c + 1 <= L + 1
                   PROVE  Shape(w[c + 1], l, k - da, m, da + db - 1, c + 1 - da - db)
      BY <3>0, Zenon
    <3>2. Shape(w[c], l, k - da, m, da + db - 1, c - da - db)
      BY <1>1, <2>3, <3>0, <3>1, SMTT(30)
    <3> HIDE DEF c
    <3>3. /\ c + 1 \in 1 .. L + 1 /\ c + 1 \in k + 1 .. L + 1 /\ c + 1 - 1 = c
          /\ c <= Len(l)
      BY <1>1, <3>0, <3>1, SMTT(30) DEF L
    <3>4. w[c + 1] = Absorb(w[c], l[c])
      BY <1>1, <1>8, <3>0, <3>3, SMTT(30) DEF L
    <3> QED
      BY <3>0, <3>2, <3>3, <3>4, WalkOn, ZenonT(30) DEF m
  <2> HIDE DEF S
  <2>4. \A i \in Nat : i \in S
    BY <2>2, <2>3, Induction, Zenon
  <2>5. L - k \in Nat /\ k + 1 + (L - k) = L + 1
    BY <1>1, <2>0, SMTT(30)
  <2>6. T(L - k)
    BY <2>4, <2>5, Zenon DEF S
  <2>7. Shape(w[L + 1], l, k - da, m, da + db - 1, L + 1 - da - db)
    BY <1>1, <2>5, <2>6
  <2> QED
    BY <1>3, <2>7, Zenon DEF list, L, m
<1> QED
  BY <1>6, <1>7, Zenon

\* Min of a set of naturals is its least element.
LEMMA MinLeast ==
  ASSUME NEW S, S \subseteq Nat, S # {}
  PROVE  Min(S) \in S /\ \A y \in S : Min(S) <= y
<1>1. \E z \in S : \A y \in S : z <= y
  BY Least, ZenonT(30)
<1> QED
  BY <1>1, Zenon DEF Min

\* The node is linked in before the first one with a larger address
\* (add_free_region walks while that is not the case).
LEMMA Place ==
  ASSUME NEW l, Sorted(l), NEW x \in Block, x.size >= NodeSize,
         \A i \in 1 .. Len(l) : End(l[i]) <= x.start \/ End(x) <= l[i].start
  PROVE  \E k, da, db : /\ Placed(l, x, k, da, db)
                        /\ AddFreeRegion(l, x.start, x.size) = Coalesce(LinkAt(l, k, x))
<1> DEFINE I == {i \in 1 .. Len(l) : x.start < l[i].start}
           k0 == FirstSuch(I)
           k == IF k0 = 0 THEN Len(l) + 1 ELSE k0
           da == IF k > 1 /\ End(l[k - 1]) = x.start THEN 1 ELSE 0
           db == IF k <= Len(l) /\ End(x) = l[k].start THEN 1 ELSE 0
<1>1. /\ l \in Seq(Block) /\ Len(l) \in Nat
      /\ \A i \in 1 .. Len(l) : l[i] \in Block /\ l[i].size > 0
      /\ \A i, j \in 1 .. Len(l) : i < j => End(l[i]) < l[j].start
  <2>1. l \in Seq(Block)
    BY Zenon DEF Sorted
  <2> QED
    BY <2>1, ListFacts, Zenon DEF Sorted
<1>2. x.start \in Nat /\ x.size \in Nat /\ End(x) = x.start + x.size /\ x = [start |-> x.start, size |-> x.size]
  BY BlockFacts
<1>3. AddFreeRegion(l, x.start, x.size) = Coalesce(LinkAt(l, k, x))
  <2>1. ~ (x.size < NodeSize)
    BY <1>2, HeapAssumption, SMTT(30)
  <2> QED
    BY <1>2, <2>1, ZenonT(30) DEF AddFreeRegion
<1>4. \/ I = {} /\ k0 = 0
      \/ k0 \in I /\ \A i \in I : k0 <= i
  <2>1. CASE I = {}
    BY <2>1, Zenon DEF FirstSuch
  <2>2. CASE I # {}
    <3>1. k0 = Min(I)
      BY <2>2, Zenon DEF FirstSuch
    <3>2. I \subseteq Nat
      OBVIOUS
    <3> HIDE DEF I, k0
    <3> QED
      BY <2>2, <3>1, <3>2, MinLeast, ZenonT(30)
  <2> QED
    BY <2>1, <2>2, ZenonT(30)
<1> HIDE DEF k0
<1>5. /\ k \in 1 .. Len(l) + 1
      /\ k <= Len(l) => x.start < l[k].start
      /\ \A i \in 1 .. k - 1 : i \in 1 .. Len(l) /\ ~ (x.start < l[i].start)
  BY <1>1, <1>4, SMTT(30)
<1> HIDE DEF k, I
<1>6. ASSUME NEW i \in 1 .. k - 1 PROVE End(l[i]) <= x.start
  <2>1. i \in 1 .. Len(l) /\ l[i] \in Block /\ ~ (x.start < l[i].start) /\ l[i].size > 0
    BY <1>1, <1>5, ZenonT(30)
  <2>2. l[i].start \in Nat /\ l[i].size \in Nat /\ End(l[i]) = l[i].start + l[i].size
    BY <2>1, BlockFacts, Zenon
  <2>3. x.size > 0
    BY <1>2, HeapAssumption, SMTT(30)
  <2> QED
    BY <1>2, <2>1, <2>2, <2>3, SMTT(30)
<1>7. ASSUME NEW i \in k .. Len(l) PROVE End(x) <= l[i].start
  <2>0. k \in 1 .. Len(l) /\ i \in 1 .. Len(l)
    BY <1>1, <1>5, SMTT(30)
  <2>1. l[i] \in Block /\ l[k] \in Block /\ x.start < l[k].start /\ (k < i => End(l[k]) < l[i].start)
    BY <1>1, <1>5, <2>0
  <2>2. /\ l[i].start \in Nat /\ l[i].size \in Nat /\ End(l[i]) = l[i].start + l[i].size
        /\ l[k].start \in Nat /\ l[k].size \in Nat /\ End(l[k]) = l[k].start + l[k].size
    BY <2>1, BlockFacts, ZenonT(30)
  <2>3. x.start < l[i].start
    <3>1. CASE i = k
      BY <2>1, <3>1, Zenon
    <3>2. CASE k < i
      BY <1>2, <2>1, <2>2, <3>2, SMTT(30)
    <3> QED
      BY <1>1, <1>5, <3>1, <3>2, SMTT(30)
  <2> QED
    BY <1>2, <2>0, <2>2, <2>3, SMTT(30)
<1>8. /\ da \in {0, 1} /\ (da = 1 <=> k > 1 /\ End(l[k - 1]) = x.start)
      /\ db \in {0, 1} /\ (db = 1 <=> k <= Len(l) /\ End(x) = l[k].start)
  OBVIOUS
<1> HIDE DEF da, db
<1>9. Placed(l, x, k, da, db)
  BY <1>5, <1>6, <1>7, <1>8, ZenonT(30) DEF Placed
<1> QED
  BY <1>3, <1>9, Zenon

\* Giving a region back to the list (add_free_region): it joins the free
\* blocks it touches, and every other block stays.
LEMMA Added ==
  ASSUME NEW l, Sorted(l), NEW x \in Block, x.size >= NodeSize,
         \A b \in Elems(l) : End(b) <= x.start \/ End(x) <= b.start
  PROVE  /\ Sorted(AddFreeRegion(l, x.start, x.size))
         /\ \E m : /\ Merges(l, x, m)
                   /\ Elems(AddFreeRegion(l, x.start, x.size)) =
                        (Elems(l) \ Touching(l, x)) \union {m}
<1>0. l \in Seq(Block) /\ DOMAIN l = 1 .. Len(l)
  BY DEF Sorted
<1>1. \A i \in 1 .. Len(l) : End(l[i]) <= x.start \/ End(x) <= l[i].start
  BY <1>0, Zenon DEF Elems
<1>2. PICK k, da, db : /\ Placed(l, x, k, da, db)
                       /\ AddFreeRegion(l, x.start, x.size) = Coalesce(LinkAt(l, k, x))
  BY <1>1, Place, Zenon
<1> DEFINE r == AddFreeRegion(l, x.start, x.size)
           m == Joined(l, x, k, da, db)
<1>3. x.size > 0
  BY HeapAssumption, BlockFacts
<1>4. Shape(r, l, k - da, m, da + db - 1, Len(l) + 1 - da - db)
  BY <1>2, Walk, Zenon
<1> HIDE DEF r
<1>5. Sorted(r)
  BY <1>2, <1>3, <1>4, ShapeSorted, Zenon
<1>6. Merges(l, x, m)
  BY <1>2, <1>3, JoinedMerges, ZenonT(30)
<1>7. m = Joined(l, x, k, da, db)
  BY Zenon
<1> HIDE DEF m
<1>8. Elems(r) = (Elems(l) \ Touching(l, x)) \union {m}
  BY <1>2, <1>3, <1>4, <1>7, ShapeElems, SMTT(30)
<1> QED
  BY <1>5, <1>6, <1>8, ZenonT(30) DEF r

\* A remainder that touches no free block is entered as it is, and none is
\* entered when nothing remains.
LEMMA AddedApart ==
  ASSUME NEW l, Sorted(l), NEW s \in Nat, NEW n \in Nat, n = 0 \/ n >= NodeSize,
         \A b \in Elems(l) : End(b) < s \/ s + n < b.start
  PROVE  /\ Sorted(AddFreeRegion(l, s, n))
         /\ Elems(AddFreeRegion(l, s, n)) =
              Elems(l) \union (IF n = 0 THEN {} ELSE {[start |-> s, size |-> n]})
<1>1. CASE n = 0
  <2>1. n < NodeSize
    BY <1>1, HeapAssumption
  <2>2. AddFreeRegion(l, s, n) = l
    BY <2>1, ZenonT(30) DEF AddFreeRegion
  <2> QED
    BY <1>1, <2>2, Zenon
<1>2. CASE n # 0
  <2> DEFINE x == [start |-> s, size |-> n]
             r == AddFreeRegion(l, s, n)
  <2>1. x \in Block /\ x.start = s /\ x.size = n /\ End(x) = s + n /\ n >= NodeSize
    BY <1>2, Zenon DEF Block, End
  <2> HIDE DEF x
  <2>2. \A b \in Elems(l) : b \in Block
    <3>1. l \in Seq(Block)
      BY Zenon DEF Sorted
    <3> QED
      BY <3>1, ListFacts, Zenon DEF Elems
  <2>3. ASSUME NEW b \in Elems(l)
        PROVE  /\ End(b) <= x.start \/ End(x) <= b.start
               /\ End(b) # x.start /\ b.start # End(x)
    <3>1. b.start \in Nat /\ b.size \in Nat /\ End(b) = b.start + b.size
      BY <2>2, BlockFacts, Zenon
    <3>2. End(b) < s \/ s + n < b.start
      BY Zenon
    <3> QED
      BY <1>2, <2>1, <3>1, <3>2
  <2>4. \A b \in Elems(l) : End(b) <= x.start \/ End(x) <= b.start
    BY <2>3, ZenonT(30)
  <2>5. /\ Sorted(AddFreeRegion(l, x.start, x.size))
        /\ \E m : /\ Merges(l, x, m)
                  /\ Elems(AddFreeRegion(l, x.start, x.size)) =
                       (Elems(l) \ Touching(l, x)) \union {m}
    BY <2>1, <2>4, Added, Zenon
  <2> HIDE DEF r
  <2>6. r = AddFreeRegion(l, x.start, x.size)
    BY <2>1, Zenon DEF r
  <2>7. PICK m : Merges(l, x, m) /\ Elems(r) = (Elems(l) \ Touching(l, x)) \union {m}
    BY <2>5, <2>6, Zenon
  <2>8. Touching(l, x) = {}
    BY <2>3, Zenon DEF Touching
  <2>9. m \in Block /\ m.start = x.start /\ End(m) = End(x)
    BY <2>3, <2>7, ZenonT(30) DEF Merges
  <2>10. m = x
    <3>1. /\ m = [start |-> m.start, size |-> m.size] /\ End(m) = m.start + m.size
          /\ m.start \in Nat /\ m.size \in Nat
      BY <2>9, BlockFacts, ZenonT(30)
    <3>2. m.size = n
      BY <2>1, <2>9, <3>1, SMTT(30)
    <3> QED
      BY <2>1, <2>9, <3>1, <3>2, ZenonT(30) DEF x
  <2>11. Elems(r) = Elems(l) \union {x}
    BY <2>7, <2>8, <2>10, ZenonT(30)
  <2>12. Sorted(r)
    BY <2>5, <2>6, Zenon
  <2> QED
    BY <1>2, <2>11, <2>12, Zenon DEF r, x
<1> QED
  BY <1>1, <1>2, Zenon

\* Unlinking a node leaves the others (the list is in order, so none is twice
\* in it).
LEMMA Unlinked ==
  ASSUME NEW l, Sorted(l), NEW k \in 1 .. Len(l)
  PROVE  Sorted(Unlink(l, k)) /\ Elems(Unlink(l, k)) = Elems(l) \ {l[k]}
<1> DEFINE r == Unlink(l, k)
           n == Len(l) - 1
<1>1. /\ l \in Seq(Block) /\ Len(l) \in Nat /\ DOMAIN l = 1 .. Len(l)
      /\ \A i \in 1 .. Len(l) : l[i] \in Block /\ l[i].size > 0
  <2>1. l \in Seq(Block)
    BY DEF Sorted
  <2> QED
    BY <2>1, ListFacts, Zenon DEF Sorted
<1>2. \A i, j \in 1 .. Len(l) : i < j => End(l[i]) < l[j].start
  BY ZenonT(30) DEF Sorted
<1>3. /\ r \in Seq(Block) /\ Len(r) = n
      /\ \A i \in 1 .. k - 1 : r[i] = l[i]
      /\ \A i \in k .. n : r[i] = l[i + 1]
  BY <1>1, UnlinkFacts, ZenonT(30)
<1> HIDE DEF r
<1>4. DOMAIN r = 1 .. n /\ n \in Nat
  BY <1>1, <1>3, SMTT(30)
<1> DEFINE u(i) == IF i < k THEN i ELSE i + 1
<1>5. ASSUME NEW i \in 1 .. n PROVE u(i) \in 1 .. Len(l) /\ u(i) # k /\ r[i] = l[u(i)]
  <2>1. CASE i < k
    BY <1>1, <1>3, <2>1, SMTT(30)
  <2>2. CASE ~ (i < k)
    <3>1. i \in k .. n /\ u(i) = i + 1
      BY <1>1, <2>2
    <3>2. r[i] = l[i + 1]
      BY <1>3, <3>1, Zenon
    <3> QED
      BY <1>1, <3>1, <3>2, SMTT(30)
  <2> QED
    BY <2>1, <2>2, Zenon
<1>6. ASSUME NEW i \in 1 .. Len(l), i # k PROVE \E j \in 1 .. n : u(j) = i
  <2>1. CASE i < k
    BY <1>1, <2>1
  <2>2. CASE i > k
    <3>1. i - 1 \in 1 .. n /\ u(i - 1) = i
      BY <1>1, <2>2
    <3> QED
      BY <3>1, Zenon
  <2> QED
    BY <1>6, <2>1, <2>2, SMTT(30)
<1>7. ASSUME NEW i \in 1 .. n, NEW j \in 1 .. n, i < j PROVE u(i) < u(j)
  BY <1>1, <1>7
<1> HIDE DEF u
<1>8. ASSUME NEW i \in 1 .. Len(l), i # k PROVE l[i] # l[k]
  <2>1. ASSUME NEW a \in 1 .. Len(l), NEW b \in 1 .. Len(l), a < b, l[a] = l[b] PROVE FALSE
    <3>1. End(l[a]) < l[a].start /\ l[a] \in Block
      BY <1>1, <1>2, <2>1, Zenon
    <3>2. l[a].start \in Nat /\ l[a].size \in Nat /\ End(l[a]) = l[a].start + l[a].size
      BY <3>1, BlockFacts, ZenonT(30)
    <3> QED
      BY <3>1, <3>2, SMTT(30)
  <2>2. i < k \/ k < i
    BY <1>1, <1>8
  <2> QED
    BY <2>1, <2>2, Zenon
<1>9. Elems(r) = Elems(l) \ {l[k]}
  <2>1. ASSUME NEW b \in Elems(r) PROVE b \in Elems(l) /\ b # l[k]
    <3>1. PICK i \in 1 .. n : b = r[i]
      BY <1>4, Zenon DEF Elems
    <3>2. u(i) \in 1 .. Len(l) /\ u(i) # k /\ b = l[u(i)]
      BY <1>5, <3>1, Zenon
    <3> QED
      BY <1>1, <1>8, <3>2, Zenon DEF Elems
  <2>2. ASSUME NEW b \in Elems(l), b # l[k] PROVE b \in Elems(r)
    <3>1. PICK i \in 1 .. Len(l) : b = l[i]
      BY <1>1, Zenon DEF Elems
    <3>2. PICK j \in 1 .. n : u(j) = i
      BY <1>6, <2>2, <3>1, ZenonT(30)
    <3>3. b = r[j]
      BY <1>5, <3>1, <3>2, Zenon
    <3> QED
      BY <1>4, <3>3, Zenon DEF Elems
  <2> QED
    BY <2>1, <2>2, Zenon
<1>10. \A i \in 1 .. n : r[i].size > 0
  BY <1>1, <1>5, Zenon
<1>11. ASSUME NEW i \in 1 .. n, NEW j \in 1 .. n, i < j PROVE End(r[i]) < r[j].start
  BY <1>2, <1>5, <1>7, <1>11, ZenonT(30)
<1>12. Sorted(r)
  BY <1>3, <1>10, <1>11, Zenon DEF Sorted
<1> QED
  BY <1>9, <1>12, ZenonT(30) DEF r

-----------------------------------------------------------------------------
\* The list and the set of its blocks speak of the same things.
LEMMA SameBlocks ==
  /\ Blocks!Block = Block /\ FreeBlocks = Elems(free)
  /\ \A b : Blocks!End(b) = End(b)
  /\ \A s, n : Blocks!MkBlock(s, n) = [start |-> s, size |-> n]
  /\ \A s, n : Blocks!Piece(s, n) = IF n = 0 THEN {} ELSE {[start |-> s, size |-> n]}
BY ZenonT(30)
DEF Blocks!Block, Block, FreeBlocks, Elems, Blocks!End, End, Blocks!MkBlock,
    Blocks!Piece

\* The bytes of a live record.
Span(b) == [start |-> b.start, size |-> Size(b.layout)]

\* The inductive invariant: the list is sorted with gaps between its nodes, its
\* blocks and the live ones partition the heap, and every block starts at an
\* address a node may be written to.
HeapInv ==
  /\ Sorted(free)
  /\ \A f \in FreeBlocks : f.start % NodeAlign = 0
  /\ IsFiniteSet(live) /\ live \subseteq [start : Nat, layout : Layouts]
  /\ \A b \in live : b.start % NodeAlign = 0
  /\ \A a, b \in live : a.start = b.start => a = b
  /\ Blocks!IInv

\* What a live record says of its block.
LEMMA SpanFacts ==
  ASSUME HeapInv, NEW b \in live
  PROVE  /\ Span(b) \in Block /\ Span(b) \in LiveBlocks
         /\ Span(b).start = b.start /\ Span(b).size = Size(b.layout)
         /\ b.start \in Nat /\ b.layout \in Layouts /\ Size(b.layout) \in Nat
         /\ Size(b.layout) >= NodeSize /\ End(Span(b)) = b.start + Size(b.layout)
<1>1. b.start \in Nat /\ b.layout \in Layouts
  BY Zenon DEF HeapInv
<1>2. Size(b.layout) \in Nat /\ Size(b.layout) >= NodeSize
  BY <1>1, LayoutFacts
<1>3. Span(b) \in LiveBlocks
  BY Zenon DEF LiveBlocks, Span
<1> QED
  BY <1>1, <1>2, <1>3, ZenonT(30) DEF Span, Block, End

\* The heap starts as one node.
LEMMA HeapStarts == Init => Blocks!Init /\ HeapInv
<1> SUFFICES ASSUME Init PROVE Blocks!Init /\ HeapInv
  BY Zenon
<1>1. Sorted(<<>>) /\ Elems(<<>>) = {}
  BY DEF Sorted, Elems
<1>2. 0 \in Nat /\ HeapSize \in Nat /\ HeapSize >= NodeSize /\ HeapSize # 0
  BY HeapAssumption
<1>3. \A b \in Elems(<<>>) : End(b) < 0 \/ 0 + HeapSize < b.start
  BY <1>1
<1>4. Sorted(free) /\ Elems(free) = {[start |-> 0, size |-> HeapSize]}
  <2>1. /\ Sorted(AddFreeRegion(<<>>, 0, HeapSize))
        /\ Elems(AddFreeRegion(<<>>, 0, HeapSize)) =
             Elems(<<>>) \union (IF HeapSize = 0 THEN {} ELSE {[start |-> 0, size |-> HeapSize]})
    BY <1>1, <1>2, <1>3, AddedApart, SMTT(30)
  <2> QED
    BY <1>1, <1>2, <2>1, ZenonT(30) DEF Init
<1>5. live = {} /\ LiveBlocks = {} /\ IsFiniteSet(live)
  BY FS_EmptySet, Zenon DEF Init, LiveBlocks
<1>6. Blocks!Init
  BY <1>4, <1>5, SameBlocks, ZenonT(30) DEF Blocks!Init
<1>7. 0 % NodeAlign = 0
  BY ListAssumption
<1>8. \A f \in FreeBlocks : f.start % NodeAlign = 0
  BY <1>4, <1>7, SameBlocks
<1>9. Blocks!IInv
  BY <1>6, BlocksInit, ZenonT(30)
<1> QED
  BY <1>4, <1>5, <1>6, <1>8, <1>9, ZenonT(30) DEF HeapInv

\* find_region returns a node that fits.
LEMMA FoundFits ==
  ASSUME NEW size, NEW align, Sorted(free), FindRegion(size, align) # 0
  PROVE  /\ FindRegion(size, align) \in 1 .. Len(free)
         /\ Fits(free[FindRegion(size, align)], size, align)
<1> DEFINE I == {i \in 1 .. Len(free) : Fits(free[i], size, align)}
<1>0. Len(free) \in Nat
  BY DEF Sorted
<1>1. I # {} /\ FindRegion(size, align) = Min(I)
  BY Zenon DEF FindRegion, FirstSuch
<1>2. I \subseteq Nat
  BY <1>0
<1>3. Min(I) \in I
  BY <1>1, <1>2, MinLeast, ZenonT(30)
<1> QED
  BY <1>1, <1>3, ZenonT(30)

\* alloc cuts the block out of a free one and enters what remains on either
\* side; the blocks are those of an allocation in HeapBlocks.
LEMMA AllocStep ==
  ASSUME HeapInv, NEW layout \in Layouts, Alloc(layout)
  PROVE  HeapInv' /\ \E size \in Blocks!Sizes : Blocks!Alloc(size)
<1> DEFINE size == Size(layout)
           align == Align(layout)
           k == FindRegion(size, align)
           region == free[k]
           at == AlignUp(region.start, align)
           n == End(region) - (at + size)
           p == at - region.start
           rest == Unlink(free, k)
           mid == AddFreeRegion(rest, at + size, n)
<1>1. /\ k # 0
      /\ free' = AddFreeRegion(mid, region.start, p)
      /\ live' = live \union {[start |-> at, layout |-> layout]}
  BY Zenon DEF Alloc
<1>2. Sorted(free) /\ Blocks!IInv
  BY DEF HeapInv
<1>3. k \in 1 .. Len(free) /\ Fits(region, size, align)
  BY <1>1, <1>2, FoundFits, Zenon
<1>4. /\ at + size <= End(region)
      /\ ~ (p \in 1 .. NodeSize - 1)
      /\ ~ (n \in 1 .. NodeSize - 1)
  BY <1>3, Zenon DEF Fits
<1>5. /\ align \in Nat \ {0} /\ align % NodeAlign = 0
      /\ size \in Nat /\ size >= NodeSize /\ size % NodeAlign = 0
  BY LayoutFacts, ZenonT(30)
<1> HIDE DEF size, align, k
<1>6. region \in Block /\ region \in Elems(free)
  <2>1. free \in Seq(Block)
    BY <1>2 DEF Sorted
  <2> QED
    BY <1>3, <2>1, ListFacts, ZenonT(30) DEF Elems
<1> HIDE DEF region
<1>7. region.start \in Nat /\ region.size \in Nat /\ End(region) = region.start + region.size
  BY <1>6, BlockFacts, Zenon
<1>8. at \in Nat /\ at >= region.start /\ \E q \in Nat : at = q * align
  BY <1>5, <1>7, UpFacts, ZenonT(30)
<1> HIDE DEF at
<1>9. NodeSize \in Nat \ {0} /\ NodeAlign \in Nat \ {0}
  BY HeapAssumption, ListAssumption, Zenon
<1>10. /\ n \in Nat /\ p \in Nat /\ (n = 0 \/ n >= NodeSize) /\ (p = 0 \/ p >= NodeSize)
       /\ at + size \in Nat /\ at + size + n = End(region) /\ region.start + p = at
       /\ size > 0
  BY <1>4, <1>5, <1>7, <1>8, <1>9, SMTT(30)
<1>11. Sorted(rest) /\ Elems(rest) = Elems(free) \ {region}
  BY <1>2, <1>3, Unlinked, ZenonT(30) DEF region
<1> HIDE DEF rest, n, p
<1>12. \A b \in Elems(free) : b \in Block /\ (b # region => End(b) < region.start \/ End(region) < b.start)
  <2>1. FreeBlocks \subseteq Block /\ Blocks!Merged
    BY <1>2, SameBlocks, ZenonT(30) DEF Blocks!IInv, Blocks!TypeOK
  <2>2. \A a, b \in FreeBlocks : a # b => Blocks!End(a) < b.start \/ Blocks!End(b) < a.start
    BY <2>1, ZenonT(30) DEF Blocks!Merged
  <2> QED
    BY <1>6, <2>1, <2>2, SameBlocks, ZenonT(30)
<1>13. /\ Sorted(mid)
       /\ Elems(mid) = Elems(rest) \union (IF n = 0 THEN {} ELSE {[start |-> at + size, size |-> n]})
  <2>1. ASSUME NEW b \in Elems(rest) PROVE End(b) < at + size \/ at + size + n < b.start
    <3>1. b \in Block /\ (End(b) < region.start \/ End(region) < b.start)
      BY <1>11, <1>12, Zenon
    <3>2. b.start \in Nat /\ End(b) \in Nat
      BY <3>1, BlockFacts, Zenon
    <3> QED
      BY <1>5, <1>7, <1>8, <1>10, <3>1, <3>2, SMTT(30)
  <2> QED
    BY <1>10, <1>11, <2>1, AddedApart, SMTT(30)
<1> HIDE DEF mid
<1>14. /\ Sorted(free')
       /\ Elems(free') = Elems(mid) \union (IF p = 0 THEN {} ELSE {[start |-> region.start, size |-> p]})
  <2>1. ASSUME NEW b \in Elems(mid) PROVE End(b) < region.start \/ region.start + p < b.start
    <3>1. CASE b \in Elems(rest)
      <4>1. b \in Block /\ (End(b) < region.start \/ End(region) < b.start)
        BY <1>11, <1>12, <3>1, ZenonT(30)
      <4>2. b.start \in Nat /\ End(b) \in Nat
        BY <4>1, BlockFacts, Zenon
      <4> QED
        BY <1>4, <1>5, <1>7, <1>8, <1>10, <4>1, <4>2, SMTT(30)
    <3>2. CASE b.start = at + size
      BY <1>5, <1>7, <1>8, <1>10, <3>2, SMTT(30)
    <3> QED
      BY <1>13, <3>1, <3>2, SMTT(30)
  <2>2. /\ Sorted(AddFreeRegion(mid, region.start, p))
        /\ Elems(AddFreeRegion(mid, region.start, p)) =
             Elems(mid) \union (IF p = 0 THEN {} ELSE {[start |-> region.start, size |-> p]})
    BY <1>7, <1>10, <1>13, <2>1, AddedApart, SMTT(30)
  <2> QED
    BY <1>1, <2>2, ZenonT(30)
<1>15. FreeBlocks' = Elems(free')
  BY SameBlocks, Zenon DEF FreeBlocks, Elems
<1>16. FreeBlocks' = (FreeBlocks \ {region}) \union Blocks!Piece(at + size, n)
                                             \union Blocks!Piece(region.start, p)
  BY <1>11, <1>13, <1>14, <1>15, SameBlocks, ZenonT(30)
<1>17. LiveBlocks' = LiveBlocks \union {Blocks!MkBlock(at, size)}
  <2> DEFINE new == [start |-> at, layout |-> layout]
  <2>1. Span(new) = Blocks!MkBlock(at, size)
    BY SameBlocks, Zenon DEF Span, size
  <2>2. LiveBlocks = {Span(a) : a \in live} /\ LiveBlocks' = {Span(a) : a \in live'}
    BY Zenon DEF LiveBlocks, Span
  <2> HIDE DEF new
  <2>3. live' = live \union {new}
    BY <1>1, Zenon DEF new
  <2> QED
    BY <2>1, <2>2, <2>3, Zenon
<1>18. /\ region \in FreeBlocks /\ at \in region.start .. Blocks!End(region)
       /\ at + size <= Blocks!End(region)
       /\ Blocks!RoomForNode(at - region.start)
       /\ Blocks!RoomForNode(Blocks!End(region) - (at + size))
       /\ n = Blocks!End(region) - (at + size) /\ p = at - region.start
  <2>1. Blocks!End(region) = End(region) /\ region \in FreeBlocks
    BY <1>6, SameBlocks, ZenonT(30)
  <2>2. n = Blocks!End(region) - (at + size) /\ p = at - region.start
    BY <2>1, Zenon DEF n, p
  <2>3. at \in region.start .. End(region)
    BY <1>4, <1>5, <1>7, <1>8, SMTT(30)
  <2>4. Blocks!RoomForNode(n) /\ Blocks!RoomForNode(p)
    BY <1>10, ZenonT(30) DEF Blocks!RoomForNode
  <2> QED
    BY <1>4, <2>1, <2>2, <2>3, <2>4, ZenonT(30)
<1>19. size \in Blocks!Sizes
  <2>1. region \in FreeBlocks \union LiveBlocks
    BY <1>18
  <2>2. Blocks!End(region) <= HeapSize
    BY <1>2, <2>1, Zenon DEF Blocks!IInv, Blocks!InHeap
  <2>3. End(region) <= HeapSize
    BY <2>2, SameBlocks, Zenon
  <2> QED
    BY <1>4, <1>5, <1>7, <1>8, <2>3, HeapAssumption, SMTT(30) DEF Blocks!Sizes
<1>20. Blocks!Alloc(size)
  BY <1>16, <1>17, <1>18, ZenonT(30) DEF Blocks!Alloc
<1>21. Blocks!IInv'
  BY <1>2, <1>19, <1>20, BlocksAlloc, SMTT(30)
<1>22. at % NodeAlign = 0 /\ (at + size) % NodeAlign = 0
  <2>1. PICK q \in Nat : at = q * align
    BY <1>8
  <2>2. at % NodeAlign = 0
    BY <1>5, <1>8, <1>9, <2>1, TransMultiple, ZenonT(30)
  <2> QED
    BY <1>5, <1>8, <1>9, <2>2, SumMultiple, ZenonT(30)
<1>23. \A f \in FreeBlocks' : f.start % NodeAlign = 0
  <2>1. \A f \in Elems(free) : f.start % NodeAlign = 0
    BY SameBlocks, ZenonT(30) DEF HeapInv
  <2>2. \A f \in Elems(mid) : f.start % NodeAlign = 0
    BY <1>11, <1>13, <1>22, <2>1, SMTT(30)
  <2> QED
    BY <1>6, <1>14, <1>15, <2>1, <2>2
<1>24. live' \subseteq [start : Nat, layout : Layouts] /\ \A b \in live' : b.start % NodeAlign = 0
  BY <1>1, <1>8, <1>22, SMTT(30) DEF HeapInv
<1>25. ASSUME NEW b \in live PROVE b.start # at
  <2>1. Span(b) \in LiveBlocks /\ Span(b).start = b.start /\ b.start \in Nat
        /\ Size(b.layout) \in Nat /\ Size(b.layout) >= NodeSize
        /\ End(Span(b)) = b.start + Size(b.layout)
    BY SpanFacts, Zenon
  <2>2. Blocks!Apart(Span(b), region)
    BY <1>2, <1>18, <2>1, ZenonT(30) DEF Blocks!IInv, Blocks!Disjoint
  <2>3. End(Span(b)) <= region.start \/ End(region) <= b.start
    BY <2>1, <2>2, SameBlocks, ZenonT(30) DEF Blocks!Apart
  <2> QED
    BY <1>4, <1>5, <1>7, <1>8, <1>9, <1>10, <2>1, <2>3, SMTT(30)
<1>26. \A a, b \in live' : a.start = b.start => a = b
  BY <1>1, <1>25 DEF HeapInv
<1>27. IsFiniteSet(live')
  BY <1>1, FS_AddElement, Zenon DEF HeapInv
<1>28. HeapInv'
  BY <1>14, <1>21, <1>23, <1>24, <1>26, <1>27, ZenonT(30) DEF HeapInv, Sorted
<1> QED
  BY <1>19, <1>20, <1>28, ZenonT(30)

\* dealloc gives the block back and merges it with the free blocks it touches;
\* the blocks are those of a deallocation in HeapBlocks.
LEMMA DeallocStep ==
  ASSUME HeapInv, NEW b \in live, Dealloc(b)
  PROVE  HeapInv' /\ \E c \in LiveBlocks : Blocks!Dealloc(c)
<1> DEFINE x == Span(b)
<1>1. /\ x \in Block /\ x \in LiveBlocks /\ x.start = b.start /\ x.size = Size(b.layout)
      /\ b.start \in Nat /\ Size(b.layout) >= NodeSize
  BY SpanFacts, Zenon
<1>2. Sorted(free) /\ Blocks!IInv
  BY Zenon DEF HeapInv
<1>3. free' = AddFreeRegion(free, x.start, x.size) /\ live' = live \ {b}
  BY <1>1, Zenon DEF Dealloc
<1> HIDE DEF x
<1>4. \A f \in Elems(free) : End(f) <= x.start \/ End(x) <= f.start
  <2>1. \A f \in FreeBlocks : Blocks!Apart(x, f)
    BY <1>1, <1>2, Zenon DEF Blocks!IInv, Blocks!Disjoint
  <2> QED
    BY <2>1, SameBlocks, Zenon DEF Blocks!Apart
<1>5. /\ Sorted(free')
      /\ \E m : /\ Merges(free, x, m)
                /\ Elems(free') = (Elems(free) \ Touching(free, x)) \union {m}
  <2>1. x.size >= NodeSize
    BY <1>1, ZenonT(30)
  <2>2. /\ Sorted(AddFreeRegion(free, x.start, x.size))
        /\ \E m : /\ Merges(free, x, m)
                  /\ Elems(AddFreeRegion(free, x.start, x.size)) =
                       (Elems(free) \ Touching(free, x)) \union {m}
    BY <1>1, <1>2, <1>4, <2>1, Added, Zenon
  <2> QED
    BY <1>3, <2>2, Zenon
<1>6. PICK m : Merges(free, x, m) /\ Elems(free') = (Elems(free) \ Touching(free, x)) \union {m}
  BY <1>5, Zenon
<1>7. FreeBlocks' = Elems(free') /\ FreeBlocks = Elems(free)
  BY SameBlocks, ZenonT(30) DEF FreeBlocks, Elems
<1>8. /\ Blocks!Before(x) = {f \in Elems(free) : End(f) = x.start}
      /\ Blocks!After(x) = {f \in Elems(free) : f.start = End(x)}
  BY <1>7, SameBlocks, Zenon DEF Blocks!Before, Blocks!After
<1>9. Touching(free, x) = Blocks!Before(x) \union Blocks!After(x)
  BY <1>8, Zenon DEF Touching
<1>10. /\ m \in Block
       /\ \/ m.start = x.start /\ \A f \in Elems(free) : End(f) # x.start
          \/ \E f \in Elems(free) : End(f) = x.start /\ m.start = f.start
       /\ \/ End(m) = End(x) /\ \A f \in Elems(free) : f.start # End(x)
          \/ \E f \in Elems(free) : f.start = End(x) /\ End(m) = End(f)
  BY <1>6, Zenon DEF Merges
<1>11. m.start = Blocks!Lo(x)
  <2>1. CASE Blocks!Before(x) = {} /\ Blocks!Lo(x) = x.start
    <3>1. \A f \in Elems(free) : End(f) # x.start
      BY <1>8, <2>1
    <3> QED
      BY <1>10, <2>1, <3>1, ZenonT(30)
  <2>2. ASSUME NEW f \in FreeBlocks, Blocks!Before(x) = {f}, Blocks!Lo(x) = f.start,
               Blocks!End(f) = x.start
        PROVE  m.start = Blocks!Lo(x)
    <3>1. \A g \in Elems(free) : End(g) = x.start => g = f
      BY <1>8, <2>2
    <3>2. f \in Elems(free) /\ End(f) = x.start
      BY <1>7, <2>2, SameBlocks, Zenon
    <3> QED
      BY <1>10, <2>2, <3>1, <3>2, ZenonT(30)
  <2> QED
    BY <1>1, <1>2, <2>1, <2>2, LoFacts, ZenonT(30)
<1>12. End(m) = Blocks!Hi(x)
  <2>1. CASE Blocks!After(x) = {} /\ Blocks!Hi(x) = Blocks!End(x)
    <3>1. \A f \in Elems(free) : f.start # End(x)
      BY <1>8, <2>1, ZenonT(30)
    <3> QED
      BY <1>10, <2>1, <3>1, SameBlocks, ZenonT(30)
  <2>2. ASSUME NEW f \in FreeBlocks, Blocks!After(x) = {f}, Blocks!Hi(x) = Blocks!End(f),
               f.start = Blocks!End(x)
        PROVE  End(m) = Blocks!Hi(x)
    <3>1. \A g \in Elems(free) : g.start = End(x) => g = f
      BY <1>8, <2>2
    <3>2. f \in Elems(free) /\ f.start = End(x) /\ Blocks!Hi(x) = End(f)
      BY <1>7, <2>2, SameBlocks, ZenonT(30)
    <3> QED
      BY <1>10, <3>1, <3>2, ZenonT(30)
  <2> QED
    BY <1>1, <1>2, <2>1, <2>2, HiFacts, ZenonT(30)
<1>13. m = Blocks!MkBlock(Blocks!Lo(x), Blocks!Hi(x) - Blocks!Lo(x))
  <2>1. /\ m = [start |-> m.start, size |-> m.size] /\ End(m) = m.start + m.size
        /\ m.start \in Nat /\ m.size \in Nat
    BY <1>10, BlockFacts, ZenonT(30)
  <2>2. m.size = End(m) - m.start
    BY <2>1
  <2> QED
    BY <1>11, <1>12, <2>1, <2>2, SameBlocks, ZenonT(30)
<1>14. LiveBlocks' = LiveBlocks \ {x}
  <2>1. ASSUME NEW a \in live, a # b PROVE Span(a) # x
    <3>1. Span(a).start = a.start
      BY SpanFacts, Zenon
    <3> QED
      BY <1>1, <2>1, <3>1 DEF HeapInv
  <2>2. LiveBlocks = {Span(a) : a \in live} /\ LiveBlocks' = {Span(a) : a \in live'}
    BY Zenon DEF LiveBlocks, Span
  <2> QED
    BY <1>3, <2>1, <2>2, ZenonT(30) DEF x
<1>15. Blocks!Dealloc(x)
  BY <1>6, <1>7, <1>9, <1>13, <1>14, ZenonT(30) DEF Blocks!Dealloc
<1>16. Blocks!IInv'
  BY <1>1, <1>2, <1>15, BlocksDealloc
<1>17. \A f \in FreeBlocks' : f.start % NodeAlign = 0
  <2>1. \A f \in Elems(free) : f.start % NodeAlign = 0
    BY <1>7, Zenon DEF HeapInv
  <2>2. x.start % NodeAlign = 0
    <3>1. b.start % NodeAlign = 0
      BY Zenon DEF HeapInv
    <3> QED
      BY <1>1, <3>1
  <2>3. m.start % NodeAlign = 0
    <3>1. CASE m.start = x.start
      BY <2>2, <3>1, ZenonT(30)
    <3>2. ASSUME NEW f \in Elems(free), m.start = f.start PROVE m.start % NodeAlign = 0
      BY <2>1, <3>2
    <3> QED
      BY <1>10, <3>1, <3>2, ZenonT(30)
  <2> QED
    BY <1>6, <1>7, <2>1, <2>3, ZenonT(30)
<1>18. /\ live' \subseteq [start : Nat, layout : Layouts] /\ \A a \in live' : a.start % NodeAlign = 0
       /\ \A a, c \in live' : a.start = c.start => a = c
  BY <1>3, Zenon DEF HeapInv
<1>19. IsFiniteSet(live')
  BY <1>3, FS_RemoveElement, Zenon DEF HeapInv
<1>20. HeapInv'
  BY <1>5, <1>16, <1>17, <1>18, <1>19, ZenonT(30) DEF HeapInv, Sorted
<1> QED
  BY <1>1, <1>15, <1>20, ZenonT(30)

\* Every call keeps the invariant and is a step on the set of blocks; a failed
\* allocation changes neither.
LEMMA HeapStep ==
  HeapInv /\ [Next]_vars => HeapInv' /\ [Blocks!Next]_(Blocks!vars)
<1> SUFFICES ASSUME HeapInv, [Next]_vars
             PROVE  HeapInv' /\ [Blocks!Next]_(Blocks!vars)
  OBVIOUS
<1>1. ASSUME NEW layout \in Layouts, Alloc(layout)
      PROVE  HeapInv' /\ [Blocks!Next]_(Blocks!vars)
  BY <1>1, AllocStep, Zenon DEF Blocks!Next
<1>2. ASSUME NEW b \in live, Dealloc(b)
      PROVE  HeapInv' /\ [Blocks!Next]_(Blocks!vars)
  BY <1>2, DeallocStep, Zenon DEF Blocks!Next
<1>3. ASSUME UNCHANGED vars
      PROVE  HeapInv' /\ [Blocks!Next]_(Blocks!vars)
  <2>1. free' = free /\ live' = live
    BY <1>3 DEF vars
  <2>2. FreeBlocks' = FreeBlocks /\ LiveBlocks' = LiveBlocks
    BY <2>1, Zenon DEF FreeBlocks, LiveBlocks
  <2>3. UNCHANGED Blocks!vars
    BY <2>2, Zenon DEF Blocks!vars
  <2>4. Blocks!IInv'
    BY <2>3, BlocksNext, ZenonT(30) DEF HeapInv
  <2> QED
    BY <2>1, <2>2, <2>3, <2>4, ZenonT(30) DEF HeapInv, Sorted
<1>4. ASSUME NEW layout \in Layouts, AllocNull(layout)
      PROVE  UNCHANGED vars
  BY <1>4, Zenon DEF AllocNull
<1> QED
  BY <1>1, <1>2, <1>3, <1>4, ZenonT(30) DEF Next

\* The invariant behind all that follows: after any sequence of calls the list
\* is sorted with gaps between its nodes, and it and the blocks in use are a
\* partition of the heap into blocks that can hold a node.
THEOREM Inductive == Spec => []HeapInv
<1>1. Init => HeapInv
  BY HeapStarts, Zenon
<1>2. HeapInv /\ [Next]_vars => HeapInv'
  BY HeapStep
<1> QED
  BY <1>1, <1>2, PTL DEF Spec

\* The list implements the set of blocks: whatever the order of the calls,
\* first fit, the two remainders and the coalescing walk of add_free_region
\* do what HeapBlocks says of an allocation and of a deallocation.
THEOREM ListImplementsBlocks == Spec => ImplementsBlocks
<1>1. Init => Blocks!Init
  BY HeapStarts, Zenon
<1>2. HeapInv /\ [Next]_vars => [Blocks!Next]_(Blocks!vars)
  BY HeapStep
<1> QED
  BY <1>1, <1>2, Inductive, PTL DEF Spec, ImplementsBlocks, Blocks!Spec

\* No byte is handed out twice or is both in use and on the free list.
THEOREM NeverTwice == Spec => []Disjoint
<1>1. HeapInv => Disjoint
  BY Zenon DEF HeapInv, Disjoint, Blocks!IInv
<1> QED BY <1>1, Inductive, PTL

\* A list node is written only at an address aligned for it, in a region that
\* holds it, and never over bytes a caller has in use.
THEOREM NodesApart == Spec => []NodesWellPlaced
<1>1. ASSUME HeapInv PROVE NodesWellPlaced
  <2>1. SUFFICES ASSUME NEW i \in DOMAIN free
                 PROVE  /\ free[i].start % NodeAlign = 0 /\ free[i].size >= NodeSize
                        /\ \A b \in live : \/ free[i].start + NodeSize <= b.start
                                           \/ b.start + b.layout.size <= free[i].start
    BY Zenon DEF NodesWellPlaced
  <2> DEFINE f == free[i]
  <2>2. f \in FreeBlocks
    BY Zenon DEF FreeBlocks
  <2> HIDE DEF f
  <2>3. f.start % NodeAlign = 0
    BY <1>1, <2>2, Zenon DEF HeapInv
  <2>4. f.size >= NodeSize /\ f.start \in Nat /\ f.size \in Nat /\ NodeSize \in Nat
    BY <1>1, <2>2, HeapAssumption, ZenonT(30)
    DEF HeapInv, Blocks!IInv, Blocks!InHeap, Blocks!TypeOK, Blocks!Block
  <2>5. ASSUME NEW b \in live
        PROVE  f.start + NodeSize <= b.start \/ b.start + b.layout.size <= f.start
    <3>1. /\ Span(b) \in LiveBlocks /\ Span(b).start = b.start
          /\ Span(b).size = Size(b.layout) /\ b.start \in Nat /\ b.layout \in Layouts
          /\ Size(b.layout) \in Nat
      BY <1>1, <2>5, SpanFacts, Zenon
    <3>2. Blocks!Apart(Span(b), f)
      BY <1>1, <2>2, <3>1, ZenonT(30) DEF HeapInv, Blocks!IInv, Blocks!Disjoint
    <3>3. b.start + Size(b.layout) <= f.start \/ f.start + f.size <= b.start
      BY <3>1, <3>2, ZenonT(30) DEF Blocks!Apart, Blocks!End
    <3>4. b.layout.size \in Nat /\ b.layout.size <= Size(b.layout)
      BY <3>1, LayoutFacts, SMTT(30)
    <3> QED
      BY <2>4, <3>1, <3>3, <3>4
  <2> QED
    BY <2>3, <2>4, <2>5, Zenon DEF f
<1> QED BY <1>1, Inductive, PTL

\* No byte leaks, however blocks are split and merged.
THEOREM NothingLeaks == Spec => []Blocks!Covered
<1>1. HeapInv => Blocks!Covered
  BY Zenon DEF HeapInv, Blocks!IInv
<1> QED BY <1>1, Inductive, PTL

\* Coalescing is complete: no two free blocks touch.
THEOREM FullyMerged == Spec => []Blocks!Merged
<1>1. HeapInv => Blocks!Merged
  BY Zenon DEF HeapInv, Blocks!IInv
<1> QED BY <1>1, Inductive, PTL

\* Fragmentation is undone: an empty heap is one block of the full size.
THEOREM HeapRestored == Spec => []Blocks!WholeAgain
<1>1. HeapInv => Blocks!WholeAgain
  BY OneBlock, Zenon DEF HeapInv
<1> QED BY <1>1, Inductive, PTL

-----------------------------------------------------------------------------
\* The bytes of the nodes of the list, and those of the blocks in use.
NodeBytes == [i \in DOMAIN free |-> free[i].start .. End(free[i]) - 1]
LiveBytes == [b \in live |-> b.start .. End(Span(b)) - 1]

\* The walk over the list that free_memory makes adds up to the number of bytes
\* in its nodes.
LEMMA FreeMemoryIs ==
  ASSUME HeapInv
  PROVE  /\ IsFiniteSet(All(NodeBytes, DOMAIN free))
         /\ FreeMemory = Cardinality(All(NodeBytes, DOMAIN free))
<1> DEFINE I == DOMAIN free
           f == [i \in I |-> free[i].size]
           Is(it) == it = [s \in SUBSET I |->
                             IF s = {} THEN 0
                             ELSE free[CHOOSE x \in s : TRUE].size
                                    + it[s \ {CHOOSE x \in s : TRUE}]]
           it == CHOOSE g : Is(g)
<1>1. free \in Seq(Block) /\ I = 1 .. Len(free) /\ Len(free) \in Nat
  BY DEF HeapInv, Sorted
<1>2. IsFiniteSet(I)
  BY <1>1, FS_Interval
<1>3. \A g : Sums(g, SUBSET I, f) <=> Is(g)
  <2>1. ASSUME NEW s \in SUBSET I, s # {}
        PROVE  f[CHOOSE x \in s : TRUE] = free[CHOOSE x \in s : TRUE].size
    <3>1. (CHOOSE x \in s : TRUE) \in I
      BY <2>1, Zenon
    <3> QED
      BY <3>1, Zenon
  <2> QED
    BY <2>1, Zenon DEF Sums
<1>4. FreeMemory = it[I]
  BY Zenon DEF FreeMemory, MapThenSumSet, MapThenFoldSet
<1> HIDE DEF I, f, it, Is
<1>5. Sums(it, SUBSET I, f)
  <2>1. PICK g : Sums(g, SUBSET I, f)
    BY <1>2, SumExists, ZenonT(30)
  <2>2. Is(g)
    BY <1>3, <2>1, ZenonT(30)
  <2>3. Is(it)
    BY <2>2, Zenon DEF it
  <2> QED
    BY <1>3, <2>3, Zenon
<1>6. ASSUME NEW i \in I
      PROVE  IsFiniteSet(NodeBytes[i]) /\ Cardinality(NodeBytes[i]) = f[i]
  <2>1. NodeBytes[i] = free[i].start .. End(free[i]) - 1 /\ f[i] = free[i].size
    BY Zenon DEF NodeBytes, f, I
  <2>2. free[i] \in Block /\ free[i].start \in Nat /\ free[i].size \in Nat /\ free[i].size > 0
    <3>1. free[i] \in Block /\ free[i].size > 0
      BY <1>1, ListFacts, ZenonT(30) DEF HeapInv, Sorted
    <3> QED
      BY <3>1, BlockFacts, Zenon
  <2>3. /\ free[i].start \in Int /\ End(free[i]) - 1 \in Int
        /\ ~ (free[i].start > End(free[i]) - 1)
        /\ End(free[i]) - 1 - free[i].start + 1 = free[i].size
    BY <2>2, SMTT(30) DEF End
  <2> QED
    BY <2>1, <2>3, FS_Interval, Zenon
<1>7. ASSUME NEW i \in I, NEW j \in I, i # j PROVE NodeBytes[i] \cap NodeBytes[j] = {}
  <2>1. /\ NodeBytes[i] = free[i].start .. End(free[i]) - 1
        /\ NodeBytes[j] = free[j].start .. End(free[j]) - 1
    BY Zenon DEF NodeBytes, f, I
  <2>2. free[i] \in Block /\ free[j] \in Block
    BY <1>1
  <2>3. i < j \/ j < i
    BY <1>1, <1>7
  <2>4. End(free[i]) < free[j].start \/ End(free[j]) < free[i].start
    BY <1>1, <2>3, Zenon DEF HeapInv, Sorted
  <2>5. /\ free[i].start \in Nat /\ End(free[i]) \in Nat
        /\ free[j].start \in Nat /\ End(free[j]) \in Nat
    BY <2>2, BlockFacts, ZenonT(30)
  <2> QED
    BY <2>1, <2>4, <2>5
<1>8. IsFiniteSet(All(NodeBytes, I)) /\ it[I] = Cardinality(All(NodeBytes, I))
  BY <1>2, <1>5, <1>6, <1>7, SumIsCardinality, SMTT(30)
<1> QED
  BY <1>4, <1>8, ZenonT(30) DEF I
\* The padded sizes in use, which used_memory reports, add up to the number of
\* bytes of the blocks in use.
LEMMA LiveMemoryIs ==
  ASSUME HeapInv
  PROVE  /\ IsFiniteSet(All(LiveBytes, live))
         /\ MapThenSumSet(LAMBDA b : Size(b.layout), live) = Cardinality(All(LiveBytes, live))
<1> DEFINE I == live
           f == [b \in I |-> Size(b.layout)]
           Is(it) == it = [s \in SUBSET I |->
                             IF s = {} THEN 0
                             ELSE Size((CHOOSE x \in s : TRUE).layout)
                                    + it[s \ {CHOOSE x \in s : TRUE}]]
           it == CHOOSE g : Is(g)
<1>2. IsFiniteSet(I)
  BY Zenon DEF HeapInv
<1>3. \A g : Sums(g, SUBSET I, f) <=> Is(g)
  <2>1. ASSUME NEW s \in SUBSET I, s # {}
        PROVE  f[CHOOSE x \in s : TRUE] = Size((CHOOSE x \in s : TRUE).layout)
    <3>1. (CHOOSE x \in s : TRUE) \in I
      BY <2>1, Zenon
    <3> QED
      BY <3>1, Zenon
  <2> QED
    BY <2>1, Zenon DEF Sums
<1>4. MapThenSumSet(LAMBDA b : Size(b.layout), live) = it[I]
  BY ZenonT(30) DEF MapThenSumSet, MapThenFoldSet
<1> HIDE DEF I, f, it, Is
<1>5. Sums(it, SUBSET I, f)
  <2>1. PICK g : Sums(g, SUBSET I, f)
    BY <1>2, SumExists, Zenon
  <2>2. Is(g)
    BY <1>3, <2>1, Zenon
  <2>3. Is(it)
    BY <2>2, Zenon DEF it
  <2> QED
    BY <1>3, <2>3, Zenon
<1>6. ASSUME NEW b \in I
      PROVE  IsFiniteSet(LiveBytes[b]) /\ Cardinality(LiveBytes[b]) = f[b]
  <2>1. LiveBytes[b] = b.start .. End(Span(b)) - 1 /\ f[b] = Size(b.layout)
    BY Zenon DEF LiveBytes, f, I
  <2>2. /\ b.start \in Nat /\ Size(b.layout) \in Nat /\ Size(b.layout) >= NodeSize
        /\ End(Span(b)) = b.start + Size(b.layout)
    BY SpanFacts, Zenon DEF I
  <2>3. /\ b.start \in Int /\ End(Span(b)) - 1 \in Int /\ ~ (b.start > End(Span(b)) - 1)
        /\ End(Span(b)) - 1 - b.start + 1 = Size(b.layout)
    BY <2>2, HeapAssumption, SMTT(30)
  <2> QED
    BY <2>1, <2>3, FS_Interval, Zenon
<1>7. ASSUME NEW a \in I, NEW b \in I, a # b PROVE LiveBytes[a] \cap LiveBytes[b] = {}
  <2>1. /\ LiveBytes[a] = a.start .. End(Span(a)) - 1
        /\ LiveBytes[b] = b.start .. End(Span(b)) - 1
    BY Zenon DEF LiveBytes, I
  <2>2. /\ Span(a) \in LiveBlocks /\ Span(a).start = a.start
        /\ a.start \in Nat /\ Size(a.layout) \in Nat
        /\ End(Span(a)) = a.start + Size(a.layout)
        /\ Span(b) \in LiveBlocks /\ Span(b).start = b.start
        /\ b.start \in Nat /\ Size(b.layout) \in Nat
        /\ End(Span(b)) = b.start + Size(b.layout)
    BY SpanFacts, Zenon DEF I
  <2>3. a.start # b.start
    BY <1>7, Zenon DEF HeapInv, I
  <2>4. Blocks!Apart(Span(a), Span(b))
    BY <2>2, <2>3, Zenon DEF HeapInv, Blocks!IInv, Blocks!Disjoint
  <2>5. End(Span(a)) <= b.start \/ End(Span(b)) <= a.start
    BY <2>2, <2>4, SameBlocks, ZenonT(30) DEF Blocks!Apart
  <2> QED
    BY <2>1, <2>2, <2>5
<1>8. IsFiniteSet(All(LiveBytes, I)) /\ it[I] = Cardinality(All(LiveBytes, I))
  BY <1>2, <1>5, <1>6, <1>7, SumIsCardinality
<1> QED
  BY <1>4, <1>8, Zenon DEF I

\* The nodes and the blocks in use share the bytes of the heap among them.
LEMMA BytesShared ==
  ASSUME HeapInv
  PROVE  /\ All(NodeBytes, DOMAIN free) \union All(LiveBytes, live) = 0 .. HeapSize - 1
         /\ All(NodeBytes, DOMAIN free) \cap All(LiveBytes, live) = {}
<1> DEFINE U == All(NodeBytes, DOMAIN free)
           V == All(LiveBytes, live)
<1>1. \A y : y \in U <=> \E f \in FreeBlocks : y \in f.start .. End(f) - 1
  BY Zenon DEF All, NodeBytes, FreeBlocks
<1>2. \A y : y \in V <=> \E c \in LiveBlocks : y \in c.start .. End(c) - 1
  <2>1. \A b \in live : Span(b) \in LiveBlocks /\ Span(b).start = b.start
    BY SpanFacts, Zenon
  <2>2. \A c \in LiveBlocks : \E b \in live : c = Span(b)
    BY Zenon DEF LiveBlocks, Span
  <2>3. \A y : y \in V <=> \E b \in live : y \in b.start .. End(Span(b)) - 1
    BY Zenon DEF All, LiveBytes
  <2> QED
    BY <2>1, <2>2, <2>3, Zenon
<1>3. \A b \in FreeBlocks \union LiveBlocks :
        b.start \in Nat /\ End(b) \in Nat /\ End(b) <= HeapSize
  <2>1. ASSUME NEW b \in FreeBlocks \union LiveBlocks
        PROVE  b \in Block /\ End(b) <= HeapSize
    BY SameBlocks, Zenon DEF HeapInv, Blocks!IInv, Blocks!TypeOK, Blocks!InHeap
  <2> QED
    BY <2>1, BlockFacts, Zenon
<1>4. \A c \in LiveBlocks, f \in FreeBlocks : End(c) <= f.start \/ End(f) <= c.start
  BY SameBlocks, Zenon DEF HeapInv, Blocks!IInv, Blocks!Disjoint, Blocks!Apart
<1>5. \A y \in 0 .. HeapSize - 1 :
        \E b \in FreeBlocks \union LiveBlocks : b.start <= y /\ y < End(b)
  BY SameBlocks, Zenon DEF HeapInv, Blocks!IInv, Blocks!Covered
<1>6. HeapSize \in Nat
  BY HeapAssumption
<1> HIDE DEF U, V
<1>7. ASSUME NEW y \in 0 .. HeapSize - 1 PROVE y \in U \union V
  <2>1. PICK b \in FreeBlocks \union LiveBlocks : b.start <= y /\ y < End(b)
    BY <1>5, Zenon
  <2>2. y \in b.start .. End(b) - 1
    BY <1>3, <1>6, <2>1, SMTT(30)
  <2> QED
    BY <1>1, <1>2, <2>2, ZenonT(30)
<1>8. ASSUME NEW y \in U \union V PROVE y \in 0 .. HeapSize - 1
  <2>1. PICK b \in FreeBlocks \union LiveBlocks : y \in b.start .. End(b) - 1
    BY <1>1, <1>2, ZenonT(30)
  <2> QED
    BY <1>3, <1>6, <2>1
<1>9. ASSUME NEW y \in U, y \in V PROVE FALSE
  <2>1. PICK f \in FreeBlocks : y \in f.start .. End(f) - 1
    BY <1>1, Zenon
  <2>2. PICK c \in LiveBlocks : y \in c.start .. End(c) - 1
    BY <1>2, <1>9, Zenon
  <2>3. /\ f.start \in Nat /\ End(f) \in Nat /\ c.start \in Nat /\ End(c) \in Nat
        /\ End(c) <= f.start \/ End(f) <= c.start
    BY <1>3, <1>4, Zenon
  <2> QED
    BY <2>1, <2>2, <2>3
<1>10. U \union V = 0 .. HeapSize - 1 /\ U \cap V = {}
  BY <1>7, <1>8, <1>9, ZenonT(30)
<1> QED
  BY <1>10, Zenon DEF U, V

\* free_memory and used_memory account for every byte, and an empty heap is one
\* block again, whatever was allocated and freed in whatever order.
THEOREM MemoryAccounted == Spec => []NoLeak
<1>1. ASSUME HeapInv PROVE NoLeak
  <2> DEFINE U == All(NodeBytes, DOMAIN free)
             V == All(LiveBytes, live)
             used == MapThenSumSet(LAMBDA b : Size(b.layout), live)
  <2>1. IsFiniteSet(U) /\ FreeMemory = Cardinality(U)
    BY <1>1, FreeMemoryIs, Zenon
  <2>2. IsFiniteSet(V) /\ used = Cardinality(V)
    BY <1>1, LiveMemoryIs, Zenon
  <2>3. U \union V = 0 .. HeapSize - 1 /\ U \cap V = {}
    BY <1>1, BytesShared, Zenon
  <2>4. Blocks!WholeAgain
    BY <1>1, OneBlock, Zenon DEF HeapInv
  <2> HIDE DEF U, V, used
  <2>5. Cardinality(U \union V) = Cardinality(U) + Cardinality(V) - Cardinality(U \cap V)
    BY <2>1, <2>2, FS_Union, Zenon
  <2>6. Cardinality(U) \in Nat /\ Cardinality(V) \in Nat /\ Cardinality({}) = 0
    BY <2>1, <2>2, FS_CardinalityType, FS_EmptySet, ZenonT(30)
  <2>7. Cardinality(0 .. HeapSize - 1) = HeapSize
    <3>1. HeapSize \in Nat \ {0}
      BY HeapAssumption
    <3>2. 0 \in Int /\ HeapSize - 1 \in Int /\ ~ (0 > HeapSize - 1)
          /\ HeapSize - 1 - 0 + 1 = HeapSize
      BY <3>1
    <3> QED
      BY <3>2, FS_Interval, Zenon
  <2>8. FreeMemory + used = HeapSize
    <3>1. HeapSize = FreeMemory + used - 0
      BY <2>1, <2>2, <2>3, <2>5, <2>6, <2>7, ZenonT(30)
    <3>2. FreeMemory \in Nat /\ used \in Nat
      BY <2>1, <2>2, <2>6, ZenonT(30)
    <3> QED
      BY <3>1, <3>2
  <2> QED
    BY <2>4, <2>8, Zenon DEF NoLeak, used
<1> QED BY <1>1, Inductive, PTL
=============================================================================
