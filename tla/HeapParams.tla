------------------------------ MODULE HeapParams ------------------------------
(* The sizes the two modules of the kernel heap share. *)
EXTENDS Integers

CONSTANTS
  HeapSize,   \* bytes managed, HEAP_SIZE in the code
  NodeSize    \* size_of::<ListNode>(), 16

ASSUME HeapAssumption ==
  /\ NodeSize \in Nat \ {0}
  /\ HeapSize \in Nat /\ HeapSize >= NodeSize
=============================================================================
