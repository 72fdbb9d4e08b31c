-------------------------------- MODULE MCHeap --------------------------------
EXTENDS Heap

\* Sizes below a node, between node and alignment, and an alignment that forces
\* a prefix.
MCLayouts == {[size |-> 1, align |-> 1], [size |-> 24, align |-> 8],
              [size |-> 20, align |-> 4], [size |-> 32, align |-> 32]}
=============================================================================
