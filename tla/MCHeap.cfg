SPECIFICATION Spec
CONSTANTS
  HeapSize = 128
  NodeSize = 16
  NodeAlign = 8
  Layouts <- MCLayouts
INVARIANTS NodesWellPlaced Disjoint NoLeak
PROPERTY ImplementsBlocks
