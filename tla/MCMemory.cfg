CONSTANTS
  s1 = s1
  None = None
  Space = {s1, s2}
  NumFrames = 12
  PageSize = 2
  Table <- MCTable
  Path <- OnePt
  Segments <- MCSegments
  CodeBase = 2
  HeapStart = 6
  MmapStart = 10
  MmapEnd = 16
  StackTop = 20
  StackPages = 1
  MmapArgs <- MCMmaps
  MunmapArgs <- MCMunmaps
  BrkArgs = {6, 7, 8, 9, 10, 11}
  Touched = {4, 8, 12, 14, 16}
  MaxLoads = 3
  MaxDemos = 1
SPECIFICATION MCSpec
INVARIANTS AreasSound FramesSound
PROPERTIES RollBack ImplementsPool
CHECK_DEADLOCK FALSE
