CONSTANTS
  s1 = s1
  None = None
  Space = {s1, s2}
  NumFrames = 13
  PageSize = 2
  Table <- MCTable
  Path <- TwoPts
  Segments <- MCSegments
  CodeBase = 2
  HeapStart = 6
  MmapStart = 10
  MmapEnd = 16
  StackTop = 20
  StackPages = 1
  MmapArgs <- OneMmap
  MunmapArgs <- FrameMunmaps
  BrkArgs = {8}
  Touched = {4, 8}
  MaxLoads = 2
  MaxDemos = 0
SPECIFICATION CompeteSpec
INVARIANTS FramesExclusive
CHECK_DEADLOCK FALSE
