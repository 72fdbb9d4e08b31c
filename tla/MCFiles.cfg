CONSTANTS
  Name = {"a", "b"}
  Content = {"x"}
  Walks <- MCWalks
  MaxInodes = 5
  MaxDepth = 2
  Total = 6
  PerSector = 2
  FatSplit = 4
  Paths <- MCPath
  FatName = {"a", "D"}
  Short <- MCShort
  FatContent <- MCContent
  Writes <- MCWrites
  Dirs <- MCDirs
  Removes <- MCRemoves
  MaxFaults = 1
SPECIFICATION MCSpec
INVARIANTS TreeWellFormed CwdNeverReaimed VolumeSound
PROPERTIES VfsImplementsTree FatImplementsTree
CHECK_DEADLOCK FALSE
