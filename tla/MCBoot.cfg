SPECIFICATION MCSpec
CONSTANTS
  None = None
  Bsp = 2
  Core = {0, 1, 2, 3, 4, 5}
  CoreLists <- MCCoreLists
  MaxCpus = 4
  Dead = {3}
  Late = {}
INVARIANTS OwnBlock SchedulesOwn AllWoken
PROPERTIES BootEnds
CHECK_DEADLOCK FALSE
