\* The stop file may appear between the INQUIREs of two processes.
SPECIFICATION Spec
CONSTANTS
  Ranks = {r1, r2}
  EvacRanks = {}
  DtInitial = 1
  DtStable = 1
  TEnd = 2
  ICycStart = 10
  StopAtIter = 0
  AngleIncrement = 1
  TimeStepIncrement = 1
  DtRestart = 3
  StopFileAnyTime = TRUE
  RestartControl = FALSE
  LocalFailures = {}
CHECK_DEADLOCK FALSE
INVARIANTS
  CollectiveOrder
