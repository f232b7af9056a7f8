\* Two fire processes; the stop file is seen by both in the same cycle.
SPECIFICATION Spec
CONSTANTS
  Ranks = {r1, r2}
  EvacRanks = {}
  DtInitial = 3
  DtStable = 2
  TEnd = 7
  ICycStart = 9
  StopAtIter = 0
  AngleIncrement = 2
  TimeStepIncrement = 2
  DtRestart = 3
  StopFileAnyTime = FALSE
  RestartControl = FALSE
  LocalFailures = {8}
SYMMETRY Symmetry
INVARIANTS
  TypeOK
  CollectiveOrder
  ClocksAgree
  InstabilityIsFatal
  InstabilityIsDumped
  UserStopLeavesRestart
  RestartFilesMatch
