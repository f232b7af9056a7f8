\* Two fire processes and the evacuation process; the stop file names cycle 3;
\* the case has a RESTART control function.
SPECIFICATION Spec
CONSTANTS
  Ranks = {r1, r2, e1}
  EvacRanks = {e1}
  DtInitial = 2
  DtStable = 1
  TEnd = 4
  ICycStart = 0
  StopAtIter = 3
  AngleIncrement = 2
  TimeStepIncrement = 2
  DtRestart = 3
  StopFileAnyTime = FALSE
  RestartControl = TRUE
  LocalFailures = {8, 9}
SYMMETRY Symmetry
INVARIANTS
  CollectiveOrder
