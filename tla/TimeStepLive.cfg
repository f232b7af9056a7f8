\* Two fire processes under fairness; the run is longer than a sweep of the angles.
SPECIFICATION FairSpec
CONSTANTS
  Ranks = {r1, r2}
  EvacRanks = {}
  DtInitial = 3
  DtStable = 2
  TEnd = 16
  ICycStart = 0
  StopAtIter = 0
  AngleIncrement = 2
  TimeStepIncrement = 2
  DtRestart = 3
  StopFileAnyTime = FALSE
  RestartControl = FALSE
  LocalFailures = {}
INVARIANTS
  StopLatency
PROPERTIES
  Termination
