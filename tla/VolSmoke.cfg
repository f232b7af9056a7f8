SPECIFICATION FairSpec
CONSTANTS
    LastMesh = 3
    NTimes <- MCNTimes
    MayLose <- MCMayLose
    MaxLoads = 2
VIEW view
INVARIANTS
    ShownIsRight
    DrawnIsLive
    LoadedIsWhole
    UnloadedIsEmpty
PROPERTIES
    LoadingEnds
