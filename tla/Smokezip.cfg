SPECIFICATION FairSpec
CONSTANTS
    t1 = t1
    t2 = t2
    h1 = h1
    h2 = h2
    Threads = {t1, t2}
    Helpers = {h1, h2}
    Nobody = Nobody
    N = 8
    Kind <- MCKind
    Lead <- MCLead
    Readable = {1, 2, 4, 5, 6, 7, 8}
    Writable = {1, 2, 3, 4, 6, 7, 8}
    Zip = {1, 2, 3, 5}
    Opts <- MCOpts
    Ini = {1}
    MaxRuns = 2
INVARIANTS ClaimsExclusive BoundsComplete CodeMeansClosed IsoListComplete
PROPERTIES PoolSpec RunEnds OldFilesKept
CHECK_DEADLOCK FALSE
