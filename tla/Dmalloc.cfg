SPECIFICATION FairSpec
CONSTANTS
    UI = ui
    Threads = {ui, t1}
    Addrs = {a1, a2, a3}
    Ids = {0, 1, 2}
    MMfirst = MMfirst
    MMlast = MMlast
    Null = Null
    Nobody = Nobody
    Absent = Absent
INVARIANTS TypeOK ListOK HeldIsLive
PROPERTIES HeapSpec CallsReturn
