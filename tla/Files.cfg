CONSTANTS
    Tasks = {w1, w2, v1, p1, c1, c2, r, a, b, d1, d2, d3}
    Waiters = {w1, w2}
    First = {w1, c1}
    Pollers = {v1}
    Writers = {p1}
    Ctls = {c1, c2}
    Files = {f1}
    Modes = {"level", "edge", "oneshot"}
    Values = {1}
    UINT64_MAX = 3
    maxevents = 2
    MaxWrites = 3
    MaxCtls = 2
    Ep = Ep
    Nobody = Nobody
    PReaders = {r}
    PWriters = {a, b}
    Heirs = {r, a, b}
    PAGE_SIZE = 2
    PIPE_BUFF = 3
    PIPE_MAX_BUFFERS = 2
    PIPE_ATOMIC_MAX = 2
    PIPE_WRITE_BATCH = 2
    ReadSizes = {3}
    WriteSizes = {2, 3}
    SpliceSizes = {3}
    MaxOps = 3
    MaxFailures = 1
    MaxSignals = 1
    Cachers = {d1, d2, d3}
    Third = d3
    Pages = {g1, g2}
    MaxPages = 2
    PcOps = {"read", "write", "update", "sync", "dontneed", "truncate", "fault", "munmap", "store", "reclaim"}
    MaxPcCalls = 4
    DIRTY_LIMIT = 0
    WRITEBACK_BATCH = 1
    NoPage = NoPage
    Unlocked = Unlocked
SPECIFICATION FilesSpec
SYMMETRY Alike
INVARIANTS NoLostEvent NoLostSpace WatchesExact  StreamSound OpenMeets
           WritesSurvive NoPageStall PagesKept
CHECK_DEADLOCK FALSE
