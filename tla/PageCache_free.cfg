\* One task drops its reference to a page while another one invalidates it.
CONSTANTS
    Tasks = {t1, t2}
    Cachers = {t1, t2}
    Pages = {g1}
    MaxPages = 1
    PcOps = {"read", "dontneed"}
    MaxPcCalls = 2
    DIRTY_LIMIT = 0
    WRITEBACK_BATCH = 1
    NoPage = NoPage
    Unlocked = Unlocked
SPECIFICATION PageSpec
INVARIANT FreedOnce
CHECK_DEADLOCK FALSE
