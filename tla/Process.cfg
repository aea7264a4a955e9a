CONSTANTS
    Tasks = {i, p, a}
    InitTask = i
    FirstTask = p
    None = None
    Subreapers = {}
    Cloners = {i, p}
    Clones = {"fork", "vfork", "thread"}
    Waiters = {i, a}
    Waits = {"wait"}
    Dispositions = {"default", "ignore"}
    Signalled = {a}
    Faults = {"ok", "fault"}
SPECIFICATION Spec
INVARIANTS  CollectedOnce NoMissedExit  NoVforkStall
CHECK_DEADLOCK FALSE
