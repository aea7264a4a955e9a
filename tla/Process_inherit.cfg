CONSTANTS
    Tasks = {i, p, a, b}
    InitTask = i
    FirstTask = p
    None = None
    Subreapers = {}
    Cloners = {p,a}
    Clones = {"fork"}
    Waiters = {i}
    Waits = {"wait"}
    Dispositions = {"default"}
    Signalled = {}
    Faults = {"ok"}
SPECIFICATION Spec
INVARIANTS NoMissedChild
CHECK_DEADLOCK FALSE
