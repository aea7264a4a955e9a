CONSTANTS
    t1 = t1
    c1 = c1
    Tasks = {t1}
    CPUs = {c1}
    CpuOf <- OneTask
    Wakers = {w1}
    Timer = Timer
    Idle = Idle
    Never = Never
    NoTask = NoTask
    Timeouts = {"none"}
    MaxTime = 0
SPECIFICATION Spec
INVARIANT TokenOutlivesSleep
