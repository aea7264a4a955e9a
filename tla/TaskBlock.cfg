CONSTANTS
    t1 = t1
    c1 = c1
    Tasks = {t1}
    CPUs = {c1}
    CpuOf <- OneTask
    Wakers = {w1, w2}
    Timer = Timer
    Idle = Idle
    Never = Never
    NoTask = NoTask
    Timeouts = {"none", "zero", "timed"}
    MaxTime = 1
SPECIFICATION FairSpec
INVARIANTS NoLostWakeup RunsOnlyReady NotStranded
PROPERTIES FirstWakeWins ConditionSeen 
