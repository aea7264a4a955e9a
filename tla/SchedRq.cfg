\* Two tasks of two weights: picks, drops, wakeups, renice and accounting.
SPECIFICATION Spec
CONSTANTS
    Tasks = {1, 2}
    Nices = {0, 1}
    WeightOf <- MCWeightOf
    NICE_0_LOAD = 2
    LATENCY = 4
    MIN_GRANULARITY = 1
    MAX_GRANULARITY = 2
    WAKEUP_GRANULARITY = 1
    MaxTime = 2
    MaxVruntime = 2
INVARIANTS  TimerPreempts
PROPERTIES NeverIdleWithReady ImplementsRunQueue
