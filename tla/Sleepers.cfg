CONSTANTS
    Tasks = {t1, t2, t3}
    Wakers = {t1, t2, t3}
    Batch = 2
    Nobody = Nobody
    Spinners = {t3}
    MaxCalls = 6
    Raisers = {r1, r2}
    TaskBudget = 1
    MmBudget = 1
    MaxWork = 3
SPECIFICATION SleepersSpec
INVARIANTS NoLostRaise NoForgottenWork
PROPERTIES GrantsLikeMutex ImplementsMutex LockReturns WorkIsDone
CHECK_DEADLOCK FALSE
