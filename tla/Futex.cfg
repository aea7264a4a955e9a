CONSTANTS
    t1 = t1
    t2 = t2
    t3 = t3
    e1 = e1
    w1 = w1
    l1 = l1
    Tasks = {t1, t2, t3}
    Events = {e1}
    OpWords = {w1}
    Locks = {l1}
    Bucket <- MCBucket
    FUTEX_BUCKET_COUNT = 3
    BitSets = {{1}}
    Counts = {1}
    Ops <- MCOps
    Signalled = {t1}
    None = None
    MaxCalls = 4
    Died = Died
SPECIFICATION Spec
INVARIANTS ChainsMatch NoLostWake  NoBucketDeadlock
PROPERTY WakesAreKept
CHECK_DEADLOCK FALSE
