SPECIFICATION StructuresSpec
CONSTANTS
    Tasks = {t1, t2}
    Wakers = {w1, w2}
    Lead = w1
    Batch = 1
    Nobody = Nobody
    MaxWakes = 2
    N = 7
    Values = {0, 1}
    Callers = {k1, k2}
    Main = k1
    CPUs = {1, 2}
    NPages = 4
    MAX_ORDER = 2
    PCP_HIGH = 1
    PCP_BATCH = 2
    MaxStray = 1
    SlabOrder = 0
    Objects = 2
INVARIANTS NoLostWakeup EntriesOnStack  MemoryExact  SlabsExact
CHECK_DEADLOCK FALSE
