\* A reader and a writer of an anonymous pipe; FIFOs have the writer noted
\* when their opens meet.
CONSTANTS
    Tasks = {r, a}
    PReaders = {r}
    PWriters = {a}
    Heirs = {r, a}
    PAGE_SIZE = 2
    PIPE_BUFF = 3
    PIPE_MAX_BUFFERS = 2
    PIPE_ATOMIC_MAX = 2
    PIPE_WRITE_BATCH = 2
    ReadSizes = {3}
    WriteSizes = {3}
    SpliceSizes = {3}
    MaxOps = 2
    MaxFailures = 0
    MaxSignals = 0
SPECIFICATION PipeSpec
INVARIANT EndOfFileSeen
CHECK_DEADLOCK FALSE
