------------------------------ MODULE MCFiles ------------------------------
(***************************************************************************)
(* Epoll, Pipe and PageCache for TLC, side by side in one run: "part" says *)
(* which of them moves, with which tasks or operations and with how much   *)
(* of the bounds.                                                          *)
(***************************************************************************)
EXTENDS Epoll, Pipe, PageCache, TLC

CONSTANTS First,  \* the tasks in epoll_wait and epoll_ctl of most parts
          Third   \* a task that uses the page cache in one part only

VARIABLE part

Actors == [write |-> First \cup Writers,
           ctl   |-> First \cup Writers,
           wait  |-> First \cup Waiters \cup Writers,
           poll  |-> (First \ Waiters) \cup Pollers \cup Writers,
           close |-> Ctls \cup Writers]

Operations == [cache    |-> {"update", "sync", "reclaim"},
               drop     |-> {"update", "dontneed"},
               map      |-> {"fault", "munmap", "store", "sync", "reclaim"},
               share    |-> {"read", "dontneed", "reclaim"},
               cut      |-> {"write", "sync", "truncate"},
               cutmap   |-> {"fault", "store", "truncate"},
               ahead    |-> {"read", "write", "sync"},
               cutrange |-> {"write", "dontneed", "truncate"}]

\* How much of a bound is left at the start.
Budget(w, c, o, f, s) ==
    /\ writes = MaxWrites - w /\ ctls = MaxCtls - c
    /\ ops = MaxOps - o /\ failures = MaxFailures - f /\ signals = MaxSignals - s
    /\ pcalls = MaxPcCalls /\ size = 1

PageBudget(n, calls) ==
    /\ kind = "pipe" /\ writes = 0 /\ ctls = 0 /\ ops = 0 /\ failures = 0 /\ signals = 0
    /\ pcalls = MaxPcCalls - calls /\ size = n

FilesInit ==
    /\ EpollStart /\ PipeInit /\ PageStart
    /\ \/ part \in {"cache", "drop", "share", "cut", "cutmap"} /\ PageBudget(1, 3)
       \/ part = "map" /\ PageBudget(1, 4)
       \/ part \in {"ahead", "cutrange"} /\ PageBudget(2, 2)
       \/ part = "write" /\ kind = "pipe" /\ Budget(3, 1, 0, 0, 0)
       \/ part = "ctl"   /\ kind = "pipe" /\ Budget(1, 2, 0, 0, 0)
       \/ part = "wait"  /\ kind = "pipe" /\ Budget(1, 1, 0, 0, 0)
       \/ part = "poll"  /\ kind = "pipe" /\ Budget(1, 2, 0, 0, 0)
       \/ part = "close" /\ kind = "pipe" /\ Budget(1, 2, 0, 0, 0)
       \/ part = "pipe"  /\ kind = "pipe" /\ Budget(0, 0, 3, 0, 0)
       \/ part = "fault" /\ kind = "pipe" /\ Budget(0, 0, 2, 1, 1)
       \/ part = "fault" /\ kind = "fifo" /\ Budget(0, 0, 0, 0, 1)
       \/ part = "fifo"  /\ kind = "fifo" /\ Budget(0, 0, 1, 0, 0)

EpollMoves ==
    /\ part \in DOMAIN Actors
    /\ \E t \in Actors[part] : EpollStep(t)
    /\ UNCHANGED <<part, pipeVars, pageVars>>

PipeMoves ==
    /\ part \notin DOMAIN Actors \cup DOMAIN Operations
    /\ PipeNext
    /\ UNCHANGED <<part, epollVars, pageVars>>

\* flush and ahead are what the calls do beyond their own pages.
PageMoves ==
    /\ part \in DOMAIN Operations
    /\ PageNext
    /\ \A t \in Cachers : act'[t].op \in Operations[part] \cup {"none", "flush", "ahead"}
    /\ part # "share" => at'[Third] = "user"
    /\ UNCHANGED <<part, epollVars, pipeVars>>

FilesNext == EpollMoves \/ PipeMoves \/ PageMoves

FilesSpec ==
    FilesInit /\ [][FilesNext]_<<part, at, sleep, epollVars, pipeVars, pageVars>>

\* The two tasks that write to a pipe are alike, and so are the first two that
\* use the page cache, and its pages.  As only one part moves, the pairs of
\* tasks may be exchanged together.
Pair == Cachers \ {Third}
Alike ==
    {p \in Permutations(PWriters \cup Pair) :
        /\ \A t \in PWriters : p[t] \in PWriters
        /\ (\E t \in PWriters : p[t] = t) <=> (\E t \in Pair : p[t] = t)}
    \cup Permutations(Pages)

=============================================================================
