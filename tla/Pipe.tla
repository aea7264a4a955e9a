-------------------------------- MODULE Pipe --------------------------------
(***************************************************************************)
(* Pipes and FIFOs (kernel/src/fs/pipe.c): the ring of page buffers,       *)
(* blocking reads and writes, splices from and to a pipe, the rendezvous   *)
(* of open and the release of an end.                                      *)
(*                                                                         *)
(* A blocked writer is in pipe->write_waiters and is woken under the lock  *)
(* of the pipe; a blocked reader, a splice and an open wait on the poll    *)
(* queue of the inode and are notified after the unlock, and only when the *)
(* pipe was empty or full.  The poll table is taken at its contract (a     *)
(* notification after the preparation ends the sleep); Epoll has its       *)
(* sequence numbers.  What a section does under pipe->lock is one step.    *)
(*                                                                         *)
(* A byte is <<t, k>>, the k-th byte that task t put into the pipe.        *)
(***************************************************************************)
EXTENDS Blocking, Naturals, Sequences, FiniteSets

LOCAL INSTANCE SequencesExt
LOCAL INSTANCE FiniteSetsExt

CONSTANTS
    PReaders,        \* tasks that use the read end
    PWriters,        \* tasks that use the write end
    Heirs,           \* those that have an end of an anonymous pipe
    PAGE_SIZE, PIPE_BUFF, PIPE_MAX_BUFFERS, PIPE_ATOMIC_MAX, PIPE_WRITE_BATCH,
    ReadSizes, WriteSizes, SpliceSizes,
    MaxOps,          \* bound on the reads, writes and splices
    MaxFailures,     \* bound on the page allocations that fail
    MaxSignals       \* bound on the signals

VARIABLES
    kind,         \* whether it is an anonymous pipe or a FIFO
    ring,         \* the buffers: the bytes, and the room in a page that can merge
    ptr,          \* pipe->ptr
    ends,         \* tasks that count in read_fds and write_fds
    seen,         \* readers whose spec->seen_writer is set
    waiters,      \* tasks in pipe->write_waiters
    notified,     \* the waiters that were woken
    write_wakeup, \* pipe->write_wakeup
    polling,      \* tasks with an entry in a poll queue
    sig,          \* tasks with a deliverable signal
    io,           \* arguments and locals of a call
    sent,         \* bytes a task has put into the pipe
    span,         \* first byte of a task's last write if that is atomic, or 0
    taken,        \* bytes of a task that were read
    ops, failures, signals

ringVars == <<ring, ptr, sent, span, taken>>
waitVars == <<waiters, notified, write_wakeup>>
endVars  == <<kind, ends, seen>>
pipeBounds == <<ops, failures, signals>>
pipeVars == <<ringVars, waitVars, endVars, polling, sig, io, pipeBounds>>

PipeTasks == PReaders \cup PWriters

\* n, done: of the call; place: the loop it is in; want: the events polled
\* for; min: min_space; copy: the bytes a splice is writing out; why: the
\* reason that ended the sleep.
PipeCalls == [n : Nat, done : Nat,
              place : {"open", "read", "write", "vmsplice", "splice", "close"},
              want : {"in", "out", "any"}, min : Nat, copy : Seq(PWriters \X Nat),
              why : {"ok", "signal"}]
NoCall == [n |-> 0, done |-> 0, place |-> "open", want |-> "any", min |-> 0,
           copy |-> <<>>, why |-> "ok"]

PipePlaces ==
    {"user", "closed", "release", "read", "write", "vmsplice", "splice", "consume", "notify",
     "wprepare", "wcheck", "wblock", "wwait", "pprepare", "ppoll", "pblock", "pwait"}

PipeTypeOK ==
    /\ ring \in Seq([data : Seq(PWriters \X Nat), room : 0 .. PAGE_SIZE])
    /\ Len(ring) <= PIPE_MAX_BUFFERS
    /\ ptr \in 0 .. PIPE_BUFF
    /\ kind \in {"pipe", "fifo"}
    /\ ends \subseteq PipeTasks /\ seen \subseteq PReaders
    /\ waiters \subseteq PWriters /\ notified \subseteq waiters
    /\ write_wakeup \in Nat
    /\ polling \subseteq PipeTasks /\ sig \subseteq PipeTasks
    /\ io \in [PipeTasks -> PipeCalls]
    /\ sent \in [PWriters -> Nat] /\ taken \in [PWriters -> Nat] /\ span \in [PWriters -> Nat]
    /\ \A t \in PipeTasks : at[t] \in PipePlaces /\ sleep[t] \in Sleeps

\* An anonymous pipe after pipe2 and fork, or a FIFO that nobody has opened.
\* Tasks that share the end of a pipe count one by one: the code only asks
\* whether there is one.  The bounds may be used up in part.
PipeInit ==
    /\ sleep = [t \in Tasks |-> "awake"]
    /\ ring = <<>> /\ ptr = 0
    /\ sent = [t \in PWriters |-> 0] /\ taken = [t \in PWriters |-> 0]
    /\ span = [t \in PWriters |-> 0]
    /\ kind \in {"pipe", "fifo"} /\ ends = IF kind = "pipe" THEN Heirs ELSE {}
    /\ at = [t \in Tasks |-> IF t \in PipeTasks /\ t \notin ends THEN "closed" ELSE "user"]
    /\ seen = {}
    /\ waiters = {} /\ notified = {} /\ write_wakeup = 0
    /\ polling = {} /\ sig = {}
    /\ io = [t \in PipeTasks |-> NoCall]
    /\ ops \in 0 .. MaxOps /\ failures \in 0 .. MaxFailures /\ signals \in 0 .. MaxSignals

-----------------------------------------------------------------------------
(* The ring.                                                               *)

read_fds  == Cardinality(ends \cap PReaders)
write_fds == Cardinality(ends \cap PWriters)

Bytes(r) == FlattenSeq([i \in DOMAIN r |-> r[i].data])

\* pipefs_copy_out_locked: r without its first n bytes.
Without(r, n) ==
    LET Before(i) == Len(Bytes(SubSeq(r, 1, i - 1)))
        kept == {i \in DOMAIN r : Before(i) + Len(r[i].data) > n}
        i == Min(kept)
    IN  IF kept = {} THEN <<>>
        ELSE <<[r[i] EXCEPT !.data = SubSeq(@, n - Before(i) + 1, Len(@))]>>
             \o SubSeq(r, i + 1, Len(r))

\* pipefs_append_page_locked with a page of the caller or of the pipe.
Page(d)  == [data |-> d, room |-> PAGE_SIZE - Len(d)]
Slice(d) == [data |-> d, room |-> 0]

\* pipefs_ring_write_locked: the room in the last page is used first, then
\* "pages" new ones.
Filled(r, d) == IF r = <<>> THEN 0 ELSE Min({Len(d), Last(r).room})
PagesFor(r, d) == (Len(d) - Filled(r, d) + PAGE_SIZE - 1) \div PAGE_SIZE
pipefs_ring_write_locked(r, d, pages) ==
    LET k == Filled(r, d)
        merged == IF k = 0 THEN r
                  ELSE [r EXCEPT ![Len(r)].data = @ \o SubSeq(d, 1, k), ![Len(r)].room = @ - k]
    IN  merged \o [i \in 1 .. pages |->
                      Page(SubSeq(d, k + (i - 1) * PAGE_SIZE + 1,
                                  Min({Len(d), k + i * PAGE_SIZE})))]

\* The next n bytes of t.
Fresh(t, n) == [i \in 1 .. n |-> <<t, sent[t] + i>>]

\* The bytes in b count as read.
Taken(b) == taken' = [t \in PWriters |-> taken[t] + Cardinality({i \in DOMAIN b : b[i][1] = t})]

-----------------------------------------------------------------------------
(* Waking: pipefs_wake_writers_locked, vfs_poll_notify_inode.              *)

\* pipefs_recompute_write_wakeup_locked
Wakeup(W) == IF W = {} THEN 0 ELSE Min({io[t].min : t \in W})

\* The waiters that are told of p used bytes.
Told(p, force) ==
    IF force THEN waiters \ notified
    ELSE IF write_wakeup = 0 \/ PIPE_BUFF - p < write_wakeup THEN {}
    ELSE {t \in waiters \ notified : PIPE_BUFF - p >= io[t].min}

pipefs_wake_writers_locked(p, force) ==
    /\ notified' = notified \cup Told(p, force)
    /\ task_unblock(Told(p, force))
    /\ write_wakeup' = IF Told(p, force) = {} THEN write_wakeup
                       ELSE Wakeup(waiters \ (notified \cup Told(p, force)))
    /\ UNCHANGED waiters

\* An entry for "any" matches everything, and so does a hangup.
Asked(ev) == {t \in polling : ev = "any" \/ io[t].want \in {ev, "any"}}

\* Return of a call; a signal is handled on the way to user mode.
Done(t) == io' = [io EXCEPT ![t] = NoCall] /\ sig' = sig \ {t}

\* Where a call is after a round that brought it to "done" bytes.
Onward(t, done) == IF done < io[t].n THEN io[t].place ELSE "user"

\* A round ends: with a notification, in the next round, or with the call.
RoundEnds(t, from, done, tell) ==
    /\ Goto(t, from, IF tell THEN "notify" ELSE Onward(t, done))
    /\ IF tell \/ done < io[t].n
       THEN io' = [io EXCEPT ![t].done = done, ![t].copy = <<>>] /\ UNCHANGED sig
       ELSE Done(t)

Fails(t, from) == Goto(t, from, "user") /\ Done(t)

Start(t, place, n) ==
    /\ Goto(t, "user", place)
    /\ ops < MaxOps /\ ops' = ops + 1
    /\ io' = [io EXCEPT ![t] = [NoCall EXCEPT !.n = n, !.place = place]]
    /\ UNCHANGED <<sleep, ring, ptr, sent, taken, waitVars, endVars, polling, sig,
                   failures, signals>>

-----------------------------------------------------------------------------
(* pipefs_read and pipe_read_inner.                                        *)

pipefs_read(t, n) == t \in PReaders /\ Start(t, "read", n) /\ UNCHANGED span

\* Mutant: writers are told of the space that was free before the read.
ReadDataTellsLate(t) ==
    LET n == Min({io[t].n - io[t].done, ptr}) IN
    /\ at[t] = "read" /\ ptr > 0
    /\ ring' = Without(ring, n) /\ ptr' = ptr - n
    /\ Taken(SubSeq(Bytes(ring), 1, n))
    /\ pipefs_wake_writers_locked(ptr, FALSE)
    /\ RoundEnds(t, "read", io[t].done + n, ptr = PIPE_BUFF)
    /\ UNCHANGED <<sent, span, endVars, polling, pipeBounds>>

\* There is data; a poller is notified if the pipe was full.
ReadData(t) ==
    LET n == Min({io[t].n - io[t].done, ptr}) IN
    /\ at[t] = "read" /\ ptr > 0
    /\ ring' = Without(ring, n) /\ ptr' = ptr - n
    /\ Taken(SubSeq(Bytes(ring), 1, n))
    /\ pipefs_wake_writers_locked(ptr - n, FALSE)
    /\ RoundEnds(t, "read", io[t].done + n, ptr = PIPE_BUFF)
    /\ UNCHANGED <<sent, span, endVars, polling, pipeBounds>>

\* End of file, or nothing left after some data; pipefs_splice_to as well.
ReadEnds(t) ==
    /\ at[t] \in {"read", "splice"} /\ ptr = 0
    /\ write_fds = 0 \/ io[t].done > 0
    /\ Fails(t, at[t])
    /\ UNCHANGED <<sleep, ringVars, waitVars, endVars, polling, pipeBounds>>

ReadWaits(t) ==
    /\ at[t] \in {"read", "splice"} /\ ptr = 0
    /\ write_fds > 0 /\ io[t].done = 0
    /\ Goto(t, at[t], "pprepare")
    /\ io' = [io EXCEPT ![t].want = "in"]
    /\ UNCHANGED <<sleep, ringVars, waitVars, endVars, polling, sig, pipeBounds>>

-----------------------------------------------------------------------------
(* pipefs_splice_to, to a file that is not a pipe.                         *)

pipefs_splice_to(t, n) == t \in PReaders /\ Start(t, "splice", n) /\ UNCHANGED span

\* The first buffer is copied; it is written out without the lock.
SpliceOut(t) ==
    LET n == Min({io[t].n - io[t].done, Len(ring[1].data)}) IN
    /\ ptr > 0
    /\ Goto(t, "splice", "consume")
    /\ io' = [io EXCEPT ![t].copy = SubSeq(ring[1].data, 1, n)]
    /\ UNCHANGED <<sleep, ringVars, waitVars, endVars, polling, sig, pipeBounds>>

\* Mutant: the whole buffer is taken off that was copied.
ConsumeBuffer(r, n) == Tail(r)

\* pipefs_buffer_consume_locked on what is the first buffer by now.
pipefs_buffer_consume_locked(r, n) ==
    IF n >= Len(r[1].data) THEN Tail(r)
    ELSE [r EXCEPT ![1].data = SubSeq(@, n + 1, Len(@))]

\* n bytes were written; fewer than asked for end the call.
SpliceConsume(t, n) ==
    LET r == IF ring = <<>> THEN ring ELSE pipefs_buffer_consume_locked(ring, n)
        p == ptr - (Len(Bytes(ring)) - Len(Bytes(r)))
    IN
    /\ Goto(t, "consume", "notify") /\ n \in 1 .. Len(io[t].copy)
    /\ ring' = r /\ ptr' = p
    /\ Taken(SubSeq(io[t].copy, 1, n))
    /\ pipefs_wake_writers_locked(p, FALSE)
    /\ io' = [io EXCEPT ![t].done = @ + n, ![t].copy = <<>>,
                        ![t].n = IF n < Len(io[t].copy) THEN io[t].done + n ELSE @]
    /\ UNCHANGED <<sent, span, endVars, polling, sig, pipeBounds>>

SpliceFails(t) ==
    /\ Fails(t, "consume")
    /\ UNCHANGED <<sleep, ringVars, waitVars, endVars, polling, pipeBounds>>

ReadStep(t) ==
    \/ (\E n \in ReadSizes : pipefs_read(t, n)) \/ (\E n \in SpliceSizes : pipefs_splice_to(t, n))
    \/ ReadData(t) \/ ReadEnds(t) \/ ReadWaits(t) \/ SpliceOut(t)
    \/ SpliceFails(t) \/ \E n \in 1 .. PAGE_SIZE : SpliceConsume(t, n)

-----------------------------------------------------------------------------
(* pipefs_write and pipe_write_inner.                                      *)

Atomic(t) == io[t].n <= PIPE_ATOMIC_MAX
Left(t)   == io[t].n - io[t].done

pipefs_write(t, n) ==
    /\ t \in PWriters /\ Start(t, "write", n)
    /\ span' = [span EXCEPT ![t] = IF n <= PIPE_ATOMIC_MAX THEN sent[t] + 1 ELSE 0]

\* Nobody reads: SIGPIPE and EPIPE; pipefs_splice_from_user as well.
WriteBroken(t) ==
    /\ at[t] \in {"write", "vmsplice"} /\ read_fds = 0
    /\ Fails(t, at[t])
    /\ UNCHANGED <<sleep, ringVars, waitVars, endVars, polling, pipeBounds>>

Room(t) == IF Atomic(t) THEN PIPE_BUFF - ptr >= Left(t) ELSE PIPE_BUFF - ptr > 0

\* Readers are told when the pipe was empty.
TellsReaders(old) == old = 0

\* Pages may be missing, and so may slots; without any byte it is ENOMEM.
WriteData(t, pages) ==
    LET d == Fresh(t, Min({Left(t), PIPE_BUFF - ptr}))
        most == Min({PagesFor(ring, d), PIPE_MAX_BUFFERS - Len(ring)})
        r == pipefs_ring_write_locked(ring, d, pages)
        n == Len(Bytes(r)) - Len(Bytes(ring))
    IN
    /\ at[t] = "write" /\ read_fds > 0 /\ Room(t)
    /\ \/ pages = most /\ UNCHANGED failures
       \/ pages < most /\ failures < MaxFailures /\ failures' = failures + 1
    /\ ring' = r /\ ptr' = ptr + n
    /\ sent' = [sent EXCEPT ![t] = @ + n]
    /\ span' = IF n < Len(d) THEN [span EXCEPT ![t] = 0] ELSE span
    /\ IF n = 0 THEN Fails(t, "write")
                ELSE RoundEnds(t, "write", io[t].done + n, TellsReaders(ptr))
    /\ UNCHANGED <<sleep, taken, waitVars, endVars, polling, ops, signals>>

WaitForSpace(t) ==
    /\ Goto(t, "write", "wprepare")
    /\ read_fds > 0 /\ ~Room(t)
    /\ io' = [io EXCEPT ![t].min = IF Atomic(t) THEN Left(t) ELSE PIPE_WRITE_BATCH,
                        ![t].why = "ok"]
    /\ UNCHANGED <<sleep, ringVars, waitVars, endVars, polling, sig, pipeBounds>>

\* pipefs_wait_write_space.
SpacePrepare(t) ==
    /\ Goto(t, "wprepare", "wcheck") /\ task_prepare_block(t)
    /\ UNCHANGED pipeVars

SpaceCheck(t) ==
    /\ IF read_fds = 0 \/ PIPE_BUFF - ptr >= io[t].min
       THEN /\ Goto(t, "wcheck", "write") /\ task_cancel_block_prepare(t)
            /\ UNCHANGED waitVars
       ELSE /\ Goto(t, "wcheck", "wblock")
            /\ waiters' = waiters \cup {t}
            /\ write_wakeup' = IF write_wakeup = 0 THEN io[t].min
                               ELSE Min({write_wakeup, io[t].min})
            /\ UNCHANGED <<sleep, notified>>
    /\ UNCHANGED <<ringVars, endVars, polling, sig, io, pipeBounds>>

SpaceBlock(t) ==
    /\ Goto(t, "wblock", "wwait") /\ t \notin sig
    /\ task_block(t)
    /\ UNCHANGED pipeVars

\* The waiter leaves the list after its sleep, or at once for a signal.
SpaceLeave(t) ==
    LET interrupted == t \in sig /\ (at[t] = "wblock" \/ io[t].why = "signal") IN
    /\ \/ at[t] = "wwait" /\ sleep[t] = "awake"
       \/ at[t] = "wblock" /\ t \in sig
    /\ waiters' = waiters \ {t} /\ notified' = notified \ {t}
    /\ write_wakeup' = Wakeup(waiters' \ notified')
    /\ task_cancel_block_prepare(t)
    /\ IF interrupted THEN Fails(t, at[t])
       ELSE Goto(t, at[t], "write") /\ UNCHANGED <<io, sig>>
    /\ UNCHANGED <<ringVars, endVars, polling, pipeBounds>>

-----------------------------------------------------------------------------
(* pipefs_splice_from_user: pages of the caller become buffers.            *)

pipefs_splice_from_user(t, n) ==
    /\ t \in PWriters /\ Start(t, "vmsplice", n)
    /\ span' = [span EXCEPT ![t] = 0]

NoSlot == ptr >= PIPE_BUFF \/ Len(ring) >= PIPE_MAX_BUFFERS

\* A buffer of k bytes; where the pages of the caller begin decides on k.
SpliceIn(t, k) ==
    LET n == Min({k, PIPE_BUFF - ptr}) IN
    /\ at[t] = "vmsplice" /\ read_fds > 0 /\ ~NoSlot
    /\ k \in 1 .. Min({Left(t), PAGE_SIZE})
    /\ ring' = Append(ring, Slice(Fresh(t, n))) /\ ptr' = ptr + n
    /\ sent' = [sent EXCEPT ![t] = @ + n]
    /\ RoundEnds(t, "vmsplice", io[t].done + n, TellsReaders(ptr))
    /\ UNCHANGED <<sleep, span, taken, waitVars, endVars, polling, pipeBounds>>

SpliceFull(t) ==
    /\ at[t] = "vmsplice" /\ read_fds > 0 /\ NoSlot
    /\ IF io[t].done > 0 THEN Fails(t, "vmsplice")
       ELSE /\ Goto(t, "vmsplice", "pprepare")
            /\ io' = [io EXCEPT ![t].want = "out"] /\ UNCHANGED sig
    /\ UNCHANGED <<sleep, ringVars, waitVars, endVars, polling, pipeBounds>>

WriteStep(t) ==
    \/ (\E n \in WriteSizes : pipefs_write(t, n))
    \/ (\E n \in SpliceSizes : pipefs_splice_from_user(t, n))
    \/ WriteBroken(t) \/ WaitForSpace(t) \/ \E pages \in 0 .. PIPE_MAX_BUFFERS : WriteData(t, pages)
    \/ SpacePrepare(t) \/ SpaceCheck(t) \/ SpaceBlock(t) \/ SpaceLeave(t)
    \/ SpliceFull(t) \/ \E k \in 1 .. PAGE_SIZE : SpliceIn(t, k)

-----------------------------------------------------------------------------
(* vfs_poll_wait_interruptible, and the same loop in pipefs_named_open.    *)

\* vfs_poll_notify_inode, after the lock is given up.
Notify(t) ==
    LET place == io[t].place IN
    /\ Goto(t, "notify", CASE place = "open"  -> "pprepare"
                           [] place = "close" -> "closed"
                           [] OTHER           -> Onward(t, io[t].done))
    /\ task_unblock(Asked(CASE place \in {"open", "close"} -> "any"
                            [] t \in PReaders              -> "out"
                            [] OTHER                       -> "in"))
    /\ IF at'[t] \in {"user", "closed"} THEN Done(t) ELSE UNCHANGED <<io, sig>>
    /\ UNCHANGED <<ringVars, waitVars, endVars, polling, pipeBounds>>

PollPrepare(t) ==
    /\ Goto(t, "pprepare", "ppoll") /\ task_prepare_block(t)
    /\ polling' = polling \cup {t}
    /\ io' = [io EXCEPT ![t].why = "ok"]
    /\ UNCHANGED <<ringVars, waitVars, endVars, sig, pipeBounds>>

\* pipefs_poll_mask_locked, and the test for a peer in open.
Ready(t) ==
    CASE io[t].want = "in"  -> ptr > 0 \/ (write_fds = 0 /\ t \in seen)
      [] io[t].want = "out" -> read_fds = 0 \/ ptr < PIPE_BUFF
      [] OTHER              -> IF t \in PReaders THEN write_fds > 0 ELSE read_fds > 0

\* Both note that there is a writer.
NoteWriter(t) == seen' = IF t \in PReaders /\ write_fds > 0 THEN seen \cup {t} ELSE seen

\* vfs_poll_wait_table_cleanup.
PollCleanup(t) == polling' = polling \ {t} /\ task_cancel_block_prepare(t)

PollEnds(t) ==
    LET to == IF io[t].place = "open" THEN "user" ELSE io[t].place IN
    /\ Ready(t) /\ Goto(t, "ppoll", to)
    /\ NoteWriter(t) /\ PollCleanup(t)
    /\ IF to = "user" THEN Done(t) ELSE UNCHANGED <<io, sig>>
    /\ UNCHANGED <<ringVars, waitVars, kind, ends, pipeBounds>>

PollNotReady(t) ==
    /\ ~Ready(t) /\ t \notin sig
    /\ Goto(t, "ppoll", "pblock")
    /\ NoteWriter(t)
    /\ UNCHANGED <<sleep, ringVars, waitVars, kind, ends, polling, sig, io, pipeBounds>>

PollBlock(t) ==
    /\ Goto(t, "pblock", "pwait") /\ task_block(t)
    /\ UNCHANGED pipeVars

\* An open that is interrupted releases the end again.
PollInterrupted(t) ==
    /\ t \in sig
    /\ \/ at[t] = "ppoll" /\ ~Ready(t)
       \/ at[t] = "pwait" /\ sleep[t] = "awake" /\ io[t].why = "signal"
    /\ IF io[t].place = "open" THEN Goto(t, at[t], "release") /\ UNCHANGED <<io, sig>>
                               ELSE Fails(t, at[t])
    /\ IF at[t] = "ppoll" THEN NoteWriter(t) ELSE UNCHANGED seen
    /\ PollCleanup(t)
    /\ UNCHANGED <<ringVars, waitVars, kind, ends, pipeBounds>>

PollAgain(t) ==
    /\ Goto(t, "pwait", "pprepare") /\ sleep[t] = "awake"
    /\ ~(t \in sig /\ io[t].why = "signal")
    /\ PollCleanup(t)
    /\ UNCHANGED <<ringVars, waitVars, endVars, sig, io, pipeBounds>>

PollLoop(t) ==
    \/ Notify(t) \/ PollPrepare(t) \/ PollEnds(t) \/ PollNotReady(t) \/ PollBlock(t)
    \/ PollInterrupted(t) \/ PollAgain(t)

-----------------------------------------------------------------------------
(* The ends, and signals.                                                  *)

\* Mutant: the open does not notify the other side.
OpenSilently(t) ==
    /\ kind = "fifo"
    /\ Goto(t, "closed", "pprepare")
    /\ ends' = ends \cup {t}
    /\ seen' = IF write_fds > 0 THEN seen \cup ({t} \cap PReaders) ELSE seen \ {t}
    /\ io' = [io EXCEPT ![t] = [NoCall EXCEPT !.place = "open"]]
    /\ UNCHANGED <<sleep, ringVars, waitVars, kind, polling, sig, pipeBounds>>

pipefs_named_open(t) ==
    /\ kind = "fifo"
    /\ Goto(t, "closed", "notify")
    /\ ends' = ends \cup {t}
    /\ seen' = IF write_fds > 0 THEN seen \cup ({t} \cap PReaders) ELSE seen \ {t}
    /\ io' = [io EXCEPT ![t] = [NoCall EXCEPT !.place = "open"]]
    /\ UNCHANGED <<sleep, ringVars, waitVars, kind, polling, sig, pipeBounds>>

pipefs_release(t) ==
    /\ at[t] \in {"user", "release"} /\ Goto(t, at[t], "notify")
    /\ ends' = ends \ {t}
    /\ IF ends' \cap PReaders = {} THEN pipefs_wake_writers_locked(ptr, TRUE)
                                   ELSE UNCHANGED <<sleep, waitVars>>
    /\ io' = [io EXCEPT ![t] = [NoCall EXCEPT !.place = "close"]]
    /\ UNCHANGED <<ringVars, kind, seen, polling, sig, pipeBounds>>

\* A signal for a task in a call; the first wake gives the reason.
Interrupt(t) ==
    /\ at[t] \notin {"user", "closed"} /\ t \notin sig
    /\ signals < MaxSignals /\ signals' = signals + 1
    /\ sig' = sig \cup {t}
    /\ task_unblock({t})
    /\ io' = IF sleep[t] \in {"prepared", "asleep"} THEN [io EXCEPT ![t].why = "signal"] ELSE io
    /\ UNCHANGED <<at, ringVars, waitVars, endVars, polling, ops, failures>>

PipeNext ==
    \E t \in PipeTasks :
        ReadStep(t) \/ WriteStep(t) \/ PollLoop(t)
        \/ pipefs_named_open(t) \/ pipefs_release(t) \/ Interrupt(t)

PipeSpec == PipeInit /\ [][PipeNext]_<<at, sleep, pipeVars>>

-----------------------------------------------------------------------------
PipeAsleep(t, place) == at[t] = place /\ sleep[t] = "asleep"

\* Somebody is about to notify ev.
WillNotify(ev) ==
    \E u \in PipeTasks :
        /\ at[u] = "notify"
        /\ \/ io[u].place \in {"open", "close"}
           \/ ev = "in" /\ u \in PWriters
           \/ ev = "out" /\ u \in PReaders

\* A task sleeps in read or splice only while the pipe is empty, and does
\* not sleep on when the last writer it has noted is gone, except for a
\* notification that is on its way: readers are told only by the write that
\* finds the pipe empty.
NoLostData ==
    \A t \in PReaders :
        PipeAsleep(t, "pwait") /\ io[t].want = "in" =>
            \/ ptr = 0 /\ (write_fds > 0 \/ t \notin seen)
            \/ WillNotify("in")

\* A writer that sleeps for space, and was not notified, really has too
\* little of it, and a reader that may make some: each read, splice, wake of
\* another writer, interrupted waiter and close keeps this.  A splice sleeps
\* only on a full pipe.
NoLostRoom ==
    \A t \in PWriters :
        /\ PipeAsleep(t, "wwait") =>
               t \notin notified /\ read_fds > 0 /\ PIPE_BUFF - ptr < io[t].min
        /\ PipeAsleep(t, "pwait") /\ io[t].want = "out" =>
               (ptr = PIPE_BUFF /\ read_fds > 0) \/ WillNotify("out")

\* write_wakeup is the least space that a waiter who was not notified needs,
\* so that the test before the scan never skips one; and ptr counts the
\* bytes of the buffers, of which none is empty.
WakeupExact ==
    /\ write_wakeup = Wakeup(waiters \ notified)
    /\ ptr = Len(Bytes(ring))
    /\ \A i \in DOMAIN ring : ring[i].data # <<>>

\* The pipe is a byte stream: what is in it continues what was read of each
\* writer, without a gap, whatever pages were merged, cut or taken over, and
\* although a splice takes off a buffer that may have grown since the copy.
StreamOrder ==
    \A t \in PWriters :
        SelectSeq(Bytes(ring), LAMBDA b : b[1] = t)
            = [i \in 1 .. sent[t] - taken[t] |-> <<t, taken[t] + i>>]

\* A write of at most PIPE_ATOMIC_MAX bytes enters the pipe as a whole: no
\* task finds the lock free while a part of it is there, and its bytes are
\* not mixed with those of others, unless a page or a slot was missing.
AtomicWrites ==
    \A t \in PWriters :
        LET b == Bytes(ring)
            mine == {i \in DOMAIN b : b[i][1] = t /\ b[i][2] >= span[t]}
        IN  span[t] > 0 => /\ io[t].done \in {0, io[t].n}
                           /\ \A i, j \in mine : \A k \in i .. j : k \in mine

\* Two opens of a FIFO from opposite sides meet: nobody sleeps in open while
\* the other end is open, once the notification has arrived.
OpenMeets ==
    \A t \in PipeTasks :
        PipeAsleep(t, "pwait") /\ io[t].place = "open" =>
            (IF t \in PReaders THEN write_fds = 0 ELSE read_fds = 0) \/ WillNotify("in")

\* A reader that went to sleep because there was a writer sees it go: the
\* comment on seen_writer calls POLLHUP the sign that "a writer which was
\* visible to this open file description has gone away".
EndOfFileSeen ==
    \A t \in PReaders :
        PipeAsleep(t, "pwait") /\ io[t].place = "read" => write_fds > 0 \/ WillNotify("in")

\* Nobody sleeps on a pipe that has what it waits for, and the threshold that
\* decides whether the writers are looked at is exact.
NoPipeStall == NoLostData /\ NoLostRoom /\ WakeupExact

\* The pipe is a byte stream with atomic small writes.
StreamSound == PipeTypeOK /\ StreamOrder /\ AtomicWrites

=============================================================================
