------------------------------- MODULE Epoll -------------------------------
(***************************************************************************)
(* Event counters, epoll and poll (kernel/src/fs/syscall/eventfd.c,        *)
(* epoll.c, poll.c and the poll wait tables of kernel/src/fs/vfs/          *)
(* vfs_file.c).  One epoll file watches event counters for input.          *)
(*                                                                         *)
(* A notification of an inode advances its poll_seq and wakes the entries  *)
(* of its poll_wait queue.  A task that waits has sampled poll_seq before  *)
(* it tested the file; "moved" holds the tasks for which a sampled         *)
(* poll_seq has advanced since.  The entry of an epoll watch is a callback *)
(* that runs under the lock of the counter's queue, puts the watch into    *)
(* the ready list and notifies the inode of the epoll file.  epoll_wait    *)
(* walks the ready list under epoll->lock, which the callback does not     *)
(* take: the two meet in ready_lock and in last_ready_events, which has no *)
(* lock at all.                                                            *)
(*                                                                         *)
(* A step that takes and releases a lock needs it free.  The scan of a     *)
(* queue for sleeping tasks is one step here; WaitQueue has its batches.   *)
(* With one epoll file, epoll_watch_lifecycle_lock is only taken together  *)
(* with epoll->lock and has no variable of its own.                        *)
(***************************************************************************)
EXTENDS Blocking, Naturals, Sequences, FiniteSets

CONSTANTS
    Files,      \* event counters
    Waiters,    \* tasks in epoll_wait, which then read what was reported
    Pollers,    \* tasks that poll() the epoll file
    Writers,    \* tasks that write to the counters and may block
    Ctls,       \* tasks that call epoll_ctl or close
    Modes,      \* what a watch is registered with
    Values,     \* the values written
    UINT64_MAX,
    maxevents,
    MaxWrites,  \* bound on the number of writes
    MaxCtls,    \* bound on the calls of epoll_ctl and close
    Ep,         \* the inode of the epoll file
    Nobody      \* holder of a free lock

VARIABLES
    count,   \* efd->count
    fds,     \* whether a descriptor refers to the counter (f_fd_refs > 0)
    watch,   \* the epoll_watch of a counter
    ready,   \* epoll->ready_watches
    elock,   \* holder of epoll->lock
    fqlock,  \* holder of the lock of a counter's poll_wait queue
    queue,   \* tasks with an entry in the poll_wait queue of an inode
    wakeseq, \* wake_seq of a counter's queue
    moved,   \* tasks for which a sampled poll_seq has changed
    job,     \* arguments and locals of a task's call
    writes, ctls

lockVars  == <<elock, fqlock>>
tableVars == <<queue, moved>>
boundVars == <<writes, ctls>>
epollVars == <<count, fds, watch, ready, lockVars, tableVars, wakeseq, job, boundVars>>

EpollTasks == Waiters \cup Pollers \cup Writers \cup Ctls
Inodes == Files \cup {Ep}

\* queued is ready_queued, last says whether last_ready_events has EPOLLIN,
\* seq is the wake_seq of the wait entry.
Watches == [on : BOOLEAN, armed : BOOLEAN, mode : {"level", "edge", "oneshot"},
            queued : BOOLEAN, last : BOOLEAN, disabled : BOOLEAN, seq : Nat]
NoWatch == [on |-> FALSE, armed |-> FALSE, mode |-> "level", queued |-> FALSE,
            last |-> FALSE, disabled |-> FALSE, seq |-> 0]

\* f, v: the counter and the value; ev: the events of a notification and seq
\* its wake_seq; tab: the inodes of the wait table; hit: what a poll of f
\* said; seen, requeue, got: the loop of epoll_collect_ready_locked; op and
\* mode: of epoll_ctl; res: how the test of the file ended.
Jobs == [f : Files \cup {Nobody}, v : Nat, ev : {"in", "out"}, seq : Nat,
         tab : SUBSET Inodes, hit : BOOLEAN, seen : SUBSET Files,
         requeue : Seq(Files), got : SUBSET Files,
         op : {"none", "add", "mod", "del", "close"},
         mode : {"level", "edge", "oneshot"}, res : {"none", "ready", "busy"}]
NoJob == [f |-> Nobody, v |-> 0, ev |-> "in", seq |-> 0, tab |-> {},
          hit |-> FALSE, seen |-> {}, requeue |-> <<>>, got |-> {},
          op |-> "none", mode |-> "level", res |-> "none"]

EpollPlaces ==
    {"user", "prepare", "sample", "add", "test", "block", "wait", "cleanup",
     "collect", "pop", "poll", "judge", "keep", "record", "ppoll", "pscan",
     "write", "nseq", "wseq", "scan", "mark", "eseq", "ewake",
     "ctl", "disarm", "arm", "cpoll", "free", "close"}

EpollTypeOK ==
    /\ count \in [Files -> 0 .. UINT64_MAX - 1]
    /\ fds \in [Files -> {"open", "closed"}]
    /\ watch \in [Files -> Watches]
    /\ ready \in Seq(Files)
    /\ elock \in Tasks \cup {Nobody}
    /\ fqlock \in [Files -> Tasks \cup {Nobody}]
    /\ queue \in [Inodes -> SUBSET Tasks]
    /\ wakeseq \in [Files -> Nat]
    /\ moved \in SUBSET Tasks
    /\ job \in [Tasks -> Jobs]
    /\ \A t \in EpollTasks : at[t] \in EpollPlaces /\ sleep[t] \in Sleeps
    /\ writes \in 0 .. MaxWrites /\ ctls \in 0 .. MaxCtls

\* Nothing is watched; the bounds may be used up in part.
EpollStart ==
    /\ count = [f \in Files |-> 0]
    /\ fds = [f \in Files |-> "open"]
    /\ watch = [f \in Files |-> NoWatch]
    /\ ready = <<>>
    /\ elock = Nobody /\ fqlock = [f \in Files |-> Nobody]
    /\ queue = [i \in Inodes |-> {}]
    /\ wakeseq = [f \in Files |-> 0]
    /\ moved = {}
    /\ job = [t \in Tasks |-> NoJob]
    /\ writes \in 0 .. MaxWrites /\ ctls \in 0 .. MaxCtls

EpollInit == BlockingInit /\ EpollStart

-----------------------------------------------------------------------------
\* t gives up the locks it holds.
Release(t) ==
    /\ elock' = IF elock = t THEN Nobody ELSE elock
    /\ fqlock' = [f \in Files |-> IF fqlock[f] = t THEN Nobody ELSE fqlock[f]]

QueueFree(i) == i \in Files => fqlock[i] = Nobody

\* poll_seq of an inode advances: the tasks that sampled it will see that.
Advance(i) == moved' = moved \cup {t \in Tasks : i \in job[t].tab}

\* epoll_watch_mark_ready, under ready_lock.
Marked(f, w, r) == IF w[f].queued THEN [w |-> w, r |-> r]
                   ELSE [w |-> [w EXCEPT ![f].queued = TRUE], r |-> Append(r, f)]

-----------------------------------------------------------------------------
(* The wait table: vfs_poll_wait_table_init, vfs_poll_table_queue_proc,    *)
(* vfs_poll_wait_table_seq_changed and vfs_poll_wait_table_cleanup, as     *)
(* vfs_poll_wait_interruptible, do_poll and do_epoll_wait use them.        *)

\* The inode a task waits on first.
Target(t) == IF t \in Writers THEN job[t].f ELSE Ep

\* Waiters and pollers start a call, or go round their loop.
epoll_wait(t) ==
    /\ t \in Waiters \cup Pollers
    /\ job[t] = NoJob
    /\ Goto(t, "user", "sample") /\ task_prepare_block(t)
    /\ UNCHANGED epollVars

\* Mutant: the wait table is set up without task_prepare_block.
PrepareNot(t) == Goto(t, "prepare", "sample") /\ UNCHANGED <<sleep, epollVars>>

Prepare(t) ==
    /\ Goto(t, "prepare", "sample") /\ task_prepare_block(t)
    /\ UNCHANGED epollVars

Sample(t) ==
    /\ Goto(t, "sample", "add")
    /\ job' = [job EXCEPT ![t].tab = {Target(t)}]
    /\ moved' = moved \ {t}
    /\ UNCHANGED <<sleep, count, fds, watch, ready, lockVars, queue, wakeseq, boundVars>>

Add(t) ==
    /\ Goto(t, "add", CASE t \in Waiters -> "collect"
                        [] t \in Pollers -> "ppoll"
                        [] OTHER         -> "poll")
    /\ QueueFree(Target(t))
    /\ queue' = [queue EXCEPT ![Target(t)] = @ \cup {t}]
    /\ UNCHANGED <<sleep, count, fds, watch, ready, lockVars, moved, wakeseq, job, boundVars>>

\* vfs_poll_wait_table_seq_changed before the sleep.
Test(t) ==
    /\ Goto(t, "test", IF t \in moved THEN "cleanup" ELSE "block")
    /\ UNCHANGED <<sleep, epollVars>>

Block(t) ==
    /\ Goto(t, "block", "wait") /\ task_block(t)
    /\ UNCHANGED epollVars

Return(t) ==
    /\ Goto(t, "wait", "cleanup") /\ sleep[t] = "awake"
    /\ UNCHANGED <<sleep, epollVars>>

\* The entries leave their queues, then the preparation is cancelled.
Cleanup(t) ==
    /\ Goto(t, "cleanup", CASE t \notin Writers       -> "user"
                            [] job[t].res = "ready" -> "write"
                            [] OTHER                -> "prepare")
    /\ \A i \in job[t].tab : QueueFree(i)
    /\ queue' = [i \in Inodes |-> queue[i] \ {t}]
    /\ task_cancel_block_prepare(t)
    /\ job' = [job EXCEPT ![t] = IF t \in Writers
                                 THEN [NoJob EXCEPT !.f = job[t].f, !.v = job[t].v]
                                 ELSE [NoJob EXCEPT !.got = job[t].got]]
    /\ moved' = moved \ {t}
    /\ UNCHANGED <<count, fds, watch, ready, lockVars, wakeseq, boundVars>>

TableStep(t) ==
    \/ epoll_wait(t) \/ Prepare(t) \/ Sample(t) \/ Add(t) \/ Test(t) \/ Block(t)
    \/ Return(t) \/ Cleanup(t)

-----------------------------------------------------------------------------
(* epoll_collect_ready_locked for epoll_wait, under epoll->lock.           *)

Collect(t) ==
    /\ Goto(t, "collect", "pop")
    /\ elock = Nobody /\ elock' = t
    /\ UNCHANGED <<sleep, count, fds, watch, ready, fqlock, tableVars, wakeseq, job, boundVars>>

\* A watch that came back into the list during this call is set aside.
PopSeen(t) ==
    /\ at[t] = "pop" /\ ready # <<>> /\ Cardinality(job[t].got) < maxevents
    /\ Head(ready) \in job[t].seen
    /\ ready' = Tail(ready)
    /\ job' = [job EXCEPT ![t].requeue = Append(@, Head(ready))]
    /\ UNCHANGED <<at, sleep, count, fds, watch, lockVars, tableVars, wakeseq, boundVars>>

PopFirst(t) ==
    LET f == Head(ready) IN
    /\ ready # <<>> /\ Cardinality(job[t].got) < maxevents
    /\ f \notin job[t].seen
    /\ Goto(t, "pop", IF watch[f].disabled THEN "pop" ELSE "poll")
    /\ ready' = Tail(ready)
    /\ watch' = [watch EXCEPT ![f].queued = FALSE]
    /\ job' = [job EXCEPT ![t].seen = @ \cup {f}, ![t].f = f]
    /\ UNCHANGED <<sleep, count, fds, lockVars, tableVars, wakeseq, boundVars>>

CollectEnd(t) ==
    /\ Goto(t, "pop", IF job[t].got = {} THEN "test" ELSE "cleanup")
    /\ ready = <<>> \/ Cardinality(job[t].got) >= maxevents
    /\ ready' = ready \o job[t].requeue
    /\ job' = [job EXCEPT ![t].requeue = <<>>]
    /\ Release(t)
    /\ UNCHANGED <<sleep, count, fds, watch, tableVars, wakeseq, boundVars>>

\* eventfdfs_poll: for a watch, EPOLLIN; for a blocked writer, EPOLLOUT.
eventfdfs_poll(f, ev) == IF ev = "in" THEN count[f] > 0 ELSE count[f] < UINT64_MAX - 1

Poll(t) ==
    /\ t \in Waiters
    /\ Goto(t, "poll", "judge")
    /\ job' = [job EXCEPT ![t].hit = eventfdfs_poll(job[t].f, "in")]
    /\ UNCHANGED <<sleep, count, fds, watch, ready, lockVars, tableVars, wakeseq, boundVars>>

\* An edge-triggered watch reports what was not there last time.
Changed(f, hit) == hit /\ ~watch[f].last

Judge(t) ==
    LET f == job[t].f IN
    /\ Goto(t, "judge", IF watch[f].mode = "edge" /\ ~Changed(f, job[t].hit)
                        THEN "keep" ELSE "record")
    /\ UNCHANGED <<sleep, epollVars>>

Keep(t) ==
    /\ Goto(t, "keep", "pop")
    /\ watch' = [watch EXCEPT ![job[t].f].last = job[t].hit]
    /\ UNCHANGED <<sleep, count, fds, ready, lockVars, tableVars, wakeseq, job, boundVars>>

\* Mutant: a level-triggered watch is not put back.
RecordOnce(t) ==
    LET f == job[t].f IN
    /\ Goto(t, "record", "pop")
    /\ watch' = [watch EXCEPT ![f].last = job[t].hit,
                              ![f].disabled = @ \/ (job[t].hit /\ watch[f].mode = "oneshot")]
    /\ job' = [job EXCEPT ![t].got = IF job[t].hit THEN @ \cup {f} ELSE @]
    /\ UNCHANGED <<sleep, count, fds, ready, lockVars, tableVars, wakeseq, boundVars>>

\* An event is reported; a one-shot watch is disabled, a level-triggered
\* one goes back into the list.
Record(t) ==
    LET f == job[t].f
        hit == job[t].hit
        w == [watch EXCEPT ![f].last = hit,
                           ![f].disabled = @ \/ (hit /\ watch[f].mode = "oneshot")]
        m == IF hit /\ w[f].mode = "level" THEN Marked(f, w, ready) ELSE [w |-> w, r |-> ready]
    IN
    /\ Goto(t, "record", "pop")
    /\ watch' = m.w /\ ready' = m.r
    /\ job' = [job EXCEPT ![t].got = IF hit THEN @ \cup {f} ELSE @]
    /\ UNCHANGED <<sleep, count, fds, lockVars, tableVars, wakeseq, boundVars>>

CollectStep(t) ==
    \/ Collect(t) \/ PopSeen(t) \/ PopFirst(t) \/ CollectEnd(t) \/ Poll(t)
    \/ Judge(t) \/ Keep(t) \/ Record(t)

-----------------------------------------------------------------------------
(* epollfs_poll, for a task that polls the epoll file.                     *)

\* Another holder of epoll->lock makes it say "not ready".
PollBusy(t) ==
    /\ Goto(t, "ppoll", "test") /\ elock # Nobody
    /\ job' = [job EXCEPT ![t].res = "busy"]
    /\ UNCHANGED <<sleep, count, fds, watch, ready, lockVars, tableVars, wakeseq, boundVars>>

PollReady(t) ==
    /\ Goto(t, "ppoll", "cleanup") /\ elock = Nobody
    /\ ready # <<>>
    /\ UNCHANGED <<sleep, epollVars>>

\* With an empty ready list all watches are looked at, and the task waits
\* on their files as well.
PollWatches(t) ==
    /\ Goto(t, "ppoll", "pscan") /\ elock = Nobody
    /\ ready = <<>>
    /\ elock' = t
    /\ job' = [job EXCEPT ![t].seen = {f \in Files : watch[f].on /\ ~watch[f].disabled}]
    /\ UNCHANGED <<sleep, count, fds, watch, ready, fqlock, tableVars, wakeseq, boundVars>>

PollWatch(t, f) ==
    LET hit == eventfdfs_poll(f, "in")
        ok == IF watch[f].mode = "edge" THEN Changed(f, hit) ELSE hit
    IN
    /\ f \in job[t].seen /\ fqlock[f] = Nobody
    /\ Goto(t, "pscan", IF ok THEN "cleanup" ELSE "pscan")
    /\ job' = [job EXCEPT ![t].seen = @ \ {f}, ![t].tab = @ \cup {f}]
    /\ queue' = [queue EXCEPT ![f] = @ \cup {t}]
    /\ IF ok THEN Release(t) ELSE UNCHANGED lockVars
    /\ UNCHANGED <<sleep, count, fds, watch, ready, moved, wakeseq, boundVars>>

PollEnd(t) ==
    /\ Goto(t, "pscan", "test") /\ job[t].seen = {}
    /\ Release(t)
    /\ UNCHANGED <<sleep, count, fds, watch, ready, tableVars, wakeseq, job, boundVars>>

PollStep(t) ==
    \/ PollBusy(t) \/ PollReady(t) \/ PollWatches(t) \/ PollEnd(t)
    \/ \E f \in Files : PollWatch(t, f)

-----------------------------------------------------------------------------
(* The counter: eventfdfs_write, eventfdfs_read and their notifications.   *)

eventfdfs_write(t, f, v) ==
    /\ t \in Writers /\ fds[f] = "open"
    /\ writes < MaxWrites /\ writes' = writes + 1
    /\ Goto(t, "user", "write")
    /\ job' = [job EXCEPT ![t] = [NoJob EXCEPT !.f = f, !.v = v]]
    /\ UNCHANGED <<sleep, count, fds, watch, ready, lockVars, tableVars, wakeseq, ctls>>

\* The test for overflow of the counter.
Fits(t) == count[job[t].f] <= UINT64_MAX - 1 - job[t].v

WriteValue(t) ==
    /\ Goto(t, "write", "nseq") /\ Fits(t)
    /\ count' = [count EXCEPT ![job[t].f] = @ + job[t].v]
    /\ job' = [job EXCEPT ![t].ev = "in"]
    /\ UNCHANGED <<sleep, fds, watch, ready, lockVars, tableVars, wakeseq, boundVars>>

WriteWaits(t) ==
    /\ Goto(t, "write", "prepare") /\ ~Fits(t)
    /\ UNCHANGED <<sleep, epollVars>>

\* vfs_poll_wait_interruptible asks for EPOLLOUT, whatever the value is.
WritePoll(t) ==
    /\ t \in Writers
    /\ Goto(t, "poll", IF eventfdfs_poll(job[t].f, "out") THEN "cleanup" ELSE "test")
    /\ job' = [job EXCEPT ![t].res = IF eventfdfs_poll(job[t].f, "out") THEN "ready"
                                                                         ELSE "none"]
    /\ UNCHANGED <<sleep, count, fds, watch, ready, lockVars, tableVars, wakeseq, boundVars>>

\* A task that was told of f reads it; for an edge it reads until EAGAIN.
eventfdfs_read(t, f) ==
    LET fails == count[f] = 0 \/ fds[f] = "closed"
        again == ~fails /\ watch[f].mode = "edge"
    IN
    /\ f \in job[t].got
    /\ Goto(t, "user", IF fails THEN "user" ELSE "nseq")
    /\ count' = IF fails THEN count ELSE [count EXCEPT ![f] = 0]
    /\ job' = [job EXCEPT ![t] = [NoJob EXCEPT !.f = IF fails THEN Nobody ELSE f,
                                               !.ev = IF fails THEN "in" ELSE "out",
                                               !.got = IF again THEN job[t].got
                                                                ELSE job[t].got \ {f}]]
    /\ UNCHANGED <<sleep, fds, watch, ready, lockVars, tableVars, wakeseq, boundVars>>

\* vfs_poll_notify_inode: poll_seq first, ...
NotifySeq(t) ==
    /\ Goto(t, "nseq", "wseq") /\ Advance(job[t].f)
    /\ UNCHANGED <<sleep, count, fds, watch, ready, lockVars, queue, wakeseq, job, boundVars>>

\* ... then wait_queue_wake_all, which takes a number ...
WakeSeq(t) ==
    LET f == job[t].f IN
    /\ Goto(t, "wseq", "scan") /\ fqlock[f] = Nobody
    /\ wakeseq' = [wakeseq EXCEPT ![f] = @ + 1]
    /\ job' = [job EXCEPT ![t].seq = wakeseq[f] + 1]
    /\ UNCHANGED <<sleep, count, fds, watch, ready, lockVars, tableVars, boundVars>>

Finished(t) == job' = [job EXCEPT ![t] = [NoJob EXCEPT !.got = job[t].got]]

\* ... and walks the queue.  Sleepers are woken; the callback of a watch
\* starts (epoll_watch_wake) unless a later call has run it already.
Scan(t) ==
    LET f == job[t].f
        asked == {u \in queue[f] : (u \in Writers) = (job[t].ev = "out")}
        callback == job[t].ev = "in" /\ watch[f].armed /\ watch[f].seq < job[t].seq
    IN
    /\ Goto(t, "scan", IF callback THEN "mark" ELSE "user") /\ fqlock[f] = Nobody
    /\ task_unblock(asked)
    /\ IF callback
       THEN /\ fqlock' = [fqlock EXCEPT ![f] = t]
            /\ watch' = [watch EXCEPT ![f].last = FALSE, ![f].seq = job[t].seq]
            /\ UNCHANGED job
       ELSE /\ Finished(t)
            /\ UNCHANGED <<fqlock, watch>>
    /\ UNCHANGED <<count, fds, ready, elock, tableVars, wakeseq, boundVars>>

\* A watch that is in the ready list already needs no notification, but
\* epoll_ctl gives one in any case.
Mark(t) ==
    LET f == job[t].f
        m == Marked(f, watch, ready)
        done == watch[f].queued /\ t \notin Ctls
    IN
    /\ Goto(t, "mark", IF done THEN "user" ELSE "eseq")
    /\ watch' = m.w /\ ready' = m.r
    /\ IF done THEN Finished(t) /\ Release(t) ELSE UNCHANGED <<job, lockVars>>
    /\ UNCHANGED <<sleep, count, fds, tableVars, wakeseq, boundVars>>

EpSeq(t) ==
    /\ Goto(t, "eseq", "ewake") /\ Advance(Ep)
    /\ UNCHANGED <<sleep, count, fds, watch, ready, lockVars, queue, wakeseq, job, boundVars>>

EpWake(t) ==
    /\ Goto(t, "ewake", "user") /\ task_unblock(queue[Ep])
    /\ Finished(t) /\ Release(t)
    /\ UNCHANGED <<count, fds, watch, ready, tableVars, wakeseq, boundVars>>

FileStep(t) ==
    \/ \E f \in Files : eventfdfs_read(t, f) \/ \E v \in Values : eventfdfs_write(t, f, v)
    \/ WriteValue(t) \/ WriteWaits(t) \/ WritePoll(t)
    \/ NotifySeq(t) \/ WakeSeq(t) \/ Scan(t) \/ Mark(t) \/ EpSeq(t) \/ EpWake(t)

-----------------------------------------------------------------------------
(* epoll_ctl and close.                                                    *)

\* The call has looked up the file, which still has a descriptor then.
epoll_ctl(t, op, f, mode) ==
    /\ t \in Ctls /\ fds[f] = "open"
    /\ ctls < MaxCtls /\ ctls' = ctls + 1
    /\ Goto(t, "user", "ctl")
    /\ job' = [job EXCEPT ![t] = [NoJob EXCEPT !.op = op, !.f = f, !.mode = mode]]
    /\ UNCHANGED <<sleep, count, fds, watch, ready, lockVars, tableVars, wakeseq, writes>>

\* Mutant: the number of descriptors is not tested under the lock.
CtlFailsNot(t) == (job[t].op = "add") = watch[job[t].f].on

\* EBADF, EEXIST and ENOENT.
CtlFails(t) ==
    \/ fds[job[t].f] = "closed"
    \/ (job[t].op = "add") = watch[job[t].f].on

CtlRefused(t) ==
    /\ Goto(t, "ctl", "user") /\ elock = Nobody /\ CtlFails(t)
    /\ Finished(t)
    /\ UNCHANGED <<sleep, count, fds, watch, ready, lockVars, tableVars, wakeseq, boundVars>>

CtlLocked(t) ==
    /\ Goto(t, "ctl", IF job[t].op = "add" THEN "arm" ELSE "disarm")
    /\ elock = Nobody /\ ~CtlFails(t)
    /\ elock' = t
    /\ UNCHANGED <<sleep, count, fds, watch, ready, fqlock, tableVars, wakeseq, job, boundVars>>

\* epoll_watch_disarm takes the lock of the queue, under which callbacks run.
Disarm(t) ==
    /\ Goto(t, "disarm", IF job[t].op = "mod" THEN "arm" ELSE "free")
    /\ fqlock[job[t].f] = Nobody
    /\ watch' = [watch EXCEPT ![job[t].f].armed = FALSE]
    /\ UNCHANGED <<sleep, count, fds, ready, lockVars, tableVars, wakeseq, job, boundVars>>

\* The watch is created or changed, and waits for events (again).
Arm(t) ==
    LET f == job[t].f IN
    /\ Goto(t, "arm", "cpoll") /\ fqlock[f] = Nobody
    /\ watch' = [watch EXCEPT ![f] = [NoWatch EXCEPT !.on = TRUE, !.armed = TRUE,
                                                     !.mode = job[t].mode,
                                                     !.queued = watch[f].queued]]
    /\ UNCHANGED <<sleep, count, fds, ready, lockVars, tableVars, wakeseq, job, boundVars>>

\* What happened before the watch was armed is found by a poll of the file.
CtlPoll(t) ==
    LET hit == eventfdfs_poll(job[t].f, "in") IN
    /\ Goto(t, "cpoll", IF hit THEN "mark" ELSE "user")
    /\ IF hit THEN UNCHANGED <<job, lockVars>> ELSE Finished(t) /\ Release(t)
    /\ UNCHANGED <<sleep, count, fds, watch, ready, tableVars, wakeseq, boundVars>>

\* epoll_watch_detach_locked after the disarm, and free.
Free(t) ==
    LET f == job[t].f IN
    /\ Goto(t, "free", "user")
    /\ ready' = SelectSeq(ready, LAMBDA g : g # f)
    /\ watch' = [watch EXCEPT ![f] = NoWatch]
    /\ Finished(t) /\ Release(t)
    /\ UNCHANGED <<sleep, count, fds, tableVars, wakeseq, boundVars>>

\* task_close_file_descriptor: the slot is emptied, ...
close(t, f) ==
    /\ t \in Ctls /\ fds[f] = "open"
    /\ ctls < MaxCtls /\ ctls' = ctls + 1
    /\ Goto(t, "user", "close")
    /\ fds' = [fds EXCEPT ![f] = "closed"]
    /\ job' = [job EXCEPT ![t] = [NoJob EXCEPT !.op = "close", !.f = f]]
    /\ UNCHANGED <<sleep, count, watch, ready, lockVars, tableVars, wakeseq, writes>>

\* ... then epoll_on_close_file detaches the watches of the file.
epoll_on_close_file(t) ==
    LET on == watch[job[t].f].on IN
    /\ Goto(t, "close", IF on THEN "disarm" ELSE "user") /\ elock = Nobody
    /\ IF on THEN elock' = t /\ UNCHANGED job ELSE Finished(t) /\ UNCHANGED elock
    /\ UNCHANGED <<sleep, count, fds, watch, ready, fqlock, tableVars, wakeseq, boundVars>>

CtlStep(t) ==
    \/ \E f \in Files :
          \/ close(t, f)
          \/ epoll_ctl(t, "del", f, "level")
          \/ \E op \in {"add", "mod"}, mode \in Modes : epoll_ctl(t, op, f, mode)
    \/ CtlRefused(t) \/ CtlLocked(t) \/ Disarm(t) \/ Arm(t) \/ CtlPoll(t) \/ Free(t)
    \/ epoll_on_close_file(t)

EpollStep(t) ==
    TableStep(t) \/ CollectStep(t) \/ PollStep(t) \/ FileStep(t) \/ CtlStep(t)

EpollNext == \E t \in EpollTasks : EpollStep(t)

EpollSpec == EpollInit /\ [][EpollNext]_<<at, sleep, epollVars>>

-----------------------------------------------------------------------------
\* Somebody has changed f and is still going to tell the sleepers: through
\* the file's queue, the ready list or the inode of the epoll file.
WillTell(f) ==
    \E t \in Tasks : /\ job[t].f = f /\ job[t].ev = "in"
                     /\ at[t] \in {"nseq", "wseq", "scan", "mark", "eseq", "ewake",
                                   "arm", "cpoll", "free"}

Live(f) == watch[f].on /\ ~watch[f].disabled

\* A task sleeps in epoll_wait only while no level-triggered or one-shot
\* watch has an event, unless somebody is on the way to wake it: whatever
\* the order of writes, collections by other tasks, reads, epoll_ctl calls
\* and callbacks that find the watch in the ready list already.  The same
\* holds of a poll() on the epoll file, with one exception: it found
\* epoll->lock taken.
NoLostEvent ==
    \A t \in Waiters \cup Pollers, f \in Files :
        at[t] = "wait" /\ sleep[t] = "asleep" /\ Live(f) /\ watch[f].mode # "edge"
        => count[f] = 0 \/ WillTell(f) \/ (t \in Pollers /\ job[t].res = "busy")

\* A writer sleeps only while the counter is full or its reader is about to
\* wake it.
NoLostSpace ==
    \A t \in Writers :
        at[t] = "wait" /\ sleep[t] = "asleep"
        => \/ count[job[t].f] = UINT64_MAX - 1
           \/ \E u \in Tasks : /\ job[u].f = job[t].f /\ job[u].ev = "out"
                               /\ at[u] \in {"nseq", "wseq", "scan"}

\* ready_queued says exactly whether a watch is in the ready list or set
\* aside by a collection, and it is there once; the list holds no freed
\* watch.
ReadyListExact ==
    LET aside == [t \in Tasks |-> job[t].requeue]
        Count(s, f) == Cardinality({i \in DOMAIN s : s[i] = f})
    IN
    \A f \in Files :
        LET n == Count(ready, f) + (IF elock = Nobody THEN 0 ELSE Count(aside[elock], f)) IN
        /\ n = (IF watch[f].queued THEN 1 ELSE 0)
        /\ n > 0 => watch[f].on

\* A watch holds no reference to its file: after the last descriptor is
\* closed it is there only until the close has detached it, so the final put
\* never leaves it behind; and a callback never runs on a freed watch.
NoDanglingWatch ==
    /\ \A f \in Files :
          watch[f].on /\ fds[f] = "closed"
          => \E t \in Ctls : /\ job[t].f = f
                             /\ at[t] \in {"close", "disarm", "free"}
                                \/ elock = t
    /\ \A t \in Tasks : at[t] = "mark" => watch[job[t].f].on

\* The watches, the ready list and the files they watch agree.
WatchesExact == EpollTypeOK /\ ReadyListExact /\ NoDanglingWatch

=============================================================================
