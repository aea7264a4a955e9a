------------------------------- MODULE Futex -------------------------------
(***************************************************************************)
(* Futexes (kernel/src/task/futex.c): hash buckets with a lock and a chain *)
(* of waiters, FUTEX_WAIT and FUTEX_WAKE with bitsets, timeouts and        *)
(* signals, FUTEX_WAKE_OP, FUTEX_REQUEUE and FUTEX_CMP_REQUEUE, which take *)
(* two buckets, FUTEX_LOCK_PI and FUTEX_UNLOCK_PI, and what an exiting     *)
(* task does to its futexes.                                               *)
(*                                                                         *)
(* User words change without any lock.  A waiter's struct futex_wait is on *)
(* its stack; its bucket_id changes when the waiter is requeued, so every  *)
(* later look at it reads the id, locks that bucket and compares again.    *)
(* The sleep of a task is the abstraction of TaskBlock that WaitQueue uses *)
(* as well.  A step that takes and releases a bucket lock needs it free;   *)
(* sections that look at a user word more than once hold it over steps.    *)
(***************************************************************************)
EXTENDS Integers, Sequences, FiniteSets

CONSTANTS
    Tasks,
    Events,   \* words that users change and then wake
    OpWords,  \* words that FUTEX_WAKE_OP changes
    Locks,    \* words of PI locks
    Bucket,   \* futex_bucket_id_for_key
    FUTEX_BUCKET_COUNT,
    BitSets,  \* the bitsets callers pass
    Counts,   \* the numbers of tasks to wake or to requeue
    Ops,      \* the operations each task calls
    Signalled, \* the tasks that receive signals
    MaxCalls, \* bound on the number of system calls
    Died,     \* FUTEX_OWNER_DIED
    None

Words   == Events \cup OpWords
Addrs   == Words \cup Locks
Buckets == {Bucket[a] : a \in Addrs}
Vals    == {0, 1}
AllBits == UNION BitSets
All     == Cardinality(Tasks)   \* INT32_MAX

ASSUME FutexAssumption ==
    /\ IsFiniteSet(Tasks)
    /\ FUTEX_BUCKET_COUNT \in Nat
    /\ Bucket \in [Addrs -> 0 .. FUTEX_BUCKET_COUNT - 1]
    /\ Counts \subseteq Nat
    /\ {} \notin BitSets
    /\ MaxCalls \in Nat
    /\ None \notin Tasks \cup Addrs
    /\ Died \notin Tasks \cup {None}

VARIABLES
    word,      \* the words that are not locks
    owner,     \* the words of locks: None is 0
    chain,     \* futex_buckets[]: the waiters of each bucket in order
    lock,      \* holder of a bucket lock over several steps
    queued,    \* waiters with queued set
    key,       \* key of a waiter
    bucket_id, \* bucket_id of a waiter
    bits,      \* bitset of a waiter
    sleep,     \* block_preparing, wake_pending and state of a task
    status,    \* the reason of its last wake
    sigs,      \* tasks with a deliverable signal
    sigwake,   \* tasks that the sender of a signal is about to wake
    at,        \* where a task is
    call,      \* its system call
    woken,     \* waiters that a wake took off a chain (history)
    moved,     \* waiters that were requeued (history)
    calls      \* system calls so far

chainVars == <<chain, queued, key, bucket_id, bits>>
sleepVars == <<sleep, status>>
sigVars   == <<sigs, sigwake>>
histVars  == <<woken, moved, calls>>
vars == <<word, owner, chainVars, lock, sleepVars, sigVars, at, call, histVars>>

OpNames == {"wait", "timed", "store", "wake", "wakeop", "requeue", "cmprequeue",
            "lockpi", "timedpi", "unlockpi", "exit"}
Results == {"none", "ok", "EAGAIN", "EINTR", "ETIMEDOUT"}

\* Arguments and locals of a call: uaddr, uaddr2, the expected or the new
\* value, bitset, val and val2, the bucket just read and the result to
\* return if the waiter is still queued.
Calls == [op : OpNames \cup {"none"}, a : Addrs \cup {None}, a2 : Addrs \cup {None},
          val : Vals, bits : SUBSET AllBits, nr : Nat, nr2 : Nat,
          b : Nat, res : Results]
NoCall == [op |-> "none", a |-> None, a2 |-> None, val |-> 0,
           bits |-> {}, nr |-> 0, nr2 |-> 0, b |-> 0, res |-> "none"]

Places == {"user", "failed", "lock", "check", "poll", "polllock", "test", "block", "sleep",
           "prepare", "leave", "leavelock", "wake", "first", "second", "both",
           "write", "move", "pi", "take", "release", "dead"}
WaitPlaces == {"poll", "polllock", "test", "block", "sleep", "prepare", "leave",
               "leavelock"}
LockPlaces == {"check", "take", "second", "both", "write", "move"}

TypeOK ==
    /\ word \in [Words -> Vals]
    /\ owner \in [Locks -> Tasks \cup {None, Died}]
    /\ chain \in [Buckets -> Seq(Tasks)]
    /\ lock \in [Buckets -> Tasks \cup {None}]
    /\ \A b \in Buckets : lock[b] # None => at[lock[b]] \in LockPlaces
    /\ queued \in SUBSET Tasks
    /\ key \in [Tasks -> Addrs \cup {None}]
    /\ bucket_id \in [Tasks -> Nat]
    /\ bits \in [Tasks -> SUBSET AllBits]
    /\ sleep \in [Tasks -> {"awake", "prepared", "pending", "asleep"}]
    /\ status \in [Tasks -> {"EOK", "EINTR", "ETIMEDOUT"}]
    /\ sigs \in SUBSET Tasks /\ sigwake \in SUBSET Tasks
    /\ at \in [Tasks -> Places]
    /\ call \in [Tasks -> Calls]
    /\ woken \in SUBSET Tasks
    /\ moved \in SUBSET Tasks
    /\ calls \in Nat

Init ==
    /\ word = [a \in Words |-> 0]
    /\ owner = [l \in Locks |-> None]
    /\ chain = [b \in Buckets |-> <<>>]
    /\ lock = [b \in Buckets |-> None]
    /\ queued = {}
    /\ key = [t \in Tasks |-> None]
    /\ bucket_id = [t \in Tasks |-> 0]
    /\ bits = [t \in Tasks |-> {}]
    /\ sleep = [t \in Tasks |-> "awake"]
    /\ status = [t \in Tasks |-> "EOK"]
    /\ sigs = {} /\ sigwake = {}
    /\ at = [t \in Tasks |-> "user"]
    /\ call = [t \in Tasks |-> NoCall]
    /\ woken = {}
    /\ moved = {}
    /\ calls = 0

-----------------------------------------------------------------------------
Goto(t, from, to) == at[t] = from /\ at' = [at EXCEPT ![t] = to]
Free(b) == lock[b] = None

\* A task enters a system call.
Enter(t, op, place, args) ==
    /\ op \in Ops[t] /\ calls < MaxCalls
    /\ calls' = calls + 1
    /\ at[t] \in {"user", "failed"}
    /\ at' = [at EXCEPT ![t] = place]
    /\ call' = [call EXCEPT ![t] = [args EXCEPT !.op = op]]

\* A task leaves a call with 0 or an error.
Return(t, res) ==
    /\ at' = [at EXCEPT ![t] = IF res = "ok" THEN "user" ELSE "failed"]
    /\ call' = [call EXCEPT ![t] = NoCall]

\* The struct futex_wait goes with the stack frame.
Forget(t) ==
    /\ key' = [key EXCEPT ![t] = None]
    /\ bucket_id' = [bucket_id EXCEPT ![t] = 0]
    /\ bits' = [bits EXCEPT ![t] = {}]
    /\ woken' = woken \ {t}
    /\ moved' = moved \ {t}
    /\ UNCHANGED calls

-----------------------------------------------------------------------------
(* futex_wake_locked.                                                      *)

\* The first nr waiters of the chain with this key and a common bit.
WakeList(b, a, mask, nr) ==
    LET match == SelectSeq(chain[b], LAMBDA t : key[t] = a /\ bits[t] \cap mask # {})
    IN  {match[i] : i \in {j \in DOMAIN match : j <= nr}}

Without(seq, S) == SelectSeq(seq, LAMBDA t : t \notin S)

\* task_unblock_prepare of the tasks S, and the finish after the unlock.
Unblock(S, reason) ==
    /\ sleep' = [t \in Tasks |->
                    CASE t \in S /\ sleep[t] = "asleep"   -> "awake"
                      [] t \in S /\ sleep[t] = "prepared" -> "pending"
                      [] OTHER                            -> sleep[t]]
    /\ status' = [t \in Tasks |->
                     IF t \in S /\ sleep[t] # "awake" THEN reason ELSE status[t]]

Wake(S) ==
    /\ queued' = queued \ S
    /\ woken' = woken \cup S
    /\ Unblock(S, "EOK")

-----------------------------------------------------------------------------
(* FUTEX_WAIT and FUTEX_WAIT_BITSET: sys_futex_wait and futex_wait_poll.   *)

\* The first look at the word, before the bucket is locked.
WaitCall(t, op, a, v, mask) ==
    /\ word[a] = v
    /\ Enter(t, op, "lock", [NoCall EXCEPT !.a = a, !.val = v, !.bits = mask])
    /\ UNCHANGED <<word, owner, chainVars, lock, sleepVars, sigVars, woken, moved>>

\* Mutant: the word is not read again under the lock.
WaitLockBlind(t) ==
    LET b == Bucket[call[t].a] IN
    /\ at[t] = "lock" /\ Free(b)
    /\ Goto(t, "lock", "check") /\ lock' = [lock EXCEPT ![b] = t]
    /\ UNCHANGED <<word, owner, chainVars, sleepVars, sigVars, call, histVars>>

\* The bucket is locked and the word read again.
WaitLock(t) ==
    LET b == Bucket[call[t].a] IN
    /\ at[t] = "lock" /\ Free(b)
    /\ IF word[call[t].a] = call[t].val
       THEN /\ Goto(t, "lock", "check") /\ lock' = [lock EXCEPT ![b] = t]
            /\ UNCHANGED call
       ELSE Return(t, "EAGAIN") /\ UNCHANGED lock
    /\ UNCHANGED <<word, owner, chainVars, sleepVars, sigVars, histVars>>

\* Is the deadline of the call over?  Time is left open.
Expires(t) == call[t].op \in {"timed", "timedpi"}
IsPi(t)    == call[t].op \in {"lockpi", "timedpi"}

\* Still under the lock: give up, or prepare and queue.  LOCK_PI does the
\* same with a lock that is taken.
WaitEnqueue(t) ==
    LET b == Bucket[call[t].a] IN
    /\ at[t] = "check"
    /\ lock' = [lock EXCEPT ![b] = None]
    /\ \/ /\ \/ Expires(t) /\ Return(t, "ETIMEDOUT")
             \/ t \in sigs /\ Return(t, "EINTR")
          /\ UNCHANGED <<chainVars, sleepVars>>
       \/ /\ t \notin sigs
          /\ Goto(t, "check", "poll")
          /\ chain' = [chain EXCEPT ![b] = Append(@, t)]
          /\ queued' = queued \cup {t}
          /\ key' = [key EXCEPT ![t] = call[t].a]
          /\ bucket_id' = [bucket_id EXCEPT ![t] = b]
          /\ bits' = [bits EXCEPT ![t] = call[t].bits]
          /\ sleep' = [sleep EXCEPT ![t] = "prepared"]
          /\ status' = [status EXCEPT ![t] = "EOK"]
          /\ UNCHANGED call
    /\ UNCHANGED <<word, owner, sigVars, histVars>>

\* futex_lock_wait_bucket: read the id; the lock comes later.
ReadBucket(t, from, to) ==
    /\ Goto(t, from, to)
    /\ call' = [call EXCEPT ![t].b = bucket_id[t]]
    /\ UNCHANGED <<word, owner, chainVars, lock, sleepVars, sigVars, histVars>>

Poll(t)  == ReadBucket(t, "poll", "polllock")
Leave(t) == ReadBucket(t, "leave", "leavelock")

\* futex_wait_poll returns; LOCK_PI tries again if it was woken.
Leaves(t, res) ==
    /\ Forget(t)
    /\ sleep' = [sleep EXCEPT ![t] = "awake"]
    /\ status' = [status EXCEPT ![t] = "EOK"]
    /\ IF IsPi(t) /\ res = "ok"
       THEN /\ at' = [at EXCEPT ![t] = "pi"]
            /\ call' = [call EXCEPT ![t].b = 0, ![t].res = "none"]
       ELSE Return(t, res)

\* The id has to be the same under the lock.
Requeued(t) == bucket_id[t] # call[t].b

PollLock(t) ==
    /\ at[t] = "polllock" /\ Free(call[t].b)
    /\ \/ /\ Requeued(t)
          /\ Goto(t, "polllock", "poll")
          /\ UNCHANGED <<chainVars, sleepVars, call, histVars>>
       \/ /\ ~Requeued(t) /\ t \notin queued
          /\ Leaves(t, "ok")
          /\ UNCHANGED <<chain, queued>>
       \/ /\ ~Requeued(t) /\ t \in queued
          /\ Goto(t, "polllock", "test")
          /\ UNCHANGED <<chainVars, sleepVars, call, histVars>>
    /\ UNCHANGED <<word, owner, lock, sigVars>>

\* The caller gives up with res unless a waker was faster.
GiveUp(t, from, res) ==
    /\ Goto(t, from, "leave")
    /\ call' = [call EXCEPT ![t].res = res]

\* A signal, then the deadline; then sleep.
Test(t) ==
    /\ \/ t \in sigs /\ GiveUp(t, "test", "EINTR")
       \/ t \notin sigs /\ Expires(t) /\ GiveUp(t, "test", "ETIMEDOUT")
       \/ t \notin sigs /\ Goto(t, "test", "block") /\ UNCHANGED call
    /\ UNCHANGED <<word, owner, chainVars, lock, sleepVars, sigVars, histVars>>

\* task_block: a recorded wake ends it at once.
Block(t) ==
    /\ Goto(t, "block", "sleep")
    /\ sleep' = [sleep EXCEPT ![t] = IF @ = "pending" THEN "awake" ELSE "asleep"]
    /\ status' = [status EXCEPT ![t] = IF sleep[t] = "pending" THEN @ ELSE "EOK"]
    /\ UNCHANGED <<word, owner, chainVars, lock, sigVars, call, histVars>>

\* task_block returns the reason of the wake.
Awake(t) ==
    /\ at[t] = "sleep" /\ sleep[t] = "awake"
    /\ CASE status[t] = "ETIMEDOUT"                -> GiveUp(t, "sleep", "ETIMEDOUT")
         [] status[t] = "EINTR" /\ t \in sigs      -> GiveUp(t, "sleep", "EINTR")
         [] OTHER -> Goto(t, "sleep", "prepare") /\ UNCHANGED call
    /\ UNCHANGED <<word, owner, chainVars, lock, sleepVars, sigVars, histVars>>

\* The next round of the loop.
Prepare(t) ==
    /\ Goto(t, "prepare", "poll")
    /\ sleep' = [sleep EXCEPT ![t] = "prepared"]
    /\ status' = [status EXCEPT ![t] = "EOK"]
    /\ UNCHANGED <<word, owner, chainVars, lock, sigVars, call, histVars>>

\* Mutant: the waiter does not ask whether it was still queued.
LeaveLockBlind(t) ==
    /\ at[t] = "leavelock" /\ Free(call[t].b)
    /\ chain' = [chain EXCEPT ![call[t].b] = Without(@, {t})]
    /\ queued' = queued \ {t}
    /\ Leaves(t, call[t].res)
    /\ UNCHANGED <<word, owner, lock, sigVars>>

\* futex_dequeue_from_bucket_locked: the result is EOK for a waiter that a
\* waker has removed already.
LeaveLock(t) ==
    /\ at[t] = "leavelock" /\ Free(call[t].b)
    /\ IF Requeued(t)
       THEN /\ Goto(t, "leavelock", "leave")
            /\ UNCHANGED <<chainVars, sleepVars, call, histVars>>
       ELSE /\ chain' = [chain EXCEPT ![call[t].b] = Without(@, {t})]
            /\ queued' = queued \ {t}
            /\ Leaves(t, IF t \in queued THEN call[t].res ELSE "ok")
    /\ UNCHANGED <<word, owner, lock, sigVars>>

-----------------------------------------------------------------------------
(* FUTEX_WAKE and FUTEX_WAKE_BITSET.                                       *)

WakeCall(t, a, nr, mask) ==
    /\ Enter(t, "wake", "wake", [NoCall EXCEPT !.a = a, !.nr = nr, !.bits = mask])
    /\ UNCHANGED <<word, owner, chainVars, lock, sleepVars, sigVars, woken, moved>>

\* A user changes a word and then wakes all who wait for it.
Store(t, a) ==
    /\ Enter(t, "store", "wake", [NoCall EXCEPT !.a = a, !.nr = All, !.bits = AllBits])
    /\ word' = [word EXCEPT ![a] = 1 - @]
    /\ UNCHANGED <<owner, chainVars, lock, sleepVars, sigVars, woken, moved>>

sys_futex_wake_key(t) ==
    LET b == Bucket[call[t].a]
        list == WakeList(b, call[t].a, call[t].bits, call[t].nr)
    IN
    /\ at[t] = "wake" /\ Free(b)
    /\ chain' = [chain EXCEPT ![b] = Without(@, list)]
    /\ Wake(list)
    /\ at' = [at EXCEPT ![t] = IF call[t].op = "exit" THEN "dead" ELSE "user"]
    /\ call' = [call EXCEPT ![t] = NoCall]
    /\ UNCHANGED <<word, owner, key, bucket_id, bits, lock, sigVars, moved, calls>>

-----------------------------------------------------------------------------
(* Two buckets: FUTEX_WAKE_OP, FUTEX_REQUEUE and FUTEX_CMP_REQUEUE.        *)

Pair(t) == {Bucket[call[t].a], Bucket[call[t].a2]}

\* Mutant: the buckets are locked in the order of the arguments.
FirstOfArguments(t) == Bucket[call[t].a]

\* futex_lock_bucket_pair: the lower id first.
First(t)  == CHOOSE b \in Pair(t) : \A c \in Pair(t) : b <= c
Second(t) == IF Pair(t) = {First(t)} THEN First(t)
             ELSE CHOOSE b \in Pair(t) : b # First(t)

PairCall(t, op, a, a2, v, nr, nr2) ==
    /\ op = "cmprequeue" => word[a] = v
    /\ Enter(t, op, "first", [NoCall EXCEPT !.a = a, !.a2 = a2, !.val = v, !.nr = nr,
                                            !.nr2 = nr2])
    /\ UNCHANGED <<word, owner, chainVars, lock, sleepVars, sigVars, woken, moved>>

LockFirst(t) ==
    /\ at[t] = "first" /\ Free(First(t))
    /\ Goto(t, "first", IF Second(t) = First(t) THEN "both" ELSE "second")
    /\ lock' = [lock EXCEPT ![First(t)] = t]
    /\ UNCHANGED <<word, owner, chainVars, sleepVars, sigVars, call, histVars>>

LockSecond(t) ==
    /\ at[t] = "second" /\ Free(Second(t))
    /\ Goto(t, "second", "both")
    /\ lock' = [lock EXCEPT ![Second(t)] = t]
    /\ UNCHANGED <<word, owner, chainVars, sleepVars, sigVars, call, histVars>>

\* futex_unlock_bucket_pair
UnlockPair(t) == lock' = [b \in Buckets |-> IF b \in Pair(t) THEN None ELSE lock[b]]

\* FUTEX_WAKE_OP reads uaddr2; whether the comparison with the old value
\* calls for the second wake is known from then on.
OpRead(t) ==
    /\ call[t].op = "wakeop" /\ Goto(t, "both", "write")
    /\ call' = [call EXCEPT ![t].nr2 = IF word[call[t].a2] = call[t].val THEN @ ELSE 0]
    /\ UNCHANGED <<word, owner, chainVars, lock, sleepVars, sigVars, histVars>>

\* It writes the new value and wakes on both words.
OpWrite(t) ==
    LET list == WakeList(Bucket[call[t].a], call[t].a, AllBits, call[t].nr)
                \cup WakeList(Bucket[call[t].a2], call[t].a2, AllBits, call[t].nr2)
    IN
    /\ at[t] = "write"
    /\ \E v \in Vals : word' = [word EXCEPT ![call[t].a2] = v]
    /\ chain' = [b \in Buckets |-> Without(chain[b], list)]
    /\ Wake(list)
    /\ UnlockPair(t)
    /\ Return(t, "ok")
    /\ UNCHANGED <<owner, key, bucket_id, bits, sigVars, moved, calls>>

\* FUTEX_CMP_REQUEUE compares under the locks, FUTEX_REQUEUE does not.
RequeueCheck(t) ==
    /\ call[t].op \in {"requeue", "cmprequeue"}
    /\ IF call[t].op = "requeue" \/ word[call[t].a] = call[t].val
       THEN Goto(t, "both", "move") /\ UNCHANGED <<lock, call>>
       ELSE at[t] = "both" /\ UnlockPair(t) /\ Return(t, "EAGAIN")
    /\ UNCHANGED <<word, owner, chainVars, sleepVars, sigVars, histVars>>

\* The waiters that stay after the wake and are moved, in order.
MoveList(t, list) ==
    LET rest == SelectSeq(chain[Bucket[call[t].a]],
                          LAMBDA u : u \notin list /\ key[u] = call[t].a)
    IN  SubSeq(rest, 1, IF call[t].nr2 < Len(rest) THEN call[t].nr2 ELSE Len(rest))

\* Mutant: futex_enqueue_locked does not set the bucket of the waiter.
NewBucketKept(t, moves) == UNCHANGED bucket_id

NewBucket(t, moves) ==
    bucket_id' = [u \in Tasks |-> IF u \in moves THEN Bucket[call[t].a2] ELSE bucket_id[u]]

RequeueMove(t) ==
    LET from  == Bucket[call[t].a]
        to    == Bucket[call[t].a2]
        list  == WakeList(from, call[t].a, AllBits, call[t].nr)
        seq   == MoveList(t, list)
        moves == {seq[i] : i \in DOMAIN seq}
    IN
    /\ at[t] = "move"
    /\ chain' = IF from = to
                THEN [chain EXCEPT ![from] = Without(@, list)]
                ELSE [chain EXCEPT ![from] = Without(@, list \cup moves), ![to] = @ \o seq]
    /\ key' = [u \in Tasks |-> IF u \in moves THEN call[t].a2 ELSE key[u]]
    /\ NewBucket(t, moves)
    /\ Wake(list)
    /\ moved' = moved \cup moves
    /\ UnlockPair(t)
    /\ Return(t, "ok")
    /\ UNCHANGED <<word, owner, bits, sigVars, calls>>

-----------------------------------------------------------------------------
(* FUTEX_LOCK_PI and FUTEX_UNLOCK_PI, by callers without a fast path.      *)

PiCall(t, op, l) ==
    /\ owner[l] # t
    /\ Enter(t, op, "pi", [NoCall EXCEPT !.a = l, !.bits = AllBits])
    /\ UNCHANGED <<word, owner, chainVars, lock, sleepVars, sigVars, woken, moved>>

\* The word is read under the lock: take it, or queue (WaitEnqueue).
PiLock(t) ==
    LET b == Bucket[call[t].a] IN
    /\ at[t] = "pi" /\ Free(b)
    /\ Goto(t, "pi", IF owner[call[t].a] = None THEN "take" ELSE "check")
    /\ lock' = [lock EXCEPT ![b] = t]
    /\ UNCHANGED <<word, owner, chainVars, sleepVars, sigVars, call, histVars>>

PiTake(t) ==
    /\ at[t] = "take"
    /\ owner' = [owner EXCEPT ![call[t].a] = t]
    /\ lock' = [lock EXCEPT ![Bucket[call[t].a]] = None]
    /\ Return(t, "ok")
    /\ UNCHANGED <<word, chainVars, sleepVars, sigVars, histVars>>

UnlockCall(t, l) ==
    /\ owner[l] = t
    /\ Enter(t, "unlockpi", "release", [NoCall EXCEPT !.a = l])
    /\ UNCHANGED <<word, owner, chainVars, lock, sleepVars, sigVars, woken, moved>>

\* Mutant: the word is cleared and nobody woken, as FUTEX_WAITERS is not set.
PiReleaseQuiet(t) ==
    /\ at[t] = "release" /\ Free(Bucket[call[t].a]) /\ owner[call[t].a] = t
    /\ owner' = [owner EXCEPT ![call[t].a] = None]
    /\ Return(t, "ok")
    /\ UNCHANGED <<word, chainVars, lock, sleepVars, sigVars, histVars>>

\* The word is cleared and one waiter woken, which competes with others.
PiRelease(t) ==
    LET l == call[t].a
        list == WakeList(Bucket[l], l, AllBits, 1)
    IN
    /\ at[t] = "release" /\ Free(Bucket[l]) /\ owner[l] = t
    /\ owner' = [owner EXCEPT ![l] = None]
    /\ chain' = [chain EXCEPT ![Bucket[l]] = Without(@, list)]
    /\ Wake(list)
    /\ Return(t, "ok")
    /\ UNCHANGED <<word, key, bucket_id, bits, lock, sigVars, moved, calls>>

-----------------------------------------------------------------------------
\* futex_on_exit_task: entries leave the chains, robust locks are marked,
\* the tid word is cleared and its waiters, who join the task, are woken.
futex_on_exit_task(t, a) ==
    /\ Enter(t, "exit", "wake", [NoCall EXCEPT !.a = a, !.nr = All, !.bits = AllBits])
    /\ chain' = [b \in Buckets |-> Without(chain[b], {t})]
    /\ queued' = queued \ {t}
    /\ owner' = [l \in Locks |-> IF owner[l] = t THEN Died ELSE owner[l]]
    /\ word' = [word EXCEPT ![a] = 0]
    /\ sigs' = sigs \ {t}
    /\ UNCHANGED <<key, bucket_id, bits, lock, sleepVars, sigwake, woken, moved>>

\* task_commit_signal by someone else: the signal is pending first, and the
\* task is woken, if it sleeps or is about to, in a later step.
SendSignal(t) ==
    /\ t \notin sigs \cup sigwake /\ at[t] # "dead"
    /\ calls < MaxCalls
    /\ sigs' = sigs \cup {t}
    /\ sigwake' = sigwake \cup {t}
    /\ calls' = calls + 1
    /\ UNCHANGED <<word, owner, chainVars, lock, sleepVars, at, call, woken, moved>>

signal_wake_interruptible_task(t) ==
    /\ t \in sigwake
    /\ sigwake' = sigwake \ {t}
    /\ Unblock({t}, "EINTR")
    /\ UNCHANGED <<word, owner, chainVars, lock, sigs, at, call, histVars>>

HandleSignal(t) ==
    /\ at[t] \in {"user", "failed"} /\ t \in sigs
    /\ sigs' = sigs \ {t}
    /\ UNCHANGED <<word, owner, chainVars, lock, sleepVars, sigwake, at, call, histVars>>

\* The deadline of task_block (sched_check_wakeup).
Timeout(t) ==
    /\ Expires(t) /\ sleep[t] = "asleep"
    /\ Unblock({t}, "ETIMEDOUT")
    /\ UNCHANGED <<word, owner, chainVars, lock, sigVars, at, call, histVars>>

-----------------------------------------------------------------------------
UserStep(t) ==
    \/ \E a \in Words, v \in Vals : \/ \E m \in BitSets : WaitCall(t, "wait", a, v, m)
                                   \/ WaitCall(t, "timed", a, v, AllBits)
    \/ \E a \in Words, nr \in Counts, m \in BitSets : WakeCall(t, a, nr, m)
    \/ \E a \in Events : Store(t, a) \/ futex_on_exit_task(t, a)
    \/ \E a \in Events, a2 \in OpWords, v \in Vals, nr, nr2 \in Counts :
          PairCall(t, "wakeop", a, a2, v, nr, nr2)
    \/ \E a, a2 \in Words, nr, nr2 \in Counts :
          /\ a # a2
          /\ \/ PairCall(t, "requeue", a, a2, 0, nr, nr2)
             \/ \E v \in Vals : PairCall(t, "cmprequeue", a, a2, v, nr, nr2)
    \/ \E l \in Locks : PiCall(t, "lockpi", l) \/ PiCall(t, "timedpi", l) \/ UnlockCall(t, l)

KernelStep(t) ==
    \/ WaitLock(t) \/ WaitEnqueue(t) \/ Poll(t) \/ PollLock(t) \/ Test(t) \/ Block(t)
    \/ Awake(t) \/ Prepare(t) \/ Leave(t) \/ LeaveLock(t)
    \/ sys_futex_wake_key(t) \/ LockFirst(t) \/ LockSecond(t) \/ OpRead(t) \/ OpWrite(t)
    \/ RequeueCheck(t) \/ RequeueMove(t) \/ PiLock(t) \/ PiTake(t) \/ PiRelease(t)
    \/ Timeout(t)

Next ==
    \/ \E t \in Tasks : UserStep(t) \/ KernelStep(t) \/ HandleSignal(t)
    \/ \E t \in Signalled : SendSignal(t) \/ signal_wake_interruptible_task(t)

Spec == Init /\ [][Next]_vars

-----------------------------------------------------------------------------
\* The chains and the waiters agree, requeued waiters included: a waiter is
\* in the chain of its bucket_id, once and in no other, exactly while queued
\* is set, its key belongs there, and its struct is still on the stack.
ChainsMatch ==
    /\ TypeOK
    /\ \A t \in Tasks, b \in Buckets :
          Cardinality({i \in DOMAIN chain[b] : chain[b][i] = t}) =
              IF t \in queued /\ bucket_id[t] = b THEN 1 ELSE 0
    /\ \A t \in queued : at[t] \in WaitPlaces /\ Bucket[key[t]] = bucket_id[t]

\* FUTEX_WAIT does not miss a change of the word: a waiter that is queued for
\* a word that no longer has the value it was called with is going to be
\* reached by the wake of whoever changed it.
NoLostWake ==
    \A t \in queued \ moved :
        key[t] \in Events /\ word[key[t]] # call[t].val =>
            \E u \in Tasks : /\ at[u] = "wake" /\ call[u].a = key[t]
                             /\ call[u].op \in {"store", "exit"}

\* No wake is swallowed: a wait returns 0, or LOCK_PI tries again, exactly
\* when a wake has taken the waiter off its chain, even if a signal or the
\* timeout came at the same time.
WakesAreKept ==
    [][\A t \in Tasks :
          at[t] \in WaitPlaces /\ at'[t] \notin WaitPlaces =>
              (t \in woken <=> (at'[t] \in {"pi", "user"}))]_vars

\* A free PI lock does not have sleepers only: one who was woken, or who has
\* just found it free, is on the way to take it.
NoPiStall ==
    \A t \in queued :
        key[t] \in Locks /\ owner[key[t]] = None =>
            \E u \in Tasks : /\ IsPi(u) /\ call[u].a = key[t]
                             /\ at[u] \in {"pi", "take"} \/ u \in woken

\* Calls that lock two buckets do not wait for each other: of the tasks that
\* hold bucket locks one can always go on.
NoBucketDeadlock ==
    (\E b \in Buckets : lock[b] # None) =>
        \E b \in Buckets : /\ lock[b] # None
                           /\ at[lock[b]] # "second" \/ Free(Second(lock[b]))

=============================================================================
