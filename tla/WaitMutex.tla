----------------------------- MODULE WaitMutex -----------------------------
(***************************************************************************)
(* The sleeping mutex of kernel/src/task/wait.c.  A lock call tries the    *)
(* flag, queues itself, tries again and sleeps; an unlock call clears the  *)
(* flag and wakes one waiter, which then competes with everybody else.     *)
(***************************************************************************)
EXTENDS WaitQueue

CONSTANTS Spinners,  \* tasks that call with preemption disabled: they spin
          MaxCalls   \* bound on the number of lock calls

ASSUME MutexAssumption ==
    /\ Wakers = Tasks
    /\ Spinners \subseteq Tasks
    /\ MaxCalls \in Nat

VARIABLES holder,  \* Nobody when mutex->locked is false
          pc,      \* where a task is in its lock or unlock call
          calls    \* lock calls made so far

vars == <<queueVars, holder, pc, calls>>

TypeOK ==
    /\ QueueTypeOK
    /\ holder \in Tasks \cup {Nobody}
    /\ pc \in [Tasks -> {"out", "try", "prepare", "add", "retry", "block", "wait",
                         "remove", "cancel", "in", "wake"}]
    /\ calls \in 0 .. MaxCalls

Init ==
    /\ QueueInit
    /\ holder = Nobody
    /\ pc = [t \in Tasks |-> "out"]
    /\ calls = 0

Goto(t, from, to) == pc[t] = from /\ pc' = [pc EXCEPT ![t] = to]

Call(t) ==
    /\ calls < MaxCalls
    /\ Goto(t, "out", "try")
    /\ calls' = calls + 1
    /\ UNCHANGED <<queueVars, holder>>

\* Mutant: the exchange is not compared with the expected value.
TrylockBlind(t, from, got, failed) ==
    /\ Goto(t, from, got) /\ holder' = t
    /\ UNCHANGED <<queueVars, calls>>

\* wait_mutex_trylock, and where the caller goes with its result.
wait_mutex_trylock(t, from, got, failed) ==
    /\ \/ holder = Nobody /\ Goto(t, from, got) /\ holder' = t
       \/ holder # Nobody /\ Goto(t, from, failed) /\ UNCHANGED holder
    /\ UNCHANGED <<queueVars, calls>>

Try(t) == wait_mutex_trylock(t, "try", "in", IF t \in Spinners THEN "try" ELSE "prepare")

Prepare(t) ==
    /\ Goto(t, "prepare", "add") /\ task_prepare_block(t)
    /\ UNCHANGED <<entries, entry_seq, wake_seq, qlock, call, holder, calls>>

Add(t) ==
    /\ Goto(t, "add", "retry") /\ wait_queue_add(t)
    /\ UNCHANGED <<sleep, wake_seq, qlock, call, holder, calls>>

\* Mutant: the flag is not looked at again once the entry is queued.
NoRetry(t) ==
    /\ Goto(t, "retry", "block")
    /\ UNCHANGED <<queueVars, holder, calls>>

Retry(t) == wait_mutex_trylock(t, "retry", "remove", "block")

Block(t) ==
    /\ Goto(t, "block", "wait") /\ task_block(t)
    /\ UNCHANGED <<entries, entry_seq, wake_seq, qlock, call, holder, calls>>

Return(t) ==
    /\ Goto(t, "wait", "remove") /\ sleep[t] = "awake"
    /\ UNCHANGED <<queueVars, holder, calls>>

\* Both ways out of the queue; the holder returns, the others go round.
Remove(t) ==
    /\ Goto(t, "remove", "cancel") /\ wait_queue_remove(t)
    /\ UNCHANGED <<sleep, wake_seq, qlock, call, holder, calls>>

Cancel(t) ==
    /\ Goto(t, "cancel", IF holder = t THEN "in" ELSE "try")
    /\ task_cancel_block_prepare(t)
    /\ UNCHANGED <<entries, entry_seq, wake_seq, qlock, call, holder, calls>>

\* wait_mutex_unlock: clear the flag, then wait_queue_wake with nr = 1.
Unlock(t) ==
    /\ Goto(t, "in", "wake")
    /\ holder' = Nobody
    /\ wait_queue_wake(t, Tasks, 1)
    /\ UNCHANGED calls

Unlocked(t) ==
    /\ Goto(t, "wake", "out") /\ call[t].at = "none"
    /\ UNCHANGED <<queueVars, holder, calls>>

TaskStep(t) ==
    \/ Try(t) \/ Prepare(t) \/ Add(t) \/ Retry(t) \/ Block(t) \/ Return(t)
    \/ Remove(t) \/ Cancel(t) \/ Unlock(t) \/ Unlocked(t)
    \/ WakeStep(t) /\ UNCHANGED <<holder, pc, calls>>

\* All calls are made and have returned.
Rest ==
    /\ calls = MaxCalls /\ \A t \in Tasks : pc[t] = "out"
    /\ UNCHANGED vars

Next == (\E t \in Tasks : Call(t) \/ TaskStep(t)) \/ Rest

\* A task in a call keeps running and does not hold the mutex for ever.
Fairness == \A t \in Tasks : WF_vars(TaskStep(t))

Spec == Init /\ [][Next]_vars
FairSpec == Spec /\ Fairness

-----------------------------------------------------------------------------
\* The mutex implements Mutex: one holder, and a free mutex goes to a caller.
\* One wake per unlock is enough, although the woken task may lose the race.
Waiting == {t \in Tasks : pc[t] \notin {"out", "in", "wake"} /\ holder # t}
Abstract == INSTANCE Mutex WITH waiting <- Waiting
ImplementsMutex == Abstract!Spec

\* Its safety part: lock and unlock calls take and release one holder.
GrantsLikeMutex == Abstract!Safety

\* Every lock call returns with the mutex when only so many are made.
LockReturns == \A t \in Tasks : pc[t] = "try" ~> pc[t] = "in"

=============================================================================
