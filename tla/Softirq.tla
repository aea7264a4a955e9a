------------------------------ MODULE Softirq ------------------------------
(***************************************************************************)
(* Deferred work: the pending word of kernel/src/irq/softirq.c, the        *)
(* contexts that queue work and raise a softirq, and the one worker thread *)
(* softirqd of kernel/src/task/task.c, which sleeps between batches.       *)
(*                                                                         *)
(* Every queued task has left its CPU here; Process has those that have    *)
(* not.  A raiser wakes the worker only when the pending word was          *)
(* zero before, so whoever finds it non-zero relies on the wake of an      *)
(* earlier raiser or on the worker being on its way to look.  The sleep of *)
(* the worker is the abstraction of TaskBlock that WaitQueue uses as well. *)
(***************************************************************************)
EXTENDS Integers

CONSTANTS Raisers,      \* contexts that raise: interrupt exits, exits, exec
          TaskBudget,   \* reap_budget (64)
          MmBudget,     \* mm_reap_budget (8)
          MaxWork       \* bound on the items queued in a behaviour

ASSUME SoftirqAssumption ==
    /\ TaskBudget \in Nat \ {0}
    /\ MmBudget \in Nat \ {0}
    /\ MaxWork \in Nat

\* The softirqs in the order of their ids, and what their handlers work on:
\* task_timer_pending_cpus, the timerfd trees, should_free_tasks and
\* should_free_mms.
Ids   == {"timer", "timerfd", "reap"}
Kinds == {"timer", "timerfd", "tasks", "mms"}
IdOf(kind) == IF kind \in {"tasks", "mms"} THEN "reap" ELSE kind

VARIABLES
    pending,   \* softirq_pending
    work,      \* number of queued items of a kind
    queued,    \* items queued so far
    wsleep,    \* block_preparing, wake_pending and state of softirqd
    at,        \* where softirqd is
    taken,     \* the local copy of the pending word, less the ids done
    reaped,    \* reaped + mm_reaped of task_reap_softirq
    raiser     \* what a raiser has still to do, and for which softirq

softirqVars == <<pending, work, queued, wsleep, at, taken, reaped, raiser>>

Places == {"prepare", "check", "cancel", "take", "run", "mms", "recheck",
           "block", "wait"}

SoftirqTypeOK ==
    /\ pending \in SUBSET Ids
    /\ work \in [Kinds -> Nat]
    /\ queued \in Nat
    /\ wsleep \in {"awake", "prepared", "pending", "asleep"}
    /\ at \in Places
    /\ taken \in SUBSET Ids
    /\ reaped \in Nat
    /\ raiser \in [Raisers -> [todo : {"none", "raise", "wake"}, id : Ids]]

SoftirqInit ==
    /\ pending = {}
    /\ work = [k \in Kinds |-> 0]
    /\ queued = 0
    /\ wsleep = "awake"
    /\ at = "prepare"
    /\ taken = {}
    /\ reaped = 0
    /\ raiser = [r \in Raisers |-> [todo |-> "none", id |-> "timer"]]

-----------------------------------------------------------------------------
(* The raisers: the work is published first.                               *)

Queue(r, kind) ==
    /\ raiser[r].todo = "none"
    /\ queued < MaxWork
    /\ queued' = queued + 1
    /\ work' = [work EXCEPT ![kind] = @ + 1]
    /\ raiser' = [raiser EXCEPT ![r] = [todo |-> "raise", id |-> IdOf(kind)]]
    /\ UNCHANGED <<pending, wsleep, at, taken, reaped>>

sched_check_wakeup(r)       == Queue(r, "timer")
timerfd_check_wakeup(r)     == Queue(r, "timerfd")
task_enqueue_should_free(r) == Queue(r, "tasks")
task_enqueue_mm_free(r)     == Queue(r, "mms")

\* Mutant: the first raise of an id does the waking, even when the word is
\* already non-zero, and the first raise of an empty word does not.
RaiseWakesLate(r) ==
    /\ raiser[r].todo = "raise"
    /\ pending' = pending \cup {raiser[r].id}
    /\ raiser' = [raiser EXCEPT ![r].todo =
                      IF pending \notin {{}, pending'} THEN "wake" ELSE "none"]
    /\ UNCHANGED <<work, queued, wsleep, at, taken, reaped>>

\* softirq_raise: fetch_or, and wake the worker if the word was zero.
softirq_raise(r) ==
    /\ raiser[r].todo = "raise"
    /\ pending' = pending \cup {raiser[r].id}
    /\ raiser' = [raiser EXCEPT ![r].todo = IF pending = {} THEN "wake" ELSE "none"]
    /\ UNCHANGED <<work, queued, wsleep, at, taken, reaped>>

\* sched_wake_softirqd: task_unblock takes effect on a worker that is
\* prepared or asleep.
Unblocked == CASE wsleep = "prepared" -> "pending"
               [] wsleep = "asleep"   -> "awake"
               [] OTHER               -> wsleep

sched_wake_softirqd(r) ==
    /\ raiser[r].todo = "wake"
    /\ wsleep' = Unblocked
    /\ raiser' = [raiser EXCEPT ![r].todo = "none"]
    /\ UNCHANGED <<pending, work, queued, at, taken, reaped>>

-----------------------------------------------------------------------------
(* softirqd_thread.                                                        *)

\* Mutant: task_prepare_block is missing, so a wake before task_block has
\* nothing to act on.
PrepareNothing ==
    /\ at = "prepare" /\ at' = "check"
    /\ UNCHANGED <<pending, work, queued, wsleep, taken, reaped, raiser>>

DaemonPrepare ==
    /\ at = "prepare" /\ at' = "check"
    /\ wsleep' = "prepared"
    /\ UNCHANGED <<pending, work, queued, taken, reaped, raiser>>

\* softirq_has_pending
DaemonCheck ==
    /\ at = "check"
    /\ at' = IF pending # {} THEN "cancel" ELSE "block"
    /\ UNCHANGED <<pending, work, queued, wsleep, taken, reaped, raiser>>

\* task_cancel_block_prepare; after a sleep the loop starts over.
DaemonCancel ==
    /\ at = "cancel" /\ at' = "take"
    /\ wsleep' = "awake"
    /\ UNCHANGED <<pending, work, queued, taken, reaped, raiser>>

\* task_block: a recorded wake ends it at once.
DaemonBlock ==
    /\ at = "block" /\ at' = "wait"
    /\ wsleep' = IF wsleep = "pending" THEN "awake" ELSE "asleep"
    /\ UNCHANGED <<pending, work, queued, taken, reaped, raiser>>

DaemonReturn ==
    /\ at = "wait" /\ wsleep = "awake"
    /\ at' = "prepare"
    /\ UNCHANGED <<pending, work, queued, wsleep, taken, reaped, raiser>>

\* softirq_handle_pending: exchange the word with zero, then run the
\* handlers in the order of the ids.
Take ==
    /\ at = "take" /\ at' = "run"
    /\ taken' = pending
    /\ pending' = {}
    /\ UNCHANGED <<work, queued, wsleep, reaped, raiser>>

NextId == CASE "timer" \in taken   -> "timer"
            [] "timerfd" \in taken -> "timerfd"
            [] OTHER               -> "reap"

Handler(id) == at = "run" /\ taken # {} /\ NextId = id /\ taken' = taken \ {id}

\* The words of CPU bits are exchanged with zero.
task_timer_softirq ==
    /\ Handler("timer")
    /\ work' = [work EXCEPT !["timer"] = 0]
    /\ UNCHANGED <<pending, queued, wsleep, at, reaped, raiser>>

\* The loop goes on until no timer of the two trees is due.
timerfd_softirq ==
    /\ Handler("timerfd")
    /\ work' = [work EXCEPT !["timerfd"] = 0]
    /\ UNCHANGED <<pending, queued, wsleep, at, reaped, raiser>>

\* The number of items the loop with the given budget takes from n.
BatchOf(n, budget) == IF n > budget THEN budget ELSE n

\* task_reap_softirq: a bounded batch of tasks, a bounded batch of address
\* spaces, and another raise if there was progress and something is left.
ReapTasks ==
    /\ Handler("reap")
    /\ reaped' = BatchOf(work["tasks"], TaskBudget)
    /\ work' = [work EXCEPT !["tasks"] = @ - BatchOf(@, TaskBudget)]
    /\ at' = "mms"
    /\ UNCHANGED <<pending, queued, wsleep, raiser>>

ReapMms ==
    /\ at = "mms" /\ at' = "recheck"
    /\ reaped' = reaped + BatchOf(work["mms"], MmBudget)
    /\ work' = [work EXCEPT !["mms"] = @ - BatchOf(@, MmBudget)]
    /\ UNCHANGED <<pending, queued, wsleep, taken, raiser>>

\* Mutant: only the list of tasks is looked at again.
RecheckTasks ==
    /\ at = "recheck" /\ at' = "run"
    /\ pending' = IF reaped > 0 /\ work["tasks"] > 0 THEN pending \cup {"reap"} ELSE pending
    /\ reaped' = 0
    /\ UNCHANGED <<work, queued, wsleep, taken, raiser>>

\* The worker is awake: the task_unblock of its own raise changes nothing.
Recheck ==
    /\ at = "recheck" /\ at' = "run"
    /\ pending' = IF reaped > 0 /\ (work["tasks"] > 0 \/ work["mms"] > 0)
                  THEN pending \cup {"reap"} ELSE pending
    /\ reaped' = 0
    /\ UNCHANGED <<work, queued, wsleep, taken, raiser>>

\* The batch is done: yield, and start over.
Yield ==
    /\ at = "run" /\ taken = {}
    /\ at' = "prepare"
    /\ UNCHANGED <<pending, work, queued, wsleep, taken, reaped, raiser>>

-----------------------------------------------------------------------------
Daemon ==
    \/ DaemonPrepare \/ DaemonCheck \/ DaemonCancel \/ DaemonBlock \/ DaemonReturn
    \/ Take \/ task_timer_softirq \/ timerfd_softirq \/ ReapTasks \/ ReapMms \/ Recheck \/ Yield

RaiserStep(r) == softirq_raise(r) \/ sched_wake_softirqd(r)

SoftirqNext ==
    \/ Daemon
    \/ \E r \in Raisers :
          \/ sched_check_wakeup(r) \/ timerfd_check_wakeup(r)
          \/ task_enqueue_should_free(r) \/ task_enqueue_mm_free(r)
          \/ RaiserStep(r)

\* The worker is a task of the scheduler, and a raiser runs to its end: both
\* keep taking steps.  Nobody has to queue work.
SoftirqFairness == WF_softirqVars(Daemon) /\ \A r \in Raisers : WF_softirqVars(RaiserStep(r))

SoftirqSpec == SoftirqInit /\ [][SoftirqNext]_softirqVars
SoftirqFairSpec == SoftirqSpec /\ SoftirqFairness

-----------------------------------------------------------------------------
\* The worker does not sleep on raised softirqs: when softirq_pending is not
\* zero and softirqd is asleep, or past its check, a raiser that found the
\* word zero has still to wake it.  All other raisers rely on that one.
NoLostRaise ==
    pending # {} /\ (wsleep = "asleep" \/ (at = "block" /\ wsleep = "prepared"))
        => \E r \in Raisers : raiser[r].todo = "wake"

\* Queued work is never forgotten: somebody is about to raise its softirq,
\* the softirq is pending or taken, or the handler of the batch has still to
\* look at what it left behind.
NoForgottenWork ==
    \A k \in Kinds : work[k] > 0 =>
        \/ IdOf(k) \in pending \cup taken
        \/ \E r \in Raisers : raiser[r] = [todo |-> "raise", id |-> IdOf(k)]
        \/ k = "mms" /\ at = "mms"
        \/ IdOf(k) = "reap" /\ at \in {"mms", "recheck"} /\ reaped > 0

\* All queued work is handled, however small the budget of a batch is.
WorkIsDone == \A k \in Kinds : work[k] > 0 ~> work[k] = 0

=============================================================================
