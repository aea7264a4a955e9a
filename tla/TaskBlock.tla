----------------------------- MODULE TaskBlock -----------------------------
(***************************************************************************)
(* The sleep/wake protocol every blocking path of the kernel is built on   *)
(* (kernel/src/task/task.c): task_prepare_block, task_cancel_block_prepare,*)
(* task_block, task_unblock_prepare, task_unblock_finish, the per-CPU      *)
(* timeout trees with their softirq, and the part of schedule() that       *)
(* decides whether the caller keeps the CPU.                               *)
(*                                                                         *)
(* One step is one critical section of the code: what happens under a      *)
(* task's block_lock, a CPU's timeout lock or a runqueue lock.  A task     *)
(* takes steps only while it is the current task of its CPU (a task never  *)
(* migrates: cpu_id is set at creation only).  Wakers stand for code on    *)
(* other CPUs and in interrupt handlers; Timer is the timeout softirq.     *)
(* Which READY entity a runqueue picks is left open here (see SchedRq).    *)
(***************************************************************************)
EXTENDS Naturals

CONSTANTS Tasks,      \* the tasks that sleep
          CPUs,
          CpuOf,      \* task_t.cpu_id
          Wakers,     \* contexts that call task_unblock
          Timer,      \* the context that runs task_timeout_softirq_cpu
          Idle,       \* the idle task of a CPU
          Never,      \* UINT64_MAX in force_wakeup_ns
          NoTask,
          Timeouts,   \* the timeouts callers pass: "none", "zero", "timed"
          MaxTime     \* bound on the clock

ASSUME ConstantsAssumption ==
    /\ CpuOf \in [Tasks -> CPUs]
    /\ Idle \notin Tasks
    /\ NoTask \notin Tasks
    /\ Timer \notin Wakers
    /\ Never \notin Nat
    /\ Timeouts \subseteq {"none", "zero", "timed"}
    /\ MaxTime \in Nat

VARIABLES
    state,           \* task_t.state: "ready", or "blocking" for both sleeps
    wake_pending,    \* tasks with wake_pending set
    block_preparing, \* tasks with block_preparing set
    status,          \* task_t.status
    force_wakeup,    \* task_t.force_wakeup_ns
    armed,           \* tasks linked in their CPU's timeout tree
    queued,          \* tasks whose entity is on_rq
    curr,            \* sched_rq_t.curr of each CPU
    current,         \* current_task of each CPU
    pc,              \* where a task is in the sleep path
    timeout,         \* timeout_ns of the task's task_block call
    cond,            \* tasks whose condition holds
    wpc,             \* where a waking context is
    token,           \* its target and reason (task_unblock_token_t)
    expired,         \* Timer: the expired[] array
    timer_now,       \* Timer: the time it compares deadlines with
    now              \* nano_time()

taskVars  == <<state, wake_pending, block_preparing, status, force_wakeup>>
rqVars    == <<queued, curr, current>>
callVars  == <<pc, timeout>>
wakeVars  == <<wpc, token>>
timerVars == <<expired, timer_now>>
vars == <<taskVars, armed, rqVars, callVars, cond, wakeVars, timerVars, now>>

Contexts == Wakers \cup {Timer}
Reasons  == {"EOK", "EINTR", "ETIMEDOUT"}
Pcs      == {"run", "check", "block", "arm", "commit", "cancel", "requeue",
             "sched", "pick", "woken", "ret"}
IrqsOff  == {"arm", "commit", "cancel", "requeue", "pick"}
Finishing == {"cancel", "clear", "enqueue"}

TypeOK ==
    /\ state \in [Tasks -> {"ready", "blocking"}]
    /\ wake_pending \in SUBSET Tasks
    /\ block_preparing \in SUBSET Tasks
    /\ status \in [Tasks -> Reasons]
    /\ force_wakeup \in [Tasks -> Nat \cup {Never}]
    /\ armed \in SUBSET Tasks
    /\ queued \in SUBSET Tasks
    /\ curr \in [CPUs -> Tasks \cup {Idle}]
    /\ current \in [CPUs -> Tasks \cup {Idle}]
    /\ pc \in [Tasks -> Pcs]
    /\ timeout \in [Tasks -> {"none", "zero", "timed"}]
    /\ cond \in SUBSET Tasks
    /\ wpc \in [Contexts -> {"idle", "expire", "prepare"} \cup Finishing]
    /\ token \in [Contexts -> [task : Tasks \cup {NoTask}, reason : Reasons]]
    /\ expired \in SUBSET Tasks
    /\ timer_now \in Nat
    /\ now \in Nat

NoToken == [task |-> NoTask, reason |-> "EOK"]

Init ==
    /\ state = [t \in Tasks |-> "ready"]
    /\ wake_pending = {}
    /\ block_preparing = {}
    /\ status = [t \in Tasks |-> "EOK"]
    /\ force_wakeup = [t \in Tasks |-> Never]
    /\ armed = {}
    /\ queued = Tasks
    /\ curr = [c \in CPUs |-> Idle]
    /\ current = [c \in CPUs |-> Idle]
    /\ pc = [t \in Tasks |-> "run"]
    /\ timeout = [t \in Tasks |-> "none"]
    /\ cond = {}
    /\ wpc = [x \in Contexts |-> "idle"]
    /\ token = [x \in Contexts |-> NoToken]
    /\ expired = {}
    /\ timer_now = 0
    /\ now = 0

-----------------------------------------------------------------------------
(* Runqueue operations, each under the runqueue lock.                      *)

OnCpu(c) == {t \in Tasks : CpuOf[t] = c}

\* Mutant: asks whether the task is running instead of whether its entity is
\* attached to the runqueue.
AddEntityUnlessRunning(t) ==
    queued' = IF current[CpuOf[t]] = t THEN queued ELSE queued \cup {t}

\* sched_add_entity: nothing to do for an entity that is queued or current.
AddEntity(t) ==
    queued' = IF curr[CpuOf[t]] = t THEN queued ELSE queued \cup {t}

\* remove_sched_entity: dequeue, or detach the running entity.
RemoveEntity(t) ==
    /\ queued' = queued \ {t}
    /\ curr' = IF t \notin queued /\ curr[CpuOf[t]] = t
               THEN [curr EXCEPT ![CpuOf[t]] = Idle] ELSE curr

\* The entities a pick may choose from: prev if it is attached, to be
\* requeued, and the queued ones ...
Pickable(c, prev) ==
    (queued \cap OnCpu(c)) \cup (IF curr[c] = prev THEN {prev} \ {Idle} ELSE {})

\* Mutant: queued entities are taken to be READY.
LiveUnfiltered(c, prev) == Pickable(c, prev)

\* ... that are READY: sched_drop_dead_queued_locked dequeues the others.
Live(c, prev) == {t \in Pickable(c, prev) : state[t] = "ready"}

\* sched_pick_next_task_internal: attach one of them, or go idle.
PickNext(c, prev) ==
    LET live == Live(c, prev)
        Switch(next) == /\ curr' = [curr EXCEPT ![c] = next]
                        /\ current' = [current EXCEPT ![c] = next]
                        /\ queued' = (queued \ OnCpu(c)) \cup (live \ {next})
    IN  IF live = {} THEN Switch(Idle) ELSE \E next \in live : Switch(next)

-----------------------------------------------------------------------------
(* The sleeping task: the wait loop of softirqd_thread, with a timeout as  *)
(* task_sleep_until_ns passes one.                                         *)

Step(t, from, to) ==
    /\ current[CpuOf[t]] = t
    /\ pc[t] = from
    /\ pc' = [pc EXCEPT ![t] = to]

task_prepare_block(t) ==
    /\ Step(t, "run", "check")
    /\ wake_pending' = wake_pending \ {t}
    /\ status' = [status EXCEPT ![t] = "EOK"]
    /\ block_preparing' = block_preparing \cup {t}
    /\ UNCHANGED <<state, force_wakeup, armed, rqVars, timeout, cond,
                   wakeVars, timerVars, now>>

\* The caller tests its condition, and sleeps only when it does not hold.
CheckCondition(t) ==
    /\ \/ t \in cond /\ Step(t, "check", "ret") /\ UNCHANGED timeout
       \/ /\ t \notin cond /\ Step(t, "check", "block")
          /\ \E d \in Timeouts : timeout' = [timeout EXCEPT ![t] = d]
    /\ cond' = cond \ {t}
    /\ UNCHANGED <<taskVars, armed, rqVars, wakeVars, timerVars, now>>

\* nano_time() + timeout_ns, the end of the clock's range included.
Deadline == IF now < MaxTime THEN now + 1 ELSE MaxTime

\* task_block, first locked section: a wake that came before the call ends
\* it, a zero timeout does too, otherwise the deadline is published.
BlockEnter(t) ==
    /\ \/ /\ t \in wake_pending
          /\ Step(t, "block", "ret")
          /\ wake_pending' = wake_pending \ {t}
          /\ block_preparing' = block_preparing \ {t}
          /\ UNCHANGED <<status, force_wakeup>>
       \/ /\ t \notin wake_pending /\ timeout[t] = "zero"
          /\ Step(t, "block", "ret")
          /\ block_preparing' = block_preparing \ {t}
          /\ status' = [status EXCEPT ![t] = "ETIMEDOUT"]
          /\ UNCHANGED <<wake_pending, force_wakeup>>
       \/ /\ t \notin wake_pending /\ timeout[t] # "zero"
          /\ Step(t, "block", IF timeout[t] = "timed" THEN "arm" ELSE "commit")
          /\ status' = [status EXCEPT ![t] = "EOK"]
          /\ block_preparing' = block_preparing \cup {t}
          /\ force_wakeup' = [force_wakeup EXCEPT ![t] =
                                  IF timeout[t] = "timed" THEN Deadline ELSE Never]
          /\ UNCHANGED <<wake_pending>>
    /\ UNCHANGED <<state, armed, rqVars, timeout, cond, wakeVars, timerVars, now>>

\* task_timeout_arm: a deadline a waker has withdrawn is not queued.
task_timeout_arm(t) ==
    /\ Step(t, "arm", "commit")
    /\ armed' = IF force_wakeup[t] = Never THEN armed \ {t} ELSE armed \cup {t}
    /\ UNCHANGED <<taskVars, rqVars, timeout, cond, wakeVars, timerVars,
                   now>>

\* task_block, second locked section: the last look at wake_pending decides.
BlockCommit(t) ==
    /\ block_preparing' = block_preparing \ {t}
    /\ IF t \in wake_pending
       THEN /\ Step(t, "commit", IF timeout[t] = "timed" THEN "cancel" ELSE "requeue")
            /\ wake_pending' = wake_pending \ {t}
            /\ state' = [state EXCEPT ![t] = "ready"]
            /\ force_wakeup' = [force_wakeup EXCEPT ![t] = Never]
            /\ UNCHANGED <<queued, curr>>
       ELSE /\ Step(t, "commit", "sched")
            /\ state' = [state EXCEPT ![t] = "blocking"]
            /\ RemoveEntity(t)
            /\ UNCHANGED <<wake_pending, force_wakeup>>
    /\ UNCHANGED <<status, armed, current, timeout, cond, wakeVars, timerVars,
                   now>>

\* task_block, when the wake came in time: task_timeout_cancel ...
BlockCancel(t) ==
    /\ Step(t, "cancel", "requeue")
    /\ armed' = armed \ {t}
    /\ UNCHANGED <<taskVars, rqVars, timeout, cond, wakeVars, timerVars,
                   now>>

\* ... and add_sched_entity.
BlockRequeue(t) ==
    /\ Step(t, "requeue", "ret")
    /\ AddEntity(t)
    /\ UNCHANGED <<taskVars, armed, curr, current, timeout, cond,
                   wakeVars, timerVars, now>>

\* schedule(0), up to its first return: a task already READY again may keep
\* the CPU when it is attached again or nothing is queued, need_resched and
\* the deadlines permitting (sched_should_preempt; left open here).
ScheduleCheck(t) ==
    /\ \/ /\ state[t] = "ready"
          /\ curr[CpuOf[t]] = t \/ queued \cap OnCpu(CpuOf[t]) = {}
          /\ Step(t, "sched", "woken")
       \/ Step(t, "sched", "pick")
    /\ UNCHANGED <<taskVars, armed, rqVars, timeout, cond, wakeVars,
                   timerVars, now>>

\* schedule(0), the pick and the switch; the task continues when picked again.
SchedulePick(t) ==
    /\ Step(t, "pick", "woken")
    /\ PickNext(CpuOf[t], t)
    /\ UNCHANGED <<taskVars, armed, timeout, cond, wakeVars, timerVars,
                   now>>

\* task_block returns task->status.
BlockReturn(t) ==
    /\ Step(t, "woken", "ret")
    /\ UNCHANGED <<taskVars, armed, rqVars, timeout, cond, wakeVars, timerVars,
                   now>>

\* The caller leaves the wait, or starts its next round.
task_cancel_block_prepare(t) ==
    /\ Step(t, "ret", "run")
    /\ timeout' = [timeout EXCEPT ![t] = "none"]
    /\ IF t \in block_preparing /\ state[t] # "blocking"
       THEN /\ block_preparing' = block_preparing \ {t}
            /\ wake_pending' = wake_pending \ {t}
            /\ status' = [status EXCEPT ![t] = "EOK"]
       ELSE UNCHANGED <<block_preparing, wake_pending, status>>
    /\ UNCHANGED <<state, force_wakeup, armed, rqVars, cond,
                   wakeVars, timerVars, now>>

\* do_irq: the periodic tick, or a reschedule IPI, may switch any task whose
\* CPU has interrupts enabled.
Interrupt(c) ==
    /\ \/ current[c] = Idle
       \/ current[c] \in Tasks /\ pc[current[c]] \notin IrqsOff
    /\ PickNext(c, current[c])
    /\ UNCHANGED <<taskVars, armed, callVars, cond, wakeVars, timerVars, now>>

-----------------------------------------------------------------------------
(* The waking side.                                                        *)

Move(x, from, to) == wpc[x] = from /\ wpc' = [wpc EXCEPT ![x] = to]

\* A waker makes a task's condition true and then calls task_unblock; a
\* signal (EINTR) wakes without the condition.
StartWake(w, t, r) ==
    /\ Move(w, "idle", "prepare")
    /\ token' = [token EXCEPT ![w] = [task |-> t, reason |-> r]]
    /\ cond' = IF r = "EOK" THEN cond \cup {t} ELSE cond
    /\ UNCHANGED <<taskVars, armed, rqVars, callVars, timerVars, now>>

\* Mutants: only a sleeping task is woken; any task is.
AcceptsWakeNever(t) == FALSE
AcceptsWakeAlways(t) == TRUE

\* task_unblock_prepare: a task that is not asleep takes a wake only between
\* task_prepare_block and the commit of task_block.
AcceptsWake(t) == t \in block_preparing

\* task_unblock_prepare, under the target's block_lock.
task_unblock_prepare(x) ==
    LET t == token[x].task
        cancel == force_wakeup[t] # Never
    IN
    /\ wpc[x] = "prepare"
    /\ IF state[t] = "blocking"
       THEN /\ Move(x, "prepare", IF cancel THEN "cancel" ELSE "enqueue")
            /\ status' = [status EXCEPT ![t] = token[x].reason]
            /\ state' = [state EXCEPT ![t] = "ready"]
            /\ block_preparing' = block_preparing \ {t}
            /\ wake_pending' = wake_pending \ {t}
            /\ UNCHANGED <<force_wakeup, token>>
       ELSE /\ Move(x, "prepare", "idle")
            /\ token' = [token EXCEPT ![x] = NoToken]
            /\ IF AcceptsWake(t)
               THEN /\ status' = [status EXCEPT ![t] = token[x].reason]
                    /\ force_wakeup' = [force_wakeup EXCEPT ![t] = Never]
                    /\ wake_pending' = wake_pending \cup {t}
               ELSE UNCHANGED <<status, force_wakeup, wake_pending>>
            /\ UNCHANGED <<state, block_preparing>>
    /\ UNCHANGED <<armed, rqVars, callVars, cond, timerVars, now>>

\* task_unblock_finish: cancel the timeout, clear the deadline, enqueue.
FinishCancel(x) ==
    /\ Move(x, "cancel", "clear")
    /\ armed' = armed \ {token[x].task}
    /\ UNCHANGED <<taskVars, rqVars, callVars, cond, token, timerVars, now>>

FinishClear(x) ==
    /\ Move(x, "clear", "enqueue")
    /\ force_wakeup' = [force_wakeup EXCEPT ![token[x].task] = Never]
    /\ UNCHANGED <<state, wake_pending, block_preparing, status, armed, rqVars,
                   callVars, cond, token, timerVars, now>>

FinishEnqueue(x) ==
    /\ Move(x, "enqueue", "idle")
    /\ AddEntity(token[x].task)
    /\ token' = [token EXCEPT ![x] = NoToken]
    /\ UNCHANGED <<taskVars, armed, curr, current, callVars, cond, timerVars,
                   now>>

\* task_timeout_softirq_cpu: pop expired tasks of one CPU ...
TimeoutPop(c) ==
    LET due == {t \in armed \cap OnCpu(c) :
                    force_wakeup[t] # Never /\ force_wakeup[t] <= now}
    IN
    /\ wpc[Timer] = "idle" /\ expired = {}
    /\ \E batch \in SUBSET due \ {{}} :
          /\ expired' = batch
          /\ armed' = armed \ batch
    /\ timer_now' = now
    /\ UNCHANGED <<taskVars, rqVars, callVars, cond, wakeVars, now>>

\* ... and, without the lock, unblock those whose deadline still stands.
TimeoutCheck(t) ==
    /\ t \in expired /\ wpc[Timer] = "idle"
    /\ expired' = expired \ {t}
    /\ IF force_wakeup[t] # Never /\ force_wakeup[t] <= timer_now
       THEN /\ wpc' = [wpc EXCEPT ![Timer] = "prepare"]
            /\ token' = [token EXCEPT ![Timer] = [task |-> t, reason |-> "ETIMEDOUT"]]
       ELSE UNCHANGED wakeVars
    /\ timer_now' = IF expired' = {} THEN 0 ELSE timer_now
    /\ UNCHANGED <<taskVars, armed, rqVars, callVars, cond, now>>

ClockTick ==
    /\ now < MaxTime
    /\ now' = now + 1
    /\ UNCHANGED <<taskVars, armed, rqVars, callVars, cond, wakeVars, timerVars>>

-----------------------------------------------------------------------------
TaskStep(t) ==
    \/ task_prepare_block(t) \/ CheckCondition(t) \/ BlockEnter(t)
    \/ task_timeout_arm(t) \/ BlockCommit(t) \/ BlockCancel(t)
    \/ BlockRequeue(t) \/ ScheduleCheck(t) \/ SchedulePick(t)
    \/ BlockReturn(t) \/ task_cancel_block_prepare(t)

WakeStep(x) ==
    \/ task_unblock_prepare(x) \/ FinishCancel(x)
    \/ FinishClear(x) \/ FinishEnqueue(x)

TimerStep ==
    \/ \E c \in CPUs : TimeoutPop(c)
    \/ \E t \in Tasks : TimeoutCheck(t)

Next ==
    \/ \E t \in Tasks : TaskStep(t)
    \/ \E c \in CPUs : Interrupt(c)
    \/ \E w \in Wakers, t \in Tasks, r \in {"EOK", "EINTR"} : StartWake(w, t, r)
    \/ \E x \in Contexts : WakeStep(x)
    \/ TimerStep
    \/ ClockTick

\* Every CPU keeps executing its current task or context, the tick fires on
\* every CPU (SCHED_HZ), and time passes; nobody has to start a wake.
Fairness ==
    /\ \A t \in Tasks : WF_vars(TaskStep(t))
    /\ \A c \in CPUs : WF_vars(Interrupt(c))
    /\ \A x \in Contexts : WF_vars(WakeStep(x))
    /\ WF_vars(TimerStep)
    /\ WF_vars(ClockTick)

Spec == Init /\ [][Next]_vars
FairSpec == Spec /\ Fairness

-----------------------------------------------------------------------------
(* Properties.                                                             *)

Prepared(t) == \E x \in Contexts : wpc[x] \in Finishing /\ token[x].task = t

\* No lost wakeup: a task whose condition has been made true is never left in
\* its sleep (state BLOCKING in task_block) without a waker that has yet to
\* reach task_unblock_prepare for it.  This is what block_preparing and
\* wake_pending are for.
NoLostWakeup ==
    \A t \in Tasks :
        t \in cond /\ state[t] = "blocking" =>
            \E x \in Contexts : wpc[x] = "prepare" /\ token[x].task = t

\* A task the scheduler runs is READY, except in the window of task_block
\* between committing to sleep and being switched out by schedule(): a stale
\* task_unblock_finish may enqueue a sleeping task, and the pick must drop it.
RunsOnlyReady ==
    \A t \in Tasks :
        current[CpuOf[t]] = t /\ pc[t] \notin {"sched", "pick"} =>
            state[t] = "ready"

\* No READY task is stranded: it is on its runqueue, or attached as the
\* running entity, or a waker still holds its unblock token and will enqueue
\* it (task_unblock_finish).
NotStranded ==
    \A t \in Tasks :
        state[t] = "ready" =>
            t \in queued \/ curr[CpuOf[t]] = t \/ Prepared(t)

\* The first accepted wake decides what task_block returns: once a sleeper is
\* READY again no later waker changes its status before it reads it.
FirstWakeWins ==
    [][\A t \in Tasks :
          pc[t] \in {"sched", "pick", "woken"} /\ state[t] = "ready" =>
              status'[t] = status[t]]_vars

\* What the comment in task_unblock_finish relies on: a blocked task cannot
\* return from task_block, and so unwind the stack its token may live on,
\* before task_unblock_finish enqueues it.
TokenOutlivesSleep ==
    \A t \in Tasks :
        Prepared(t) => pc[t] \in {"sched", "pick", "woken"}

\* A task whose condition is made true sees it: the wait loop ends.
ConditionSeen == \A t \in Tasks : t \in cond ~> t \notin cond

\* sys_nanosleep: a timed task_block returns, whoever else wakes the task.
TimedSleepEnds ==
    \A t \in Tasks :
        pc[t] = "sched" /\ timeout[t] = "timed" ~> pc[t] = "ret"

=============================================================================
