------------------------------- MODULE SchedRq -------------------------------
(***************************************************************************)
(* One runqueue of the EEVDF scheduler (kernel/src/task/sched.c) and the   *)
(* steps of schedule() that use it (kernel/src/task/task.c).  A task never *)
(* changes its CPU, so the runqueues are independent and one is enough.    *)
(*                                                                         *)
(* rq holds the sched_rq and, per task, the fields of its sched_entity.    *)
(* An operator with a first argument s maps one such record to the next;   *)
(* an action is one section under rq->lock.  tree is the red-black tree as *)
(* a set (module RbTree: it is ordered and its minima are exact).  e is on *)
(* the runqueue (entity->rq = scheduler) when it is in the tree or is      *)
(* curr; on_rq is membership of the tree.                                  *)
(***************************************************************************)
EXTENDS Integers, FiniteSets, FiniteSetsExt

CONSTANTS
    Tasks,      \* the tasks of this CPU; the numbers are the pids
    Nices, WeightOf, NICE_0_LOAD,
    LATENCY, MIN_GRANULARITY, MAX_GRANULARITY, WAKEUP_GRANULARITY,
    MaxTime, MaxVruntime        \* bounds of the exploration

Idle == 0

ASSUME ConstantsAssumption ==
    /\ Tasks \subseteq Nat \ {Idle} /\ IsFiniteSet(Tasks)
    /\ NICE_0_LOAD \in Nat \ {0} /\ WeightOf \in [Nices -> Nat \ {0}]
    /\ \E n \in Nices : WeightOf[n] = NICE_0_LOAD
    /\ {LATENCY, MIN_GRANULARITY, MAX_GRANULARITY, WAKEUP_GRANULARITY} \subseteq Nat
    /\ 0 < MIN_GRANULARITY /\ MIN_GRANULARITY <= MAX_GRANULARITY
    /\ {MaxTime, MaxVruntime} \subseteq Nat /\ 0 < MaxTime

VARIABLES
    rq,
    state,      \* task->state: READY, BLOCKING (or UNINTERRUPTABLE), DIED
    running,    \* current_task, whose current_state is RUNNING
    phase,      \* how far the running task is in schedule() or its caller
    call,       \* schedule()'s now_ns, need_resched or yield, yield
    now         \* nano_time()

vars == <<rq, state, running, phase, call, now>>

-----------------------------------------------------------------------------
(* Entities                                                                *)

Ready(e) == e = Idle \/ state[e] = "ready"
OnRq(s, e) == e \in s.tree \/ s.curr = e
IsCurrent(s, e) == s.curr = e /\ e \notin s.tree

Weight(s, e) == WeightOf[s.nice[e]]
DeltaFair(s, e, d) == (d * NICE_0_LOAD) \div Weight(s, e)

Clamp(x) ==
    IF x < MIN_GRANULARITY THEN MIN_GRANULARITY
    ELSE IF x > MAX_GRANULARITY THEN MAX_GRANULARITY ELSE x

Slice(s, e) ==
    LET total == s.load_weight + IF OnRq(s, e) THEN 0 ELSE Weight(s, e) IN
    Clamp(IF total = 0 THEN LATENCY ELSE (LATENCY * Weight(s, e)) \div total)

SetDeadline(s, e) ==
    [s EXCEPT !.slice[e] = Slice(s, e),
              !.deadline[e] = s.vruntime[e] + DeltaFair(s, e, Slice(s, e))]

Before(s, e, f) ==
    \/ s.deadline[e] < s.deadline[f]
    \/ s.deadline[e] = s.deadline[f] /\ s.vruntime[e] < s.vruntime[f]
    \/ s.deadline[e] = s.deadline[f] /\ s.vruntime[e] = s.vruntime[f] /\ e < f

\* sched_update_min_vruntime_locked
UpdateMin(s) ==
    LET live == IF s.curr # Idle /\ (Ready(s.curr) \/ running = s.curr)
                THEN {s.curr} ELSE {}
        found == {s.vruntime[e] : e \in s.tree \cup live}
    IN  IF found = {} THEN s
        ELSE [s EXCEPT !.min_vruntime = Max({@, Min(found)})]

Less(x, y) == IF x > y THEN x - y ELSE 0

Enqueue(s, e) ==
    [SetDeadline(s, e) EXCEPT !.tree = @ \cup {e},
                              !.cleanup = @ \/ ~Ready(e),
                              !.nr_queued = @ + 1,
                              !.nr_running = @ + 1,
                              !.load_weight = @ + Weight(s, e)]

\* Off the runqueue an entity's deadline, slice and exec_start are written
\* before they are read again; the model forgets them.
Forget(s, E) ==
    [s EXCEPT !.deadline = [e \in Tasks |-> IF e \in E THEN 0 ELSE @[e]],
              !.slice = [e \in Tasks |-> IF e \in E THEN 0 ELSE @[e]],
              !.exec_start = [e \in Tasks |-> IF e \in E THEN 0 ELSE @[e]]]

Dequeue(s, e) ==
    [Forget(s, {e}) EXCEPT !.tree = @ \ {e},
              !.nr_queued = Less(@, 1),
              !.nr_running = Less(@, 1),
              !.load_weight = Less(@, Weight(s, e))]

Attach(s, e) ==
    SetDeadline([s EXCEPT !.curr = e,
                          !.nr_running = @ + 1,
                          !.load_weight = @ + Weight(s, e),
                          !.exec_start[e] = now,
                          !.account_start[e] = now], e)

Detach(s, e) ==
    UpdateMin([Forget(s, {e}) EXCEPT !.curr = Idle,
                        !.nr_running = Less(@, 1),
                        !.load_weight = Less(@, Weight(s, e))])

-----------------------------------------------------------------------------
(* The pick                                                                *)

EffectiveMin(s) == Max({s.min_vruntime, Min({s.vruntime[e] : e \in s.tree})})

Eligible(s) == {e \in s.tree : s.vruntime[e] <= EffectiveMin(s)}

First(s, S) == CHOOSE e \in S : \A f \in S \ {e} : Before(s, e, f)

\* sched_pick_min_fallback_locked: the least vruntime, in tree order.
Fallback(s, S) ==
    First(s, {e \in S : \A f \in S : s.vruntime[e] <= s.vruntime[f]})

\* sched_pick_eevdf_locked: the first eligible READY entity in tree order;
\* Idle stands for NULL.
PickEevdf(s, excluded) ==
    LET ok == {e \in s.tree : Ready(e) /\ e # excluded} IN
    IF ok = {} THEN Idle
    ELSE IF ok \cap Eligible(s) # {} THEN First(s, ok \cap Eligible(s))
    ELSE Fallback(s, ok)

\* The walk meets an entity that is not READY, and asks for a clean-up.
MeetsDead(s, excluded) ==
    LET found == PickEevdf(s, excluded) IN
    \E e \in s.tree :
        /\ ~Ready(e)
        /\ IF found # Idle /\ found \in Eligible(s)
           THEN e \in Eligible(s) /\ Before(s, e, found)
           ELSE TRUE

\* Mutant: everything that is not running is dropped.
DropDeadNotRunning(s) ==
    LET dead == s.tree \ {running} IN
    UpdateMin([Forget(s, dead) EXCEPT !.tree = @ \ dead, !.cleanup = FALSE])

DropDead(s) ==
    LET dead == {e \in s.tree : ~Ready(e)}
        left == [Forget(s, dead) EXCEPT !.tree = @ \ dead,
                          !.cleanup = FALSE,
                          !.nr_queued = Less(@, Cardinality(dead)),
                          !.nr_running = Less(@, Cardinality(dead)),
                          !.load_weight =
                              Less(@, MapThenSumSet(LAMBDA e : Weight(s, e), dead))]
    IN  IF dead = {} THEN left ELSE UpdateMin(left)

CleanIf(s, dirty) == IF dirty THEN DropDead(s) ELSE s

\* Pick, and when the walk met a dead entity drop those and pick again.
AfterPick(s, excluded) == CleanIf(s, s.cleanup \/ MeetsDead(s, excluded))

-----------------------------------------------------------------------------
(* sched_should_preempt and sched_next_preempt_deadline, at time t          *)

SliceOf(s, e) == IF s.slice[e] # 0 THEN s.slice[e] ELSE Slice(s, e)

\* The runqueue after the call: dead entities are dropped on the way.
PreemptCleans(s, e) ==
    IF e = Idle \/ ~Ready(e) \/ s.nr_queued = 0 \/ ~IsCurrent(s, e) THEN s
    ELSE AfterPick(CleanIf(s, s.cleanup), e)

\* Mutant: a slice that has just ended does not count.
ShouldPreemptLate(s, e, t) ==
    IF e = Idle THEN s.nr_queued # 0
    ELSE IF ~Ready(e) THEN TRUE
    ELSE /\ s.nr_queued # 0
         /\ ~IsCurrent(s, e) \/ t - s.exec_start[e] > SliceOf(s, e)

ShouldPreempt(s, e, t) ==
    IF e = Idle THEN s.nr_queued # 0
    ELSE IF ~Ready(e) THEN TRUE
    ELSE IF s.nr_queued = 0 THEN FALSE
    ELSE IF ~IsCurrent(s, e) THEN TRUE
    ELSE LET c == PreemptCleans(s, e)
             next == PickEevdf(c, e)
         IN  /\ next # Idle
             /\ \/ c.deadline[next] + WAKEUP_GRANULARITY < c.deadline[e]
                \/ t - c.exec_start[e] >= SliceOf(c, e)

\* MaxTime + 1 stands for UINT64_MAX.
NextPreemptDeadline(s, e, t) ==
    IF e = Idle THEN MaxTime + 1
    ELSE IF ~IsCurrent(s, e) \/ ~Ready(e) THEN t
    ELSE IF s.nr_queued = 0 THEN MaxTime + 1
    ELSE Max({t, s.exec_start[e] + SliceOf(s, e)})

-----------------------------------------------------------------------------
NoCall == [at |-> 0, must |-> FALSE, yield |-> FALSE]

Init ==
    /\ rq = [tree |-> {}, curr |-> Idle, min_vruntime |-> 0, load_weight |-> 0,
             nr_queued |-> 0, nr_running |-> 0, cleanup |-> FALSE,
             nice |-> [e \in Tasks |-> CHOOSE n \in Nices : WeightOf[n] = NICE_0_LOAD],
             vruntime |-> [e \in Tasks |-> 0], deadline |-> [e \in Tasks |-> 0],
             slice |-> [e \in Tasks |-> 0], exec_start |-> [e \in Tasks |-> 0],
             account_start |-> [e \in Tasks |-> 0]]
    /\ state = [e \in Tasks |-> "ready"]
    /\ running = Idle /\ phase = "run"
    /\ call = NoCall
    /\ now = 1

\* sched_add_entity.  A waker's task_unblock_finish may come late, for a task
\* in any state; add_sched_entity is for a new task.
AddEntity(e, wakeup) ==
    /\ wakeup \/ rq.account_start[e] = 0
    /\ ~OnRq(rq, e)
    /\ LET place == IF wakeup THEN Less(rq.min_vruntime, WAKEUP_GRANULARITY)
                    ELSE rq.min_vruntime
       IN  rq' = UpdateMin(Enqueue([rq EXCEPT !.vruntime[e] = Max({@, place})], e))
    /\ UNCHANGED <<state, running, phase, call, now>>

\* Mutant: the running entity stays attached.
RemoveEntityQueued(s, e) == IF e \in s.tree THEN UpdateMin(Dequeue(s, e)) ELSE s

\* remove_sched_entity
RemoveEntity(s, e) ==
    IF e \in s.tree THEN UpdateMin(Dequeue(s, e))
    ELSE IF IsCurrent(s, e) THEN Detach(s, e)
    ELSE s

\* Mutant: the nice value changes under a queued entity.
SetNiceInPlace(e, n) ==
    /\ n # rq.nice[e]
    /\ rq' = [rq EXCEPT !.nice[e] = n]
    /\ UNCHANGED <<state, running, phase, call, now>>

\* sched_set_task_nice
SetNice(e, n) ==
    /\ n # rq.nice[e]
    /\ rq' = UpdateMin(
           IF e \in rq.tree
           THEN Enqueue([UpdateMin(Dequeue(rq, e)) EXCEPT !.nice[e] = n], e)
           ELSE IF IsCurrent(rq, e)
           THEN SetDeadline(
                  [rq EXCEPT !.vruntime[e] = @ + DeltaFair(rq, e, now - rq.account_start[e]),
                             !.account_start[e] = now,
                             !.nice[e] = n,
                             !.load_weight = Less(@, Weight(rq, e)) + WeightOf[n]], e)
           ELSE [rq EXCEPT !.nice[e] = n])
    /\ UNCHANGED <<state, running, phase, call, now>>

-----------------------------------------------------------------------------
(* The running task: schedule() and the ways into it                       *)

\* do_irq: a preemption due now asks for schedule().
DoIrq ==
    /\ phase \in {"run", "sleep"}
    /\ rq' = PreemptCleans(rq, running)
    /\ ShouldPreempt(rq, running, now)
    /\ phase' = "account"
    /\ call' = [at |-> now, must |-> TRUE, yield |-> FALSE]
    /\ UNCHANGED <<state, running, now>>

\* sched_yield, or schedule(0), which task_block calls to sleep.
Schedule(yield) ==
    /\ \/ phase = "run"
       \/ phase = "sleep" /\ ~yield
    /\ phase = "run" /\ running # Idle => rq.vruntime[running] < MaxVruntime
    /\ phase' = "account"
    /\ call' = [at |-> now, must |-> yield, yield |-> yield]
    /\ UNCHANGED <<rq, state, running, now>>

\* task_block commits to sleep and removes the entity, then enables
\* interrupts and calls schedule(0).
Block ==
    /\ phase = "run" /\ running # Idle
    /\ rq.vruntime[running] < MaxVruntime
    /\ state' = [state EXCEPT ![running] = "blocking"]
    /\ phase' = "remove"
    /\ UNCHANGED <<rq, running, call, now>>

BlockRemove ==
    /\ phase = "remove"
    /\ rq' = RemoveEntity(rq, running)
    /\ phase' = "sleep"
    /\ UNCHANGED <<state, running, call, now>>

\* The exit path removes the entity first and publishes TASK_DIED after.
ExitRemove ==
    /\ phase = "run" /\ running # Idle
    /\ rq' = RemoveEntity(rq, running)
    /\ phase' = "dying"
    /\ UNCHANGED <<state, running, call, now>>

ExitDied ==
    /\ phase = "dying"
    /\ state' = [state EXCEPT ![running] = "died"]
    /\ phase' = "account"
    /\ call' = [at |-> now, must |-> FALSE, yield |-> FALSE]
    /\ UNCHANGED <<rq, running, now>>

\* sched_account_runtime_until(prev, now_ns)
Account ==
    /\ phase = "account"
    /\ phase' = "check"
    /\ IF running = Idle THEN rq' = UpdateMin(rq)
       ELSE LET e == running
                queued == e \in rq.tree
                out == IF queued THEN UpdateMin(Dequeue(rq, e)) ELSE rq
                delta == IF rq.account_start[e] = 0 THEN 0
                         ELSE Less(call.at, rq.account_start[e])
                ran == [out EXCEPT !.vruntime[e] = @ + DeltaFair(rq, e, delta)]
            IN  rq' = UpdateMin(
                    IF queued THEN Enqueue(ran, e)
                    ELSE IF IsCurrent(ran, e)
                    THEN SetDeadline([ran EXCEPT !.account_start[e] = call.at], e)
                    ELSE ran)
    /\ UNCHANGED <<state, running, call, now>>

\* schedule(): keep the CPU, unless asked, asleep or due.
Check ==
    /\ phase = "check"
    /\ LET must == call.must \/ ~Ready(running) IN
       /\ rq' = IF must THEN rq ELSE PreemptCleans(rq, running)
       /\ IF must \/ ShouldPreempt(rq, running, call.at)
          THEN phase' = "pick" /\ UNCHANGED call
          ELSE phase' = "run" /\ call' = NoCall
    /\ UNCHANGED <<state, running, now>>

\* sched_pick_next_task_internal: the previous task goes back into the tree
\* when it is still READY (a yielding one after the pick), the picked one
\* becomes curr.
Requeued(s, e, yield) ==
    LET out == Detach(s, e)
        v == Max({out.vruntime[e], out.min_vruntime})
        placed == [out EXCEPT !.vruntime[e] = v + IF yield /\ out.nr_queued # 0 THEN 1 ELSE 0]
    IN  IF yield THEN placed ELSE Enqueue(placed, e)

Take(s, next) ==
    Attach(UpdateMin(Dequeue(s, next)), next)

Pick ==
    /\ phase = "pick"
    /\ phase' = "run" /\ call' = NoCall
    /\ LET clean == CleanIf(rq, rq.cleanup)
           prev == Ready(running) /\ running # Idle /\ IsCurrent(clean, running)
           alone == prev /\ call.yield /\ clean.nr_queued = 0
           back == IF prev THEN Requeued(clean, running, call.yield) ELSE clean
           s == AfterPick(back, Idle)
           next == PickEevdf(s, Idle)
           defer == prev /\ call.yield
       IN  IF alone THEN rq' = UpdateMin(clean) /\ UNCHANGED running
           ELSE IF next # Idle
           THEN /\ rq' = UpdateMin(IF defer THEN Enqueue(Take(s, next), running)
                                   ELSE Take(s, next))
                /\ running' = next
           ELSE IF defer
           THEN rq' = UpdateMin(Attach(s, running)) /\ UNCHANGED running
           ELSE /\ rq' = UpdateMin([s EXCEPT !.curr = Idle])
                /\ running' = Idle
    /\ UNCHANGED <<state, now>>

-----------------------------------------------------------------------------
\* task_unblock_prepare, on any CPU, under the block_lock that task_block
\* holds from Block to BlockRemove; AddEntity follows.
Wake(e) ==
    /\ ~(e = running /\ phase = "remove")
    /\ state[e] = "blocking"
    /\ state' = [state EXCEPT ![e] = "ready"]
    /\ UNCHANGED <<rq, running, phase, call, now>>

Tick ==
    /\ now < MaxTime
    /\ now' = now + 1
    /\ UNCHANGED <<rq, state, running, phase, call>>

Next ==
    \/ DoIrq \/ Block \/ BlockRemove \/ ExitRemove \/ ExitDied
    \/ Account \/ Check \/ Pick \/ Tick
    \/ \E y \in BOOLEAN : Schedule(y)
    \/ \E e \in Tasks : Wake(e) \/ \E w \in BOOLEAN : AddEntity(e, w)
    \/ \E e \in Tasks, n \in Nices : SetNice(e, n)

Spec == Init /\ [][Next]_vars

-----------------------------------------------------------------------------
Attached == {rq.curr} \ {Idle}

PerTask == [Tasks -> Nat]

\* The records an operator on runqueues takes and returns.
Runqueues ==
    [tree : SUBSET Tasks, curr : Tasks \cup {Idle}, cleanup : BOOLEAN,
     min_vruntime : Nat, load_weight : Nat, nr_queued : Nat, nr_running : Nat,
     nice : [Tasks -> Nices], vruntime : PerTask, deadline : PerTask,
     slice : PerTask, exec_start : PerTask, account_start : PerTask]

\* Types, and an entity is in the tree or attached but never both (on_rq and
\* curr of sched_add_entity, sched_curr_attach_locked).
TypeOK ==
    /\ rq \in Runqueues
    /\ rq.curr \notin rq.tree
    /\ state \in [Tasks -> {"ready", "blocking", "died"}]
    /\ running \in Tasks \cup {Idle}
    /\ phase \in {"run", "remove", "sleep", "dying", "account", "check", "pick"}
    /\ call \in [at : Nat, must : BOOLEAN, yield : BOOLEAN]
    /\ now \in Nat

\* nr_queued, nr_running and load_weight, which are kept by increments and
\* clamped decrements in seven places, always describe the tree and curr, and
\* no entity is in both.
CountersMatch ==
    /\ TypeOK
    /\ rq.nr_queued = Cardinality(rq.tree)
    /\ rq.nr_running = Cardinality(rq.tree \cup Attached)
    /\ rq.load_weight = MapThenSumSet(LAMBDA e : Weight(rq, e), rq.tree \cup Attached)

\* "Never report an empty runqueue while a READY entity is still present:
\* doing so sends the CPU to idle and strands that task": a pick goes idle
\* only when nothing that was queued or attached is READY.
NeverIdleWithReady ==
    [][phase = "pick" /\ phase' = "run" /\ running' = Idle =>
          \A e \in rq.tree \cup Attached : ~Ready(e)]_vars

\* The preemption timer is armed for a time at which the interrupt preempts.
TimerPreempts ==
    phase = "run" /\ running # Idle =>
        LET d == NextPreemptDeadline(rq, running, now) IN
        (\E e \in rq.tree \ {running} : Ready(e)) =>
            d <= MaxTime + MAX_GRANULARITY /\ ShouldPreempt(rq, running, d)

\* The runqueue keeps its promises whatever the order: a READY entity is
\* dropped by no operation, and is attached by the pick or stays queued.
Abstract == INSTANCE RunQueue WITH queued <- rq.tree, curr <- rq.curr

ImplementsRunQueue == Abstract!Spec
=============================================================================
