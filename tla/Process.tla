------------------------------ MODULE Process ------------------------------
(***************************************************************************)
(* The life of tasks: fork, vfork and thread creation, exit, reparenting,  *)
(* wait4, and the deferred release of dead tasks                           *)
(* (kernel/src/task/task.c, kernel/src/task/task_syscall.c).               *)
(*                                                                         *)
(* A step is a section under task_queue_lock or between two of them.  The  *)
(* sleep of a task is the abstraction of TaskBlock that WaitQueue uses;    *)
(* the budgets of the reaper are in Softirq.  A pid is the task itself: it *)
(* is not used again, and task_lookup_by_pid_nolock fails once the task is *)
(* freed.  Left out: ptrace, stop signals, PR_SET_PDEATHSIG, kernel        *)
(* threads, and what exit and exec do to files and memory.                 *)
(***************************************************************************)
EXTENDS Naturals, Sequences, Functions

CONSTANTS
    Tasks,         \* the tasks of a behaviour
    InitTask,      \* pid 1, which does not exit
    FirstTask,     \* a child of pid 1 that exists from the start
    None,
    Subreapers,    \* tasks that set PR_SET_CHILD_SUBREAPER
    Cloners,       \* tasks that clone
    Clones,        \* the ways to clone in use: "fork", "vfork", "thread"
    Waiters,       \* tasks that wait
    Waits,         \* the ways to wait in use: "wait", or "nohang" for WNOHANG
    Dispositions,  \* what a parent may do with SIGCHLD
    Signalled,     \* tasks that receive other signals with a handler
    Faults         \* outcomes of copy_to_user: "ok", "fault"

ASSUME ProcessAssumption ==
    /\ {InitTask, FirstTask} \subseteq Tasks /\ InitTask # FirstTask
    /\ None \notin Tasks
    /\ Subreapers \subseteq Tasks
    /\ Cloners \subseteq Tasks /\ Waiters \subseteq Tasks
    /\ Waits \subseteq {"wait", "nohang"}
    /\ Clones \subseteq {"fork", "vfork", "thread"}
    /\ Dispositions \subseteq {"default", "handler", "ignore", "nocldwait"}
    /\ Signalled \subseteq Tasks
    /\ Faults \subseteq {"ok", "fault"}

VARIABLES
    life,      \* task->state, and whether the task_t exists
    tgid,      \* task->tgid
    parent,    \* task->parent; parent_pid is its tgid
    orphaned,  \* tasks with orphaned_to_init
    reaped,    \* tasks with exit_reaped
    status,    \* dead tasks whose exit status has been stored
    waiter,    \* task->waitpid
    sleep,     \* block_preparing, wake_pending and state of a task
    at,        \* where a task is
    call,      \* the locals of its wait4 or clone call
    gexit,     \* thread groups with group_exit
    sigs,      \* tasks with a signal that a handler is to be run for
    vdone,     \* tasks with child_vfork_done
    vparent,   \* task->vfork_parent_pid
    freeq,     \* should_free_tasks
    reaper     \* SOFTIRQ_TASK_REAP pending, and the batch of softirqd

treeVars == <<life, tgid, parent, orphaned>>
exitVars == <<reaped, status, gexit, sigs>>
waitVars == <<waiter, sleep>>
forkVars == <<vdone, vparent>>
reapVars == <<freeq, reaper>>
vars == <<treeVars, exitVars, waitVars, forkVars, reapVars, at, call>>

ExitPlaces == {"vfork_done", "reparent", "die", "status", "wake", "notify", "switch"}
WaitPlaces == {"arm", "scan", "block", "wait", "copy"}
ForkPlaces == {"start", "vcheck", "vrecheck", "vblock", "vwait", "forked"}
Places == {"user", "reapcheck", "gone"} \cup ExitPlaces \cup WaitPlaces \cup ForkPlaces

Calls == [kind : {"none", "fork", "vfork", "thread", "wait", "nohang", "exit", "exit_thread"},
          task : Tasks \cup {None}, want : SUBSET Tasks]
NoCall == [kind |-> "none", task |-> None, want |-> {}]

TypeOK ==
    /\ life \in [Tasks -> {"none", "new", "live", "died", "freed"}]
    /\ tgid \in [Tasks -> Tasks]
    /\ parent \in [Tasks -> Tasks \cup {None}]
    /\ {orphaned, reaped, status, gexit, sigs, vdone} \subseteq SUBSET Tasks
    /\ waiter \in [Tasks -> Tasks \cup {None}]
    /\ sleep \in [Tasks -> {"awake", "prepared", "pending", "asleep"}]
    /\ at \in [Tasks -> Places]
    /\ call \in [Tasks -> Calls]
    /\ \A t \in Tasks : at[t] = "copy" => call[t].task # None
    /\ vparent \in [Tasks -> Tasks \cup {None}]
    /\ freeq \in Seq(Tasks)
    /\ reaper \in [raised : BOOLEAN, batch : {"none", "begun", "idle", "freed"}]

Init ==
    /\ life = [t \in Tasks |-> IF t \in {InitTask, FirstTask} THEN "live" ELSE "none"]
    /\ tgid = [t \in Tasks |-> t]
    /\ parent = [t \in Tasks |-> IF t = FirstTask THEN InitTask ELSE None]
    /\ orphaned = {} /\ reaped = {} /\ status = {} /\ gexit = {} /\ sigs = {} /\ vdone = {}
    /\ waiter = [t \in Tasks |-> None]
    /\ sleep = [t \in Tasks |-> "awake"]
    /\ at = [t \in Tasks |-> IF t \in {InitTask, FirstTask} THEN "user" ELSE "gone"]
    /\ call = [t \in Tasks |-> NoCall]
    /\ vparent = [t \in Tasks |-> None]
    /\ freeq = <<>>
    /\ reaper = [raised |-> FALSE, batch |-> "none"]

-----------------------------------------------------------------------------
(* Indexes and lookups.                                                    *)

Exists(t) == t # None /\ life[t] \in {"new", "live", "died"}
task_is_live(t) == Exists(t) /\ life[t] # "died"
is_clone(t) == tgid[t] # t

\* task_parent_pid, and the task that task_lookup_by_pid_nolock finds for it.
ParentPid(t) == IF parent[t] = None THEN None ELSE tgid[parent[t]]
Lookup(t) == IF Exists(t) THEN t ELSE None

\* task_parent_map: the children that wait4 of a thread group looks at.
Children(group) == {c \in Tasks : Exists(c) /\ ~is_clone(c) /\ ParentPid(c) = group}

\* task_signal_has_deliverable
Deliverable(t) == t \in sigs \/ tgid[t] \in gexit

\* The threads of a group, as the bucket of task_tgid_map has them.
Threads(group) == {t \in Tasks : Exists(t) /\ tgid[t] = group}

Goto(t, from, to) == at[t] = from /\ at' = [at EXCEPT ![t] = to]

\* task_unblock, for all tasks of a set.
Woken(ts) == [t \in Tasks |->
    CASE t \in ts /\ task_is_live(t) /\ sleep[t] = "prepared" -> "pending"
      [] t \in ts /\ task_is_live(t) /\ sleep[t] = "asleep"   -> "awake"
      [] OTHER -> sleep[t]]

\* wait_queue_wake_all on child_wait of a task: only its own wait4 adds an
\* entry, between task_child_wait_arm and task_child_wait_disarm.
Armed(p) == IF p # None /\ call[p].kind = "wait" /\ at[p] \in {"scan", "block", "wait"}
            THEN {p} ELSE {}

\* task_enqueue_should_free: a task that is in the list stays where it is.
EnqueueFree(t) ==
    /\ freeq' = IF t \in Range(freeq) THEN freeq ELSE Append(freeq, t)
    /\ reaper' = IF t \in Range(freeq) THEN reaper ELSE [reaper EXCEPT !.raised = TRUE]

\* task_set_parent_locked, for all tasks of a set.
SetParent(ts, p) ==
    LET moved == {c \in ts : parent[c] # p} IN
    /\ parent' = [c \in Tasks |-> IF c \in moved THEN p ELSE parent[c]]
    /\ orphaned' = IF p = InitTask THEN orphaned \cup moved ELSE orphaned \ moved

-----------------------------------------------------------------------------
(* sys_clone_internal and vfork.                                           *)

\* The child is built and put into the indexes.
CloneAttach(t, c, kind) ==
    /\ Goto(t, "user", "start")
    /\ life[c] = "none"
    /\ life' = [life EXCEPT ![c] = "new"]
    /\ tgid' = [tgid EXCEPT ![c] = IF kind = "thread" THEN tgid[t] ELSE c]
    /\ parent' = [parent EXCEPT ![c] = IF kind = "thread" THEN parent[t] ELSE t]
    /\ vparent' = [vparent EXCEPT ![c] = IF kind = "vfork" THEN t ELSE None]
    /\ vdone' = vdone \ {t}
    /\ call' = [call EXCEPT ![t] = [NoCall EXCEPT !.kind = kind, !.task = c]]
    /\ UNCHANGED <<orphaned, exitVars, waitVars, reapVars>>

\* add_sched_entity: the child runs from now on.
CloneStart(t) ==
    LET c == call[t].task IN
    /\ at[t] = "start"
    /\ life' = [life EXCEPT ![c] = "live"]
    /\ at' = [at EXCEPT ![t] = IF call[t].kind = "vfork" THEN "vcheck" ELSE "forked",
                        ![c] = "user"]
    /\ UNCHANGED <<tgid, parent, orphaned, exitVars, waitVars, forkVars, reapVars, call>>

\* The cgroup or the scheduler entity fails: task_cleanup_partial.
CloneFail(t) ==
    LET c == call[t].task IN
    /\ Goto(t, "start", "user")
    /\ life' = [life EXCEPT ![c] = "freed"]
    /\ SetParent({c} \cup {k \in Children(tgid[c]) : parent[k] = c}, None)
    /\ vparent' = [vparent EXCEPT ![c] = None]
    /\ call' = [call EXCEPT ![t] = NoCall]
    /\ UNCHANGED <<tgid, exitVars, waitVars, vdone, reapVars>>

CloneReturn(t) ==
    /\ Goto(t, "forked", "user")
    /\ call' = [call EXCEPT ![t] = NoCall]
    /\ UNCHANGED <<treeVars, exitVars, waitVars, forkVars, reapVars>>

\* task_wait_vfork_done_poll, round its loop.
VforkDone(t) ==
    /\ at[t] \in {"vcheck", "vrecheck"} /\ t \in vdone
    /\ at' = [at EXCEPT ![t] = "forked"]
    /\ vdone' = vdone \ {t}
    /\ sleep' = [sleep EXCEPT ![t] = "awake"]
    /\ UNCHANGED <<treeVars, exitVars, waiter, vparent, reapVars, call>>

\* Mutant: no second look at child_vfork_done.
VforkNoRecheck(t) ==
    /\ Goto(t, "vcheck", "vblock")
    /\ sleep' = [sleep EXCEPT ![t] = "prepared"]
    /\ UNCHANGED <<treeVars, exitVars, waiter, forkVars, reapVars, call>>

VforkPrepare(t) ==
    /\ Goto(t, "vcheck", "vrecheck") /\ t \notin vdone
    /\ sleep' = [sleep EXCEPT ![t] = "prepared"]
    /\ UNCHANGED <<treeVars, exitVars, waiter, forkVars, reapVars, call>>

VforkRecheck(t) ==
    /\ Goto(t, "vrecheck", "vblock") /\ t \notin vdone
    /\ UNCHANGED <<treeVars, exitVars, waitVars, forkVars, reapVars, call>>

Blocked(t) == [sleep EXCEPT ![t] = IF @ = "pending" THEN "awake" ELSE "asleep"]

VforkBlock(t) ==
    /\ Goto(t, "vblock", "vwait")
    /\ sleep' = Blocked(t)
    /\ UNCHANGED <<treeVars, exitVars, waiter, forkVars, reapVars, call>>

VforkReturn(t) ==
    /\ Goto(t, "vwait", "vcheck") /\ sleep[t] = "awake"
    /\ UNCHANGED <<treeVars, exitVars, waitVars, forkVars, reapVars, call>>

\* task_complete_vfork
CompleteVfork(t) ==
    LET p == Lookup(vparent[t]) IN
    /\ vparent' = [vparent EXCEPT ![t] = None]
    /\ IF p = None \/ p \in vdone
       THEN UNCHANGED <<vdone, sleep>>
       ELSE vdone' = vdone \cup {p} /\ sleep' = Woken({p})

\* execve of a vfork child gives its parent the address space back.
Exec(t) ==
    /\ at[t] = "user" /\ vparent[t] # None
    /\ CompleteVfork(t)
    /\ UNCHANGED <<treeVars, exitVars, waiter, reapVars, at, call>>

-----------------------------------------------------------------------------
(* task_exit, task_exit_thread and task_exit_inner.                        *)

\* exit_group: the vfork parent goes first, then the children.
task_exit(t) ==
    /\ t # InitTask
    /\ Goto(t, "user", IF vparent[t] = None THEN "reparent" ELSE "vfork_done")
    /\ call' = [call EXCEPT ![t] = [NoCall EXCEPT !.kind = "exit"]]
    /\ UNCHANGED <<treeVars, exitVars, waitVars, forkVars, reapVars>>

\* exit of a thread, also on the way to user mode after group_exit.
task_exit_thread(t) ==
    /\ t # InitTask
    /\ Goto(t, "user", "reparent")
    /\ call' = [call EXCEPT ![t] = [NoCall EXCEPT !.kind = "exit_thread"]]
    /\ UNCHANGED <<treeVars, exitVars, waitVars, forkVars, reapVars>>

ExitVfork(t) ==
    /\ Goto(t, "vfork_done", IF call[t].kind = "exit" THEN "reparent" ELSE "die")
    /\ CompleteVfork(t)
    /\ UNCHANGED <<treeVars, exitVars, waiter, reapVars, call>>

\* task_find_child_reaper_locked: the nearest live ancestor that is a
\* subreaper, or None.
ChildReaper(t) ==
    LET Up[p \in Tasks \cup {None}] ==
            CASE p = None -> None
              [] p # None /\ task_is_live(p) /\ p \in Subreapers -> p
              [] OTHER -> Up[Lookup(ParentPid(p))]
    IN  Up[Lookup(ParentPid(t))]

task_pick_process_reaper(t) ==
    LET s == ChildReaper(t) IN
    {IF s \in Subreapers /\ task_is_live(s) /\ s # t THEN s ELSE InitTask}

\* The leader, then any other live thread of the group.
task_pick_reaper(t) ==
    LET others == {u \in Threads(tgid[t]) \ {t} : task_is_live(u)} IN
    CASE tgid[t] \in others -> {tgid[t]}
      [] tgid[t] \notin others /\ others # {} -> others
      [] OTHER -> task_pick_process_reaper(t)

\* Mutant: the children that are dead already are not moved.
ReparentLive(t) ==
    LET kids == {c \in Children(tgid[t]) \ {t} : life[c] # "died" /\
                     (call[t].kind = "exit_thread" => parent[c] = t)}
    IN
    /\ at[t] = "reparent"
    /\ at' = [at EXCEPT ![t] = IF call[t].kind = "exit" \/ vparent[t] = None
                               THEN "die" ELSE "vfork_done"]
    /\ \E p \in task_pick_process_reaper(t) : SetParent(kids, p)
    /\ UNCHANGED <<life, tgid, exitVars, waitVars, forkVars, reapVars, call>>

\* task_reparent_children_locked; task_exit also makes the other threads exit.
Reparent(t) ==
    LET group == call[t].kind = "exit"
        kids  == {c \in Children(tgid[t]) \ {t} : group \/ parent[c] = t}
    IN
    /\ at[t] = "reparent"
    /\ at' = [at EXCEPT ![t] = IF group \/ vparent[t] = None THEN "die" ELSE "vfork_done"]
    /\ \E p \in IF group THEN task_pick_process_reaper(t) ELSE task_pick_reaper(t) :
           SetParent(kids, p)
    /\ gexit' = IF group THEN gexit \cup {tgid[t]} ELSE gexit
    /\ sleep' = IF group THEN Woken(Threads(tgid[t]) \ {t}) ELSE sleep
    /\ UNCHANGED <<life, tgid, reaped, status, sigs, waiter, forkVars, reapVars, call>>

\* The resources are released and the task leaves the runqueue for good.  It
\* stays on its CPU: preempt_count is raised until the last schedule.
Die(t) ==
    /\ Goto(t, "die", "status")
    /\ life' = [life EXCEPT ![t] = "died"]
    /\ UNCHANGED <<tgid, parent, orphaned, exitVars, waitVars, forkVars, reapVars, call>>

StoreStatus(t) ==
    /\ Goto(t, "status", "wake")
    /\ status' = status \cup {t}
    /\ UNCHANGED <<treeVars, reaped, gexit, sigs, waitVars, forkVars, reapVars, call>>

WakeWaiters(t) ==
    /\ Goto(t, "wake", "notify")
    /\ sleep' = Woken({waiter[t]} \cup Armed(Lookup(ParentPid(t))))
    /\ UNCHANGED <<treeVars, exitVars, waiter, forkVars, reapVars, call>>

\* Nobody is going to wait for the task: it is queued for release, unless a
\* wait4 was faster.
ReleaseSelf(t) ==
    IF t \in reaped
    THEN UNCHANGED <<reaped, freeq, reaper>>
    ELSE reaped' = reaped \cup {t} /\ EnqueueFree(t)

\* SIGCHLD to the parent, whose action d and whose mask are read under the
\* lock, and the decision about who releases the task.
NotifyParent(t, d, blocked) ==
    LET p == Lookup(ParentPid(t)) IN
    /\ Goto(t, "notify", "switch")
    /\ IF is_clone(t) \/ p = None
       THEN /\ parent' = [parent EXCEPT ![t] = IF is_clone(t) THEN @ ELSE None]
            /\ ReleaseSelf(t)
            /\ UNCHANGED <<sigs, sleep>>
       ELSE /\ UNCHANGED parent
            /\ sigs' = IF d = "handler" /\ ~blocked THEN sigs \cup {p} ELSE sigs
            /\ sleep' = Woken((IF d # "ignore" /\ ~blocked THEN {p} ELSE {}) \cup Armed(p))
            /\ IF t \in orphaned \/ d \in {"ignore", "nocldwait"}
               THEN ReleaseSelf(t)
               ELSE UNCHANGED <<reaped, freeq, reaper>>
    /\ UNCHANGED <<life, tgid, orphaned, status, gexit, waiter, forkVars, call>>

\* The last schedule: __switch_to clears on_cpu ...
SwitchAway(t) ==
    /\ Goto(t, "switch", "reapcheck")
    /\ UNCHANGED <<treeVars, exitVars, waitVars, forkVars, reapVars, call>>

\* ... and looks at the task once more, which may be freed by then.
ReapCheck(t) ==
    /\ Goto(t, "reapcheck", "gone")
    /\ \/ reaper' = [reaper EXCEPT !.raised = @ \/ t \in reaped]
       \/ life[t] = "freed" /\ UNCHANGED reaper
    /\ call' = [call EXCEPT ![t] = NoCall]
    /\ UNCHANGED <<treeVars, exitVars, waitVars, forkVars, freeq>>

-----------------------------------------------------------------------------
(* sys_wait4.  sys_waitid has the same loop; with WNOWAIT it ends like the *)
(* fault of copy_to_user.                                                  *)

\* -1 or a process group selects all children, a pid one of them.
Wait(t, kind, want) ==
    /\ Goto(t, "user", IF kind = "wait" THEN "arm" ELSE "scan")
    /\ Children(tgid[t]) # {}
    /\ call' = [call EXCEPT ![t] = [kind |-> kind, task |-> None, want |-> want]]
    /\ UNCHANGED <<treeVars, exitVars, waitVars, forkVars, reapVars>>

\* Mutant: the entry is queued without task_prepare_block.
ArmUnprepared(t) ==
    /\ Goto(t, "arm", "scan")
    /\ UNCHANGED <<treeVars, exitVars, waitVars, forkVars, reapVars, call>>

task_child_wait_arm(t) ==
    /\ Goto(t, "arm", "scan")
    /\ sleep' = [sleep EXCEPT ![t] = "prepared"]
    /\ UNCHANGED <<treeVars, exitVars, waiter, forkVars, reapVars, call>>

Wanted(t) == Children(tgid[t]) \cap call[t].want
Dead(t)   == {c \in Wanted(t) : life[c] = "died" /\ c \notin reaped}
Alive(t)  == {c \in Wanted(t) : life[c] # "died"}

\* Mutant: exit_reaped is not looked at.
FoundBlind(t) ==
    \E c \in {c \in Wanted(t) : life[c] = "died"} :
        /\ Goto(t, "scan", "copy")
        /\ reaped' = reaped \cup {c}
        /\ call' = [call EXCEPT ![t].task = c]
        /\ sleep' = [sleep EXCEPT ![t] = "awake"]
        /\ UNCHANGED <<treeVars, status, gexit, sigs, waiter, forkVars, reapVars>>

\* A dead child is marked for this caller, who then disarms.
Found(t) ==
    \E c \in Dead(t) :
        /\ Goto(t, "scan", "copy")
        /\ reaped' = reaped \cup {c}
        /\ call' = [call EXCEPT ![t].task = c]
        /\ sleep' = [sleep EXCEPT ![t] = "awake"]
        /\ UNCHANGED <<treeVars, status, gexit, sigs, waiter, forkVars, reapVars>>

\* Back to user mode without a child.
GiveUp(t) ==
    /\ at' = [at EXCEPT ![t] = "user"]
    /\ call' = [call EXCEPT ![t] = NoCall]
    /\ sleep' = [sleep EXCEPT ![t] = "awake"]

\* waitpid_mark_waiters_locked
Mark(t) == waiter' = [c \in Tasks |-> IF c \in Alive(t) \ reaped THEN t ELSE waiter[c]]

\* No dead child: WNOHANG returns 0, no child at all is ECHILD, a signal is
\* EINTR; otherwise the caller goes to sleep.
NotFound(t) ==
    /\ at[t] = "scan" /\ Dead(t) = {}
    /\ IF call[t].kind = "wait" /\ Alive(t) # {} THEN Mark(t) ELSE UNCHANGED waiter
    /\ IF call[t].kind = "wait" /\ Alive(t) # {} /\ ~Deliverable(t)
       THEN /\ at' = [at EXCEPT ![t] = "block"]
            /\ UNCHANGED <<call, sleep>>
       ELSE GiveUp(t)
    /\ UNCHANGED <<treeVars, exitVars, forkVars, reapVars>>

WaitBlock(t) ==
    /\ Goto(t, "block", "wait")
    /\ sleep' = Blocked(t)
    /\ UNCHANGED <<treeVars, exitVars, waiter, forkVars, reapVars, call>>

\* Woken: look again, or EINTR if a signal was the reason.
WaitReturn(t) ==
    /\ at[t] = "wait" /\ sleep[t] = "awake"
    /\ \/ at' = [at EXCEPT ![t] = "arm"] /\ UNCHANGED <<call, sleep>>
       \/ Deliverable(t) /\ GiveUp(t)
    /\ UNCHANGED <<treeVars, exitVars, waiter, forkVars, reapVars>>

\* The status is copied out and the child queued for release, or the child
\* is put back because the copy failed.
Collect(t, outcome) ==
    LET c == call[t].task IN
    /\ Goto(t, "copy", "user")
    /\ call' = [call EXCEPT ![t] = NoCall]
    /\ IF outcome = "ok" THEN EnqueueFree(c) /\ UNCHANGED reaped
                         ELSE reaped' = reaped \ {c} /\ UNCHANGED reapVars
    /\ UNCHANGED <<treeVars, status, gexit, sigs, waitVars, forkVars>>

\* task_send_signal, for a signal other than SIGCHLD.
SendSignal(t) ==
    /\ task_is_live(t) /\ at[t] \in WaitPlaces
    /\ sigs' = sigs \cup {t}
    /\ sleep' = Woken({t})
    /\ UNCHANGED <<treeVars, reaped, status, gexit, waiter, forkVars, reapVars, at, call>>

\* The handler of a signal runs on the way to user mode.
HandleSignal(t) ==
    /\ at[t] = "user" /\ t \in sigs
    /\ sigs' = sigs \ {t}
    /\ UNCHANGED <<treeVars, reaped, status, gexit, waitVars, forkVars, reapVars, at, call>>

-----------------------------------------------------------------------------
(* task_reap_softirq, with its budget as a batch that may end early.       *)

on_cpu(t) == at[t] # "gone" /\ at[t] # "reapcheck"

ReapBegin ==
    /\ reaper.raised /\ reaper.batch = "none"
    /\ reaper' = [raised |-> FALSE, batch |-> "begun"]
    /\ UNCHANGED <<treeVars, exitVars, waitVars, forkVars, freeq, at, call>>

\* The task_t goes, and its fields with it; its children lose their parent.
Release(t) ==
    /\ life' = [life EXCEPT ![t] = "freed"]
    /\ SetParent({c \in Children(tgid[t]) : parent[c] = t}, None)
    /\ waiter' = [waiter EXCEPT ![t] = None]
    /\ UNCHANGED <<tgid, sleep>>

\* Mutant: a task is freed although it is on a CPU.
FreeRunning ==
    /\ reaper.batch # "none" /\ freeq # <<>>
    /\ freeq' = Tail(freeq)
    /\ reaper' = [reaper EXCEPT !.batch = "freed"]
    /\ Release(Head(freeq))
    /\ UNCHANGED <<exitVars, forkVars, at, call>>

\* free_task for the head of the list; a task that is still on a CPU goes
\* back to its end.
free_task ==
    LET t == Head(freeq) IN
    /\ reaper.batch # "none" /\ freeq # <<>>
    /\ IF on_cpu(t)
       THEN /\ freeq' = Append(Tail(freeq), t)
            /\ reaper' = [raised |-> TRUE,
                          batch |-> IF reaper.batch = "begun" THEN "idle" ELSE reaper.batch]
            /\ UNCHANGED <<treeVars, waitVars>>
       ELSE /\ freeq' = Tail(freeq)
            /\ reaper' = [reaper EXCEPT !.batch = "freed"]
            /\ Release(t)
    /\ UNCHANGED <<exitVars, forkVars, at, call>>

ReapEnd ==
    /\ reaper.batch \in {"idle", "freed"} \/ (reaper.batch = "begun" /\ freeq = <<>>)
    /\ reaper' = [raised |-> reaper.raised \/ (reaper.batch = "freed" /\ freeq # <<>>),
                  batch |-> "none"]
    /\ UNCHANGED <<treeVars, exitVars, waitVars, forkVars, freeq, at, call>>

Reap == ReapBegin \/ free_task \/ ReapEnd

-----------------------------------------------------------------------------
ExitStep(t) ==
    \/ ExitVfork(t) \/ Reparent(t) \/ Die(t) \/ StoreStatus(t) \/ WakeWaiters(t)
    \/ \E d \in Dispositions, blocked \in BOOLEAN : NotifyParent(t, d, blocked)
    \/ SwitchAway(t) \/ ReapCheck(t)
WaitStep(t) ==
    \/ task_child_wait_arm(t) \/ Found(t) \/ NotFound(t) \/ WaitBlock(t) \/ WaitReturn(t)
    \/ \E outcome \in Faults : Collect(t, outcome)
CloneStep(t) ==
    \/ CloneStart(t) \/ CloneFail(t) \/ CloneReturn(t)
    \/ VforkDone(t) \/ VforkPrepare(t) \/ VforkRecheck(t) \/ VforkBlock(t) \/ VforkReturn(t)

\* The system calls a task in user mode may make.
UserStep(t) ==
    \/ task_exit(t) \/ task_exit_thread(t) \/ Exec(t) \/ HandleSignal(t)
    \/ t \in Cloners /\ \E c \in Tasks, kind \in Clones : CloneAttach(t, c, kind)
    \/ t \in Waiters /\ \E kind \in Waits, want \in {Tasks} \cup {{c} : c \in Children(tgid[t])} :
                          Wait(t, kind, want)

Next ==
    \/ \E t \in Tasks : UserStep(t) \/ ExitStep(t) \/ WaitStep(t) \/ CloneStep(t)
    \/ \E t \in Signalled : SendSignal(t)
    \/ Reap

Spec == Init /\ [][Next]_vars

-----------------------------------------------------------------------------
\* Nothing that is still in use refers to a freed task: it is off its CPU,
\* not in the list of tasks to free, nobody's parent, and no wait4 is about
\* to read its status.
NoDanglingTask ==
    TypeOK /\ \A t \in Tasks : life[t] = "freed" =>
        /\ ~on_cpu(t)
        /\ t \notin Range(freeq)
        /\ \A c \in Tasks : Exists(c) /\ ~is_clone(c) => parent[c] # t
        /\ \A w \in Tasks : at[w] = "copy" => call[w].task # t

\* The exit of a child is reported once: two calls of wait4 never hold the
\* same child, and none holds one that is already queued for release.
CollectedOnce ==
    \A w \in Tasks : at[w] = "copy" =>
        /\ call[w].task \in reaped
        /\ call[w].task \notin Range(freeq)
        /\ \A v \in Tasks \ {w} : at[v] = "copy" => call[v].task # call[w].task

\* A task sleeps in wait4 for a child that is dead and not yet reported.
Misses(t, c) == at[t] = "wait" /\ sleep[t] = "asleep" /\ c \in Dead(t)

\* Somebody who has yet to wake or to collect: a task on its way through
\* exit, or a thread of the same group that is awake in wait4.
OnTheWay(t) ==
    \/ \E u \in Tasks : at[u] \in ExitPlaces
    \/ \E u \in Threads(tgid[t]) : at[u] \in WaitPlaces /\ sleep[u] # "asleep"

\* The group of a task has, or had, other threads.
HadThreads(u) == \E v \in Tasks \ {u} : life[v] # "none" /\ tgid[v] = tgid[u]

\* The first thread of a process does not sleep in wait4 through the exit of
\* a child of its own: as long as it is asleep, the child has still to wake
\* it.  The exit wakes the child_wait queue of this thread only.  Left out
\* are the children that init or a subreaper inherits, and those that another
\* thread put back because it could not copy the status out.
NoMissedExit ==
    \A t \in Tasks, c \in Tasks \ orphaned :
        /\ Misses(t, c) /\ ~is_clone(t)
        /\ \A s \in Subreapers : tgid[s] # tgid[t]
        /\ "fault" \in Faults => ~HadThreads(t)
        => at[c] \in {"status", "wake", "notify"}

\* wait4 returns once a child that it waits for is dead, whichever thread of
\* the parent waits and whoever the child's first parent was.
NoMissedChild ==
    \A t, c \in Tasks : Misses(t, c) => OnTheWay(t)

\* A task that has been through task_reparent_children_locked.
HandedOn(u) ==
    \/ life[u] \in {"live", "died"} /\ at[u] \in
           (ExitPlaces \ {"vfork_done", "reparent"}) \cup {"reapcheck", "gone"}
    \/ at[u] = "vfork_done" /\ call[u].kind = "exit_thread"

\* A process that exits leaves no child behind, alive or dead, of whose exit
\* nobody would be told.  A subreaper or a thread may: the children of others
\* are handed to it while it exits, and free_task then takes their parent.
NoLostChild ==
    \A u \in Tasks : HandedOn(u) /\ u \notin Subreapers /\ ~HadThreads(u) =>
        \A c \in Tasks \ {u} : Exists(c) /\ ~is_clone(c) => parent[c] # u

\* A dead task that somebody has taken charge of is not forgotten: as long
\* as the list is not empty the reap softirq is raised, or its handler has
\* still to take a task or to raise itself again.
NoForgottenTask ==
    freeq # <<>> => reaper.raised \/ reaper.batch \in {"begun", "freed"}

\* No dead task is forgotten, be it that it waits for its parent or for the
\* reap softirq.
NoneForgotten == NoLostChild /\ NoForgottenTask

\* The parent of a vfork child does not sleep on once the child has exited
\* or executed another program: as long as it sleeps, a task is left that
\* will complete the vfork.
NoVforkStall ==
    \A t \in Tasks : at[t] = "vwait" /\ sleep[t] = "asleep" =>
        /\ t \notin vdone
        /\ \E c \in Tasks : vparent[c] = t /\ task_is_live(c)

=============================================================================
