--------------------------- MODULE ProcessProofs ---------------------------
(***************************************************************************)
(* Proofs about Process: the task tree, the children in the hands of wait4 *)
(* and the list of tasks to free, for every set of tasks.                  *)
(*                                                                         *)
(* None of the three properties proved here is inductive by itself.  That  *)
(* a freed task is nobody's parent and in nobody's hands rests on where    *)
(* each task is (Standing, Calling), on a task under construction being    *)
(* its builder's alone (Building), on parents that exist (Family), and on  *)
(* wait4 and should_free_tasks never holding the same child (Held,         *)
(* FreeList).  ProcInv is their conjunction.                               *)
(*                                                                         *)
(* Leaves without arithmetic name Zenon, which finds them faster than SMT. *)
(***************************************************************************)
EXTENDS Process, TLAPS

\* The places of a task that runs or can be made to run.
Running == {"user", "vfork_done", "reparent", "die"} \cup WaitPlaces \cup ForkPlaces

\* Where a task is says whether it lives.
Standing ==
    \A t \in Tasks :
        /\ at[t] \in Running => life[t] = "live"
        /\ at[t] \in {"status", "wake", "notify", "switch"} => life[t] = "died"
        /\ at[t] = "reapcheck" => life[t] \in {"died", "freed"}
        /\ at[t] = "gone" => life[t] # "live"

\* pid 1 does not exit.
InitStays == at[InitTask] \in {"user"} \cup WaitPlaces \cup ForkPlaces

\* What a task is in the middle of, and how awake it is.
Calling ==
    \A t \in Tasks :
        /\ at[t] \in {"vfork_done", "reparent"} => call[t].kind \in {"exit", "exit_thread"}
        /\ at[t] \in {"arm", "block", "wait"} => call[t].kind = "wait"
        /\ \/ at[t] \in {"block", "vrecheck", "vblock"}
           \/ at[t] = "scan" /\ call[t].kind = "wait"
           => sleep[t] \in {"prepared", "pending"}

\* A task that is being built is nobody's but its builder's.
Building ==
    \A t \in Tasks : at[t] = "start" =>
        /\ call[t].task # None /\ life[call[t].task] = "new"
        /\ call[t].kind = "vfork" => vparent[call[t].task] = t
        /\ \A u \in Tasks \ {t} : at[u] = "start" => call[u].task # call[t].task

\* A task that was not made yet is in nobody's group.
Unmade == \A t \in Tasks : life[t] = "none" => tgid[t] = t

\* A process has a parent that exists, or none; what init has adopted is
\* init's or nobody's.
Family ==
    /\ \A t \in Tasks : life[t] # "none" => life[tgid[t]] # "none"
    /\ \A c \in Tasks : Exists(c) /\ ~is_clone(c) /\ parent[c] # None => Exists(parent[c])
    /\ \A c \in orphaned : life[c] # "none" /\ parent[c] \in {InitTask, None}

\* The parents whose children NoMissedExit does not speak of.
Inherited(c) ==
    \/ c \in orphaned \/ parent[c] = None \/ parent[c] \in Subreapers
    \/ HadThreads(parent[c])

\* A child in the hands of a wait4 is dead, taken, not queued for release and
\* in no other hands; and it is a child of the caller, or was inherited since.
Held ==
    \A w \in Tasks : at[w] = "copy" =>
        /\ call[w].task \in reaped /\ life[call[w].task] = "died" /\ ~is_clone(call[w].task)
        /\ call[w].task \notin Range(freeq)
        /\ \A v \in Tasks \ {w} : at[v] = "copy" => call[v].task # call[w].task
        /\ ParentPid(call[w].task) = tgid[w] \/ Inherited(call[w].task)

\* should_free_tasks holds dead tasks that somebody took, each once.
Once(s) == \A i, j \in 1 .. Len(s) : s[i] = s[j] => i = j
FreeList == Once(freeq) /\ \A t \in Range(freeq) : t \in reaped /\ life[t] = "died"

\* The inductive invariant.
ProcInv ==
    /\ TypeOK /\ Standing /\ InitStays /\ Calling /\ Building /\ Unmade /\ Family
    /\ Held /\ FreeList /\ NoLostChild /\ NoForgottenTask

-----------------------------------------------------------------------------
(* Operators.                                                              *)

Sleeps == {"awake", "prepared", "pending", "asleep"}

\* task_unblock turns a prepared sleep into a pending wake and ends a sleep;
\* it never puts a task to sleep, and a live task it reaches is left awake.
LEMMA WokenFacts ==
    ASSUME TypeOK, NEW ts
    PROVE  /\ Woken(ts) \in [Tasks -> Sleeps]
           /\ \A t \in Tasks :
                 /\ Woken(ts)[t] \in {"prepared", "asleep"} => Woken(ts)[t] = sleep[t]
                 /\ sleep[t] \in {"prepared", "pending"} => Woken(ts)[t] \in {"prepared", "pending"}
                 /\ t \in ts /\ life[t] = "live" => Woken(ts)[t] \notin {"prepared", "asleep"}
<1>1. sleep \in [Tasks -> Sleeps] /\ life \in [Tasks -> {"none", "new", "live", "died", "freed"}]
  BY Zenon DEF TypeOK, Sleeps
<1>2. ASSUME NEW t \in Tasks
      PROVE  /\ Woken(ts)[t] \in Sleeps
             /\ Woken(ts)[t] \in {"prepared", "asleep"} => Woken(ts)[t] = sleep[t]
             /\ sleep[t] \in {"prepared", "pending"} => Woken(ts)[t] \in {"prepared", "pending"}
             /\ t \in ts /\ life[t] = "live" => Woken(ts)[t] \notin {"prepared", "asleep"}
  <2>1. life[t] = "live" => task_is_live(t)
    BY ProcessAssumption, Zenon DEF task_is_live, Exists
  <2>2. CASE t \in ts /\ task_is_live(t) /\ sleep[t] = "prepared"
    BY <2>2, Zenon DEF Woken, Sleeps
  <2>3. CASE t \in ts /\ task_is_live(t) /\ sleep[t] = "asleep"
    BY <2>3, Zenon DEF Woken, Sleeps
  <2>4. CASE ~(t \in ts /\ task_is_live(t) /\ sleep[t] \in {"prepared", "asleep"})
    <3>1. Woken(ts)[t] = sleep[t]
      BY <2>4, Zenon DEF Woken
    <3> QED
      BY <1>1, <2>1, <2>4, <3>1, Zenon DEF Sleeps
  <2> QED
    BY <2>2, <2>3, <2>4, Zenon
<1>3. Woken(ts) = [t \in Tasks |-> Woken(ts)[t]]
  BY Zenon DEF Woken
<1> QED
  BY <1>2, <1>3, Zenon

\* The new parent of a process: init or a live subreaper.
LEMMA ProcessReaperFacts ==
    ASSUME NEW t \in Tasks, NEW p \in task_pick_process_reaper(t)
    PROVE  p = InitTask \/ (p \in Subreapers /\ task_is_live(p) /\ p # t)
  BY Zenon DEF task_pick_process_reaper

\* The new parent of the children of a thread: another live thread, or that.
LEMMA ReaperFacts ==
    ASSUME NEW t \in Tasks, NEW p \in task_pick_reaper(t)
    PROVE  \/ p \in Threads(tgid[t]) \ {t} /\ task_is_live(p)
           \/ p = InitTask \/ (p \in Subreapers /\ task_is_live(p) /\ p # t)
<1> DEFINE others == {u \in Threads(tgid[t]) \ {t} : task_is_live(u)}
<1>1. CASE tgid[t] \in others
  BY <1>1, Zenon DEF task_pick_reaper
<1>2. CASE tgid[t] \notin others /\ others # {}
  BY <1>2, Zenon DEF task_pick_reaper
<1>3. CASE ~(tgid[t] \in others) /\ ~(others # {})
  <2>1. task_pick_reaper(t) = task_pick_process_reaper(t)
    BY <1>3, Zenon DEF task_pick_reaper
  <2> QED
    BY <2>1, ProcessReaperFacts, Zenon
<1> QED
  BY <1>1, <1>2, <1>3, Zenon

\* task_set_parent_locked, child by child.
LEMMA SetParentFacts ==
    ASSUME TypeOK, NEW ts \in SUBSET Tasks, NEW p \in Tasks \cup {None}, SetParent(ts, p)
    PROVE  /\ parent' \in [Tasks -> Tasks \cup {None}] /\ orphaned' \in SUBSET Tasks
           /\ \A c \in Tasks : parent'[c] = IF c \in ts THEN p ELSE parent[c]
           /\ \A c \in Tasks \ ts : c \in orphaned' <=> c \in orphaned
           /\ \A c \in Tasks \cap ts : parent[c] # p => (c \in orphaned' <=> p = InitTask)
           /\ \A c \in Tasks \cap ts : parent[c] = p => (c \in orphaned' <=> c \in orphaned)
  BY Zenon DEF SetParent, TypeOK

\* Appending to the list of tasks to free.
LEMMA AppendFacts ==
    ASSUME NEW s \in Seq(Tasks), NEW t \in Tasks
    PROVE  /\ Append(s, t) \in Seq(Tasks) /\ Range(Append(s, t)) = Range(s) \cup {t}
           /\ Once(s) /\ t \notin Range(s) => Once(Append(s, t))
<1>1. /\ Append(s, t) \in Seq(Tasks) /\ Len(Append(s, t)) = Len(s) + 1
      /\ \A i \in 1 .. Len(s) : Append(s, t)[i] = s[i]
      /\ Append(s, t)[Len(s) + 1] = t
  OBVIOUS
<1>2. Len(s) \in Nat /\ DOMAIN s = 1 .. Len(s) /\ DOMAIN Append(s, t) = 1 .. Len(s) + 1
  BY <1>1
<1>3. Range(Append(s, t)) = Range(s) \cup {t}
  BY <1>1, <1>2 DEF Range
<1>4. ASSUME Once(s), t \notin Range(s) PROVE Once(Append(s, t))
  <2>1. \A i \in 1 .. Len(s) : s[i] # t
    BY <1>2, <1>4, Zenon DEF Range
  <2> QED
    BY <1>1, <1>2, <1>4, <2>1 DEF Once
<1> QED
  BY <1>1, <1>3, <1>4, Zenon

\* Taking the head off it.
LEMMA TailFacts ==
    ASSUME NEW s \in Seq(Tasks), s # <<>>
    PROVE  /\ Head(s) \in Tasks /\ Head(s) \in Range(s)
           /\ Tail(s) \in Seq(Tasks) /\ Range(Tail(s)) \subseteq Range(s)
           /\ Once(s) => Once(Tail(s)) /\ Head(s) \notin Range(Tail(s))
<1>1. /\ Len(s) \in Nat \ {0} /\ DOMAIN s = 1 .. Len(s) /\ Head(s) = s[1] /\ s[1] \in Tasks
      /\ Tail(s) \in Seq(Tasks) /\ Len(Tail(s)) = Len(s) - 1
      /\ DOMAIN Tail(s) = 1 .. Len(s) - 1
      /\ \A i \in 1 .. Len(s) - 1 : Tail(s)[i] = s[i + 1]
  OBVIOUS
<1>2. Head(s) \in Range(s)
  BY <1>1 DEF Range
<1>3. \A i \in 1 .. Len(s) - 1 : i + 1 \in 1 .. Len(s) /\ i + 1 # 1
  BY <1>1
<1>4. Range(Tail(s)) \subseteq Range(s)
  BY <1>1, <1>3 DEF Range
<1>5. Once(s) => Head(s) \notin Range(Tail(s))
  BY <1>1, <1>3 DEF Range, Once
<1>6. Once(s) => Once(Tail(s))
  BY <1>1, <1>3 DEF Once
<1> QED
  BY <1>1, <1>2, <1>4, <1>5, <1>6, Zenon

Reapers == [raised : BOOLEAN, batch : {"none", "begun", "idle", "freed"}]

\* task_enqueue_should_free adds the task and leaves the softirq raised.
LEMMA EnqueueFacts ==
    ASSUME TypeOK, NEW t \in Tasks, EnqueueFree(t)
    PROVE  /\ freeq' \in Seq(Tasks) /\ reaper' \in Reapers
           /\ Range(freeq') = Range(freeq) \cup {t}
           /\ Once(freeq) => Once(freeq')
           /\ NoForgottenTask => NoForgottenTask'
<1>1. freeq \in Seq(Tasks) /\ reaper \in Reapers
  BY Zenon DEF TypeOK, Reapers
<1>2. CASE t \in Range(freeq)
  BY <1>1, <1>2, Zenon DEF EnqueueFree, NoForgottenTask
<1>3. CASE t \notin Range(freeq)
  <2>1. freeq' = Append(freeq, t) /\ reaper' = [reaper EXCEPT !.raised = TRUE]
    BY <1>3, Zenon DEF EnqueueFree
  <2>2. reaper' \in Reapers /\ reaper'.raised
    BY <1>1, <2>1, Zenon DEF Reapers
  <2> QED
    BY <1>1, <1>3, <2>1, <2>2, AppendFacts, Zenon DEF NoForgottenTask
<1> QED
  BY <1>2, <1>3, Zenon

\* task_complete_vfork tells the parent, and a parent that exists is told.
LEMMA CompleteVforkFacts ==
    ASSUME TypeOK, NEW t \in Tasks, CompleteVfork(t)
    PROVE  /\ vparent' \in [Tasks -> Tasks \cup {None}] /\ vparent' = [vparent EXCEPT ![t] = None]
           /\ vdone' \in SUBSET Tasks /\ vdone \subseteq vdone'
           /\ vdone' \subseteq vdone \cup {vparent[t]}
           /\ vparent[t] \in Tasks /\ life[vparent[t]] = "live" => vparent[t] \in vdone'
           /\ sleep' = sleep \/ sleep' = Woken({vparent[t]})
           /\ \A u \in vdone' \ vdone : sleep' = Woken({u})
<1>1. vparent[t] \in Tasks \cup {None}
  BY Zenon DEF TypeOK
<1>2. CASE Lookup(vparent[t]) = None \/ Lookup(vparent[t]) \in vdone
  <2>1. vdone' = vdone /\ sleep' = sleep /\ vparent' = [vparent EXCEPT ![t] = None]
    BY <1>2, Zenon DEF CompleteVfork
  <2>2. vparent[t] \in Tasks /\ life[vparent[t]] = "live" => vparent[t] \in vdone
    BY <1>2, ProcessAssumption, Zenon DEF Lookup, Exists
  <2> QED
    BY <1>1, <2>1, <2>2, Zenon DEF TypeOK
<1>3. CASE ~(Lookup(vparent[t]) = None \/ Lookup(vparent[t]) \in vdone)
  <2>1. Lookup(vparent[t]) = vparent[t] /\ vparent[t] \in Tasks
    BY <1>1, <1>3, Zenon DEF Lookup, Exists
  <2>2. /\ vdone' = vdone \cup {vparent[t]} /\ sleep' = Woken({vparent[t]})
        /\ vparent' = [vparent EXCEPT ![t] = None]
    BY <1>3, <2>1, Zenon DEF CompleteVfork
  <2> QED
    BY <1>1, <2>1, <2>2, Zenon DEF TypeOK
<1> QED
  BY <1>2, <1>3, Zenon

\* task_reparent_children_locked moves the children of the caller, at least,
\* to one task that exists: pid 1, a subreaper, or another live thread, and
\* to that only the caller's own.
LEMMA ReparentFacts ==
    ASSUME TypeOK, NEW t \in Tasks, t # InitTask, Exists(InitTask), Reparent(t)
    PROVE  \E p \in Tasks \ {t}, kids \in SUBSET (Children(tgid[t]) \ {t}) :
              /\ SetParent(kids, p)
              /\ \A c \in Children(tgid[t]) \ {t} : parent[c] = t => c \in kids
              /\ Exists(p)
              /\ \/ p = InitTask \/ p \in Subreapers
                 \/ tgid[p] = tgid[t] /\ \A c \in kids : parent[c] = t
<1> DEFINE group == call[t].kind = "exit"
           kids  == {c \in Children(tgid[t]) \ {t} : group \/ parent[c] = t}
           ps    == IF group THEN task_pick_process_reaper(t) ELSE task_pick_reaper(t)
<1>1. PICK p \in ps : SetParent(kids, p)
  BY Zenon DEF Reparent
<1>2. \/ p = InitTask \/ (p \in Subreapers /\ task_is_live(p) /\ p # t)
      \/ ~group /\ p \in Threads(tgid[t]) \ {t} /\ task_is_live(p)
  <2>1. CASE group
    BY <1>1, <2>1, ProcessReaperFacts, Zenon
  <2>2. CASE ~group
    BY <1>1, <2>2, ReaperFacts, Zenon
  <2> QED
    BY <2>1, <2>2, Zenon
<1>3. p \in Tasks \ {t} /\ Exists(p)
  BY <1>2, ProcessAssumption, Zenon DEF Threads, task_is_live
<1>4. /\ kids \in SUBSET (Children(tgid[t]) \ {t})
      /\ \A c \in Children(tgid[t]) \ {t} : parent[c] = t => c \in kids
  OBVIOUS
<1>5. \/ p = InitTask \/ p \in Subreapers
      \/ tgid[p] = tgid[t] /\ \A c \in kids : parent[c] = t
  BY <1>2, Zenon DEF Threads
<1> HIDE DEF kids
<1> QED
  BY <1>1, <1>3, <1>4, <1>5, Zenon

\* free_task frees the head of the list, if it is off its CPU, and leaves its
\* children without a parent.
LEMMA ReleaseFacts ==
    ASSUME TypeOK, NEW t \in Tasks, Release(t)
    PROVE  \E kids \in SUBSET Tasks :
              /\ SetParent(kids, None)
              /\ \A c \in Tasks : parent[c] = t /\ Exists(c) /\ ~is_clone(c) => c \in kids
              /\ life' = [life EXCEPT ![t] = "freed"]
              /\ waiter' = [waiter EXCEPT ![t] = None] /\ tgid' = tgid /\ sleep' = sleep
<1> DEFINE kids == {c \in Children(tgid[t]) : parent[c] = t}
<1>1. kids \in SUBSET Tasks
  BY Zenon DEF Children
<1>2. \A c \in Tasks : parent[c] = t /\ Exists(c) /\ ~is_clone(c) => c \in kids
  BY ProcessAssumption, Zenon DEF Children, ParentPid
<1> HIDE DEF kids
<1> QED
  BY <1>1, <1>2, Zenon DEF Release, kids

\* The locals of a call are replaced whole, or the task in them.
LEMMA NoCallFacts == NoCall \in Calls
  BY Zenon DEF Calls, NoCall

\* What clone, exit and wait4 put there is a call.
LEMMA NewCallFacts ==
    \A k \in {"none", "fork", "vfork", "thread", "wait", "nohang", "exit", "exit_thread"},
       c \in Tasks \cup {None}, w \in SUBSET Tasks :
        /\ [kind |-> k, task |-> c, want |-> w] \in Calls
        /\ [NoCall EXCEPT !.kind = k] \in Calls
        /\ [NoCall EXCEPT !.kind = k, !.task = c] \in Calls
  BY Zenon DEF Calls, NoCall

\* wait4 notes the child it found, and keeps what it was looking for.
LEMMA TakenCallFacts ==
    \A x \in Calls, c \in Tasks \cup {None} :
        /\ [x EXCEPT !.task = c] \in Calls /\ [x EXCEPT !.task = c].task = c
        /\ [x EXCEPT !.task = c].kind = x.kind /\ [x EXCEPT !.task = c].want = x.want
  BY Zenon DEF Calls

\* pid 1 exists, and it is not on its way out.
LEMMA InitExists ==
    ASSUME ProcInv
    PROVE  /\ Exists(InitTask) /\ ~HandedOn(InitTask)
           /\ at[InitTask] \notin ExitPlaces \cup {"reapcheck", "gone"}
<1>1. at[InitTask] \in Running /\ at[InitTask] \notin ExitPlaces \cup {"reapcheck", "gone"}
  BY Zenon DEF ProcInv, InitStays, Running, ExitPlaces, WaitPlaces, ForkPlaces
<1>2. life[InitTask] = "live"
  BY <1>1, ProcessAssumption, Zenon DEF ProcInv, Standing
<1> QED
  BY <1>1, <1>2, ProcessAssumption, Zenon DEF Exists, HandedOn, ExitPlaces

\* The actions of Next, with what the parameters may be.
LEMMA NextCases ==
    ASSUME [Next]_vars
    PROVE  \/ UNCHANGED vars
           \/ \E t \in Tasks :
                 \/ CloneStart(t) \/ CloneFail(t) \/ CloneReturn(t) \/ VforkDone(t)
                 \/ VforkPrepare(t) \/ VforkRecheck(t) \/ VforkBlock(t) \/ VforkReturn(t)
                 \/ Exec(t) \/ task_exit(t) \/ task_exit_thread(t) \/ ExitVfork(t)
                 \/ Reparent(t) \/ Die(t) \/ StoreStatus(t) \/ WakeWaiters(t)
                 \/ SwitchAway(t) \/ ReapCheck(t) \/ task_child_wait_arm(t) \/ Found(t)
                 \/ NotFound(t) \/ WaitBlock(t) \/ WaitReturn(t) \/ HandleSignal(t)
                 \/ SendSignal(t)
                 \/ \E c \in Tasks, kind \in Clones : CloneAttach(t, c, kind)
                 \/ \E kind \in Waits, want \in SUBSET Tasks : Wait(t, kind, want)
                 \/ \E d, blocked : NotifyParent(t, d, blocked)
                 \/ \E outcome \in Faults : Collect(t, outcome)
           \/ ReapBegin \/ free_task \/ ReapEnd
<1> USE ProcessAssumption
<1>1. ASSUME NEW t \in Tasks, UserStep(t)
      PROVE  \/ task_exit(t) \/ task_exit_thread(t) \/ Exec(t) \/ HandleSignal(t)
             \/ \E c \in Tasks, kind \in Clones : CloneAttach(t, c, kind)
             \/ \E kind \in Waits, want \in SUBSET Tasks : Wait(t, kind, want)
  <2>1. {Tasks} \cup {{c} : c \in Children(tgid[t])} \subseteq SUBSET Tasks
    BY Zenon DEF Children
  <2> QED
    BY <1>1, <2>1, Zenon DEF UserStep
<1>2. ASSUME NEW t \in Signalled, SendSignal(t)
      PROVE  \E u \in Tasks : SendSignal(u)
  BY <1>2, Zenon
<1> QED
  BY <1>1, <1>2, Zenon DEF Next, ExitStep, WaitStep, CloneStep, Reap

\* Every step keeps the types.
LEMMA TypeNext == ProcInv /\ [Next]_vars => TypeOK'
<1> SUFFICES ASSUME ProcInv, [Next]_vars PROVE TypeOK'
  OBVIOUS
<1>0. TypeOK /\ Building
  BY Zenon DEF ProcInv
<1> USE <1>0
<1>1. CASE UNCHANGED vars
  BY <1>1, Zenon DEF vars, TypeOK, treeVars, exitVars, waitVars, forkVars, reapVars
<1>2. ASSUME NEW t \in Tasks, CloneStart(t) PROVE TypeOK'
  BY <1>2, Zenon DEF CloneStart, TypeOK, Calls, Places, WaitPlaces, ForkPlaces, ExitPlaces,
     exitVars, waitVars, forkVars, reapVars
<1>3. ASSUME NEW t \in Tasks, CloneFail(t) PROVE TypeOK'
  <2> DEFINE c == call[t].task
  <2>1. c \in Tasks
    BY <1>3, Zenon DEF Building, TypeOK, Calls, CloneFail, Goto
  <2>2. parent' \in [Tasks -> Tasks \cup {None}] /\ orphaned' \in SUBSET Tasks
    BY <1>3, <2>1, SetParentFacts, Zenon DEF CloneFail, Children
  <2>3. call' \in [Tasks -> Calls] /\ at' \in [Tasks -> Places]
    BY <1>3, NoCallFacts, Zenon DEF CloneFail, Goto, TypeOK, Places
  <2>4. \A u \in Tasks : at'[u] = "copy" => call'[u].task # None
    BY <1>3, Zenon DEF CloneFail, Goto, TypeOK
  <2>5. /\ life' \in [Tasks -> {"none", "new", "live", "died", "freed"}]
        /\ vparent' \in [Tasks -> Tasks \cup {None}]
    BY <1>3, Zenon DEF CloneFail, TypeOK
  <2> QED
    BY <1>3, <2>2, <2>3, <2>4, <2>5 DEF CloneFail, TypeOK, exitVars, waitVars, reapVars
<1>4. ASSUME NEW t \in Tasks, CloneReturn(t) PROVE TypeOK'
  BY <1>4, Zenon DEF CloneReturn, TypeOK, Goto, NoCall, Calls, Places, WaitPlaces, ForkPlaces,
     ExitPlaces, treeVars, exitVars, waitVars, forkVars, reapVars
<1>5. ASSUME NEW t \in Tasks, VforkDone(t) PROVE TypeOK'
  BY <1>5 DEF VforkDone, TypeOK, Calls, Places, WaitPlaces, ForkPlaces, ExitPlaces, treeVars,
     exitVars, reapVars
<1>6. ASSUME NEW t \in Tasks, VforkPrepare(t) PROVE TypeOK'
  BY <1>6, Zenon DEF VforkPrepare, TypeOK, Goto, Calls, Places, WaitPlaces, ForkPlaces,
     ExitPlaces, treeVars, exitVars, forkVars, reapVars
<1>7. ASSUME NEW t \in Tasks, VforkRecheck(t) PROVE TypeOK'
  BY <1>7, Zenon DEF VforkRecheck, TypeOK, Goto, Calls, Places, WaitPlaces, ForkPlaces,
     ExitPlaces, treeVars, exitVars, waitVars, forkVars, reapVars
<1>8. ASSUME NEW t \in Tasks, VforkBlock(t) PROVE TypeOK'
  BY <1>8, Zenon DEF VforkBlock, TypeOK, Goto, Calls, Places, WaitPlaces, ForkPlaces,
     ExitPlaces, treeVars, exitVars, forkVars, reapVars, Blocked
<1>9. ASSUME NEW t \in Tasks, VforkReturn(t) PROVE TypeOK'
  BY <1>9, Zenon DEF VforkReturn, TypeOK, Goto, Calls, Places, WaitPlaces, ForkPlaces,
     ExitPlaces, treeVars, exitVars, waitVars, forkVars, reapVars
<1>10. ASSUME NEW t \in Tasks, Exec(t) PROVE TypeOK'
  <2>1. CompleteVfork(t)
    BY <1>10, Zenon DEF Exec
  <2>2. /\ vparent' \in [Tasks -> Tasks \cup {None}] /\ vdone' \in SUBSET Tasks
        /\ sleep' = sleep \/ sleep' = Woken({vparent[t]})
    BY <2>1, CompleteVforkFacts, Zenon
  <2>3. sleep' \in [Tasks -> Sleeps]
    BY <2>2, WokenFacts DEF TypeOK, Sleeps
  <2>4. at' \in [Tasks -> Places] /\ \A u \in Tasks : at'[u] = "copy" => at[u] = "copy"
    BY <1>10, Zenon DEF Exec, TypeOK, Places, ExitPlaces
  <2> QED
    BY <1>10, <2>2, <2>3, <2>4 DEF Exec, TypeOK, Sleeps, treeVars, exitVars, reapVars
<1>11. ASSUME NEW t \in Tasks, task_exit(t) PROVE TypeOK'
  BY <1>11, Zenon DEF task_exit, TypeOK, Goto, NoCall, Calls, Places, WaitPlaces, ForkPlaces,
     ExitPlaces, treeVars, exitVars, waitVars, forkVars, reapVars
<1>12. ASSUME NEW t \in Tasks, task_exit_thread(t) PROVE TypeOK'
  BY <1>12, Zenon DEF task_exit_thread, TypeOK, Goto, NoCall, Calls, Places, WaitPlaces,
     ForkPlaces, ExitPlaces, treeVars, exitVars, waitVars, forkVars, reapVars
<1>13. ASSUME NEW t \in Tasks, ExitVfork(t) PROVE TypeOK'
  <2>1. CompleteVfork(t)
    BY <1>13, Zenon DEF ExitVfork
  <2>2. /\ vparent' \in [Tasks -> Tasks \cup {None}] /\ vdone' \in SUBSET Tasks
        /\ sleep' = sleep \/ sleep' = Woken({vparent[t]})
    BY <2>1, CompleteVforkFacts, Zenon
  <2>3. sleep' \in [Tasks -> Sleeps]
    BY <2>2, WokenFacts DEF TypeOK, Sleeps
  <2>4. at' \in [Tasks -> Places] /\ \A u \in Tasks : at'[u] = "copy" => at[u] = "copy"
    BY <1>13, Zenon DEF ExitVfork, Goto, TypeOK, Places, ExitPlaces
  <2> QED
    BY <1>13, <2>2, <2>3, <2>4 DEF ExitVfork, TypeOK, Sleeps, treeVars, exitVars, reapVars
<1>14. ASSUME NEW t \in Tasks, Reparent(t) PROVE TypeOK'
  <2>0. t # InitTask /\ Exists(InitTask)
    BY <1>14, InitExists, Zenon DEF Reparent, ExitPlaces
  <2>1. PICK p \in Tasks, kids \in SUBSET Tasks : SetParent(kids, p)
    BY <1>14, <2>0, ReparentFacts, Zenon DEF Children
  <2>2. parent' \in [Tasks -> Tasks \cup {None}] /\ orphaned' \in SUBSET Tasks
    BY <2>1, SetParentFacts, Zenon
  <2>3. sleep' \in [Tasks -> Sleeps]
    BY <1>14, WokenFacts, Zenon DEF Reparent, TypeOK, Sleeps
  <2>4. at' \in [Tasks -> Places] /\ \A u \in Tasks : at'[u] = "copy" => at[u] = "copy"
    BY <1>14, Zenon DEF Reparent, TypeOK, Places, ExitPlaces
  <2>5. gexit' \in SUBSET Tasks
    BY <1>14 DEF Reparent, TypeOK
  <2>6. UNCHANGED <<life, tgid, reaped, status, sigs, waiter, forkVars, reapVars, call>>
    BY <1>14, Zenon DEF Reparent
  <2> QED
    BY <2>2, <2>3, <2>4, <2>5, <2>6 DEF TypeOK, Sleeps, forkVars, reapVars
<1>15. ASSUME NEW t \in Tasks, Die(t) PROVE TypeOK'
  BY <1>15, Zenon DEF Die, TypeOK, Goto, Calls, Places, WaitPlaces, ForkPlaces, ExitPlaces,
     exitVars, waitVars, forkVars, reapVars
<1>16. ASSUME NEW t \in Tasks, StoreStatus(t) PROVE TypeOK'
  BY <1>16 DEF StoreStatus, TypeOK, Goto, Calls, Places, WaitPlaces, ForkPlaces, ExitPlaces,
     treeVars, waitVars, forkVars, reapVars
<1>17. ASSUME NEW t \in Tasks, WakeWaiters(t) PROVE TypeOK'
  <2>1. sleep' \in [Tasks -> Sleeps]
    BY <1>17, WokenFacts, Zenon DEF WakeWaiters
  <2> QED
    BY <1>17, <2>1, Zenon DEF WakeWaiters, TypeOK, Sleeps, Goto, Places, WaitPlaces,
       ForkPlaces, ExitPlaces, treeVars, exitVars, forkVars, reapVars
<1>18. ASSUME NEW t \in Tasks, SwitchAway(t) PROVE TypeOK'
  BY <1>18, Zenon DEF SwitchAway, TypeOK, Goto, Calls, Places, WaitPlaces, ForkPlaces,
     ExitPlaces, treeVars, exitVars, waitVars, forkVars, reapVars
<1>19. ASSUME NEW t \in Tasks, ReapCheck(t) PROVE TypeOK'
  BY <1>19, Zenon DEF ReapCheck, TypeOK, Goto, NoCall, Calls, Places, WaitPlaces, ForkPlaces,
     ExitPlaces, treeVars, exitVars, waitVars, forkVars
<1>20. ASSUME NEW t \in Tasks, task_child_wait_arm(t) PROVE TypeOK'
  BY <1>20, Zenon DEF task_child_wait_arm, TypeOK, Goto, Calls, Places, WaitPlaces, ForkPlaces,
     ExitPlaces, treeVars, exitVars, forkVars, reapVars
<1>21. ASSUME NEW t \in Tasks, Found(t) PROVE TypeOK'
  <2>1. PICK c \in Dead(t) : /\ Goto(t, "scan", "copy") /\ reaped' = reaped \cup {c}
                             /\ call' = [call EXCEPT ![t].task = c]
                             /\ sleep' = [sleep EXCEPT ![t] = "awake"]
    BY <1>21, Zenon DEF Found
  <2>2. c \in Tasks
    BY Zenon DEF Dead, Wanted, Children
  <2>3. /\ at' \in [Tasks -> Places] /\ \A u \in Tasks \ {t} : call'[u] = call[u] /\ at'[u] = at[u]
        /\ call'[t] = [call[t] EXCEPT !.task = c] /\ call[t] \in Calls /\ DOMAIN call' = Tasks
        /\ call' = [u \in Tasks |-> call'[u]]
    BY <2>1, <2>2, Zenon DEF Goto, TypeOK, Places, WaitPlaces
  <2>5. call' \in [Tasks -> Calls] /\ call'[t].task = c
    <3>1. call'[t] \in Calls /\ call'[t].task = c
      BY <2>2, <2>3, TakenCallFacts
    <3> QED
      BY <2>3, <3>1 DEF TypeOK
  <2>4. ASSUME NEW u \in Tasks, at'[u] = "copy" PROVE call'[u].task # None
    <3>1. CASE u = t
      BY <2>2, <2>5, <3>1, ProcessAssumption, Zenon
    <3>2. CASE u # t
      BY <2>3, <2>4, <3>2, Zenon DEF TypeOK
    <3> QED
      BY <3>1, <3>2, Zenon
  <2> QED
    BY <1>21, <2>1, <2>2, <2>3, <2>4, <2>5 DEF Found, TypeOK, treeVars, forkVars, reapVars
<1>22. ASSUME NEW t \in Tasks, NotFound(t) PROVE TypeOK'
  <2>0. call' = call \/ call' = [call EXCEPT ![t] = NoCall]
    BY <1>22, Zenon DEF NotFound, GiveUp
  <2>1. call' \in [Tasks -> Calls] /\ at' \in [Tasks -> Places] /\ sleep' \in [Tasks -> Sleeps]
    <3>1. call' \in [Tasks -> Calls]
      BY <2>0, NoCallFacts, Zenon DEF TypeOK
    <3>2. at' \in [Tasks -> Places] /\ sleep' \in [Tasks -> Sleeps]
      BY <1>22, Zenon DEF NotFound, GiveUp, TypeOK, Sleeps, Places, WaitPlaces
    <3> QED
      BY <3>1, <3>2, Zenon
  <2>2. \A u \in Tasks : at'[u] = "copy" => call'[u].task # None
    BY <1>22 DEF NotFound, GiveUp, TypeOK
  <2>3. waiter' \in [Tasks -> Tasks \cup {None}]
    BY <1>22 DEF NotFound, Mark, TypeOK
  <2> QED
    BY <1>22, <2>1, <2>2, <2>3, Zenon DEF NotFound, TypeOK, Sleeps, treeVars, exitVars,
       forkVars, reapVars
<1>23. ASSUME NEW t \in Tasks, WaitBlock(t) PROVE TypeOK'
  BY <1>23, Zenon DEF WaitBlock, TypeOK, Goto, Calls, Places, WaitPlaces, ForkPlaces,
     ExitPlaces, treeVars, exitVars, forkVars, reapVars, Blocked
<1>24. ASSUME NEW t \in Tasks, WaitReturn(t) PROVE TypeOK'
  <2>0. call' = call \/ call' = [call EXCEPT ![t] = NoCall]
    BY <1>24, Zenon DEF WaitReturn, GiveUp
  <2>1. call' \in [Tasks -> Calls] /\ at' \in [Tasks -> Places] /\ sleep' \in [Tasks -> Sleeps]
    <3>1. call' \in [Tasks -> Calls]
      BY <2>0, NoCallFacts, Zenon DEF TypeOK
    <3>2. at' \in [Tasks -> Places] /\ sleep' \in [Tasks -> Sleeps]
      BY <1>24, Zenon DEF WaitReturn, GiveUp, TypeOK, Sleeps, Places, WaitPlaces
    <3> QED
      BY <3>1, <3>2, Zenon
  <2>2. \A u \in Tasks : at'[u] = "copy" => call'[u].task # None
    BY <1>24 DEF WaitReturn, GiveUp, TypeOK
  <2>3. waiter' \in [Tasks -> Tasks \cup {None}]
    BY <1>24, Zenon DEF WaitReturn, Mark, TypeOK
  <2> QED
    BY <1>24, <2>1, <2>2, <2>3, Zenon DEF WaitReturn, TypeOK, Sleeps, treeVars, exitVars,
       forkVars, reapVars
<1>25. ASSUME NEW t \in Tasks, HandleSignal(t) PROVE TypeOK'
  BY <1>25 DEF HandleSignal, TypeOK, Calls, Places, WaitPlaces, ForkPlaces, ExitPlaces,
     treeVars, waitVars, forkVars, reapVars
<1>26. ASSUME NEW t \in Tasks, NEW c \in Tasks, NEW kind \in Clones, CloneAttach(t, c, kind)
       PROVE  TypeOK'
  <2>1. call' \in [Tasks -> Calls] /\ at' \in [Tasks -> Places]
    BY <1>26, NewCallFacts, ProcessAssumption, Zenon DEF CloneAttach, Goto, TypeOK, Places,
       ForkPlaces
  <2>2. \A u \in Tasks : at'[u] = "copy" => call'[u].task # None
    BY <1>26, Zenon DEF CloneAttach, Goto, TypeOK
  <2> QED
    BY <1>26, <2>1, <2>2 DEF CloneAttach, TypeOK, exitVars, waitVars, reapVars
<1>27. ASSUME NEW t \in Tasks, NEW kind \in Waits, NEW want \in SUBSET Tasks, Wait(t, kind, want)
       PROVE  TypeOK'
  <2>1. call' \in [Tasks -> Calls] /\ at' \in [Tasks -> Places]
    BY <1>27, NewCallFacts, ProcessAssumption, Zenon DEF Wait, Goto, TypeOK, Places, WaitPlaces
  <2>2. \A u \in Tasks : at'[u] = "copy" => call'[u].task # None
    BY <1>27, Zenon DEF Wait, Goto, TypeOK
  <2> QED
    BY <1>27, <2>1, <2>2, Zenon DEF Wait, TypeOK, treeVars, exitVars, waitVars, forkVars,
       reapVars
<1>28. ASSUME NEW t \in Tasks, NEW d, NEW blocked, NotifyParent(t, d, blocked) PROVE TypeOK'
  <2>1. sleep' \in [Tasks -> Sleeps]
    BY <1>28, WokenFacts DEF NotifyParent, TypeOK, Sleeps
  <2>2. reaped' \in SUBSET Tasks /\ freeq' \in Seq(Tasks) /\ reaper' \in Reapers
    BY <1>28, EnqueueFacts DEF NotifyParent, ReleaseSelf, TypeOK, Reapers
  <2>3. sigs' \in SUBSET Tasks /\ parent' \in [Tasks -> Tasks \cup {None}]
    BY <1>28 DEF NotifyParent, TypeOK, Lookup, ParentPid
  <2>4. at' \in [Tasks -> Places] /\ \A u \in Tasks : at'[u] = "copy" => call'[u].task # None
    BY <1>28, Zenon DEF NotifyParent, Goto, TypeOK, Places, ExitPlaces
  <2> QED
    BY <1>28, <2>1, <2>2, <2>3, <2>4 DEF NotifyParent, TypeOK, Sleeps, Reapers, forkVars
<1>29. ASSUME NEW t \in Tasks, NEW outcome \in Faults, Collect(t, outcome) PROVE TypeOK'
  <2>1. call[t].task \in Tasks
    BY <1>29, Zenon DEF Collect, Goto, TypeOK, Calls
  <2>2. reaped' \in SUBSET Tasks /\ freeq' \in Seq(Tasks) /\ reaper' \in Reapers
    BY <1>29, <2>1, EnqueueFacts, Zenon DEF Collect, TypeOK, Reapers, reapVars
  <2>3. call' \in [Tasks -> Calls] /\ at' \in [Tasks -> Places]
    BY <1>29, NoCallFacts, Zenon DEF Collect, Goto, TypeOK, Places
  <2>4. \A u \in Tasks : at'[u] = "copy" => call'[u].task # None
    BY <1>29, Zenon DEF Collect, Goto, TypeOK
  <2> QED
    BY <1>29, <2>2, <2>3, <2>4 DEF Collect, TypeOK, Reapers, treeVars, waitVars, forkVars,
       reapVars
<1>30. ASSUME NEW t \in Tasks, SendSignal(t) PROVE TypeOK'
  <2>1. sleep' \in [Tasks -> Sleeps]
    BY <1>30, WokenFacts, Zenon DEF SendSignal
  <2>2. sigs' \in SUBSET Tasks
    BY <1>30, Zenon DEF SendSignal, TypeOK
  <2>3. UNCHANGED <<treeVars, reaped, status, gexit, waiter, forkVars, reapVars, at, call>>
    BY <1>30, Zenon DEF SendSignal
  <2> QED
    BY <2>1, <2>2, <2>3 DEF TypeOK, Sleeps, treeVars, forkVars, reapVars
<1>31. CASE ReapBegin
  BY <1>31, Zenon DEF ReapBegin, TypeOK, Calls, Places, WaitPlaces, ForkPlaces, ExitPlaces,
     treeVars, exitVars, waitVars, forkVars
<1>32. CASE free_task
  <2> DEFINE t == Head(freeq)
  <2>1. freeq \in Seq(Tasks) /\ freeq # <<>> /\ reaper \in Reapers /\ t \in Tasks
    BY <1>32, TailFacts, Zenon DEF free_task, TypeOK, Reapers
  <2>2. CASE on_cpu(t)
    <3>1. freeq' \in Seq(Tasks)
      BY <1>32, <2>1, <2>2, TailFacts, AppendFacts DEF free_task
    <3>2. reaper' \in Reapers
      <4> DEFINE b == IF reaper.batch = "begun" THEN "idle" ELSE reaper.batch
      <4>1. b \in {"none", "begun", "idle", "freed"}
        BY <2>1, Zenon DEF Reapers
      <4>2. reaper' = [raised |-> TRUE, batch |-> b]
        BY <1>32, <2>2, Zenon DEF free_task
      <4> HIDE DEF b
      <4> QED
        BY <4>1, <4>2, Zenon DEF Reapers
    <3> QED
      BY <1>32, <2>2, <3>1, <3>2 DEF free_task, TypeOK, Reapers, treeVars, exitVars, waitVars,
         forkVars
  <2>3. CASE ~on_cpu(t)
    <3>1. freeq' \in Seq(Tasks) /\ reaper' \in Reapers /\ Release(t)
      BY <1>32, <2>1, <2>3, TailFacts, Zenon DEF free_task, Reapers
    <3>2. PICK kids \in SUBSET Tasks :
              /\ SetParent(kids, None) /\ life' = [life EXCEPT ![t] = "freed"]
              /\ waiter' = [waiter EXCEPT ![t] = None] /\ tgid' = tgid /\ sleep' = sleep
      BY <2>1, <3>1, ReleaseFacts, Zenon
    <3>3. parent' \in [Tasks -> Tasks \cup {None}] /\ orphaned' \in SUBSET Tasks
      BY <3>2, SetParentFacts, Zenon
    <3>4. /\ life' \in [Tasks -> {"none", "new", "live", "died", "freed"}]
          /\ waiter' \in [Tasks -> Tasks \cup {None}]
      BY <3>2, Zenon DEF TypeOK
    <3> QED
      BY <1>32, <3>1, <3>2, <3>3, <3>4 DEF free_task, TypeOK, Reapers, treeVars, exitVars,
         waitVars, forkVars
  <2> QED
    BY <2>2, <2>3, Zenon
<1>33. CASE ReapEnd
  BY <1>33, Zenon DEF ReapEnd, TypeOK, Calls, Places, WaitPlaces, ForkPlaces, ExitPlaces,
     treeVars, exitVars, waitVars, forkVars
<1> QED
  BY <1>1, <1>2, <1>3, <1>4, <1>5, <1>6, <1>7, <1>8, <1>9, <1>10, <1>11, <1>12, <1>13, <1>14,
     <1>15, <1>16, <1>17, <1>18, <1>19, <1>20, <1>21, <1>22, <1>23, <1>24, <1>25, <1>26, <1>27,
     <1>28, <1>29, <1>30, <1>31, <1>32, <1>33, NextCases, Zenon

-----------------------------------------------------------------------------
(* Most steps move one task from one place to the next, and touch neither  *)
(* the family tree nor the list of tasks to free.                          *)

Quiet ==
    /\ UNCHANGED <<treeVars, reaped, freeq>>
    /\ Standing' /\ InitStays' /\ Calling' /\ Building'
    /\ \A u \in Tasks : at'[u] = "copy" => at[u] = "copy" /\ call'[u] = call[u]
    /\ \A u \in Tasks : HandedOn(u)' => HandedOn(u)
    /\ \A u \in Tasks : at[u] \in {"status", "wake", "notify"}
                         => at'[u] \in {"status", "wake", "notify"}
Loud ==
    \/ \E t \in Tasks :
          \/ CloneStart(t) \/ CloneFail(t) \/ Reparent(t) \/ Die(t) \/ Found(t)
          \/ \E c \in Tasks, kind \in Clones : CloneAttach(t, c, kind)
          \/ \E d, blocked : NotifyParent(t, d, blocked)
          \/ \E outcome \in Faults : Collect(t, outcome)
    \/ free_task

\* The places of a task that neither exits nor has somebody in its hands.
Calm == {"user", "arm", "scan", "block", "wait", "vcheck", "vrecheck", "vblock", "vwait",
         "forked"}

\* A step that moves nobody.
LEMMA StillMove ==
    ASSUME ProcInv, UNCHANGED <<treeVars, reaped, freeq, at, call>>,
           \A u \in Tasks : /\ sleep[u] \in {"prepared", "pending"} =>
                                   sleep'[u] \in {"prepared", "pending"}
                            /\ life[u] = "new" => vparent'[u] = vparent[u]
    PROVE  Quiet
<1>0. TypeOK /\ Standing /\ InitStays /\ Calling /\ Building
  BY Zenon DEF ProcInv
<1>1. (Standing /\ InitStays)'
  BY <1>0, Zenon DEF Standing, InitStays, treeVars
<1>2. Calling'
  BY <1>0, Zenon DEF Calling
<1>3. Building'
  <2> SUFFICES ASSUME NEW t \in Tasks, at[t] = "start"
               PROVE  /\ call[t].task # None /\ life[call[t].task] = "new"
                      /\ call[t].kind = "vfork" => vparent'[call[t].task] = t
                      /\ \A u \in Tasks \ {t} : at[u] = "start" => call[u].task # call[t].task
    BY Zenon DEF Building, treeVars
  <2>1. call[t].task \in Tasks
    BY <1>0 DEF Building, TypeOK, Calls
  <2> QED
    BY <1>0, <2>1, Zenon DEF Building
<1>4. \A u \in Tasks : HandedOn(u)' => HandedOn(u)
  BY Zenon DEF HandedOn, treeVars
<1> QED
  BY <1>1, <1>2, <1>3, <1>4, Zenon DEF Quiet

\* What the others are in the middle of stays.
LEMMA OthersStay ==
    ASSUME ProcInv, NEW t \in Tasks, NEW p \in Places \ {"start", "copy"},
           at' = [at EXCEPT ![t] = p], UNCHANGED <<treeVars, reaped, freeq>>,
           \A u \in Tasks \ {t} : call'[u] = call[u],
           \A u \in Tasks : /\ u # t /\ sleep[u] \in {"prepared", "pending"} =>
                                   sleep'[u] \in {"prepared", "pending"}
                            /\ life[u] = "new" => vparent'[u] = vparent[u],
           p \in {"vfork_done", "reparent"} => call'[t].kind \in {"exit", "exit_thread"},
           p \in {"arm", "block", "wait"} => call'[t].kind = "wait",
           \/ p \in {"block", "vrecheck", "vblock"}
           \/ p = "scan" /\ call'[t].kind = "wait"
           => sleep'[t] \in {"prepared", "pending"}
    PROVE  /\ Calling' /\ Building'
           /\ at'[t] = p /\ \A u \in Tasks \ {t} : at'[u] = at[u]
           /\ \A u \in Tasks : at'[u] = "copy" => at[u] = "copy" /\ call'[u] = call[u]
           /\ \A u \in Tasks \ {t} : HandedOn(u)' => HandedOn(u)
<1>0. TypeOK /\ Calling /\ Building
  BY Zenon DEF ProcInv
<1>1. at'[t] = p /\ \A u \in Tasks \ {t} : at'[u] = at[u]
  BY <1>0, Zenon DEF TypeOK
<1>2. \A u \in Tasks : at'[u] = "copy" => at[u] = "copy" /\ call'[u] = call[u]
  BY <1>1, Zenon
<1>3. \A u \in Tasks \ {t} : HandedOn(u)' => HandedOn(u)
  BY <1>1, Zenon DEF HandedOn, treeVars
<1>4. Calling'
  <2> SUFFICES ASSUME NEW u \in Tasks
               PROVE  /\ at'[u] \in {"vfork_done", "reparent"} =>
                             call'[u].kind \in {"exit", "exit_thread"}
                      /\ at'[u] \in {"arm", "block", "wait"} => call'[u].kind = "wait"
                      /\ \/ at'[u] \in {"block", "vrecheck", "vblock"}
                         \/ at'[u] = "scan" /\ call'[u].kind = "wait"
                         => sleep'[u] \in {"prepared", "pending"}
    BY Zenon DEF Calling
  <2>1. CASE u = t
    BY <1>1, <2>1, Zenon
  <2>2. CASE u # t
    BY <1>0, <1>1, <2>2, Zenon DEF Calling
  <2> QED
    BY <2>1, <2>2, Zenon
<1>5. Building'
  <2> SUFFICES ASSUME NEW w \in Tasks, at'[w] = "start"
               PROVE  /\ call'[w].task # None /\ life'[call'[w].task] = "new"
                      /\ call'[w].kind = "vfork" => vparent'[call'[w].task] = w
                      /\ \A u \in Tasks \ {w} : at'[u] = "start" => call'[u].task # call'[w].task
    BY Zenon DEF Building
  <2>1. w # t /\ at[w] = "start" /\ call'[w] = call[w]
    BY <1>1, Zenon
  <2>2. call[w].task \in Tasks /\ life[call[w].task] = "new" /\ life' = life
    BY <1>0, <2>1 DEF Building, TypeOK, Calls, treeVars
  <2>3. \A u \in Tasks : at'[u] = "start" => at[u] = "start" /\ call'[u] = call[u]
    BY <1>1, Zenon
  <2> QED
    BY <1>0, <2>1, <2>2, <2>3 DEF Building
<1> QED
  BY <1>1, <1>2, <1>3, <1>4, <1>5, Zenon

\* A step in wait4, in clone or in user mode.
LEMMA CalmMove ==
    ASSUME ProcInv, NEW t \in Tasks, NEW p \in Calm, at[t] \in Calm,
           at' = [at EXCEPT ![t] = p], UNCHANGED <<treeVars, reaped, freeq, vparent>>,
           \A u \in Tasks \ {t} : call'[u] = call[u] /\ sleep'[u] = sleep[u],
           p \in {"arm", "block", "wait"} => call'[t].kind = "wait",
           \/ p \in {"block", "vrecheck", "vblock"}
           \/ p = "scan" /\ call'[t].kind = "wait"
           => sleep'[t] \in {"prepared", "pending"}
    PROVE  Quiet
<1>0. TypeOK /\ Standing /\ InitStays
  BY Zenon DEF ProcInv
<1>1. /\ p \in Places \ {"start", "copy", "vfork_done", "reparent", "status", "wake", "notify",
                         "switch", "reapcheck", "gone"}
      /\ p \in Running /\ p \in {"user"} \cup WaitPlaces \cup ForkPlaces /\ at[t] \in Running
      /\ p \notin ExitPlaces
  BY DEF Calm, Places, Running, WaitPlaces, ForkPlaces, ExitPlaces
<1>2. /\ Calling' /\ Building'
      /\ at'[t] = p /\ \A u \in Tasks \ {t} : at'[u] = at[u]
      /\ \A u \in Tasks : at'[u] = "copy" => at[u] = "copy" /\ call'[u] = call[u]
      /\ \A u \in Tasks \ {t} : HandedOn(u)' => HandedOn(u)
  BY <1>1, OthersStay, Zenon
<1>3. life[t] = "live" /\ life' = life
  BY <1>0, <1>1, Zenon DEF Standing, treeVars
<1>4. Standing'
  BY <1>0, <1>1, <1>2, <1>3 DEF Standing
<1>5. InitStays'
  BY <1>0, <1>1, <1>2, ProcessAssumption DEF InitStays
<1>6. ~HandedOn(t)'
  BY <1>1, <1>2, Zenon DEF HandedOn
<1>7. \A u \in Tasks : at[u] \in {"status", "wake", "notify"}
                       => at'[u] \in {"status", "wake", "notify"}
  BY <1>2, Zenon DEF Calm
<1> QED
  BY <1>2, <1>4, <1>5, <1>6, <1>7, Zenon DEF Quiet

\* The places of exit, as task_exit_inner and __switch_to follow each other.
ExitMoves(from, to) ==
    \/ from = "user" /\ to \in {"reparent", "vfork_done"}
    \/ from = "vfork_done" /\ to \in {"reparent", "die"}
    \/ from = "status" /\ to = "wake"
    \/ from = "wake" /\ to = "notify"
    \/ from = "switch" /\ to = "reapcheck"
    \/ from = "reapcheck" /\ to = "gone"

\* A step of an exit that leaves the family alone.
LEMMA ExitMove ==
    ASSUME ProcInv, NEW t \in Tasks \ {InitTask}, NEW p, ExitMoves(at[t], p),
           at' = [at EXCEPT ![t] = p], UNCHANGED <<treeVars, reaped, freeq>>,
           \A u \in Tasks \ {t} : call'[u] = call[u],
           \A u \in Tasks : /\ sleep[u] \in {"prepared", "pending"} =>
                                   sleep'[u] \in {"prepared", "pending"}
                            /\ life[u] = "new" => vparent'[u] = vparent[u],
           p \in {"vfork_done", "reparent"} => call'[t].kind \in {"exit", "exit_thread"},
           p = "vfork_done" => call'[t].kind = "exit",
           p = "die" => call[t].kind = "exit_thread"
    PROVE  Quiet
<1>0. TypeOK /\ Standing /\ InitStays
  BY Zenon DEF ProcInv
<1>1. p \in Places \ {"start", "copy", "arm", "block", "wait", "vrecheck", "vblock", "scan"}
  BY Zenon DEF ExitMoves, Places, ExitPlaces, WaitPlaces, ForkPlaces
<1>2. /\ Calling' /\ Building'
      /\ at'[t] = p /\ \A u \in Tasks \ {t} : at'[u] = at[u]
      /\ \A u \in Tasks : at'[u] = "copy" => at[u] = "copy" /\ call'[u] = call[u]
      /\ \A u \in Tasks \ {t} : HandedOn(u)' => HandedOn(u)
  BY <1>1, OthersStay, Zenon
<1>3. life' = life
  BY Zenon DEF treeVars
<1>4. /\ p \in Running => life[t] = "live"
      /\ p \in {"status", "wake", "notify", "switch"} => life[t] = "died"
      /\ p = "reapcheck" => life[t] \in {"died", "freed"}
      /\ p = "gone" => life[t] # "live"
  BY <1>0 DEF ExitMoves, Standing, Running, WaitPlaces, ForkPlaces
<1>5. (Standing /\ InitStays)'
  BY <1>0, <1>2, <1>3, <1>4, ProcessAssumption DEF Standing, InitStays
<1>6. HandedOn(t)' => HandedOn(t)
  BY <1>2 DEF HandedOn, ExitMoves, ExitPlaces, treeVars
<1>7. at[t] \in {"status", "wake", "notify"} => p \in {"status", "wake", "notify"}
  BY DEF ExitMoves
<1> QED
  BY <1>2, <1>5, <1>6, <1>7, Zenon DEF Quiet

\* Most steps are quiet.
LEMMA QuietSteps == ProcInv /\ [Next]_vars => Quiet \/ Loud
<1> SUFFICES ASSUME ProcInv, [Next]_vars PROVE Quiet \/ Loud
  OBVIOUS
<1>0. TypeOK /\ Standing /\ InitStays /\ Calling /\ Building
  BY Zenon DEF ProcInv
<1> USE <1>0, ProcessAssumption
<1>1. CASE UNCHANGED vars
  BY <1>1, StillMove, Zenon DEF vars, exitVars, waitVars, forkVars, reapVars
<1>2. ASSUME NEW t \in Tasks, CloneStart(t) PROVE Quiet \/ Loud
  BY <1>2, Zenon DEF Loud
<1>3. ASSUME NEW t \in Tasks, CloneFail(t) PROVE Quiet \/ Loud
  BY <1>3, Zenon DEF Loud
<1>4. ASSUME NEW t \in Tasks, CloneReturn(t) PROVE Quiet \/ Loud
  <2>1. PICK p \in {"user"} :
           /\ at[t] = "forked" /\ at' = [at EXCEPT ![t] = p]
    BY <1>4, Zenon DEF CloneReturn, Goto
  <2>2. /\ UNCHANGED <<treeVars, reaped, freeq, vparent>>
        /\ \A u \in Tasks \ {t} : call'[u] = call[u] /\ sleep'[u] = sleep[u]
    BY <1>4, Zenon DEF CloneReturn, Goto, TypeOK, exitVars, waitVars, forkVars, reapVars
  <2> QED
    BY <2>1, <2>2, CalmMove, Zenon DEF Calm
<1>5. ASSUME NEW t \in Tasks, VforkDone(t) PROVE Quiet \/ Loud
  <2>1. PICK p \in {"forked"} :
           /\ at[t] \in {"vcheck", "vrecheck"} /\ at' = [at EXCEPT ![t] = p]
    BY <1>5, Zenon DEF VforkDone
  <2>2. /\ UNCHANGED <<treeVars, reaped, freeq, vparent>>
        /\ \A u \in Tasks \ {t} : call'[u] = call[u] /\ sleep'[u] = sleep[u]
    BY <1>5, Zenon DEF VforkDone, TypeOK, exitVars, waitVars, forkVars, reapVars
  <2> QED
    BY <2>1, <2>2, CalmMove, Zenon DEF Calm
<1>6. ASSUME NEW t \in Tasks, VforkPrepare(t) PROVE Quiet \/ Loud
  <2>1. PICK p \in {"vrecheck"} :
           /\ at[t] = "vcheck" /\ at' = [at EXCEPT ![t] = p]
           /\ sleep'[t] \in {"prepared", "pending"}
    BY <1>6, Zenon DEF VforkPrepare, Goto, TypeOK
  <2>2. /\ UNCHANGED <<treeVars, reaped, freeq, vparent>>
        /\ \A u \in Tasks \ {t} : call'[u] = call[u] /\ sleep'[u] = sleep[u]
    BY <1>6, Zenon DEF VforkPrepare, Goto, TypeOK, exitVars, waitVars, forkVars, reapVars
  <2> QED
    BY <2>1, <2>2, CalmMove, Zenon DEF Calm
<1>7. ASSUME NEW t \in Tasks, VforkRecheck(t) PROVE Quiet \/ Loud
  <2>1. PICK p \in {"vblock"} :
           /\ at[t] = "vrecheck" /\ at' = [at EXCEPT ![t] = p]
           /\ sleep'[t] \in {"prepared", "pending"}
    BY <1>7, Zenon DEF VforkRecheck, Goto, TypeOK, Calling, waitVars
  <2>2. /\ UNCHANGED <<treeVars, reaped, freeq, vparent>>
        /\ \A u \in Tasks \ {t} : call'[u] = call[u] /\ sleep'[u] = sleep[u]
    BY <1>7, Zenon DEF VforkRecheck, Goto, TypeOK, exitVars, waitVars, forkVars, reapVars
  <2> QED
    BY <2>1, <2>2, CalmMove, Zenon DEF Calm
<1>8. ASSUME NEW t \in Tasks, VforkBlock(t) PROVE Quiet \/ Loud
  <2>1. PICK p \in {"vwait"} :
           /\ at[t] = "vblock" /\ at' = [at EXCEPT ![t] = p]
    BY <1>8, Zenon DEF VforkBlock, Goto, Blocked
  <2>2. /\ UNCHANGED <<treeVars, reaped, freeq, vparent>>
        /\ \A u \in Tasks \ {t} : call'[u] = call[u] /\ sleep'[u] = sleep[u]
    BY <1>8, Zenon DEF VforkBlock, Goto, Blocked, TypeOK, exitVars, waitVars, forkVars, reapVars
  <2> QED
    BY <2>1, <2>2, CalmMove, Zenon DEF Calm
<1>9. ASSUME NEW t \in Tasks, VforkReturn(t) PROVE Quiet \/ Loud
  <2>1. PICK p \in {"vcheck"} :
           /\ at[t] = "vwait" /\ at' = [at EXCEPT ![t] = p]
    BY <1>9, Zenon DEF VforkReturn, Goto
  <2>2. /\ UNCHANGED <<treeVars, reaped, freeq, vparent>>
        /\ \A u \in Tasks \ {t} : call'[u] = call[u] /\ sleep'[u] = sleep[u]
    BY <1>9, Zenon DEF VforkReturn, Goto, TypeOK, exitVars, waitVars, forkVars, reapVars
  <2> QED
    BY <2>1, <2>2, CalmMove, Zenon DEF Calm
<1>10. ASSUME NEW t \in Tasks, Exec(t) PROVE Quiet \/ Loud
  <2>1. \A u \in Tasks :
           sleep[u] \in {"prepared", "pending"} => sleep'[u] \in {"prepared", "pending"}
    BY <1>10, CompleteVforkFacts, WokenFacts, Zenon DEF Exec
  <2>2. at' = at
    BY <1>10, Zenon DEF Exec
  <2>3. UNCHANGED <<treeVars, reaped, freeq, call>> /\ vparent' = [vparent EXCEPT ![t] = None]
    BY <1>10, CompleteVforkFacts, Zenon DEF Exec, exitVars, reapVars
  <2>4. life[t] = "live"
    BY <1>10, Zenon DEF Exec, Standing, Running
  <2>5. \A u \in Tasks : life[u] = "new" => vparent'[u] = vparent[u]
    BY <2>3, <2>4, Zenon DEF TypeOK
  <2> QED
    BY <2>1, <2>2, <2>3, <2>5, StillMove, Zenon
<1>11. ASSUME NEW t \in Tasks, task_exit(t) PROVE Quiet \/ Loud
  <2>1. PICK p \in {"reparent", "vfork_done"} : at[t] = "user" /\ at' = [at EXCEPT ![t] = p]
    BY <1>11, Zenon DEF task_exit, Goto
  <2>2. t # InitTask /\ UNCHANGED <<treeVars, reaped, freeq, sleep, vparent>>
    BY <1>11, Zenon DEF task_exit, exitVars, waitVars, forkVars, reapVars
  <2>3. call'[t].kind = "exit" /\ \A u \in Tasks \ {t} : call'[u] = call[u]
    BY <1>11 DEF task_exit, NoCall, TypeOK
  <2> QED
    BY <2>1, <2>2, <2>3, ExitMove, Zenon DEF ExitMoves
<1>12. ASSUME NEW t \in Tasks, task_exit_thread(t) PROVE Quiet \/ Loud
  <2>1. PICK p \in {"reparent"} : at[t] = "user" /\ at' = [at EXCEPT ![t] = p]
    BY <1>12, Zenon DEF task_exit_thread, Goto
  <2>2. t # InitTask /\ UNCHANGED <<treeVars, reaped, freeq, sleep, vparent>>
    BY <1>12, Zenon DEF task_exit_thread, exitVars, waitVars, forkVars, reapVars
  <2>3. call'[t].kind = "exit_thread" /\ \A u \in Tasks \ {t} : call'[u] = call[u]
    BY <1>12 DEF task_exit_thread, NoCall, TypeOK
  <2> QED
    BY <2>1, <2>2, <2>3, ExitMove, Zenon DEF ExitMoves
<1>13. ASSUME NEW t \in Tasks, ExitVfork(t) PROVE Quiet \/ Loud
  <2>1. \A u \in Tasks :
           sleep[u] \in {"prepared", "pending"} => sleep'[u] \in {"prepared", "pending"}
    BY <1>13, CompleteVforkFacts, WokenFacts, Zenon DEF ExitVfork
  <2>2. PICK x \in {"reparent", "die"} :
           /\ at[t] = "vfork_done" /\ at' = [at EXCEPT ![t] = x]
           /\ call[t].kind = IF x = "reparent" THEN "exit" ELSE "exit_thread"
    BY <1>13, Zenon DEF ExitVfork, Goto, Calling
  <2>3. UNCHANGED <<treeVars, reaped, freeq, call>> /\ vparent' = [vparent EXCEPT ![t] = None]
    BY <1>13, CompleteVforkFacts, Zenon DEF ExitVfork, exitVars, reapVars
  <2>4. life[t] = "live"
    BY <1>13, Zenon DEF ExitVfork, Goto, Standing, Running
  <2>5. \A u \in Tasks : life[u] = "new" => vparent'[u] = vparent[u]
    BY <2>3, <2>4, Zenon DEF TypeOK
  <2>6. t # InitTask
    BY <2>2, Zenon DEF InitStays, WaitPlaces, ForkPlaces
  <2>7. /\ x \in {"vfork_done", "reparent"} => call'[t].kind \in {"exit", "exit_thread"}
        /\ x = "die" => call[t].kind = "exit_thread"
        /\ x # "vfork_done"
    BY <2>2, <2>3, Zenon
  <2> QED
    BY <2>1, <2>2, <2>3, <2>5, <2>6, <2>7, ExitMove, Zenon DEF ExitMoves
<1>14. ASSUME NEW t \in Tasks, Reparent(t) PROVE Quiet \/ Loud
  BY <1>14, Zenon DEF Loud
<1>15. ASSUME NEW t \in Tasks, Die(t) PROVE Quiet \/ Loud
  BY <1>15, Zenon DEF Loud
<1>16. ASSUME NEW t \in Tasks, StoreStatus(t) PROVE Quiet \/ Loud
  <2>1. at[t] = "status" /\ at' = [at EXCEPT ![t] = "wake"]
    BY <1>16, Zenon DEF StoreStatus, Goto
  <2>2. /\ UNCHANGED <<treeVars, reaped, freeq, sleep, vparent>>
        /\ \A u \in Tasks \ {t} : call'[u] = call[u]
    BY <1>16, Zenon DEF StoreStatus, TypeOK, exitVars, waitVars, forkVars, reapVars
  <2>3. t # InitTask
    BY <2>1, Zenon DEF InitStays, WaitPlaces, ForkPlaces
  <2> QED
    BY <2>1, <2>2, <2>3, ExitMove, Zenon DEF ExitMoves
<1>17. ASSUME NEW t \in Tasks, WakeWaiters(t) PROVE Quiet \/ Loud
  <2>1. \A u \in Tasks :
           sleep[u] \in {"prepared", "pending"} => sleep'[u] \in {"prepared", "pending"}
    BY <1>17, WokenFacts, Zenon DEF WakeWaiters
  <2>2. at[t] = "wake" /\ at' = [at EXCEPT ![t] = "notify"]
    BY <1>17, Zenon DEF WakeWaiters, Goto
  <2>3. UNCHANGED <<treeVars, reaped, freeq, call, vparent>>
    BY <1>17, Zenon DEF WakeWaiters, exitVars, reapVars, forkVars
  <2>4. t # InitTask
    BY <2>2, Zenon DEF InitStays, WaitPlaces, ForkPlaces
  <2> QED
    BY <2>1, <2>2, <2>3, <2>4, ExitMove, Zenon DEF ExitMoves
<1>18. ASSUME NEW t \in Tasks, SwitchAway(t) PROVE Quiet \/ Loud
  <2>1. at[t] = "switch" /\ at' = [at EXCEPT ![t] = "reapcheck"]
    BY <1>18, Zenon DEF SwitchAway, Goto
  <2>2. /\ UNCHANGED <<treeVars, reaped, freeq, sleep, vparent>>
        /\ \A u \in Tasks \ {t} : call'[u] = call[u]
    BY <1>18, Zenon DEF SwitchAway, TypeOK, exitVars, waitVars, forkVars, reapVars
  <2>3. t # InitTask
    BY <2>1, Zenon DEF InitStays, WaitPlaces, ForkPlaces
  <2> QED
    BY <2>1, <2>2, <2>3, ExitMove, Zenon DEF ExitMoves
<1>19. ASSUME NEW t \in Tasks, ReapCheck(t) PROVE Quiet \/ Loud
  <2>1. at[t] = "reapcheck" /\ at' = [at EXCEPT ![t] = "gone"]
    BY <1>19, Zenon DEF ReapCheck, Goto
  <2>2. /\ UNCHANGED <<treeVars, reaped, freeq, sleep, vparent>>
        /\ \A u \in Tasks \ {t} : call'[u] = call[u]
    BY <1>19, Zenon DEF ReapCheck, TypeOK, exitVars, waitVars, forkVars, reapVars
  <2>3. t # InitTask
    BY <2>1, Zenon DEF InitStays, WaitPlaces, ForkPlaces
  <2> QED
    BY <2>1, <2>2, <2>3, ExitMove, Zenon DEF ExitMoves
<1>20. ASSUME NEW t \in Tasks, task_child_wait_arm(t) PROVE Quiet \/ Loud
  <2>1. PICK p \in {"scan"} :
           /\ at[t] = "arm" /\ at' = [at EXCEPT ![t] = p]
           /\ sleep'[t] \in {"prepared", "pending"}
    BY <1>20, Zenon DEF task_child_wait_arm, Goto, TypeOK
  <2>2. /\ UNCHANGED <<treeVars, reaped, freeq, vparent>>
        /\ \A u \in Tasks \ {t} : call'[u] = call[u] /\ sleep'[u] = sleep[u]
    BY <1>20, Zenon DEF task_child_wait_arm, Goto, TypeOK, exitVars, waitVars, forkVars, reapVars
  <2> QED
    BY <2>1, <2>2, CalmMove, Zenon DEF Calm
<1>21. ASSUME NEW t \in Tasks, Found(t) PROVE Quiet \/ Loud
  BY <1>21, Zenon DEF Loud
<1>22. ASSUME NEW t \in Tasks, NotFound(t) PROVE Quiet \/ Loud
  <2>1. PICK p \in {"block", "user"} :
           /\ at[t] = "scan" /\ at' = [at EXCEPT ![t] = p]
           /\ p = "block" => call'[t].kind = "wait" /\ sleep'[t] \in {"prepared", "pending"}
    BY <1>22, Zenon DEF NotFound, GiveUp, TypeOK, Calling
  <2>2. UNCHANGED <<treeVars, reaped, freeq, vparent>>
    BY <1>22, Zenon DEF NotFound, exitVars, forkVars, reapVars
  <2>3. \A u \in Tasks \ {t} : call'[u] = call[u] /\ sleep'[u] = sleep[u]
    BY <1>22 DEF NotFound, GiveUp, TypeOK
  <2> QED
    BY <2>1, <2>2, <2>3, CalmMove, Zenon DEF Calm
<1>23. ASSUME NEW t \in Tasks, WaitBlock(t) PROVE Quiet \/ Loud
  <2>1. PICK p \in {"wait"} :
           /\ at[t] = "block" /\ at' = [at EXCEPT ![t] = p]
           /\ call'[t].kind = "wait"
    BY <1>23, Zenon DEF WaitBlock, Goto, Blocked, TypeOK, Calling
  <2>2. /\ UNCHANGED <<treeVars, reaped, freeq, vparent>>
        /\ \A u \in Tasks \ {t} : call'[u] = call[u] /\ sleep'[u] = sleep[u]
    BY <1>23, Zenon DEF WaitBlock, Goto, Blocked, TypeOK, exitVars, waitVars, forkVars, reapVars
  <2> QED
    BY <2>1, <2>2, CalmMove, Zenon DEF Calm
<1>24. ASSUME NEW t \in Tasks, WaitReturn(t) PROVE Quiet \/ Loud
  <2>1. PICK p \in {"arm", "user"} :
           /\ at[t] = "wait" /\ at' = [at EXCEPT ![t] = p]
           /\ p = "arm" => call'[t].kind = "wait"
    BY <1>24, Zenon DEF WaitReturn, GiveUp, TypeOK, Calling
  <2>2. UNCHANGED <<treeVars, reaped, freeq, vparent>>
    BY <1>24, Zenon DEF WaitReturn, exitVars, forkVars, reapVars
  <2>3. \A u \in Tasks \ {t} : call'[u] = call[u] /\ sleep'[u] = sleep[u]
    BY <1>24 DEF WaitReturn, GiveUp, TypeOK
  <2> QED
    BY <2>1, <2>2, <2>3, CalmMove, Zenon DEF Calm
<1>25. ASSUME NEW t \in Tasks, HandleSignal(t) PROVE Quiet \/ Loud
  BY <1>25, StillMove, Zenon DEF HandleSignal, waitVars, forkVars, reapVars
<1>26. ASSUME NEW t \in Tasks, NEW c \in Tasks, NEW kind \in Clones, CloneAttach(t, c, kind)
       PROVE  Quiet \/ Loud
  BY <1>26, Zenon DEF Loud
<1>27. ASSUME NEW t \in Tasks, NEW kind \in Waits, NEW want \in SUBSET Tasks, Wait(t, kind, want)
       PROVE  Quiet \/ Loud
  <2>1. PICK p \in {"arm", "scan"} :
           /\ at[t] = "user" /\ at' = [at EXCEPT ![t] = p]
           /\ call'[t].kind = kind /\ (p = "scan" => kind # "wait") /\ (p = "arm" => kind = "wait")
    BY <1>27, Zenon DEF Wait, Goto, TypeOK
  <2>2. /\ UNCHANGED <<treeVars, reaped, freeq, vparent>>
        /\ \A u \in Tasks \ {t} : call'[u] = call[u] /\ sleep'[u] = sleep[u]
    BY <1>27, Zenon DEF Wait, Goto, TypeOK, exitVars, waitVars, forkVars, reapVars
  <2> QED
    BY <2>1, <2>2, CalmMove, Zenon DEF Calm
<1>28. ASSUME NEW t \in Tasks, NEW d, NEW blocked, NotifyParent(t, d, blocked)
       PROVE  Quiet \/ Loud
  BY <1>28, Zenon DEF Loud
<1>29. ASSUME NEW t \in Tasks, NEW outcome \in Faults, Collect(t, outcome) PROVE Quiet \/ Loud
  BY <1>29, Zenon DEF Loud
<1>30. ASSUME NEW t \in Tasks, SendSignal(t) PROVE Quiet \/ Loud
  <2>1. \A u \in Tasks :
           sleep[u] \in {"prepared", "pending"} => sleep'[u] \in {"prepared", "pending"}
    BY <1>30, WokenFacts, Zenon DEF SendSignal
  <2>2. at' = at
    BY <1>30, Zenon DEF SendSignal
  <2>3. UNCHANGED <<treeVars, reaped, freeq, call, vparent>>
    BY <1>30, Zenon DEF SendSignal, reapVars, forkVars
  <2> QED
    BY <2>1, <2>2, <2>3, StillMove, Zenon
<1>31. CASE ReapBegin
  BY <1>31, StillMove, Zenon DEF ReapBegin, exitVars, waitVars, forkVars
<1>32. CASE free_task
  BY <1>32, Zenon DEF Loud
<1>33. CASE ReapEnd
  BY <1>33, StillMove, Zenon DEF ReapEnd, exitVars, waitVars, forkVars
<1> QED
  BY <1>1, <1>2, <1>3, <1>4, <1>5, <1>6, <1>7, <1>8, <1>9, <1>10, <1>11, <1>12, <1>13, <1>14,
     <1>15, <1>16, <1>17, <1>18, <1>19, <1>20, <1>21, <1>22, <1>23, <1>24, <1>25, <1>26, <1>27,
     <1>28, <1>29, <1>30, <1>31, <1>32, <1>33, NextCases, Zenon

\* Every step keeps place and life in step.
LEMMA StandNext == ProcInv /\ [Next]_vars => (Standing /\ InitStays)'
<1> SUFFICES ASSUME ProcInv, [Next]_vars PROVE (Standing /\ InitStays)'
  OBVIOUS
<1>0. TypeOK /\ Standing /\ InitStays /\ Building /\ FreeList
  BY Zenon DEF ProcInv
<1> USE <1>0, ProcessAssumption
<1>1. CASE Quiet
  BY <1>1, Zenon DEF Quiet
<1>2. ASSUME NEW t \in Tasks, CloneStart(t) PROVE (Standing /\ InitStays)'
  BY <1>2 DEF CloneStart, TypeOK, Standing, InitStays, Running, WaitPlaces, ForkPlaces,
     ExitPlaces, exitVars, waitVars, forkVars, reapVars
<1>3. ASSUME NEW t \in Tasks, CloneFail(t) PROVE (Standing /\ InitStays)'
  <2> DEFINE c == call[t].task
  <2>1. c \in Tasks /\ life[c] = "new"
    BY <1>3, Zenon DEF Building, TypeOK, Calls, CloneFail, Goto
  <2>2. at[c] = "gone" /\ c # t /\ c # InitTask
    BY <1>3, <2>1 DEF CloneFail, Goto, TypeOK, Standing, InitStays, Running, Places, WaitPlaces,
       ForkPlaces, ExitPlaces
  <2> QED
    BY <1>3, <2>1, <2>2 DEF CloneFail, Goto, TypeOK, Standing, InitStays, Running, WaitPlaces,
       ForkPlaces
<1>4. ASSUME NEW t \in Tasks, Reparent(t) PROVE (Standing /\ InitStays)'
  BY <1>4 DEF Reparent, TypeOK, Standing, InitStays, Running, WaitPlaces, ForkPlaces,
     ExitPlaces, forkVars, reapVars
<1>5. ASSUME NEW t \in Tasks, Die(t) PROVE (Standing /\ InitStays)'
  BY <1>5 DEF Die, Goto, TypeOK, Standing, InitStays, Running, WaitPlaces, ForkPlaces,
     ExitPlaces, exitVars, waitVars, forkVars, reapVars
<1>6. ASSUME NEW t \in Tasks, Found(t) PROVE (Standing /\ InitStays)'
  BY <1>6 DEF Found, Goto, TypeOK, Standing, InitStays, Running, WaitPlaces, ForkPlaces,
     ExitPlaces, treeVars, forkVars, reapVars
<1>7. ASSUME NEW t \in Tasks, NEW c \in Tasks, NEW kind \in Clones, CloneAttach(t, c, kind)
       PROVE  (Standing /\ InitStays)'
  BY <1>7 DEF CloneAttach, Goto, TypeOK, Standing, InitStays, Running, WaitPlaces, ForkPlaces,
     ExitPlaces, exitVars, waitVars, reapVars
<1>8. ASSUME NEW t \in Tasks, NEW d, NEW blocked, NotifyParent(t, d, blocked)
       PROVE  (Standing /\ InitStays)'
  BY <1>8 DEF NotifyParent, Goto, TypeOK, Standing, InitStays, Running, WaitPlaces, ForkPlaces,
     ExitPlaces, forkVars
<1>9. ASSUME NEW t \in Tasks, NEW outcome \in Faults, Collect(t, outcome)
       PROVE  (Standing /\ InitStays)'
  BY <1>9 DEF Collect, Goto, TypeOK, Standing, InitStays, Running, WaitPlaces, ForkPlaces,
     ExitPlaces, treeVars, waitVars, forkVars, reapVars
<1>10. CASE free_task
  <2> DEFINE t == Head(freeq)
  <2>1. freeq \in Seq(Tasks) /\ freeq # <<>> /\ t \in Tasks /\ t \in Range(freeq)
    BY <1>10, TailFacts, Zenon DEF free_task, TypeOK
  <2>2. life[t] = "died" /\ at' = at
    BY <1>10, <2>1, Zenon DEF free_task, FreeList
  <2>3. CASE on_cpu(t)
    BY <1>10, <2>2, <2>3, Zenon DEF free_task, Standing, InitStays, treeVars
  <2>4. CASE ~on_cpu(t)
    <3>1. life' = [life EXCEPT ![t] = "freed"]
      BY <1>10, <2>4, Zenon DEF free_task, Release
    <3>2. at[t] \in {"gone", "reapcheck"}
      BY <2>4, Zenon DEF on_cpu
    <3> QED
      BY <2>1, <2>2, <3>1, <3>2 DEF TypeOK, Standing, InitStays, Running, WaitPlaces, ForkPlaces
  <2> QED
    BY <2>3, <2>4, Zenon
<1> QED
  BY <1>1, <1>2, <1>3, <1>4, <1>5, <1>6, <1>7, <1>8, <1>9, <1>10, QuietSteps, Zenon DEF Loud

\* Every step keeps track of what a task is in the middle of.
LEMMA CallingNext == ProcInv /\ [Next]_vars => Calling'
<1> SUFFICES ASSUME ProcInv, [Next]_vars PROVE Calling'
  OBVIOUS
<1>0. TypeOK /\ Calling
  BY Zenon DEF ProcInv
<1> USE <1>0, ProcessAssumption
<1>1. CASE Quiet
  BY <1>1, Zenon DEF Quiet
<1>2. ASSUME NEW t \in Tasks, CloneStart(t) PROVE Calling'
  BY <1>2 DEF CloneStart, TypeOK, Calling, Calls, exitVars, waitVars, forkVars, reapVars
<1>3. ASSUME NEW t \in Tasks, CloneFail(t) PROVE Calling'
  BY <1>3 DEF CloneFail, Goto, NoCall, TypeOK, Calling, Calls, exitVars, waitVars, reapVars
<1>4. ASSUME NEW t \in Tasks, Reparent(t) PROVE Calling'
  <2>1. \A u \in Tasks : sleep[u] \in {"prepared", "pending"} =>
           sleep'[u] \in {"prepared", "pending"}
    BY <1>4, WokenFacts, Zenon DEF Reparent
  <2>2. call' = call /\ \E w \in {"die", "vfork_done"} : at' = [at EXCEPT ![t] = w]
    BY <1>4, Zenon DEF Reparent
  <2>3. call[t].kind \in {"exit", "exit_thread"}
    BY <1>4, Zenon DEF Reparent, Calling
  <2>4. PICK w \in {"die", "vfork_done"} : at' = [at EXCEPT ![t] = w]
    BY <2>2, Zenon
  <2> QED
    BY <2>1, <2>2, <2>3, <2>4 DEF TypeOK, Calling
<1>5. ASSUME NEW t \in Tasks, Die(t) PROVE Calling'
  BY <1>5 DEF Die, Goto, TypeOK, Calling, Calls, exitVars, waitVars, forkVars, reapVars
<1>6. ASSUME NEW t \in Tasks, Found(t) PROVE Calling'
  BY <1>6 DEF Found, Goto, TypeOK, Calling, Calls, treeVars, forkVars, reapVars
<1>7. ASSUME NEW t \in Tasks, NEW c \in Tasks, NEW kind \in Clones, CloneAttach(t, c, kind)
       PROVE  Calling'
  BY <1>7 DEF CloneAttach, Goto, NoCall, TypeOK, Calling, Calls, exitVars, waitVars, reapVars
<1>8. ASSUME NEW t \in Tasks, NEW d, NEW blocked, NotifyParent(t, d, blocked) PROVE Calling'
  <2>1. \A u \in Tasks : sleep[u] \in {"prepared", "pending"} =>
           sleep'[u] \in {"prepared", "pending"}
    BY <1>8, WokenFacts, Zenon DEF NotifyParent
  <2> QED
    BY <1>8, <2>1 DEF NotifyParent, Goto, TypeOK, Calling
<1>9. ASSUME NEW t \in Tasks, NEW outcome \in Faults, Collect(t, outcome) PROVE Calling'
  BY <1>9 DEF Collect, Goto, NoCall, TypeOK, Calling, Calls, treeVars, waitVars, forkVars,
     reapVars
<1>10. CASE free_task
  <2>1. UNCHANGED <<at, call, sleep>>
    BY <1>10, Zenon DEF free_task, Release, waitVars
  <2> QED
    BY <2>1, Zenon DEF Calling
<1> QED
  BY <1>1, <1>2, <1>3, <1>4, <1>5, <1>6, <1>7, <1>8, <1>9, <1>10, QuietSteps, Zenon DEF Loud

\* Every step keeps the tasks under construction apart.
LEMMA BuildingNext == ProcInv /\ [Next]_vars => Building'
<1> SUFFICES ASSUME ProcInv, [Next]_vars PROVE Building'
  OBVIOUS
<1>0. TypeOK /\ Standing /\ Building /\ FreeList
  BY Zenon DEF ProcInv
<1> USE <1>0, ProcessAssumption
<1>1. CASE Quiet
  BY <1>1, Zenon DEF Quiet
<1>2. ASSUME NEW t \in Tasks, CloneStart(t) PROVE Building'
  BY <1>2 DEF CloneStart, TypeOK, Building, Calls, exitVars, waitVars, forkVars, reapVars
<1>3. ASSUME NEW t \in Tasks, CloneFail(t) PROVE Building'
  BY <1>3 DEF CloneFail, Goto, NoCall, TypeOK, Building, Calls, exitVars, waitVars, reapVars
<1>4. ASSUME NEW t \in Tasks, Reparent(t) PROVE Building'
  BY <1>4 DEF Reparent, TypeOK, Building, Calls, forkVars, reapVars
<1>5. ASSUME NEW t \in Tasks, Die(t) PROVE Building'
  <2>1. life[t] = "live" /\ life' = [life EXCEPT ![t] = "died"] /\ UNCHANGED <<vparent, call>>
    BY <1>5, Zenon DEF Die, Goto, Standing, Running, forkVars
  <2>2. \A u \in Tasks : at'[u] = "start" <=> at[u] = "start"
    BY <1>5, Zenon DEF Die, Goto, TypeOK
  <2> QED
    BY <2>1, <2>2 DEF TypeOK, Building, Calls
<1>6. ASSUME NEW t \in Tasks, Found(t) PROVE Building'
  BY <1>6 DEF Found, Goto, TypeOK, Building, Calls, treeVars, forkVars, reapVars
<1>7. ASSUME NEW t \in Tasks, NEW c \in Tasks, NEW kind \in Clones, CloneAttach(t, c, kind)
       PROVE  Building'
  BY <1>7 DEF CloneAttach, Goto, NoCall, TypeOK, Building, Calls, exitVars, waitVars, reapVars
<1>8. ASSUME NEW t \in Tasks, NEW d, NEW blocked, NotifyParent(t, d, blocked) PROVE Building'
  BY <1>8 DEF NotifyParent, Goto, TypeOK, Building, Calls, forkVars
<1>9. ASSUME NEW t \in Tasks, NEW outcome \in Faults, Collect(t, outcome) PROVE Building'
  BY <1>9 DEF Collect, Goto, NoCall, TypeOK, Building, Calls, treeVars, waitVars, forkVars,
     reapVars
<1>10. CASE free_task
  <2> DEFINE t == Head(freeq)
  <2>1. freeq \in Seq(Tasks) /\ freeq # <<>> /\ t \in Tasks /\ t \in Range(freeq)
    BY <1>10, TailFacts, Zenon DEF free_task, TypeOK
  <2>2. life[t] = "died" /\ UNCHANGED <<at, call, vparent>>
    BY <1>10, <2>1, Zenon DEF free_task, FreeList, forkVars
  <2>3. life' = life \/ life' = [life EXCEPT ![t] = "freed"]
    BY <1>10, Zenon DEF free_task, Release, treeVars
  <2> QED
    BY <2>1, <2>2, <2>3 DEF TypeOK, Building, Calls
<1> QED
  BY <1>1, <1>2, <1>3, <1>4, <1>5, <1>6, <1>7, <1>8, <1>9, <1>10, QuietSteps, Zenon DEF Loud

\* What a step does to the family tree, besides making a task: it lets tasks
\* go from one life to the next, and gives children a parent that exists.
LEMMA FamilyNext == ProcInv /\ [Next]_vars => Family'
<1> SUFFICES ASSUME ProcInv, [Next]_vars PROVE Family'
  OBVIOUS
<1>0. TypeOK /\ Standing /\ InitStays /\ Building /\ Family /\ FreeList
  BY Zenon DEF ProcInv
<1> USE <1>0, ProcessAssumption
<1>1. CASE UNCHANGED treeVars
  BY <1>1, Zenon DEF Family, Exists, is_clone, treeVars
<1>2. ASSUME NEW t \in Tasks, CloneStart(t) PROVE Family'
  <2> DEFINE c == call[t].task
  <2>1. /\ c \in Tasks /\ life[c] = "new" /\ life' = [life EXCEPT ![c] = "live"]
        /\ UNCHANGED <<tgid, parent, orphaned>>
    BY <1>2, Zenon DEF CloneStart, Building, TypeOK, Calls
  <2> QED
    BY <2>1 DEF Family, Exists, is_clone, TypeOK
<1>3. ASSUME NEW t \in Tasks, Die(t) PROVE Family'
  <2>1. life[t] = "live" /\ life' = [life EXCEPT ![t] = "died"] /\
           UNCHANGED <<tgid, parent, orphaned>>
    BY <1>3, Zenon DEF Die, Goto, Standing, Running
  <2> QED
    BY <2>1 DEF Family, Exists, is_clone, TypeOK
<1>4. ASSUME NEW x \in Tasks, NEW ts \in SUBSET Tasks, SetParent(ts, None),
             life[x] # "none", life' = [life EXCEPT ![x] = "freed"], tgid' = tgid,
             \A k \in Tasks : parent[k] = x /\ Exists(k) /\ ~is_clone(k) => k \in ts
      PROVE  Family'
  <2>0. None \in Tasks \cup {None} /\ None # InitTask
    OBVIOUS
  <2>1. /\ \A k \in Tasks : parent'[k] = IF k \in ts THEN None ELSE parent[k]
        /\ \A k \in orphaned' : k \in orphaned
        /\ orphaned' \subseteq Tasks
    <3>1. /\ orphaned' \in SUBSET Tasks
          /\ \A k \in Tasks : parent'[k] = IF k \in ts THEN None ELSE parent[k]
          /\ \A k \in Tasks \ ts : k \in orphaned' <=> k \in orphaned
          /\ \A k \in Tasks \cap ts : parent[k] # None => (k \in orphaned' <=> None = InitTask)
          /\ \A k \in Tasks \cap ts : parent[k] = None => (k \in orphaned' <=> k \in orphaned)
      BY <1>4, <2>0, SetParentFacts, Zenon
    <3> QED
      BY <2>0, <3>1, Zenon
  <2>2. \A k \in Tasks : Exists(k)' <=> Exists(k) /\ k # x
    BY <1>4, Zenon DEF Exists, TypeOK
  <2>3. \A k \in Tasks : is_clone(k)' <=> is_clone(k)
    BY <1>4, Zenon DEF is_clone
  <2>4. \A k \in Tasks : life[k] # "none" <=> life'[k] # "none"
    BY <1>4, Zenon DEF TypeOK
  <2>5. \A k \in Tasks : life'[k] # "none" => life'[tgid'[k]] # "none"
    BY <1>4, <2>4, Zenon DEF Family, TypeOK
  <2>6. ASSUME NEW k \in Tasks, Exists(k)', ~is_clone(k)', parent'[k] # None
        PROVE  Exists(parent[k])' /\ parent'[k] = parent[k]
    <3>1. k \notin ts /\ parent'[k] = parent[k] /\ Exists(k) /\ ~is_clone(k) /\ parent[k] # x
      BY <1>4, <2>1, <2>2, <2>3, <2>6, Zenon
    <3>2. parent[k] \in Tasks /\ Exists(parent[k])
      BY <2>6, <3>1, Zenon DEF Family, TypeOK
    <3>3. life'[parent[k]] = life[parent[k]]
      BY <1>4, <3>1, <3>2, Zenon DEF TypeOK
    <3> QED
      BY <3>1, <3>2, <3>3, Zenon DEF Exists
  <2>7. \A k \in orphaned' : life'[k] # "none" /\ parent'[k] \in {InitTask, None}
    BY <2>1, <2>4, Zenon DEF Family
  <2> QED
    BY <2>5, <2>6, <2>7, Zenon DEF Family, Exists
<1>5. ASSUME NEW t \in Tasks, CloneFail(t) PROVE Family'
  <2> DEFINE c == call[t].task
             ts == {c} \cup {k \in Children(tgid[c]) : parent[k] = c}
  <2>1. c \in Tasks /\ life[c] = "new"
    BY <1>5, Zenon DEF CloneFail, Goto, Building, TypeOK, Calls
  <2>2. /\ ts \in SUBSET Tasks
        /\ \A k \in Tasks : parent[k] = c /\ Exists(k) /\ ~is_clone(k) => k \in ts
    BY <2>1, Zenon DEF Children, ParentPid
  <2>3. SetParent(ts, None) /\ life' = [life EXCEPT ![c] = "freed"] /\ tgid' = tgid
    BY <1>5, Zenon DEF CloneFail
  <2> HIDE DEF ts, c
  <2> QED
    BY <1>4, <2>1, <2>2, <2>3, Zenon
<1>6. CASE free_task
  <2> DEFINE t == Head(freeq)
  <2>1. t \in Tasks /\ life[t] = "died"
    BY <1>6, TailFacts, Zenon DEF free_task, FreeList, TypeOK
  <2>2. CASE on_cpu(t)
    BY <1>1, <1>6, <2>2, Zenon DEF free_task
  <2>3. CASE ~on_cpu(t)
    <3>1. Release(t)
      BY <1>6, <2>3, Zenon DEF free_task
    <3> HIDE DEF t
    <3>2. PICK ts \in SUBSET Tasks :
              /\ SetParent(ts, None) /\ life' = [life EXCEPT ![t] = "freed"] /\ tgid' = tgid
              /\ \A k \in Tasks : parent[k] = t /\ Exists(k) /\ ~is_clone(k) => k \in ts
      BY <2>1, <3>1, ReleaseFacts, Zenon
    <3> QED
      BY <1>4, <2>1, <3>2, Zenon
  <2> QED
    BY <2>2, <2>3, Zenon
<1>7. ASSUME NEW t \in Tasks, NEW d, NEW blocked, NotifyParent(t, d, blocked) PROVE Family'
  <2>1. /\ UNCHANGED <<life, tgid, orphaned>>
        /\ parent' = parent \/ parent' = [parent EXCEPT ![t] = None]
           \/ parent' = [parent EXCEPT ![t] = @]
    BY <1>7, Zenon DEF NotifyParent
  <2> QED
    BY <2>1 DEF Family, Exists, is_clone, TypeOK
<1>8. ASSUME NEW t \in Tasks, Reparent(t) PROVE Family'
  <2>1. t # InitTask /\ Exists(InitTask) /\ life' = life /\ tgid' = tgid
    BY <1>8, InitExists, Zenon DEF Reparent, ExitPlaces
  <2>2. PICK p \in Tasks, ts \in SUBSET Children(tgid[t]) : SetParent(ts, p) /\ Exists(p)
    BY <1>8, <2>1, ReparentFacts, Zenon
  <2>3. ts \subseteq Tasks /\ \A k \in ts : life[k] # "none"
    BY <2>2, Zenon DEF Children, Exists
  <2>4. /\ \A k \in Tasks : parent'[k] = IF k \in ts THEN p ELSE parent[k]
        /\ \A k \in orphaned' : k \in Tasks /\ \/ k \in orphaned /\ parent'[k] = parent[k]
                                               \/ k \in ts /\ parent'[k] = InitTask
    BY <2>2, <2>3, SetParentFacts, Zenon
  <2>5. \A k \in Tasks : Exists(k)' <=> Exists(k)
    BY <2>1, Zenon DEF Exists
  <2>6. \A k \in Tasks : Exists(k)' /\ ~is_clone(k)' /\ parent'[k] # None =>
           Exists(parent[k])' \/ k \in ts
    BY <2>1, <2>4, <2>5, Zenon DEF Family, is_clone, Exists
  <2>7. \A k \in Tasks : Exists(k)' /\ ~is_clone(k)' /\ parent'[k] # None =>
           (Exists(parent[k]))' \/ parent'[k] = p
    BY <2>4, <2>6, Zenon DEF Exists
  <2>8. \A k \in orphaned' : life'[k] # "none" /\ parent'[k] \in {InitTask, None}
    BY <2>1, <2>3, <2>4, Zenon DEF Family
  <2> QED
    BY <2>1, <2>2, <2>5, <2>7, <2>8, Zenon DEF Family, Exists
<1>9. ASSUME NEW t \in Tasks, NEW c \in Tasks, NEW kind \in Clones, CloneAttach(t, c, kind)
      PROVE  Family'
  <2>1. life[t] = "live" /\ life[c] = "none" /\ c # t /\ life' = [life EXCEPT ![c] = "new"]
    BY <1>9, Zenon DEF CloneAttach, Goto, Standing, Running
  <2>2. /\ tgid' = [tgid EXCEPT ![c] = IF kind = "thread" THEN tgid[t] ELSE c]
        /\ parent' = [parent EXCEPT ![c] = IF kind = "thread" THEN parent[t] ELSE t]
        /\ orphaned' = orphaned
    BY <1>9, Zenon DEF CloneAttach
  <2>3. \A k \in Tasks \ {c} : life'[k] = life[k] /\ tgid'[k] = tgid[k] /\ parent'[k] = parent[k]
    BY <2>1, <2>2, Zenon DEF TypeOK
  <2>4. tgid[t] # c /\ c \notin orphaned /\ \A k \in Tasks : life[k] # "none" => tgid[k] # c
    BY <2>1, Zenon DEF Family
  <2>5. \A k \in Tasks : life'[k] # "none" => life'[tgid'[k]] # "none"
    <3>1. life'[c] = "new" /\ tgid'[c] \in {c, tgid[t]} /\ life'[tgid[t]] # "none"
      BY <2>1, <2>2, <2>3, <2>4 DEF Family, TypeOK
    <3> QED
      BY <2>3, <2>4, <3>1 DEF Family, TypeOK
  <2>6. ASSUME NEW k \in Tasks, Exists(k)', ~is_clone(k)', parent'[k] # None
        PROVE  (Exists(parent[k]))'
    <3>1. CASE k = c
      <4>1. parent'[c] = t
        BY <2>2, <2>4, <2>6, <3>1, Zenon DEF is_clone, TypeOK
      <4> QED
        BY <2>1, <2>3, <3>1, <4>1, Zenon DEF Exists
    <3>2. CASE k # c
      <4>1. Exists(parent[k]) /\ parent'[k] = parent[k] /\ parent[k] \in Tasks
        BY <2>3, <2>6, <3>2 DEF Family, Exists, is_clone, TypeOK
      <4>2. parent[k] # c /\ life'[parent[k]] = life[parent[k]]
        BY <2>1, <2>3, <4>1, Zenon DEF Exists
      <4> QED
        BY <4>1, <4>2, Zenon DEF Exists
    <3> QED
      BY <3>1, <3>2, Zenon
  <2>7. \A k \in orphaned' : life'[k] # "none" /\ parent'[k] \in {InitTask, None}
    BY <2>2, <2>3, <2>4 DEF Family, TypeOK
  <2> QED
    BY <2>5, <2>6, <2>7, Zenon DEF Family, Exists
<1>10. ASSUME NEW t \in Tasks, Found(t) \/ \E outcome \in Faults : Collect(t, outcome)
       PROVE  UNCHANGED treeVars
  BY <1>10, Zenon DEF Found, Collect
<1> QED
  BY <1>1, <1>2, <1>3, <1>5, <1>6, <1>7, <1>8, <1>9, <1>10, QuietSteps, Zenon DEF Quiet, Loud

\* The reap softirq is raised or at work as long as a task waits for it.
LEMMA ForgetNext == ProcInv /\ [Next]_vars => NoForgottenTask'
<1> SUFFICES ASSUME ProcInv, [Next]_vars PROVE NoForgottenTask'
  OBVIOUS
<1>0. TypeOK /\ NoForgottenTask
  BY Zenon DEF ProcInv
<1> USE <1>0, ProcessAssumption
<1>1. CASE UNCHANGED <<freeq, reaper>>
  BY <1>1, Zenon DEF NoForgottenTask
<1>2. ASSUME NEW t \in Tasks,
             \/ CloneStart(t) \/ CloneFail(t) \/ CloneReturn(t) \/ VforkDone(t)
             \/ VforkPrepare(t) \/ VforkRecheck(t) \/ VforkBlock(t) \/ VforkReturn(t)
             \/ Exec(t) \/ task_exit(t) \/ task_exit_thread(t) \/ ExitVfork(t)
      PROVE  UNCHANGED <<freeq, reaper>>
  BY <1>2, Zenon DEF CloneStart, CloneFail, CloneReturn, VforkDone, VforkPrepare, VforkRecheck,
     VforkBlock, VforkReturn, Exec, task_exit, task_exit_thread, ExitVfork, reapVars
<1>3. ASSUME NEW t \in Tasks,
             \/ Reparent(t) \/ Die(t) \/ StoreStatus(t) \/ WakeWaiters(t)
             \/ SwitchAway(t) \/ task_child_wait_arm(t) \/ Found(t) \/ NotFound(t)
             \/ WaitBlock(t) \/ WaitReturn(t) \/ HandleSignal(t) \/ SendSignal(t)
      PROVE  UNCHANGED <<freeq, reaper>>
  BY <1>3, Zenon DEF Reparent, Die, StoreStatus, WakeWaiters, SwitchAway, task_child_wait_arm,
     Found, NotFound, WaitBlock, WaitReturn, HandleSignal, SendSignal, reapVars
<1>4. ASSUME NEW t \in Tasks, NEW c \in Tasks, NEW kind \in Clones, CloneAttach(t, c, kind)
      PROVE  UNCHANGED <<freeq, reaper>>
  BY <1>4, Zenon DEF CloneAttach, reapVars
<1>5. ASSUME NEW t \in Tasks, NEW kind \in Waits, NEW want \in SUBSET Tasks, Wait(t, kind, want)
      PROVE  UNCHANGED <<freeq, reaper>>
  BY <1>5, Zenon DEF Wait, reapVars
<1>6. ASSUME NEW t \in Tasks, ReapCheck(t) PROVE NoForgottenTask'
  <2>1. \/ reaper'.raised = (reaper.raised \/ t \in reaped) /\ reaper'.batch = reaper.batch
        \/ reaper' = reaper
    BY <1>6, Zenon DEF ReapCheck, TypeOK
  <2>2. freeq' = freeq
    BY <1>6, Zenon DEF ReapCheck
  <2> QED
    BY <2>1, <2>2, Zenon DEF NoForgottenTask
<1>7. ASSUME NEW t \in Tasks, NEW d, NEW blocked, NotifyParent(t, d, blocked)
      PROVE  NoForgottenTask'
  <2>1. UNCHANGED <<freeq, reaper>> \/ EnqueueFree(t)
    BY <1>7, Zenon DEF NotifyParent, ReleaseSelf
  <2> QED
    BY <2>1, EnqueueFacts, Zenon DEF NoForgottenTask
<1>8. ASSUME NEW t \in Tasks, NEW outcome \in Faults, Collect(t, outcome) PROVE NoForgottenTask'
  <2>1. UNCHANGED <<freeq, reaper>> \/ EnqueueFree(call[t].task)
    BY <1>8, Zenon DEF Collect, reapVars
  <2>2. call[t].task \in Tasks
    BY <1>8, Zenon DEF Collect, Goto, TypeOK, Calls
  <2> QED
    BY <2>1, <2>2, EnqueueFacts, Zenon DEF NoForgottenTask
<1>9. CASE ReapBegin
  BY <1>9, Zenon DEF ReapBegin, NoForgottenTask
<1>10. CASE free_task
  <2>1. CASE on_cpu(Head(freeq))
    BY <1>10, <2>1 DEF free_task, NoForgottenTask
  <2>2. CASE ~on_cpu(Head(freeq))
    BY <1>10, <2>2, Zenon DEF free_task, NoForgottenTask, TypeOK
  <2> QED
    BY <2>1, <2>2, Zenon
<1>11. CASE ReapEnd
  BY <1>11, Zenon DEF ReapEnd, NoForgottenTask
<1>12. CASE UNCHANGED vars
  BY <1>1, <1>12, Zenon DEF vars, reapVars
<1> QED
  BY <1>1, <1>2, <1>3, <1>4, <1>5, <1>6, <1>7, <1>8, <1>9, <1>10, <1>11, <1>12, NextCases, Zenon

\* A task that was made stays made and stays in its group, so a group that
\* had threads is known by it.
LEMMA TreeGrows ==
    ProcInv /\ [Next]_vars =>
        /\ \A u \in Tasks : life[u] # "none" => life'[u] # "none" /\ tgid'[u] = tgid[u]
        /\ \A u \in Tasks : life[u] # "none" /\ HadThreads(u) => HadThreads(u)'
<1> SUFFICES ASSUME ProcInv, [Next]_vars
             PROVE  \A u \in Tasks : life[u] # "none" => life'[u] # "none" /\ tgid'[u] = tgid[u]
  BY Zenon DEF HadThreads
<1>0. TypeOK /\ Building /\ FreeList
  BY Zenon DEF ProcInv
<1> USE <1>0, ProcessAssumption
<1>1. CASE UNCHANGED <<life, tgid>>
  BY <1>1, Zenon
<1>2. ASSUME NEW x \in Tasks, NEW y \in {"new", "live", "died", "freed"},
             life' = [life EXCEPT ![x] = y], tgid' = tgid
      PROVE  \A u \in Tasks : life[u] # "none" => life'[u] # "none" /\ tgid'[u] = tgid[u]
  BY <1>2, Zenon DEF TypeOK
<1>3. ASSUME NEW t \in Tasks, CloneStart(t) \/ CloneFail(t)
      PROVE  call[t].task \in Tasks
  BY <1>3, Zenon DEF CloneStart, CloneFail, Goto, Building, TypeOK, Calls
<1>4. ASSUME NEW t \in Tasks, CloneStart(t)
      PROVE  life' = [life EXCEPT ![call[t].task] = "live"] /\ tgid' = tgid
  BY <1>4, Zenon DEF CloneStart
<1>5. ASSUME NEW t \in Tasks, CloneFail(t)
      PROVE  life' = [life EXCEPT ![call[t].task] = "freed"] /\ tgid' = tgid
  BY <1>5, Zenon DEF CloneFail
<1>6. ASSUME NEW t \in Tasks, Die(t)
      PROVE  life' = [life EXCEPT ![t] = "died"] /\ tgid' = tgid
  BY <1>6, Zenon DEF Die
<1>7. CASE free_task
  <2>1. Head(freeq) \in Tasks
    BY <1>7, TailFacts, Zenon DEF free_task, TypeOK
  <2>2. UNCHANGED <<life, tgid>> \/ (life' = [life EXCEPT ![Head(freeq)] = "freed"] /\ tgid' = tgid)
    BY <1>7, Zenon DEF free_task, Release, treeVars
  <2> QED
    BY <1>1, <1>2, <2>1, <2>2, Zenon
<1>8. ASSUME NEW t \in Tasks, NEW c \in Tasks, NEW kind \in Clones, CloneAttach(t, c, kind)
      PROVE  \A u \in Tasks : life[u] # "none" => life'[u] # "none" /\ tgid'[u] = tgid[u]
  BY <1>8, Zenon DEF CloneAttach, TypeOK
<1>9. ASSUME NEW t \in Tasks,
             \/ Found(t) \/ Reparent(t) \/ \E outcome \in Faults : Collect(t, outcome)
             \/ \E d, blocked : NotifyParent(t, d, blocked)
      PROVE  UNCHANGED <<life, tgid>>
  BY <1>9, Zenon DEF Found, Reparent, Collect, NotifyParent, treeVars
<1>10. ASSUME NEW t \in Tasks, CloneStart(t) \/ CloneFail(t) \/ Die(t)
       PROVE  \A u \in Tasks : life[u] # "none" => life'[u] # "none" /\ tgid'[u] = tgid[u]
  BY <1>2, <1>3, <1>4, <1>5, <1>6, <1>10, Zenon
<1>11. CASE Quiet
  BY <1>1, <1>11, Zenon DEF Quiet, treeVars
<1> QED
  BY <1>1, <1>7, <1>8, <1>9, <1>10, <1>11, QuietSteps, Zenon DEF Loud

\* The list of tasks to free: what is appended is dead and taken, and what a
\* wait4 puts back was not in it.
LEMMA FreeListNext == ProcInv /\ [Next]_vars => FreeList'
<1> SUFFICES ASSUME ProcInv, [Next]_vars PROVE FreeList'
  OBVIOUS
<1>0. TypeOK /\ Standing /\ Building /\ Held /\ FreeList
  BY Zenon DEF ProcInv
<1> USE <1>0, ProcessAssumption
<1>1. ASSUME freeq' = freeq, reaped \subseteq reaped', life' = life PROVE FreeList'
  BY <1>1, Zenon DEF FreeList
<1>2. ASSUME NEW x \in Tasks, NEW y, life[x] # "died", life' = [life EXCEPT ![x] = y],
             UNCHANGED <<freeq, reaped>>
      PROVE  FreeList'
  <2>1. \A u \in Range(freeq) : u \in Tasks /\ u # x /\ life'[u] = life[u]
    BY <1>2, Zenon DEF FreeList, TypeOK, Range
  <2> QED
    BY <1>2, <2>1, Zenon DEF FreeList
<1>3. ASSUME NEW x \in Tasks, EnqueueFree(x), life' = life, life[x] = "died",
             reaped \subseteq reaped', x \in reaped'
      PROVE  FreeList'
  BY <1>3, EnqueueFacts, Zenon DEF FreeList
<1>4. ASSUME NEW t \in Tasks, CloneStart(t) \/ CloneFail(t) PROVE FreeList'
  <2>1. call[t].task \in Tasks /\ life[call[t].task] = "new"
    BY <1>4 DEF CloneStart, CloneFail, Goto, Building, TypeOK, Calls
  <2>2. (life' = [life EXCEPT ![call[t].task] = "live"] \/
           life' = [life EXCEPT ![call[t].task] = "freed"])
        /\ UNCHANGED <<freeq, reaped>>
    BY <1>4, Zenon DEF CloneStart, CloneFail, reapVars, exitVars
  <2> QED
    BY <1>2, <2>1, <2>2, Zenon
<1>5. ASSUME NEW t \in Tasks, Die(t) PROVE FreeList'
  <2>1. life[t] = "live" /\ life' = [life EXCEPT ![t] = "died"] /\ UNCHANGED <<freeq, reaped>>
    BY <1>5, Zenon DEF Die, Goto, Standing, Running, reapVars, exitVars
  <2> QED
    BY <1>2, <2>1, Zenon
<1>6. ASSUME NEW t \in Tasks, NEW c \in Tasks, NEW kind \in Clones, CloneAttach(t, c, kind)
      PROVE  FreeList'
  <2>1. life[c] = "none" /\ life' = [life EXCEPT ![c] = "new"] /\ UNCHANGED <<freeq, reaped>>
    BY <1>6, Zenon DEF CloneAttach, reapVars, exitVars
  <2> QED
    BY <1>2, <2>1, Zenon
<1>7. ASSUME NEW t \in Tasks, Found(t) \/ Reparent(t) PROVE FreeList'
  <2>1. freeq' = freeq /\ reaped \subseteq reaped' /\ life' = life
    BY <1>7, Zenon DEF Found, Reparent, reapVars, treeVars
  <2> QED
    BY <1>1, <2>1, Zenon
<1>8. ASSUME NEW t \in Tasks, NEW d, NEW blocked, NotifyParent(t, d, blocked) PROVE FreeList'
  <2>1. life[t] = "died" /\ life' = life
    BY <1>8, Zenon DEF NotifyParent, Goto, Standing
  <2>2. \/ UNCHANGED <<reaped, freeq>>
        \/ reaped' = reaped \cup {t} /\ EnqueueFree(t)
    BY <1>8, Zenon DEF NotifyParent, ReleaseSelf
  <2> QED
    BY <1>1, <1>3, <2>1, <2>2, Zenon
<1>9. ASSUME NEW t \in Tasks, NEW outcome \in Faults, Collect(t, outcome) PROVE FreeList'
  <2> DEFINE c == call[t].task
  <2>1. c \in Tasks /\ c \in reaped /\ life[c] = "died" /\ c \notin Range(freeq) /\ life' = life
    BY <1>9, Zenon DEF Collect, Goto, TypeOK, Calls, Held, treeVars
  <2>2. \/ EnqueueFree(c) /\ reaped' = reaped
        \/ reaped' = reaped \ {c} /\ freeq' = freeq
    BY <1>9, Zenon DEF Collect, reapVars
  <2> HIDE DEF c
  <2>3. ASSUME reaped' = reaped \ {c}, freeq' = freeq PROVE FreeList'
    BY <2>1, <2>3, Zenon DEF FreeList
  <2> QED
    BY <1>3, <2>1, <2>2, <2>3, Zenon
<1>10. CASE free_task
  <2> DEFINE t == Head(freeq)
  <2>1. /\ t \in Tasks /\ t \in Range(freeq)
        /\ Tail(freeq) \in Seq(Tasks) /\ Range(Tail(freeq)) \subseteq Range(freeq)
        /\ Once(Tail(freeq)) /\ t \notin Range(Tail(freeq))
    BY <1>10, TailFacts, Zenon DEF free_task, TypeOK, FreeList
  <2>2. reaped' = reaped
    BY <1>10, Zenon DEF free_task, exitVars
  <2>3. CASE on_cpu(t)
    <3>1. freeq' = Append(Tail(freeq), t) /\ life' = life
      BY <1>10, <2>3, Zenon DEF free_task, treeVars
    <3> HIDE DEF t
    <3>2. Once(freeq') /\ Range(freeq') = Range(Tail(freeq)) \cup {t}
      BY <2>1, <3>1, AppendFacts, Zenon
    <3> QED
      BY <2>1, <2>2, <3>1, <3>2, Zenon DEF FreeList
  <2>4. CASE ~on_cpu(t)
    <3>1. freeq' = Tail(freeq) /\ life' = [life EXCEPT ![t] = "freed"]
      BY <1>10, <2>4, Zenon DEF free_task, Release
    <3> HIDE DEF t
    <3>2. \A u \in Range(Tail(freeq)) : u \in Tasks /\ u # t /\ life'[u] = life[u]
      BY <2>1, <3>1 DEF TypeOK, Range
    <3> QED
      BY <2>1, <2>2, <3>1, <3>2, Zenon DEF FreeList
  <2> QED
    BY <2>3, <2>4, Zenon
<1>11. CASE Quiet
  BY <1>1, <1>11, Zenon DEF Quiet, treeVars
<1> QED
  BY <1>4, <1>5, <1>6, <1>7, <1>8, <1>9, <1>10, <1>11, QuietSteps, Zenon DEF Loud

\* A process whose parent is not changed, or is taken away, stays a child of
\* the one it was a child of, or stays inherited.
LEMMA HeirStays ==
    ASSUME ProcInv, [Next]_vars, NEW w \in Tasks, NEW c \in Tasks,
           life[w] # "none", Exists(c), ~is_clone(c),
           ParentPid(c) = tgid[w] \/ Inherited(c),
           parent'[c] = None \/ (parent'[c] = parent[c] /\ (c \in orphaned => c \in orphaned'))
    PROVE  ParentPid(c)' = tgid'[w] \/ Inherited(c)'
<1>1. tgid'[w] = tgid[w]
  BY TreeGrows, Zenon
<1>2. CASE parent'[c] = None
  BY <1>2, Zenon DEF Inherited
<1>3. CASE parent'[c] # None
  <2>1. parent'[c] = parent[c] /\ (c \in orphaned => c \in orphaned') /\ parent[c] # None
    BY <1>3, Zenon
  <2>2. PICK p \in Tasks : p = parent[c] /\ life[p] # "none"
    BY <2>1, Zenon DEF ProcInv, Family, Exists, TypeOK
  <2>3. tgid'[p] = tgid[p] /\ (HadThreads(p) => HadThreads(p)')
    BY <2>2, TreeGrows, Zenon
  <2>4. ParentPid(c)' = ParentPid(c)
    BY <2>1, <2>2, <2>3, Zenon DEF ParentPid
  <2>5. HadThreads(parent[c]) => HadThreads(parent[c])'
    BY <2>1, <2>2, <2>3, Zenon DEF HadThreads
  <2> QED
    BY <1>1, <2>1, <2>4, <2>5, Zenon DEF Inherited
<1> QED
  BY <1>2, <1>3, Zenon

\* The children in the hands of a wait4.
LEMMA HeldNext == ProcInv /\ [Next]_vars => Held'
<1> SUFFICES ASSUME ProcInv, [Next]_vars PROVE Held'
  OBVIOUS
<1>0. TypeOK /\ Standing /\ InitStays /\ Building /\ Family /\ Held /\ FreeList
  BY Zenon DEF ProcInv
<1> USE <1>0, ProcessAssumption
<1>1. ASSUME NEW w \in Tasks, at[w] = "copy"
      PROVE  /\ life[w] # "none" /\ call[w].task \in Tasks
             /\ Exists(call[w].task) /\ ~is_clone(call[w].task)
             /\ call[w].task \in reaped /\ life[call[w].task] = "died"
             /\ call[w].task \notin Range(freeq)
             /\ ParentPid(call[w].task) = tgid[w] \/ Inherited(call[w].task)
  BY <1>1, Zenon DEF Held, Standing, Running, WaitPlaces, Exists, TypeOK, Calls
<1> DEFINE Keeps(w, c) ==
               /\ c \in reaped' /\ life'[c] = "died" /\ c \notin Range(freeq')
               /\ \/ parent'[c] = None
                  \/ parent'[c] = parent[c] /\ (c \in orphaned => c \in orphaned')
                  \/ Inherited(c)'
           Same == \A w \in Tasks : at'[w] = "copy" => at[w] = "copy" /\ call'[w] = call[w]
<1>2. ASSUME NEW w \in Tasks, NEW c \in Tasks, at[w] = "copy", c = call[w].task, Keeps(w, c)
      PROVE  /\ ~is_clone(c)'
             /\ ParentPid(c)' = tgid'[w] \/ Inherited(c)'
  <2>1. tgid'[c] = tgid[c] /\ ~is_clone(c) /\ life[w] # "none" /\ Exists(c)
        /\ (ParentPid(c) = tgid[w] \/ Inherited(c))
    BY <1>1, <1>2, TreeGrows, Zenon DEF Exists
  <2>2. ~is_clone(c)'
    BY <2>1, Zenon DEF is_clone
  <2> QED
    BY <1>2, <2>1, <2>2, HeirStays, Zenon
<1>3. ASSUME Same,
             \A w \in Tasks, c \in Tasks : at'[w] = "copy" /\ c = call[w].task => Keeps(w, c)
      PROVE  Held'
  <2>1. ASSUME NEW w \in Tasks, at'[w] = "copy"
        PROVE  /\ call'[w].task \in reaped' /\ life'[call'[w].task] = "died"
               /\ ~is_clone(call[w].task)'
               /\ call'[w].task \notin Range(freeq')
               /\ \A v \in Tasks \ {w} : at'[v] = "copy" => call'[v].task # call'[w].task
               /\ ParentPid(call[w].task)' = tgid'[w] \/ Inherited(call[w].task)'
    <3>1. at[w] = "copy" /\ call'[w] = call[w]
      BY <1>3, <2>1, Zenon
    <3>2. PICK c \in Tasks : c = call[w].task
      BY <1>1, <3>1, Zenon
    <3>3. Keeps(w, c)
      BY <1>3, <2>1, <3>2, Zenon
    <3>4. ~is_clone(c)' /\ (ParentPid(c)' = tgid'[w] \/ Inherited(c)')
      BY <1>2, <3>1, <3>2, <3>3, Zenon
    <3>5. \A v \in Tasks \ {w} : at'[v] = "copy" => call'[v].task # call'[w].task
      BY <1>3, <3>1 DEF Held
    <3>6. c = call'[w].task
      BY <3>1, <3>2, Zenon
    <3>7. ~is_clone(call[w].task)' /\ (ParentPid(call[w].task)' = tgid'[w] \/
             Inherited(call[w].task)')
      BY <3>4, <3>6
    <3> QED
      BY <3>3, <3>5, <3>6, <3>7, Zenon
  <2> QED
    BY <2>1, Zenon DEF Held
<1>4. CASE Quiet
  <2>1. Same
    BY <1>4, Zenon DEF Quiet
  <2>2. UNCHANGED <<life, tgid, parent, orphaned, reaped, freeq>>
    BY <1>4, Zenon DEF Quiet, treeVars
  <2>3. ASSUME NEW w \in Tasks, NEW c \in Tasks, at'[w] = "copy", c = call[w].task
        PROVE  Keeps(w, c)
    BY <1>1, <2>1, <2>2, <2>3, Zenon
  <2> QED
    BY <1>3, <2>1, <2>3, Zenon
<1>5. ASSUME NEW t \in Tasks, CloneStart(t) PROVE Held'
  <2>1. call[t].task \in Tasks /\ life[call[t].task] = "new"
    BY <1>5, Zenon DEF CloneStart, Building, TypeOK, Calls
  <2>2. Same
    BY <1>5, <2>1, Zenon DEF CloneStart, TypeOK
  <2>3. /\ UNCHANGED <<reaped, freeq, parent, orphaned>>
        /\ \A c \in Tasks : life[c] = "died" => life'[c] = "died"
    BY <1>5, <2>1, Zenon DEF CloneStart, TypeOK, exitVars, reapVars
  <2>9. ASSUME NEW w \in Tasks, NEW c \in Tasks, at'[w] = "copy", c = call[w].task
        PROVE  Keeps(w, c)
    BY <1>1, <2>2, <2>3, <2>9, Zenon
  <2> QED
    BY <1>3, <2>2, <2>9, Zenon
<1>6. ASSUME NEW t \in Tasks, CloneFail(t) PROVE Held'
  <2> DEFINE b  == call[t].task
             ts == {b} \cup {k \in Children(tgid[b]) : parent[k] = b}
  <2>1. b \in Tasks /\ life[b] = "new"
    BY <1>6, Zenon DEF CloneFail, Goto, Building, TypeOK, Calls
  <2>2. Same
    BY <1>6, Zenon DEF CloneFail, Goto, TypeOK
  <2>3. UNCHANGED <<reaped, freeq>> /\ \A c \in Tasks : life[c] = "died" => life'[c] = "died"
    BY <1>6, <2>1, Zenon DEF CloneFail, TypeOK, exitVars, reapVars
  <2>4. ts \in SUBSET Tasks /\ SetParent(ts, None)
    BY <1>6, <2>1, Zenon DEF CloneFail, Children
  <2> HIDE DEF ts, b
  <2>5. \A c \in Tasks : parent'[c] = None \/ (parent'[c] = parent[c] /\ (c \in orphaned =>
           c \in orphaned'))
    BY <2>4, SetParentFacts, Zenon
  <2>9. ASSUME NEW w \in Tasks, NEW c \in Tasks, at'[w] = "copy", c = call[w].task
        PROVE  Keeps(w, c)
    BY <1>1, <2>2, <2>3, <2>5, <2>9, Zenon
  <2> QED
    BY <1>3, <2>2, <2>9, Zenon
<1>7. ASSUME NEW t \in Tasks, Die(t) PROVE Held'
  <2>1. Same
    BY <1>7, Zenon DEF Die, Goto, TypeOK
  <2>2. /\ UNCHANGED <<reaped, freeq, parent, orphaned>>
        /\ \A c \in Tasks : life[c] = "died" => life'[c] = "died"
    BY <1>7, Zenon DEF Die, TypeOK, exitVars, reapVars
  <2>9. ASSUME NEW w \in Tasks, NEW c \in Tasks, at'[w] = "copy", c = call[w].task
        PROVE  Keeps(w, c)
    BY <1>1, <2>1, <2>2, <2>9, Zenon
  <2> QED
    BY <1>3, <2>1, <2>9, Zenon
<1>8. ASSUME NEW t \in Tasks, NEW b \in Tasks, NEW kind \in Clones, CloneAttach(t, b, kind)
      PROVE  Held'
  <2>1. Same
    BY <1>8, Zenon DEF CloneAttach, Goto, TypeOK
  <2>2. /\ UNCHANGED <<reaped, freeq, orphaned>>
        /\ \A c \in Tasks : life[c] = "died" => life'[c] = "died" /\ parent'[c] = parent[c]
    BY <1>8, Zenon DEF CloneAttach, TypeOK, exitVars, reapVars
  <2>9. ASSUME NEW w \in Tasks, NEW c \in Tasks, at'[w] = "copy", c = call[w].task
        PROVE  Keeps(w, c)
    BY <1>1, <2>1, <2>2, <2>9, Zenon
  <2> QED
    BY <1>3, <2>1, <2>9, Zenon
<1>9. ASSUME NEW t \in Tasks, NEW d, NEW blocked, NotifyParent(t, d, blocked) PROVE Held'
  <2>1. Same
    BY <1>9 DEF NotifyParent, Goto, TypeOK
  <2>2. /\ UNCHANGED <<life, orphaned>>
        /\ \A c \in Tasks : parent'[c] = None \/ parent'[c] = parent[c]
    BY <1>9 DEF NotifyParent, TypeOK
  <2>3. \/ UNCHANGED <<reaped, freeq>>
        \/ t \notin reaped /\ reaped' = reaped \cup {t} /\ EnqueueFree(t)
    BY <1>9, Zenon DEF NotifyParent, ReleaseSelf
  <2>4. \A c \in reaped : c \in reaped' /\ (c \in Range(freeq') => c \in Range(freeq))
    BY <2>3, EnqueueFacts, Zenon
  <2>9. ASSUME NEW w \in Tasks, NEW c \in Tasks, at'[w] = "copy", c = call[w].task
        PROVE  Keeps(w, c)
    BY <1>1, <2>1, <2>2, <2>4, <2>9, Zenon
  <2> QED
    BY <1>3, <2>1, <2>9, Zenon
<1>10. ASSUME NEW t \in Tasks, NEW outcome \in Faults, Collect(t, outcome) PROVE Held'
  <2> DEFINE b == call[t].task
  <2>1. b \in Tasks /\ at[t] = "copy" /\ UNCHANGED treeVars
    BY <1>10, Zenon DEF Collect, Goto, TypeOK, Calls
  <2>2. Same /\ \A w \in Tasks : at'[w] = "copy" => w # t
    BY <1>10, Zenon DEF Collect, Goto, TypeOK
  <2>3. \/ EnqueueFree(b) /\ reaped' = reaped
        \/ reaped' = reaped \ {b} /\ freeq' = freeq
    BY <1>10, Zenon DEF Collect, reapVars
  <2>4. \A w \in Tasks : at'[w] = "copy" => call[w].task # b
    BY <2>1, <2>2 DEF Held
  <2> HIDE DEF b
  <2>5. \A c \in reaped : c # b => c \in reaped' /\ (c \in Range(freeq') => c \in Range(freeq))
    BY <2>1, <2>3, EnqueueFacts, Zenon
  <2>9. ASSUME NEW w \in Tasks, NEW c \in Tasks, at'[w] = "copy", c = call[w].task
        PROVE  Keeps(w, c)
    BY <1>1, <2>1, <2>2, <2>4, <2>5, <2>9, Zenon DEF treeVars
  <2> QED
    BY <1>3, <2>2, <2>9, Zenon
<1>11. CASE free_task
  <2> DEFINE t == Head(freeq)
  <2>1. /\ t \in Tasks /\ t \in Range(freeq)
        /\ Tail(freeq) \in Seq(Tasks) /\ Range(Tail(freeq)) \subseteq Range(freeq)
    BY <1>11, TailFacts, Zenon DEF free_task, TypeOK
  <2>2. Same /\ reaped' = reaped /\ UNCHANGED <<at, call>>
    BY <1>11, Zenon DEF free_task, exitVars
  <2>3. CASE on_cpu(t)
    <3>1. freeq' = Append(Tail(freeq), t) /\ UNCHANGED treeVars
      BY <1>11, <2>3, Zenon DEF free_task
    <3> HIDE DEF t
    <3>2. Range(freeq') \subseteq Range(freeq)
      <4>1. Range(Append(Tail(freeq), t)) = Range(Tail(freeq)) \cup {t}
        BY <2>1, AppendFacts, Zenon
      <4> QED
        BY <2>1, <3>1, <4>1, Zenon
    <3>9. ASSUME NEW w \in Tasks, NEW c \in Tasks, at'[w] = "copy", c = call[w].task
          PROVE  Keeps(w, c)
      BY <1>1, <2>2, <3>1, <3>2, <3>9, Zenon DEF treeVars
    <3> QED
      BY <1>3, <2>2, <3>9, Zenon
  <2>4. CASE ~on_cpu(t)
    <3>1. freeq' = Tail(freeq) /\ Release(t)
      BY <1>11, <2>4, Zenon DEF free_task
    <3> HIDE DEF t
    <3>2. PICK ts \in SUBSET Tasks : SetParent(ts, None) /\ life' = [life EXCEPT ![t] = "freed"]
      BY <2>1, <3>1, ReleaseFacts, Zenon
    <3>3. \A c \in Tasks : parent'[c] = None \/ (parent'[c] = parent[c] /\ (c \in orphaned =>
             c \in orphaned'))
      BY <3>2, SetParentFacts, Zenon
    <3>4. \A c \in Tasks : life[c] = "died" /\ c \notin Range(freeq) => life'[c] = "died"
      BY <2>1, <3>2 DEF TypeOK
    <3>9. ASSUME NEW w \in Tasks, NEW c \in Tasks, at'[w] = "copy", c = call[w].task
          PROVE  Keeps(w, c)
      BY <1>1, <2>1, <2>2, <3>1, <3>3, <3>4, <3>9, Zenon
    <3> QED
      BY <1>3, <2>2, <3>9, Zenon
  <2> QED
    BY <2>3, <2>4, Zenon
<1>12. ASSUME NEW t \in Tasks, Reparent(t) PROVE Held'
  <2>1. t # InitTask /\ Exists(InitTask) /\ life[t] = "live" /\
           UNCHANGED <<life, tgid, reaped, freeq>>
    BY <1>12, InitExists, Zenon DEF Reparent, ExitPlaces, Standing, Running, reapVars
  <2>2. Same
    BY <1>12, Zenon DEF Reparent, TypeOK
  <2>3. PICK p \in Tasks \ {t}, ts \in SUBSET (Children(tgid[t]) \ {t}) :
            /\ SetParent(ts, p)
            /\ \/ p = InitTask \/ p \in Subreapers
               \/ tgid[p] = tgid[t] /\ \A c \in ts : parent[c] = t
    BY <1>12, <2>1, ReparentFacts
  <2>4. ts \in SUBSET Tasks
    BY <2>3, Zenon DEF Children
  <2>5. /\ \A c \in Tasks : parent'[c] = IF c \in ts THEN p ELSE parent[c]
        /\ \A c \in Tasks \ ts : c \in orphaned' <=> c \in orphaned
        /\ \A c \in Tasks \cap ts : parent[c] # p => (c \in orphaned' <=> p = InitTask)
        /\ \A c \in Tasks \cap ts : parent[c] = p => (c \in orphaned' <=> c \in orphaned)
    BY <2>3, <2>4, SetParentFacts, Zenon
  <2>6. ASSUME NEW c \in Tasks
        PROVE  \/ parent'[c] = parent[c] /\ (c \in orphaned => c \in orphaned')
               \/ Inherited(c)'
    <3>1. CASE c \notin ts \/ parent[c] = p
      BY <2>5, <3>1, Zenon
    <3>2. CASE c \in ts /\ parent[c] # p
      <4>1. parent'[c] = p
        BY <2>5, <3>2, Zenon
      <4>2. CASE p = InitTask
        BY <2>5, <3>2, <4>2, Zenon DEF Inherited
      <4>3. CASE p \in Subreapers
        BY <4>1, <4>3, Zenon DEF Inherited
      <4>4. CASE tgid[p] = tgid[t]
        BY <2>1, <4>1, <4>4, Zenon DEF Inherited, HadThreads
      <4> QED
        BY <2>3, <4>2, <4>3, <4>4, Zenon
    <3> QED
      BY <3>1, <3>2, Zenon
  <2>9. ASSUME NEW w \in Tasks, NEW c \in Tasks, at'[w] = "copy", c = call[w].task
        PROVE  Keeps(w, c)
    BY <1>1, <2>1, <2>2, <2>6, <2>9, Zenon
  <2> QED
    BY <1>3, <2>2, <2>9, Zenon
<1>13. ASSUME NEW t \in Tasks, Found(t) PROVE Held'
  <2>1. PICK c \in Dead(t) :
            /\ at[t] = "scan" /\ at' = [at EXCEPT ![t] = "copy"]
            /\ reaped' = reaped \cup {c} /\ call' = [call EXCEPT ![t].task = c]
            /\ UNCHANGED <<life, tgid, parent, orphaned, freeq>>
    BY <1>13, Zenon DEF Found, Goto, treeVars, reapVars
  <2>2. /\ c \in Tasks /\ life[c] = "died" /\ ~is_clone(c) /\ c \notin reaped
        /\ ParentPid(c) = tgid[t] /\ c \notin Range(freeq)
    BY <2>1, Zenon DEF Dead, Wanted, Children, FreeList
  <2>3. /\ at'[t] = "copy" /\ call'[t].task = c
        /\ \A w \in Tasks \ {t} : at'[w] = at[w] /\ call'[w] = call[w]
    BY <2>1 DEF TypeOK, Calls
  <2>4. \A w \in Tasks \ {t} : at'[w] = "copy" => call'[w].task \in reaped
    BY <1>1, <2>3, Zenon
  <2>5. ~is_clone(c)' /\ ParentPid(c)' = tgid'[t]
    BY <2>1, <2>2, Zenon DEF is_clone, ParentPid
  <2>6. ASSUME NEW w \in Tasks \ {t}, at'[w] = "copy"
        PROVE  /\ call'[w].task \in reaped' /\ life'[call'[w].task] = "died"
               /\ ~is_clone(call[w].task)' /\ call'[w].task \notin Range(freeq')
               /\ ParentPid(call[w].task)' = tgid'[w] \/ Inherited(call[w].task)'
    <3>1. PICK b \in Tasks : b = call[w].task /\ b = call'[w].task /\ at[w] = "copy"
      BY <1>1, <2>3, <2>6, Zenon
    <3>2. Keeps(w, b)
      BY <1>1, <2>1, <3>1, Zenon
    <3>3. ~is_clone(b)' /\ (ParentPid(b)' = tgid'[w] \/ Inherited(b)')
      BY <1>2, <3>1, <3>2, Zenon
    <3> QED
      BY <3>1, <3>2, <3>3, Zenon
  <2>7. \A w \in Tasks : at'[w] = "copy" =>
           \A v \in Tasks \ {w} : at'[v] = "copy" => call'[v].task # call'[w].task
    <3>1. \A w, v \in Tasks \ {t} : w # v /\ at'[w] = "copy" /\ at'[v] = "copy" =>
             call'[v].task # call'[w].task
      BY <2>3 DEF Held
    <3> QED
      BY <2>2, <2>3, <2>4, <3>1
  <2>8. ASSUME NEW w \in Tasks, at'[w] = "copy"
        PROVE  /\ call'[w].task \in reaped' /\ life'[call'[w].task] = "died"
               /\ ~is_clone(call[w].task)' /\ call'[w].task \notin Range(freeq')
               /\ ParentPid(call[w].task)' = tgid'[w] \/ Inherited(call[w].task)'
    <3>1. CASE w = t
      BY <2>1, <2>2, <2>3, <2>5, <3>1
    <3> QED
      BY <2>6, <2>8, <3>1, Zenon
  <2> QED
    BY <2>7, <2>8, Zenon DEF Held
<1> QED
  BY <1>4, <1>5, <1>6, <1>7, <1>8, <1>9, <1>10, <1>11, <1>12, <1>13, QuietSteps, Zenon DEF Loud

\* The children of a task that has handed its own on.
LEMMA LostNext == ProcInv /\ [Next]_vars => NoLostChild'
<1> SUFFICES ASSUME ProcInv, [Next]_vars PROVE NoLostChild'
  OBVIOUS
<1>0. TypeOK /\ Standing /\ InitStays /\ Calling /\ Building /\ Family /\ FreeList /\ NoLostChild
  BY Zenon DEF ProcInv
<1> USE <1>0, ProcessAssumption
<1> DEFINE Leaves(u) == HandedOn(u)' /\ u \notin Subreapers /\ ~HadThreads(u)'
           Child(c)  == Exists(c) /\ ~is_clone(c)
<1>1. ASSUME NEW u \in Tasks, Leaves(u), HandedOn(u), life[u] # "none", NEW c \in Tasks \ {u},
             Child(c)
      PROVE  parent[c] # u
  <2>1. ~HadThreads(u)
    BY <1>1, TreeGrows, Zenon
  <2> QED
    BY <1>1, <2>1, Zenon DEF NoLostChild
<1>2. \A u \in Tasks : HandedOn(u) => life[u] # "none"
  BY Zenon DEF HandedOn, Standing, Running
<1>3. ASSUME \A u \in Tasks : Leaves(u) => HandedOn(u),
             \A c \in Tasks : Child(c)' => Child(c) /\ (parent'[c] = parent[c] \/ parent'[c] = None)
      PROVE  NoLostChild'
  <2>1. ASSUME NEW u \in Tasks, Leaves(u), NEW c \in Tasks \ {u}, Child(c)' PROVE parent'[c] # u
    BY <1>1, <1>2, <1>3, <2>1, Zenon
  <2> QED
    BY <2>1, Zenon DEF NoLostChild
<1>4. CASE Quiet
  <2>1. /\ \A u \in Tasks : Leaves(u) => HandedOn(u)
        /\ UNCHANGED <<life, tgid, parent>>
    BY <1>4, Zenon DEF Quiet, treeVars
  <2>2. \A c \in Tasks : Child(c)' => Child(c) /\ parent'[c] = parent[c]
    BY <2>1, Zenon DEF Exists, is_clone
  <2> QED
    BY <1>3, <2>1, <2>2, Zenon
<1>5. ASSUME NEW t \in Tasks, CloneStart(t) PROVE NoLostChild'
  <2> DEFINE b == call[t].task
  <2>1. b \in Tasks /\ life[b] = "new" /\ life[t] = "live"
    BY <1>5 DEF CloneStart, Building, TypeOK, Calls, Standing, Running, ForkPlaces
  <2>2. /\ at'[t] \in {"vcheck", "forked"} /\ at'[b] = "user" /\ life'[b] = "live"
        /\ \A u \in Tasks \ {t, b} : at'[u] = at[u] /\ life'[u] = life[u]
        /\ life'[t] = life[t] /\ UNCHANGED <<tgid, parent, call>>
    BY <1>5, <2>1 DEF CloneStart, TypeOK
  <2> HIDE DEF b
  <2>3. \A u \in Tasks : Leaves(u) => HandedOn(u)
    BY <2>2, Zenon DEF HandedOn, ExitPlaces
  <2>4. \A c \in Tasks : Child(c)' => Child(c) /\ parent'[c] = parent[c]
    BY <2>1, <2>2, Zenon DEF Exists, is_clone
  <2> QED
    BY <1>3, <2>3, <2>4, Zenon
<1>6. ASSUME NEW t \in Tasks, CloneFail(t) PROVE NoLostChild'
  <2> DEFINE b  == call[t].task
             ts == {b} \cup {k \in Children(tgid[b]) : parent[k] = b}
  <2>1. b \in Tasks /\ life[b] = "new" /\ at[b] # "vfork_done" /\ b # t
    BY <1>6 DEF CloneFail, Goto, Building, TypeOK, Calls, Standing, Running, ForkPlaces
  <2>2. /\ at'[t] = "user" /\ life'[b] = "freed" /\ at'[b] = at[b]
        /\ \A u \in Tasks \ {t, b} : at'[u] = at[u] /\ life'[u] = life[u] /\ call'[u] = call[u]
        /\ tgid' = tgid
    BY <1>6, <2>1 DEF CloneFail, Goto, TypeOK
  <2>3. ts \in SUBSET Tasks /\ SetParent(ts, None)
    BY <1>6, <2>1, Zenon DEF CloneFail, Children
  <2> HIDE DEF ts, b
  <2>4. \A c \in Tasks : parent'[c] = parent[c] \/ parent'[c] = None
    BY <2>3, SetParentFacts, Zenon
  <2>5. \A u \in Tasks : Leaves(u) => HandedOn(u)
    BY <2>1, <2>2, Zenon DEF HandedOn, ExitPlaces
  <2>6. life'[t] = life[t]
    BY <1>6, <2>1, Zenon DEF CloneFail, TypeOK, b
  <2>7. \A c \in Tasks : Child(c)' => Child(c)
    BY <2>1, <2>2, <2>6, Zenon DEF Exists, is_clone
  <2> QED
    BY <1>3, <2>4, <2>5, <2>7, Zenon
<1>7. ASSUME NEW t \in Tasks, Die(t) PROVE NoLostChild'
  <2>1. /\ at[t] = "die" /\ life[t] = "live" /\ life'[t] = "died" /\ at'[t] = "status"
        /\ \A u \in Tasks \ {t} : at'[u] = at[u] /\ life'[u] = life[u]
        /\ UNCHANGED <<call, tgid, parent>>
    BY <1>7 DEF Die, Goto, TypeOK, Standing, Running
  <2>2. \A u \in Tasks : Leaves(u) => HandedOn(u)
    BY <2>1, Zenon DEF HandedOn, ExitPlaces
  <2>3. \A c \in Tasks : Child(c)' => Child(c)
    BY <2>1, Zenon DEF Exists, is_clone
  <2> QED
    BY <1>3, <2>1, <2>2, <2>3, Zenon
<1>8. ASSUME NEW t \in Tasks, Found(t) \/ \E outcome \in Faults : Collect(t, outcome)
      PROVE  NoLostChild'
  <2>1. UNCHANGED <<life, tgid, parent>>
    BY <1>8, Zenon DEF Found, Collect, treeVars
  <2>2. /\ at'[t] \in {"copy", "user"}
        /\ \A u \in Tasks \ {t} : at'[u] = at[u] /\ call'[u] = call[u]
    BY <1>8 DEF Found, Collect, Goto, TypeOK
  <2>3. \A u \in Tasks : Leaves(u) => HandedOn(u)
    BY <2>1, <2>2, Zenon DEF HandedOn, ExitPlaces
  <2>4. \A c \in Tasks : Child(c)' => Child(c)
    BY <2>1, Zenon DEF Exists, is_clone
  <2> QED
    BY <1>3, <2>1, <2>3, <2>4, Zenon
<1>9. ASSUME NEW t \in Tasks, NEW d, NEW blocked, NotifyParent(t, d, blocked) PROVE NoLostChild'
  <2>1. UNCHANGED <<life, tgid, call>> /\ \A c \in Tasks : parent'[c] = parent[c] \/
           parent'[c] = None
    BY <1>9 DEF NotifyParent, TypeOK
  <2>2. /\ at[t] = "notify" /\ life[t] = "died" /\ at'[t] = "switch"
        /\ \A u \in Tasks \ {t} : at'[u] = at[u]
    BY <1>9, Zenon DEF NotifyParent, Goto, TypeOK, Standing
  <2>3. \A u \in Tasks : Leaves(u) => HandedOn(u)
    BY <2>1, <2>2, Zenon DEF HandedOn, ExitPlaces
  <2>4. \A c \in Tasks : Child(c)' => Child(c)
    BY <2>1, Zenon DEF Exists, is_clone
  <2> QED
    BY <1>3, <2>1, <2>3, <2>4, Zenon
<1>10. CASE free_task
  <2> DEFINE t == Head(freeq)
  <2>1. t \in Tasks /\ life[t] = "died" /\ UNCHANGED <<at, call>>
    BY <1>10, TailFacts, Zenon DEF free_task, FreeList, TypeOK
  <2>2. CASE on_cpu(t)
    <3>1. UNCHANGED <<life, tgid, parent>>
      BY <1>10, <2>2, Zenon DEF free_task, treeVars
    <3>2. \A u \in Tasks : Leaves(u) => HandedOn(u)
      BY <2>1, <3>1, Zenon DEF HandedOn
    <3>3. \A c \in Tasks : Child(c)' => Child(c)
      BY <3>1, Zenon DEF Exists, is_clone
    <3> QED
      BY <1>3, <3>1, <3>2, <3>3, Zenon
  <2>3. CASE ~on_cpu(t)
    <3>1. Release(t)
      BY <1>10, <2>3, Zenon DEF free_task
    <3> HIDE DEF t
    <3>2. PICK ts \in SUBSET Tasks :
              SetParent(ts, None) /\ life' = [life EXCEPT ![t] = "freed"] /\ tgid' = tgid
      BY <2>1, <3>1, ReleaseFacts, Zenon
    <3>3. \A c \in Tasks : parent'[c] = parent[c] \/ parent'[c] = None
      BY <3>2, SetParentFacts, Zenon
    <3>4. life'[t] = "freed" /\ \A u \in Tasks \ {t} : life'[u] = life[u]
      BY <2>1, <3>2, Zenon DEF TypeOK
    <3>5. \A u \in Tasks : Leaves(u) => HandedOn(u)
      BY <2>1, <3>4, Zenon DEF HandedOn, Standing, Running
    <3>6. \A c \in Tasks : Child(c)' => Child(c)
      BY <3>2, <3>4, Zenon DEF Exists, is_clone
    <3> QED
      BY <1>3, <3>3, <3>5, <3>6, Zenon
  <2> QED
    BY <2>2, <2>3, Zenon
<1>11. ASSUME NEW t \in Tasks, NEW b \in Tasks, NEW kind \in Clones, CloneAttach(t, b, kind)
       PROVE  NoLostChild'
  <2>1. life[t] = "live" /\ life[b] = "none" /\ b # t /\ at[b] # "vfork_done"
    BY <1>11, Zenon DEF CloneAttach, Goto, Standing, Running
  <2>2. /\ at'[t] = "start" /\ life'[b] = "new" /\ life'[t] = life[t] /\ at'[b] = at[b]
        /\ \A u \in Tasks \ {t, b} : at'[u] = at[u] /\ life'[u] = life[u] /\ call'[u] = call[u]
        /\ \A u \in Tasks \ {b} : tgid'[u] = tgid[u] /\ parent'[u] = parent[u]
        /\ kind # "thread" => parent'[b] = t
        /\ kind = "thread" => tgid'[b] = tgid[t]
    BY <1>11, <2>1 DEF CloneAttach, Goto, TypeOK
  <2>3. \A u \in Tasks : Leaves(u) => HandedOn(u) /\ u # t
    BY <2>1, <2>2 DEF HandedOn, ExitPlaces
  <2>4. \A c \in Tasks \ {b} : Child(c)' => Child(c) /\ parent'[c] = parent[c]
    BY <2>2, Zenon DEF Exists, is_clone
  <2>5. tgid[t] # b
    BY <2>1, Zenon DEF Family
  <2>6. Child(b)' => parent'[b] = t
    BY <2>2, <2>5, Zenon DEF is_clone
  <2>7. ASSUME NEW u \in Tasks, Leaves(u), NEW c \in Tasks \ {u}, Child(c)' PROVE parent'[c] # u
    BY <1>1, <1>2, <2>3, <2>4, <2>6, <2>7, Zenon
  <2> QED
    BY <2>7, Zenon DEF NoLostChild
<1>12. ASSUME NEW t \in Tasks, Reparent(t) PROVE NoLostChild'
  <2>1. t # InitTask /\ Exists(InitTask) /\ life[t] = "live" /\ UNCHANGED <<life, tgid, call>>
    BY <1>12, InitExists, Zenon DEF Reparent, ExitPlaces, Standing, Running
  <2>2. \A u \in Tasks \ {t} : at'[u] = at[u]
    BY <1>12, Zenon DEF Reparent, TypeOK
  <2>3. PICK p \in Tasks \ {t}, ts \in SUBSET (Children(tgid[t]) \ {t}) :
            /\ SetParent(ts, p)
            /\ \A c \in Children(tgid[t]) \ {t} : parent[c] = t => c \in ts
            /\ p = InitTask \/ p \in Subreapers \/ tgid[p] = tgid[t]
    BY <1>12, <2>1, ReparentFacts, Zenon
  <2>4. ts \in SUBSET Tasks
    BY <2>3, Zenon DEF Children
  <2>5. \A c \in Tasks : parent'[c] = IF c \in ts THEN p ELSE parent[c]
    BY <2>3, <2>4, SetParentFacts, Zenon
  <2>6. \A u \in Tasks \ {t} : HandedOn(u)' => HandedOn(u)
    BY <2>1, <2>2, Zenon DEF HandedOn
  <2>7. \A c \in Tasks : Child(c)' => Child(c)
    BY <2>1, Zenon DEF Exists, is_clone
  <2>8. ~Leaves(p)
    <3>1. CASE p = InitTask
      BY <2>1, <2>6, <3>1, Zenon DEF HandedOn, InitStays, ExitPlaces, WaitPlaces, ForkPlaces
    <3>2. CASE tgid[p] = tgid[t]
      BY <2>1, <2>3, <3>2, Zenon DEF HadThreads
    <3> QED
      BY <2>3, <3>1, <3>2, Zenon
  <2>9. ASSUME NEW u \in Tasks, Leaves(u), NEW c \in Tasks \ {u}, Child(c)' PROVE parent'[c] # u
    <3>1. CASE c \in ts
      BY <2>5, <2>8, <2>9, <3>1, Zenon
    <3>2. CASE c \notin ts /\ u = t
      <4>1. parent[c] = t => c \in Children(tgid[t])
        BY <2>7, <2>9, Zenon DEF Children, ParentPid
      <4> QED
        BY <2>3, <2>5, <2>9, <3>2, <4>1, Zenon
    <3>3. CASE c \notin ts /\ u # t
      BY <1>1, <1>2, <2>5, <2>6, <2>7, <2>9, <3>3, Zenon
    <3> QED
      BY <3>1, <3>2, <3>3, Zenon
  <2> QED
    BY <2>9, Zenon DEF NoLostChild
<1> QED
  BY <1>4, <1>5, <1>6, <1>7, <1>8, <1>9, <1>10, <1>11, <1>12, QuietSteps, Zenon DEF Loud

\* A task that was not made yet has no group but its own.
LEMMA UnmadeNext == ProcInv /\ [Next]_vars => Unmade'
<1> SUFFICES ASSUME ProcInv, [Next]_vars, NEW u \in Tasks, life'[u] = "none" PROVE tgid'[u] = u
  BY Zenon DEF Unmade
<1>1. life[u] = "none" /\ tgid[u] = u
  BY TreeGrows, Zenon DEF ProcInv, Unmade
<1>2. CASE Quiet
  BY <1>1, <1>2, Zenon DEF Quiet, treeVars
<1>3. ASSUME NEW t \in Tasks,
             \/ CloneStart(t) \/ CloneFail(t) \/ Reparent(t) \/ Die(t) \/ Found(t)
             \/ \E d, blocked : NotifyParent(t, d, blocked)
             \/ \E outcome \in Faults : Collect(t, outcome)
      PROVE  tgid' = tgid
  BY <1>3, Zenon DEF CloneStart, CloneFail, Reparent, Die, Found, NotifyParent, Collect,
     treeVars
<1>4. ASSUME NEW t \in Tasks, NEW c \in Tasks, NEW kind \in Clones, CloneAttach(t, c, kind)
      PROVE  u # c /\ tgid'[u] = tgid[u]
  <2>1. life' = [life EXCEPT ![c] = "new"] /\
           life \in [Tasks -> {"none", "new", "live", "died", "freed"}]
        /\ tgid \in [Tasks -> Tasks]
    BY <1>4, Zenon DEF CloneAttach, ProcInv, TypeOK
  <2>2. u # c
    BY <2>1, Zenon
  <2> QED
    BY <1>4, <2>1, <2>2, Zenon DEF CloneAttach
<1>5. CASE free_task
  BY <1>1, <1>5, Zenon DEF free_task, Release, treeVars
<1> QED
  BY <1>1, <1>2, <1>3, <1>4, <1>5, QuietSteps, Zenon DEF Loud

-----------------------------------------------------------------------------
(* The invariant holds, and what follows from it.                          *)

\* A machine that has just started: pid 1 and one child of it, both awake.
LEMMA InvInit == Init => ProcInv
<1> SUFFICES ASSUME Init PROVE ProcInv
  OBVIOUS
<1> USE ProcessAssumption
<1>1. TypeOK
  BY DEF Init, TypeOK, Calls, NoCall, Places
<1>2. Standing /\ InitStays /\ Calling /\ Building /\ Unmade
  BY Zenon DEF Init, Standing, Running, WaitPlaces, ForkPlaces, InitStays, Calling, Building,
     Unmade
<1>3. Family
  BY Zenon DEF Init, Family, Exists, is_clone
<1>4. Held
  BY Zenon DEF Init, Held
<1>5. FreeList /\ NoForgottenTask
  <2>1. freeq = <<>> /\ Range(freeq) = {} /\ Len(freeq) = 0
    BY DEF Init, Range
  <2> QED
    BY <2>1 DEF FreeList, Once, NoForgottenTask
<1>6. NoLostChild
  BY Zenon DEF Init, NoLostChild, HandedOn, ExitPlaces, Exists
<1> QED
  BY <1>1, <1>2, <1>3, <1>4, <1>5, <1>6, Zenon DEF ProcInv

\* Every step of the task code keeps the invariant.
LEMMA InvNext == ProcInv /\ [Next]_vars => ProcInv'
  BY TypeNext, StandNext, CallingNext, BuildingNext, UnmadeNext, FamilyNext, HeldNext,
     FreeListNext, LostNext, ForgetNext, Zenon DEF ProcInv

\* The invariant holds in every state of the task code.
LEMMA InvHolds == Spec => []ProcInv
  BY InvInit, InvNext, PTL DEF Spec

\* A task that free_task has released is off its CPU, in no list, nobody's
\* parent, and in the hands of no wait4, whatever tasks there are.
THEOREM FreedTasksAreGone == Spec => []NoDanglingTask
<1>1. ProcInv => NoDanglingTask
  <2> SUFFICES ASSUME ProcInv, NEW t \in Tasks, life[t] = "freed"
               PROVE  /\ TypeOK /\ ~on_cpu(t) /\ t \notin Range(freeq)
                      /\ \A c \in Tasks : Exists(c) /\ ~is_clone(c) => parent[c] # t
                      /\ \A w \in Tasks : at[w] = "copy" => call[w].task # t
    BY Zenon DEF NoDanglingTask, ProcInv
  <2>1. TypeOK /\ Standing /\ Family /\ Held /\ FreeList
    BY Zenon DEF ProcInv
  <2>2. ~on_cpu(t)
    BY <2>1, Zenon DEF on_cpu, Standing, Running, TypeOK, Places, ExitPlaces
  <2> QED
    BY <2>1, <2>2, ProcessAssumption, Zenon DEF Family, Exists, Held, FreeList
<1> QED
  BY <1>1, InvHolds, PTL

\* No two calls of wait4 hold the same child, and none holds one that is
\* queued for release.
THEOREM ChildrenAreCollectedOnce == Spec => []CollectedOnce
<1>1. ProcInv => CollectedOnce
  BY Zenon DEF ProcInv, Held, CollectedOnce
<1> QED
  BY <1>1, InvHolds, PTL

\* A process that exits leaves no child behind, and the reap softirq does
\* not stop while a task waits to be freed.
THEOREM NobodyIsForgotten == Spec => []NoneForgotten
<1>1. ProcInv => NoneForgotten
  BY Zenon DEF ProcInv, NoneForgotten
<1> QED
  BY <1>1, InvHolds, PTL

=============================================================================
