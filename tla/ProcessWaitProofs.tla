------------------------- MODULE ProcessWaitProofs -------------------------
(***************************************************************************)
(* Proofs about Process: the two sleeps of a parent, in vfork until the    *)
(* child has exec'ed or is gone, and in wait4 until a child has exited.    *)
(*                                                                         *)
(* Both rest on the invariant of the task tree that ProcessProofs proves.  *)
(* VforkTold says who is to tell a vfork parent, WillBeTold that a dead    *)
(* child of a parent asleep in wait4 is still on its way to wake it.       *)
(***************************************************************************)
EXTENDS ProcessProofs

\* A vfork parent has been told, or somebody alive is to tell it.
VforkTold ==
    \A t \in Tasks :
        /\ at[t] \in {"vcheck", "vrecheck", "vblock", "vwait"} =>
               t \in vdone \/ \E c \in Tasks : vparent[c] = t /\ life[c] = "live"
        /\ t \in vdone => /\ at[t] = "vblock" => sleep[t] # "prepared"
                          /\ at[t] = "vwait" => sleep[t] # "asleep"
        /\ \/ at[t] \in {"die", "status", "wake", "notify", "switch", "reapcheck"}
           \/ at[t] = "reparent" /\ call[t].kind = "exit"
           => vparent[t] = None

\* A first thread that NoMissedExit speaks of, about to sleep or asleep.
Dozes(t) ==
    \/ at[t] = "block" /\ sleep[t] = "prepared"
    \/ at[t] = "wait" /\ sleep[t] = "asleep"
Sleeper(t) ==
    /\ Dozes(t) /\ ~is_clone(t)
    /\ \A s \in Subreapers : tgid[s] # tgid[t]
    /\ "fault" \in Faults => ~HadThreads(t)
WillBeTold ==
    \A t \in Tasks, c \in Tasks \ orphaned :
        Sleeper(t) /\ c \in Dead(t) => at[c] \in {"status", "wake", "notify"}

\* Who sleeps in wait4 with nothing found got there by NotFound.
OnlyNotFoundDozes ==
    \A u \in Tasks : Dozes(u)' => NotFound(u) \/ (Dozes(u) /\ call'[u] = call[u])

-----------------------------------------------------------------------------
(* The vfork handshake.                                                    *)

\* Steps that leave vfork alone: the ones that neither end a life nor touch
\* child_vfork_done, and put nobody to sleep who waits for a vfork.
LEMMA VforkFrame ==
    ASSUME TypeOK, VforkTold, NEW t \in Tasks,
           UNCHANGED <<vdone, vparent>>, \A c \in Tasks : life[c] = "live" => life'[c] = "live",
           \A u \in Tasks \ {t} : at'[u] = at[u] /\ call'[u] = call[u],
           \A u \in Tasks \ {t} : sleep'[u] \in {"prepared", "asleep"} => sleep'[u] = sleep[u],
           at'[t] \notin {"vcheck", "vrecheck", "vblock", "vwait"},
           at'[t] \in {"die", "status", "wake", "notify", "switch", "reapcheck"} =>
              vparent[t] = None,
           at'[t] = "reparent" /\ call'[t].kind = "exit" => vparent[t] = None
    PROVE  VforkTold'
<1>1. ASSUME NEW u \in Tasks, at'[u] \in {"vcheck", "vrecheck", "vblock", "vwait"}
      PROVE  u \in vdone' \/ \E c \in Tasks : vparent'[c] = u /\ life'[c] = "live"
  <2>1. u # t /\ at[u] = at'[u]
    BY <1>1, Zenon
  <2> QED
    BY <1>1, <2>1, Zenon DEF VforkTold
<1>2. ASSUME NEW u \in Tasks, u \in vdone'
      PROVE  (at'[u] = "vblock" => sleep'[u] # "prepared") /\ (at'[u] = "vwait" =>
                sleep'[u] # "asleep")
  <2>1. CASE u = t
    BY <2>1, Zenon
  <2>2. CASE u # t
    BY <1>2, <2>2 DEF VforkTold
  <2> QED
    BY <2>1, <2>2, Zenon
<1>3. ASSUME NEW u \in Tasks,
             \/ at'[u] \in {"die", "status", "wake", "notify", "switch", "reapcheck"}
             \/ at'[u] = "reparent" /\ call'[u].kind = "exit"
      PROVE  vparent'[u] = None
  <2>1. CASE u = t
    BY <1>3, <2>1, Zenon
  <2>2. CASE u # t
    BY <1>3, <2>2 DEF VforkTold
  <2> QED
    BY <2>1, <2>2, Zenon
<1> QED
  BY <1>1, <1>2, <1>3 DEF VforkTold

\* Whoever waits for a vfork has been told or is to be told by a live child.
LEMMA VforkNext == ProcInv /\ VforkTold /\ [Next]_vars => VforkTold'
<1> SUFFICES ASSUME ProcInv, VforkTold, [Next]_vars PROVE VforkTold'
  OBVIOUS
<1>0. TypeOK /\ Standing /\ Calling /\ Building /\ FreeList /\ VforkTold
  BY Zenon DEF ProcInv
<1> USE <1>0, ProcessAssumption
<1>1. CASE UNCHANGED vars
  BY <1>1 DEF vars, VforkTold, treeVars, exitVars, waitVars, forkVars, reapVars
<1>2. ASSUME NEW t \in Tasks, CloneStart(t) PROVE VforkTold'
  <2> DEFINE b == call[t].task
  <2>1. b \in Tasks /\ life[b] = "new" /\ b # t /\ (call[t].kind = "vfork" => vparent[b] = t)
    BY <1>2 DEF CloneStart, Building, TypeOK, Calls, Standing, Running, ForkPlaces
  <2>2. /\ UNCHANGED <<vdone, vparent, sleep, call>>
        /\ at'[t] = (IF call[t].kind = "vfork" THEN "vcheck" ELSE "forked")
        /\ at'[b] = "user" /\ life'[b] = "live"
        /\ \A u \in Tasks \ {t, b} : at'[u] = at[u]
        /\ \A u \in Tasks \ {b} : life'[u] = life[u]
    BY <1>2, <2>1 DEF CloneStart, TypeOK, forkVars, waitVars
  <2> HIDE DEF b
  <2> QED
    BY <2>1, <2>2 DEF VforkTold
<1>3. ASSUME NEW t \in Tasks, CloneFail(t) PROVE VforkTold'
  <2> DEFINE b == call[t].task
  <2>1. b \in Tasks /\ life[b] = "new"
    BY <1>3, Zenon DEF CloneFail, Goto, Building, TypeOK, Calls
  <2>2. /\ UNCHANGED <<vdone, sleep>> /\ at'[t] = "user"
        /\ \A u \in Tasks \ {t} : at'[u] = at[u] /\ call'[u] = call[u]
        /\ vparent'[b] = None
        /\ \A u \in Tasks \ {b} : life'[u] = life[u] /\ vparent'[u] = vparent[u]
    BY <1>3, <2>1 DEF CloneFail, Goto, TypeOK, waitVars
  <2> HIDE DEF b
  <2> QED
    BY <2>1, <2>2 DEF VforkTold
<1>4. ASSUME NEW t \in Tasks, CloneReturn(t) PROVE VforkTold'
  <2>1. /\ UNCHANGED <<vdone, vparent, life>>
        /\ \A u \in Tasks \ {t} : at'[u] = at[u] /\ call'[u] = call[u]
    BY <1>4, Zenon DEF CloneReturn, Goto, TypeOK, forkVars, treeVars
  <2>2. \A u \in Tasks \ {t} : sleep'[u] \in {"prepared", "asleep"} => sleep'[u] = sleep[u]
    BY <1>4, Zenon DEF CloneReturn, waitVars, TypeOK
  <2>3. /\ at'[t] \notin {"vcheck", "vrecheck", "vblock", "vwait"}
        /\ at'[t] \in {"die", "status", "wake", "notify", "switch", "reapcheck"} =>
              vparent[t] = None
        /\ at'[t] = "reparent" /\ call'[t].kind = "exit" => vparent[t] = None
    BY <1>4 DEF CloneReturn, Goto, TypeOK, VforkTold, Calling, Calls, NoCall, forkVars,
       WaitPlaces
  <2> QED
    BY <2>1, <2>2, <2>3, VforkFrame, Zenon
<1>5. ASSUME NEW t \in Tasks, VforkDone(t) PROVE VforkTold'
  <2>1. /\ vdone' = vdone \ {t} /\ UNCHANGED <<vparent, life, call>> /\ at'[t] = "forked"
        /\ \A u \in Tasks \ {t} : at'[u] = at[u] /\ sleep'[u] = sleep[u]
    BY <1>5, Zenon DEF VforkDone, TypeOK, treeVars
  <2> QED
    BY <2>1 DEF VforkTold
<1>6. ASSUME NEW t \in Tasks, VforkPrepare(t) PROVE VforkTold'
  <2>1. /\ UNCHANGED <<vdone, vparent, life, call>> /\ at[t] = "vcheck" /\ at'[t] = "vrecheck"
        /\ \A u \in Tasks \ {t} : at'[u] = at[u] /\ sleep'[u] = sleep[u]
    BY <1>6, Zenon DEF VforkPrepare, Goto, TypeOK, treeVars, forkVars
  <2> QED
    BY <2>1 DEF VforkTold
<1>7. ASSUME NEW t \in Tasks, VforkRecheck(t) PROVE VforkTold'
  <2>1. /\ UNCHANGED <<vdone, vparent, life, call>> /\ at[t] = "vrecheck" /\ at'[t] = "vblock"
        /\ \A u \in Tasks \ {t} : at'[u] = at[u] /\ sleep'[u] = sleep[u]
    BY <1>7, Zenon DEF VforkRecheck, Goto, TypeOK, treeVars, forkVars, waitVars
  <2>2. t \in vdone => FALSE
    BY <1>7, Zenon DEF VforkRecheck, Goto, TypeOK, VforkTold, Calling
  <2> QED
    BY <2>1, <2>2 DEF VforkTold
<1>8. ASSUME NEW t \in Tasks, VforkBlock(t) PROVE VforkTold'
  <2>1. /\ UNCHANGED <<vdone, vparent, life, call>> /\ at[t] = "vblock" /\ at'[t] = "vwait"
        /\ \A u \in Tasks \ {t} : at'[u] = at[u] /\ sleep'[u] = sleep[u]
    BY <1>8, Zenon DEF VforkBlock, Goto, Blocked, TypeOK, treeVars, forkVars
  <2>2. t \in vdone => sleep'[t] # "asleep"
    BY <1>8 DEF VforkBlock, Goto, Blocked, TypeOK, VforkTold, Calling
  <2> QED
    BY <2>1, <2>2 DEF VforkTold
<1>9. ASSUME NEW t \in Tasks, VforkReturn(t) PROVE VforkTold'
  <2>1. /\ UNCHANGED <<vdone, vparent, life, call>> /\ at[t] = "vwait" /\ at'[t] = "vcheck"
        /\ \A u \in Tasks \ {t} : at'[u] = at[u] /\ sleep'[u] = sleep[u]
    BY <1>9, Zenon DEF VforkReturn, Goto, TypeOK, treeVars, forkVars, waitVars
  <2> QED
    BY <2>1 DEF VforkTold
<1>10. ASSUME NEW t \in Tasks, Exec(t) PROVE VforkTold'
  <2>1. CompleteVfork(t) /\ life' = life /\ call' = call
    BY <1>10, Zenon DEF Exec, treeVars
  <2>2. /\ vparent' = [vparent EXCEPT ![t] = None] /\ vdone \subseteq vdone'
        /\ vparent[t] \in Tasks /\ life[vparent[t]] = "live" => vparent[t] \in vdone'
        /\ sleep' = sleep \/ sleep' = Woken({vparent[t]})
        /\ \A u \in vdone' \ vdone : sleep' = Woken({u})
    BY <2>1, CompleteVforkFacts, Zenon
  <2>3. \A u \in Tasks : sleep'[u] \in {"prepared", "asleep"} => sleep'[u] = sleep[u]
    BY <2>2, WokenFacts, Zenon
  <2>4. \A u \in Tasks : u \in vdone' \ vdone /\ life[u] = "live" =>
           sleep'[u] \notin {"prepared", "asleep"}
    BY <2>2, WokenFacts, Zenon
  <2>5. /\ \A u \in Tasks \ {t} : at'[u] = at[u]
        /\ at'[t] \notin {"vcheck", "vrecheck", "vblock", "vwait"}
    BY <1>10, Zenon DEF Exec, TypeOK
  <2>6. ASSUME NEW u \in Tasks, at'[u] \in {"vcheck", "vrecheck", "vblock", "vwait"}
        PROVE  u \in vdone' \/ \E c \in Tasks : vparent'[c] = u /\ life'[c] = "live"
    <3>1. u # t /\ at[u] = at'[u] /\ life[u] = "live"
      BY <2>5, <2>6, Zenon DEF Standing, Running, ForkPlaces
    <3>2. CASE vparent[t] = u
      BY <2>2, <3>1, <3>2, Zenon
    <3>3. CASE vparent[t] # u
      <4>1. CASE u \in vdone
        BY <2>2, <4>1, Zenon
      <4>2. CASE u \notin vdone
        <5>1. PICK c \in Tasks : vparent[c] = u /\ life[c] = "live"
          BY <2>6, <3>1, <4>2, Zenon DEF VforkTold
        <5> QED
          BY <2>1, <2>2, <3>3, <5>1, Zenon DEF TypeOK
      <4> QED
        BY <4>1, <4>2, Zenon
    <3> QED
      BY <3>2, <3>3, Zenon
  <2>7. ASSUME NEW u \in Tasks, u \in vdone'
        PROVE  (at'[u] = "vblock" => sleep'[u] # "prepared") /\ (at'[u] = "vwait" =>
                  sleep'[u] # "asleep")
    <3>1. at'[u] \in {"vblock", "vwait"} => at[u] = at'[u] /\ life[u] = "live"
      BY <2>5, Zenon DEF Standing, Running, ForkPlaces
    <3>2. CASE u \in vdone
      BY <2>3, <3>1, <3>2 DEF VforkTold
    <3>3. CASE u \notin vdone
      BY <2>4, <2>7, <3>1, <3>3, Zenon
    <3> QED
      BY <3>2, <3>3, Zenon
  <2>8. ASSUME NEW u \in Tasks,
               \/ at'[u] \in {"die", "status", "wake", "notify", "switch", "reapcheck"}
               \/ at'[u] = "reparent" /\ call'[u].kind = "exit"
        PROVE  vparent'[u] = None
    <3>1. CASE u = t
      BY <2>2, <3>1, Zenon DEF TypeOK
    <3>2. CASE u # t
      BY <2>1, <2>2, <2>5, <2>8, <3>2 DEF VforkTold, TypeOK
    <3> QED
      BY <3>1, <3>2, Zenon
  <2> QED
    BY <2>6, <2>7, <2>8, Zenon DEF VforkTold
<1>11. ASSUME NEW t \in Tasks, task_exit(t) PROVE VforkTold'
  <2>1. /\ UNCHANGED <<vdone, vparent, life>>
        /\ \A u \in Tasks \ {t} : at'[u] = at[u] /\ call'[u] = call[u]
    BY <1>11, Zenon DEF task_exit, Goto, TypeOK, forkVars, treeVars
  <2>2. \A u \in Tasks \ {t} : sleep'[u] \in {"prepared", "asleep"} => sleep'[u] = sleep[u]
    BY <1>11, Zenon DEF task_exit, waitVars, TypeOK
  <2>3. /\ at'[t] \notin {"vcheck", "vrecheck", "vblock", "vwait"}
        /\ at'[t] \in {"die", "status", "wake", "notify", "switch", "reapcheck"} =>
              vparent[t] = None
        /\ at'[t] = "reparent" /\ call'[t].kind = "exit" => vparent[t] = None
    BY <1>11 DEF task_exit, Goto, TypeOK, VforkTold, Calling, Calls, NoCall, forkVars,
       WaitPlaces
  <2> QED
    BY <2>1, <2>2, <2>3, VforkFrame, Zenon
<1>12. ASSUME NEW t \in Tasks, task_exit_thread(t) PROVE VforkTold'
  <2>1. /\ UNCHANGED <<vdone, vparent, life>>
        /\ \A u \in Tasks \ {t} : at'[u] = at[u] /\ call'[u] = call[u]
    BY <1>12, Zenon DEF task_exit_thread, Goto, TypeOK, forkVars, treeVars
  <2>2. \A u \in Tasks \ {t} : sleep'[u] \in {"prepared", "asleep"} => sleep'[u] = sleep[u]
    BY <1>12, Zenon DEF task_exit_thread, waitVars, TypeOK
  <2>3. /\ at'[t] \notin {"vcheck", "vrecheck", "vblock", "vwait"}
        /\ at'[t] \in {"die", "status", "wake", "notify", "switch", "reapcheck"} =>
              vparent[t] = None
        /\ at'[t] = "reparent" /\ call'[t].kind = "exit" => vparent[t] = None
    BY <1>12 DEF task_exit_thread, Goto, TypeOK, VforkTold, Calling, Calls, NoCall, forkVars,
       WaitPlaces
  <2> QED
    BY <2>1, <2>2, <2>3, VforkFrame, Zenon
<1>13. ASSUME NEW t \in Tasks, ExitVfork(t) PROVE VforkTold'
  <2>1. CompleteVfork(t) /\ life' = life /\ call' = call
    BY <1>13, Zenon DEF ExitVfork, treeVars
  <2>2. /\ vparent' = [vparent EXCEPT ![t] = None] /\ vdone \subseteq vdone'
        /\ vparent[t] \in Tasks /\ life[vparent[t]] = "live" => vparent[t] \in vdone'
        /\ sleep' = sleep \/ sleep' = Woken({vparent[t]})
        /\ \A u \in vdone' \ vdone : sleep' = Woken({u})
    BY <2>1, CompleteVforkFacts, Zenon
  <2>3. \A u \in Tasks : sleep'[u] \in {"prepared", "asleep"} => sleep'[u] = sleep[u]
    BY <2>2, WokenFacts, Zenon
  <2>4. \A u \in Tasks : u \in vdone' \ vdone /\ life[u] = "live" =>
           sleep'[u] \notin {"prepared", "asleep"}
    BY <2>2, WokenFacts, Zenon
  <2>5. /\ \A u \in Tasks \ {t} : at'[u] = at[u]
        /\ at'[t] \notin {"vcheck", "vrecheck", "vblock", "vwait"}
    BY <1>13 DEF ExitVfork, Goto, TypeOK
  <2>6. ASSUME NEW u \in Tasks, at'[u] \in {"vcheck", "vrecheck", "vblock", "vwait"}
        PROVE  u \in vdone' \/ \E c \in Tasks : vparent'[c] = u /\ life'[c] = "live"
    <3>1. u # t /\ at[u] = at'[u] /\ life[u] = "live"
      BY <2>5, <2>6, Zenon DEF Standing, Running, ForkPlaces
    <3>2. CASE vparent[t] = u
      BY <2>2, <3>1, <3>2, Zenon
    <3>3. CASE vparent[t] # u
      <4>1. CASE u \in vdone
        BY <2>2, <4>1, Zenon
      <4>2. CASE u \notin vdone
        <5>1. PICK c \in Tasks : vparent[c] = u /\ life[c] = "live"
          BY <2>6, <3>1, <4>2, Zenon DEF VforkTold
        <5> QED
          BY <2>1, <2>2, <3>3, <5>1, Zenon DEF TypeOK
      <4> QED
        BY <4>1, <4>2, Zenon
    <3> QED
      BY <3>2, <3>3, Zenon
  <2>7. ASSUME NEW u \in Tasks, u \in vdone'
        PROVE  (at'[u] = "vblock" => sleep'[u] # "prepared") /\ (at'[u] = "vwait" =>
                  sleep'[u] # "asleep")
    <3>1. at'[u] \in {"vblock", "vwait"} => at[u] = at'[u] /\ life[u] = "live"
      BY <2>5, Zenon DEF Standing, Running, ForkPlaces
    <3>2. CASE u \in vdone
      BY <2>3, <3>1, <3>2 DEF VforkTold
    <3>3. CASE u \notin vdone
      BY <2>4, <2>7, <3>1, <3>3, Zenon
    <3> QED
      BY <3>2, <3>3, Zenon
  <2>8. ASSUME NEW u \in Tasks,
               \/ at'[u] \in {"die", "status", "wake", "notify", "switch", "reapcheck"}
               \/ at'[u] = "reparent" /\ call'[u].kind = "exit"
        PROVE  vparent'[u] = None
    <3>1. CASE u = t
      BY <2>2, <3>1, Zenon DEF TypeOK
    <3>2. CASE u # t
      BY <2>1, <2>2, <2>5, <2>8, <3>2 DEF VforkTold, TypeOK
    <3> QED
      BY <3>1, <3>2, Zenon
  <2> QED
    BY <2>6, <2>7, <2>8, Zenon DEF VforkTold
<1>14. ASSUME NEW t \in Tasks, Reparent(t) PROVE VforkTold'
  <2>1. /\ UNCHANGED <<vdone, vparent, life>>
        /\ \A u \in Tasks \ {t} : at'[u] = at[u] /\ call'[u] = call[u]
    BY <1>14, Zenon DEF Reparent, TypeOK, forkVars
  <2>2. \A u \in Tasks \ {t} : sleep'[u] \in {"prepared", "asleep"} => sleep'[u] = sleep[u]
    BY <1>14, WokenFacts, Zenon DEF Reparent, TypeOK
  <2>3. /\ at'[t] \notin {"vcheck", "vrecheck", "vblock", "vwait"}
        /\ at'[t] \in {"die", "status", "wake", "notify", "switch", "reapcheck"} =>
              vparent[t] = None
        /\ at'[t] = "reparent" /\ call'[t].kind = "exit" => vparent[t] = None
    BY <1>14 DEF Reparent, TypeOK, VforkTold, Calling, Calls, forkVars, WaitPlaces
  <2> QED
    BY <2>1, <2>2, <2>3, VforkFrame, Zenon
<1>15. ASSUME NEW t \in Tasks, Die(t) PROVE VforkTold'
  <2>1. /\ UNCHANGED <<vdone, vparent, sleep, call>> /\ vparent[t] = None /\ at'[t] = "status"
        /\ \A u \in Tasks \ {t} : at'[u] = at[u] /\ life'[u] = life[u]
    BY <1>15 DEF Die, Goto, TypeOK, VforkTold, forkVars, waitVars
  <2> QED
    BY <2>1 DEF VforkTold
<1>16. ASSUME NEW t \in Tasks, StoreStatus(t) PROVE VforkTold'
  <2>1. /\ UNCHANGED <<vdone, vparent, life>>
        /\ \A u \in Tasks \ {t} : at'[u] = at[u] /\ call'[u] = call[u]
    BY <1>16, Zenon DEF StoreStatus, Goto, TypeOK, forkVars, treeVars
  <2>2. \A u \in Tasks \ {t} : sleep'[u] \in {"prepared", "asleep"} => sleep'[u] = sleep[u]
    BY <1>16, Zenon DEF StoreStatus, waitVars, TypeOK
  <2>3. /\ at'[t] \notin {"vcheck", "vrecheck", "vblock", "vwait"}
        /\ at'[t] \in {"die", "status", "wake", "notify", "switch", "reapcheck"} =>
              vparent[t] = None
        /\ at'[t] = "reparent" /\ call'[t].kind = "exit" => vparent[t] = None
    BY <1>16 DEF StoreStatus, Goto, TypeOK, VforkTold, Calling, Calls, forkVars, WaitPlaces
  <2> QED
    BY <2>1, <2>2, <2>3, VforkFrame, Zenon
<1>17. ASSUME NEW t \in Tasks, WakeWaiters(t) PROVE VforkTold'
  <2>1. /\ UNCHANGED <<vdone, vparent, life>>
        /\ \A u \in Tasks \ {t} : at'[u] = at[u] /\ call'[u] = call[u]
    BY <1>17, Zenon DEF WakeWaiters, Goto, TypeOK, forkVars, treeVars
  <2>2. \A u \in Tasks \ {t} : sleep'[u] \in {"prepared", "asleep"} => sleep'[u] = sleep[u]
    BY <1>17, WokenFacts DEF WakeWaiters, TypeOK
  <2>3. /\ at'[t] \notin {"vcheck", "vrecheck", "vblock", "vwait"}
        /\ at'[t] \in {"die", "status", "wake", "notify", "switch", "reapcheck"} =>
              vparent[t] = None
        /\ at'[t] = "reparent" /\ call'[t].kind = "exit" => vparent[t] = None
    BY <1>17 DEF WakeWaiters, Goto, TypeOK, VforkTold, Calling, Calls, forkVars, WaitPlaces
  <2> QED
    BY <2>1, <2>2, <2>3, VforkFrame, Zenon
<1>18. ASSUME NEW t \in Tasks, SwitchAway(t) PROVE VforkTold'
  <2>1. /\ UNCHANGED <<vdone, vparent, life>>
        /\ \A u \in Tasks \ {t} : at'[u] = at[u] /\ call'[u] = call[u]
    BY <1>18, Zenon DEF SwitchAway, Goto, TypeOK, forkVars, treeVars
  <2>2. \A u \in Tasks \ {t} : sleep'[u] \in {"prepared", "asleep"} => sleep'[u] = sleep[u]
    BY <1>18, Zenon DEF SwitchAway, waitVars, TypeOK
  <2>3. /\ at'[t] \notin {"vcheck", "vrecheck", "vblock", "vwait"}
        /\ at'[t] \in {"die", "status", "wake", "notify", "switch", "reapcheck"} =>
              vparent[t] = None
        /\ at'[t] = "reparent" /\ call'[t].kind = "exit" => vparent[t] = None
    BY <1>18 DEF SwitchAway, Goto, TypeOK, VforkTold, Calling, Calls, forkVars, WaitPlaces
  <2> QED
    BY <2>1, <2>2, <2>3, VforkFrame, Zenon
<1>19. ASSUME NEW t \in Tasks, ReapCheck(t) PROVE VforkTold'
  <2>1. /\ UNCHANGED <<vdone, vparent, life>>
        /\ \A u \in Tasks \ {t} : at'[u] = at[u] /\ call'[u] = call[u]
    BY <1>19, Zenon DEF ReapCheck, Goto, TypeOK, forkVars, treeVars
  <2>2. \A u \in Tasks \ {t} : sleep'[u] \in {"prepared", "asleep"} => sleep'[u] = sleep[u]
    BY <1>19, Zenon DEF ReapCheck, waitVars, TypeOK
  <2>3. /\ at'[t] \notin {"vcheck", "vrecheck", "vblock", "vwait"}
        /\ at'[t] \in {"die", "status", "wake", "notify", "switch", "reapcheck"} =>
              vparent[t] = None
        /\ at'[t] = "reparent" /\ call'[t].kind = "exit" => vparent[t] = None
    BY <1>19 DEF ReapCheck, Goto, TypeOK, VforkTold, Calling, Calls, NoCall, forkVars,
       WaitPlaces
  <2> QED
    BY <2>1, <2>2, <2>3, VforkFrame, Zenon
<1>20. ASSUME NEW t \in Tasks, task_child_wait_arm(t) PROVE VforkTold'
  <2>1. /\ UNCHANGED <<vdone, vparent, life>>
        /\ \A u \in Tasks \ {t} : at'[u] = at[u] /\ call'[u] = call[u]
    BY <1>20, Zenon DEF task_child_wait_arm, Goto, TypeOK, forkVars, treeVars
  <2>2. \A u \in Tasks \ {t} : sleep'[u] \in {"prepared", "asleep"} => sleep'[u] = sleep[u]
    BY <1>20, Zenon DEF task_child_wait_arm, TypeOK
  <2>3. /\ at'[t] \notin {"vcheck", "vrecheck", "vblock", "vwait"}
        /\ at'[t] \in {"die", "status", "wake", "notify", "switch", "reapcheck"} =>
              vparent[t] = None
        /\ at'[t] = "reparent" /\ call'[t].kind = "exit" => vparent[t] = None
    BY <1>20 DEF task_child_wait_arm, Goto, TypeOK, VforkTold, Calling, Calls, forkVars,
       WaitPlaces
  <2> QED
    BY <2>1, <2>2, <2>3, VforkFrame, Zenon
<1>21. ASSUME NEW t \in Tasks, Found(t) PROVE VforkTold'
  <2>1. /\ UNCHANGED <<vdone, vparent, life>>
        /\ \A u \in Tasks \ {t} : at'[u] = at[u] /\ call'[u] = call[u]
    BY <1>21 DEF Found, Goto, TypeOK, forkVars, treeVars
  <2>2. \A u \in Tasks \ {t} : sleep'[u] \in {"prepared", "asleep"} => sleep'[u] = sleep[u]
    BY <1>21 DEF Found, TypeOK
  <2>3. /\ at'[t] \notin {"vcheck", "vrecheck", "vblock", "vwait"}
        /\ at'[t] \in {"die", "status", "wake", "notify", "switch", "reapcheck"} =>
              vparent[t] = None
        /\ at'[t] = "reparent" /\ call'[t].kind = "exit" => vparent[t] = None
    BY <1>21 DEF Found, Goto, TypeOK, VforkTold, Calling, Calls, forkVars, WaitPlaces
  <2> QED
    BY <2>1, <2>2, <2>3, VforkFrame, Zenon
<1>22. ASSUME NEW t \in Tasks, NotFound(t) PROVE VforkTold'
  <2>1. /\ UNCHANGED <<vdone, vparent, life>>
        /\ \A u \in Tasks \ {t} : at'[u] = at[u] /\ call'[u] = call[u]
    BY <1>22 DEF NotFound, GiveUp, TypeOK, forkVars, treeVars
  <2>2. \A u \in Tasks \ {t} : sleep'[u] \in {"prepared", "asleep"} => sleep'[u] = sleep[u]
    BY <1>22 DEF NotFound, GiveUp, TypeOK
  <2>3. /\ at'[t] \notin {"vcheck", "vrecheck", "vblock", "vwait"}
        /\ at'[t] \in {"die", "status", "wake", "notify", "switch", "reapcheck"} =>
              vparent[t] = None
        /\ at'[t] = "reparent" /\ call'[t].kind = "exit" => vparent[t] = None
    BY <1>22 DEF NotFound, GiveUp, TypeOK, VforkTold, Calling, Calls, NoCall, forkVars,
       WaitPlaces
  <2> QED
    BY <2>1, <2>2, <2>3, VforkFrame, Zenon
<1>23. ASSUME NEW t \in Tasks, WaitBlock(t) PROVE VforkTold'
  <2>1. /\ UNCHANGED <<vdone, vparent, life>>
        /\ \A u \in Tasks \ {t} : at'[u] = at[u] /\ call'[u] = call[u]
    BY <1>23, Zenon DEF WaitBlock, Goto, TypeOK, forkVars, treeVars
  <2>2. \A u \in Tasks \ {t} : sleep'[u] \in {"prepared", "asleep"} => sleep'[u] = sleep[u]
    BY <1>23, Zenon DEF WaitBlock, TypeOK, Blocked
  <2>3. /\ at'[t] \notin {"vcheck", "vrecheck", "vblock", "vwait"}
        /\ at'[t] \in {"die", "status", "wake", "notify", "switch", "reapcheck"} =>
              vparent[t] = None
        /\ at'[t] = "reparent" /\ call'[t].kind = "exit" => vparent[t] = None
    BY <1>23 DEF WaitBlock, Goto, TypeOK, VforkTold, Calling, Calls, forkVars, WaitPlaces
  <2> QED
    BY <2>1, <2>2, <2>3, VforkFrame, Zenon
<1>24. ASSUME NEW t \in Tasks, WaitReturn(t) PROVE VforkTold'
  <2>1. /\ UNCHANGED <<vdone, vparent, life>>
        /\ \A u \in Tasks \ {t} : at'[u] = at[u] /\ call'[u] = call[u]
    BY <1>24 DEF WaitReturn, GiveUp, TypeOK, forkVars, treeVars
  <2>2. \A u \in Tasks \ {t} : sleep'[u] \in {"prepared", "asleep"} => sleep'[u] = sleep[u]
    BY <1>24 DEF WaitReturn, GiveUp, TypeOK
  <2>3. /\ at'[t] \notin {"vcheck", "vrecheck", "vblock", "vwait"}
        /\ at'[t] \in {"die", "status", "wake", "notify", "switch", "reapcheck"} =>
              vparent[t] = None
        /\ at'[t] = "reparent" /\ call'[t].kind = "exit" => vparent[t] = None
    BY <1>24 DEF WaitReturn, GiveUp, TypeOK, VforkTold, Calling, Calls, NoCall, forkVars,
       WaitPlaces
  <2> QED
    BY <2>1, <2>2, <2>3, VforkFrame, Zenon
<1>25. ASSUME NEW t \in Tasks, HandleSignal(t) PROVE VforkTold'
  <2>1. /\ UNCHANGED <<vdone, vparent, life>>
        /\ \A u \in Tasks \ {t} : at'[u] = at[u] /\ call'[u] = call[u]
    BY <1>25, Zenon DEF HandleSignal, TypeOK, forkVars, treeVars
  <2>2. \A u \in Tasks \ {t} : sleep'[u] \in {"prepared", "asleep"} => sleep'[u] = sleep[u]
    BY <1>25, Zenon DEF HandleSignal, waitVars, TypeOK
  <2>3. /\ at'[t] \notin {"vcheck", "vrecheck", "vblock", "vwait"}
        /\ at'[t] \in {"die", "status", "wake", "notify", "switch", "reapcheck"} =>
              vparent[t] = None
        /\ at'[t] = "reparent" /\ call'[t].kind = "exit" => vparent[t] = None
    BY <1>25, Zenon DEF HandleSignal, TypeOK, VforkTold, Calling, Calls, forkVars, WaitPlaces
  <2> QED
    BY <2>1, <2>2, <2>3, VforkFrame, Zenon
<1>26. ASSUME NEW t \in Tasks, NEW c \in Tasks, NEW kind \in Clones, CloneAttach(t, c, kind)
       PROVE  VforkTold'
  <2>1. life[c] = "none" /\ life[t] = "live" /\ c # t /\ at[c] = "gone"
    BY <1>26, Zenon DEF CloneAttach, Goto, Standing, Running, TypeOK, Places, ExitPlaces
  <2>2. /\ vdone' = vdone \ {t} /\ sleep' = sleep /\ at'[t] = "start"
        /\ \A u \in Tasks \ {t} : at'[u] = at[u] /\ call'[u] = call[u]
        /\ \A u \in Tasks \ {c} : life'[u] = life[u] /\ vparent'[u] = vparent[u]
    BY <1>26 DEF CloneAttach, Goto, TypeOK, waitVars
  <2>3. ASSUME NEW u \in Tasks, at'[u] \in {"vcheck", "vrecheck", "vblock", "vwait"}
        PROVE  u \in vdone' \/ \E b \in Tasks : vparent'[b] = u /\ life'[b] = "live"
    <3>1. u # t /\ at[u] = at'[u]
      BY <2>2, <2>3, Zenon
    <3>2. CASE u \in vdone
      BY <2>2, <3>1, <3>2, Zenon
    <3>3. CASE u \notin vdone
      <4>1. PICK b \in Tasks : vparent[b] = u /\ life[b] = "live"
        BY <2>3, <3>1, <3>3, Zenon DEF VforkTold
      <4> QED
        BY <2>1, <2>2, <4>1, Zenon
    <3> QED
      BY <3>2, <3>3, Zenon
  <2> QED
    BY <2>1, <2>2, <2>3 DEF VforkTold
<1>27. ASSUME NEW t \in Tasks, NEW kind \in Waits, NEW want \in SUBSET Tasks, Wait(t, kind, want)
       PROVE  VforkTold'
  <2>1. /\ UNCHANGED <<vdone, vparent, life>>
        /\ \A u \in Tasks \ {t} : at'[u] = at[u] /\ call'[u] = call[u]
    BY <1>27, Zenon DEF Wait, Goto, TypeOK, forkVars, treeVars
  <2>2. \A u \in Tasks \ {t} : sleep'[u] \in {"prepared", "asleep"} => sleep'[u] = sleep[u]
    BY <1>27, Zenon DEF Wait, waitVars, TypeOK
  <2>3. /\ at'[t] \notin {"vcheck", "vrecheck", "vblock", "vwait"}
        /\ at'[t] \in {"die", "status", "wake", "notify", "switch", "reapcheck"} =>
              vparent[t] = None
        /\ at'[t] = "reparent" /\ call'[t].kind = "exit" => vparent[t] = None
    BY <1>27 DEF Wait, Goto, TypeOK, VforkTold, Calling, Calls, forkVars, WaitPlaces
  <2> QED
    BY <2>1, <2>2, <2>3, VforkFrame, Zenon
<1>28. ASSUME NEW t \in Tasks, NEW d, NEW blocked, NotifyParent(t, d, blocked) PROVE VforkTold'
  <2>1. /\ UNCHANGED <<vdone, vparent, life>>
        /\ \A u \in Tasks \ {t} : at'[u] = at[u] /\ call'[u] = call[u]
    BY <1>28, Zenon DEF NotifyParent, Goto, TypeOK, forkVars
  <2>2. \A u \in Tasks \ {t} : sleep'[u] \in {"prepared", "asleep"} => sleep'[u] = sleep[u]
    BY <1>28, WokenFacts DEF NotifyParent, TypeOK
  <2>3. /\ at'[t] \notin {"vcheck", "vrecheck", "vblock", "vwait"}
        /\ at'[t] \in {"die", "status", "wake", "notify", "switch", "reapcheck"} =>
              vparent[t] = None
        /\ at'[t] = "reparent" /\ call'[t].kind = "exit" => vparent[t] = None
    BY <1>28 DEF NotifyParent, Goto, TypeOK, VforkTold, Calling, Calls, forkVars, WaitPlaces
  <2> QED
    BY <2>1, <2>2, <2>3, VforkFrame, Zenon
<1>29. ASSUME NEW t \in Tasks, NEW outcome \in Faults, Collect(t, outcome) PROVE VforkTold'
  <2>1. /\ UNCHANGED <<vdone, vparent, life>>
        /\ \A u \in Tasks \ {t} : at'[u] = at[u] /\ call'[u] = call[u]
    BY <1>29, Zenon DEF Collect, Goto, TypeOK, forkVars, treeVars
  <2>2. \A u \in Tasks \ {t} : sleep'[u] \in {"prepared", "asleep"} => sleep'[u] = sleep[u]
    BY <1>29, Zenon DEF Collect, waitVars, TypeOK
  <2>3. /\ at'[t] \notin {"vcheck", "vrecheck", "vblock", "vwait"}
        /\ at'[t] \in {"die", "status", "wake", "notify", "switch", "reapcheck"} =>
              vparent[t] = None
        /\ at'[t] = "reparent" /\ call'[t].kind = "exit" => vparent[t] = None
    BY <1>29 DEF Collect, Goto, TypeOK, VforkTold, Calling, Calls, NoCall, forkVars, WaitPlaces
  <2> QED
    BY <2>1, <2>2, <2>3, VforkFrame, Zenon
<1>30. ASSUME NEW t \in Tasks, SendSignal(t) PROVE VforkTold'
  <2>1. UNCHANGED <<vdone, vparent, life, at, call>> /\ sleep' = Woken({t})
    BY <1>30, Zenon DEF SendSignal, forkVars, treeVars
  <2>2. \A u \in Tasks : sleep'[u] \in {"prepared", "asleep"} => sleep'[u] = sleep[u]
    BY <2>1, WokenFacts, Zenon
  <2>3. UNCHANGED <<vdone, vparent, life, at, call>>
    BY <2>1, Zenon
  <2> QED
    BY <2>2, <2>3 DEF VforkTold
<1>31. CASE ReapBegin
  BY <1>31 DEF ReapBegin, VforkTold, treeVars, exitVars, waitVars, forkVars
<1>32. CASE free_task
  <2>1. Head(freeq) \in Tasks /\ life[Head(freeq)] = "died"
    BY <1>32, TailFacts, Zenon DEF free_task, TypeOK, FreeList
  <2>2. UNCHANGED <<vdone, vparent, at, call, sleep>>
    BY <1>32, Zenon DEF free_task, Release, forkVars, waitVars
  <2>3. life' = life \/ life' = [life EXCEPT ![Head(freeq)] = "freed"]
    BY <1>32, Zenon DEF free_task, Release, treeVars
  <2>4. \A c \in Tasks : life[c] = "live" => life'[c] = "live"
    BY <2>1, <2>3, Zenon DEF TypeOK
  <2> QED
    BY <2>2, <2>4 DEF VforkTold
<1>33. CASE ReapEnd
  BY <1>33 DEF ReapEnd, VforkTold, treeVars, exitVars, waitVars, forkVars
<1> QED
  BY <1>1, <1>2, <1>3, <1>4, <1>5, <1>6, <1>7, <1>8, <1>9, <1>10, <1>11, <1>12, <1>13, <1>14,
     <1>15, <1>16, <1>17, <1>18, <1>19, <1>20, <1>21, <1>22, <1>23, <1>24, <1>25, <1>26, <1>27,
     <1>28, <1>29, <1>30, <1>31, <1>32, <1>33, NextCases, Zenon

-----------------------------------------------------------------------------
(* A parent that sleeps in wait4.                                          *)

\* Nobody gets to sleep in wait4 but by having looked for a dead child.
LEMMA DozeNext == ProcInv /\ [Next]_vars => OnlyNotFoundDozes
<1> SUFFICES ASSUME ProcInv, [Next]_vars PROVE OnlyNotFoundDozes
  OBVIOUS
<1>0. TypeOK /\ Calling /\ Building
  BY Zenon DEF ProcInv
<1> USE <1>0, ProcessAssumption
<1>1. CASE UNCHANGED vars
  BY <1>1, Zenon DEF OnlyNotFoundDozes, vars, Dozes, treeVars, exitVars, waitVars, forkVars,
     reapVars
<1>2. ASSUME NEW t \in Tasks, CloneStart(t) PROVE OnlyNotFoundDozes
  <2>1. call[t].task \in Tasks
    BY <1>2, Zenon DEF CloneStart, Building, TypeOK, Calls
  <2> QED
    BY <1>2, <2>1, Zenon DEF OnlyNotFoundDozes, CloneStart, Dozes, TypeOK, waitVars
<1>3. ASSUME NEW t \in Tasks, CloneFail(t) PROVE OnlyNotFoundDozes
  BY <1>3 DEF OnlyNotFoundDozes, CloneFail, Dozes, Goto, TypeOK, Calling, exitVars, waitVars,
     reapVars
<1>4. ASSUME NEW t \in Tasks, CloneReturn(t) PROVE OnlyNotFoundDozes
  BY <1>4 DEF OnlyNotFoundDozes, CloneReturn, Dozes, Goto, TypeOK, Calling, treeVars, exitVars,
     waitVars, forkVars,
     reapVars
<1>5. ASSUME NEW t \in Tasks, VforkDone(t) PROVE OnlyNotFoundDozes
  BY <1>5 DEF OnlyNotFoundDozes, VforkDone, Dozes, TypeOK, Calling, treeVars, exitVars, reapVars
<1>6. ASSUME NEW t \in Tasks, VforkPrepare(t) PROVE OnlyNotFoundDozes
  BY <1>6 DEF OnlyNotFoundDozes, VforkPrepare, Dozes, Goto, TypeOK, Calling, treeVars, exitVars,
     forkVars, reapVars
<1>7. ASSUME NEW t \in Tasks, VforkRecheck(t) PROVE OnlyNotFoundDozes
  BY <1>7 DEF OnlyNotFoundDozes, VforkRecheck, Dozes, Goto, TypeOK, Calling, treeVars, exitVars,
     waitVars,
     forkVars, reapVars
<1>8. ASSUME NEW t \in Tasks, VforkBlock(t) PROVE OnlyNotFoundDozes
  BY <1>8 DEF OnlyNotFoundDozes, VforkBlock, Dozes, Goto, Blocked, TypeOK, Calling, treeVars,
     exitVars, forkVars,
     reapVars
<1>9. ASSUME NEW t \in Tasks, VforkReturn(t) PROVE OnlyNotFoundDozes
  BY <1>9 DEF OnlyNotFoundDozes, VforkReturn, Dozes, Goto, TypeOK, Calling, treeVars, exitVars,
     waitVars, forkVars,
     reapVars
<1>10. ASSUME NEW t \in Tasks, Exec(t) PROVE OnlyNotFoundDozes
  <2>1. CompleteVfork(t) /\ call' = call
    BY <1>10, Zenon DEF OnlyNotFoundDozes, Exec
  <2>2. sleep' = sleep \/ sleep' = Woken({vparent[t]})
    BY <2>1, CompleteVforkFacts, Zenon
  <2>3. \A v \in Tasks : sleep'[v] \in {"prepared", "asleep"} => sleep'[v] = sleep[v]
    BY <2>2, WokenFacts, Zenon
  <2> QED
    BY <1>10, <2>1, <2>3, Zenon DEF OnlyNotFoundDozes, Exec, Dozes, TypeOK
<1>11. ASSUME NEW t \in Tasks, task_exit(t) PROVE OnlyNotFoundDozes
  BY <1>11 DEF OnlyNotFoundDozes, task_exit, Dozes, Goto, TypeOK, Calling, treeVars, exitVars,
     waitVars, forkVars,
     reapVars
<1>12. ASSUME NEW t \in Tasks, task_exit_thread(t) PROVE OnlyNotFoundDozes
  BY <1>12 DEF OnlyNotFoundDozes, task_exit_thread, Dozes, Goto, TypeOK, Calling, treeVars,
     exitVars, waitVars,
     forkVars, reapVars
<1>13. ASSUME NEW t \in Tasks, ExitVfork(t) PROVE OnlyNotFoundDozes
  <2>1. CompleteVfork(t) /\ call' = call
    BY <1>13, Zenon DEF OnlyNotFoundDozes, ExitVfork
  <2>2. sleep' = sleep \/ sleep' = Woken({vparent[t]})
    BY <2>1, CompleteVforkFacts, Zenon
  <2>3. \A v \in Tasks : sleep'[v] \in {"prepared", "asleep"} => sleep'[v] = sleep[v]
    BY <2>2, WokenFacts, Zenon
  <2> QED
    BY <1>13, <2>1, <2>3 DEF OnlyNotFoundDozes, ExitVfork, Dozes, Goto, TypeOK
<1>14. ASSUME NEW t \in Tasks, Reparent(t) PROVE OnlyNotFoundDozes
  <2>1. \A v \in Tasks : sleep'[v] \in {"prepared", "asleep"} => sleep'[v] = sleep[v]
    BY <1>14, WokenFacts, Zenon DEF OnlyNotFoundDozes, Reparent
  <2> QED
    BY <1>14, <2>1 DEF OnlyNotFoundDozes, Reparent, Dozes, TypeOK
<1>15. ASSUME NEW t \in Tasks, Die(t) PROVE OnlyNotFoundDozes
  BY <1>15 DEF OnlyNotFoundDozes, Die, Dozes, Goto, TypeOK, Calling, exitVars, waitVars,
     forkVars, reapVars
<1>16. ASSUME NEW t \in Tasks, StoreStatus(t) PROVE OnlyNotFoundDozes
  BY <1>16 DEF OnlyNotFoundDozes, StoreStatus, Dozes, Goto, TypeOK, Calling, treeVars, waitVars,
     forkVars, reapVars
<1>17. ASSUME NEW t \in Tasks, WakeWaiters(t) PROVE OnlyNotFoundDozes
  <2>1. \A v \in Tasks : sleep'[v] \in {"prepared", "asleep"} => sleep'[v] = sleep[v]
    BY <1>17, WokenFacts, Zenon DEF OnlyNotFoundDozes, WakeWaiters
  <2> QED
    BY <1>17, <2>1 DEF OnlyNotFoundDozes, WakeWaiters, Dozes, Goto, TypeOK
<1>18. ASSUME NEW t \in Tasks, SwitchAway(t) PROVE OnlyNotFoundDozes
  BY <1>18 DEF OnlyNotFoundDozes, SwitchAway, Dozes, Goto, TypeOK, Calling, treeVars, exitVars,
     waitVars, forkVars,
     reapVars
<1>19. ASSUME NEW t \in Tasks, ReapCheck(t) PROVE OnlyNotFoundDozes
  BY <1>19 DEF OnlyNotFoundDozes, ReapCheck, Dozes, Goto, TypeOK, Calling, treeVars, exitVars,
     waitVars, forkVars
<1>20. ASSUME NEW t \in Tasks, task_child_wait_arm(t) PROVE OnlyNotFoundDozes
  BY <1>20 DEF OnlyNotFoundDozes, task_child_wait_arm, Dozes, Goto, TypeOK, Calling, treeVars,
     exitVars, forkVars,
     reapVars
<1>21. ASSUME NEW t \in Tasks, Found(t) PROVE OnlyNotFoundDozes
  BY <1>21 DEF OnlyNotFoundDozes, Found, Dozes, Goto, TypeOK, Calling, treeVars, forkVars,
     reapVars
<1>22. ASSUME NEW t \in Tasks, NotFound(t) PROVE OnlyNotFoundDozes
  BY <1>22 DEF OnlyNotFoundDozes, NotFound, Dozes, GiveUp, TypeOK, Calling, treeVars, exitVars,
     forkVars, reapVars
<1>23. ASSUME NEW t \in Tasks, WaitBlock(t) PROVE OnlyNotFoundDozes
  BY <1>23 DEF OnlyNotFoundDozes, WaitBlock, Dozes, Goto, Blocked, TypeOK, Calling, treeVars,
     exitVars, forkVars,
     reapVars
<1>24. ASSUME NEW t \in Tasks, WaitReturn(t) PROVE OnlyNotFoundDozes
  BY <1>24 DEF OnlyNotFoundDozes, WaitReturn, Dozes, GiveUp, TypeOK, Calling, treeVars,
     exitVars, forkVars,
     reapVars
<1>25. ASSUME NEW t \in Tasks, HandleSignal(t) PROVE OnlyNotFoundDozes
  BY <1>25, Zenon DEF OnlyNotFoundDozes, HandleSignal, Dozes, TypeOK, Calling, treeVars,
     waitVars, forkVars, reapVars
<1>26. ASSUME NEW t \in Tasks, NEW c \in Tasks, NEW kind \in Clones, CloneAttach(t, c, kind)
       PROVE  OnlyNotFoundDozes
  BY <1>26 DEF OnlyNotFoundDozes, CloneAttach, Dozes, Goto, TypeOK, Calling, exitVars, waitVars,
     reapVars
<1>27. ASSUME NEW t \in Tasks, NEW kind \in Waits, NEW want \in SUBSET Tasks, Wait(t, kind, want)
       PROVE  OnlyNotFoundDozes
  BY <1>27 DEF OnlyNotFoundDozes, Wait, Dozes, Goto, TypeOK, Calling, treeVars, exitVars,
     waitVars, forkVars,
     reapVars
<1>28. ASSUME NEW t \in Tasks, NEW d, NEW blocked, NotifyParent(t, d, blocked)
       PROVE  OnlyNotFoundDozes
  <2>1. \A v \in Tasks : sleep'[v] \in {"prepared", "asleep"} => sleep'[v] = sleep[v]
    BY <1>28, WokenFacts, Zenon DEF OnlyNotFoundDozes, NotifyParent
  <2> QED
    BY <1>28, <2>1 DEF OnlyNotFoundDozes, NotifyParent, Dozes, Goto, TypeOK
<1>29. ASSUME NEW t \in Tasks, NEW outcome \in Faults, Collect(t, outcome)
       PROVE  OnlyNotFoundDozes
  BY <1>29 DEF OnlyNotFoundDozes, Collect, Dozes, Goto, TypeOK, Calling, treeVars, waitVars,
     forkVars, reapVars
<1>30. ASSUME NEW t \in Tasks, SendSignal(t) PROVE OnlyNotFoundDozes
  <2>1. \A v \in Tasks : sleep'[v] \in {"prepared", "asleep"} => sleep'[v] = sleep[v]
    BY <1>30, WokenFacts, Zenon DEF OnlyNotFoundDozes, SendSignal
  <2> QED
    BY <1>30, <2>1, Zenon DEF OnlyNotFoundDozes, SendSignal, Dozes, TypeOK
<1>31. CASE ReapBegin
  BY <1>31, Zenon DEF OnlyNotFoundDozes, ReapBegin, Dozes, TypeOK, Calling, treeVars, exitVars,
     waitVars, forkVars
<1>32. CASE free_task
  BY <1>32, Zenon DEF OnlyNotFoundDozes, free_task, Release, Dozes, waitVars
<1>33. CASE ReapEnd
  BY <1>33, Zenon DEF OnlyNotFoundDozes, ReapEnd, Dozes, TypeOK, Calling, treeVars, exitVars,
     waitVars, forkVars
<1> QED
  BY <1>1, <1>2, <1>3, <1>4, <1>5, <1>6, <1>7, <1>8, <1>9, <1>10, <1>11, <1>12, <1>13, <1>14,
     <1>15, <1>16, <1>17, <1>18, <1>19, <1>20, <1>21, <1>22, <1>23, <1>24, <1>25, <1>26, <1>27,
     <1>28, <1>29, <1>30, <1>31, <1>32, <1>33, NextCases, Zenon

\* The same for the sleepers that NoMissedExit speaks of.
LEMMA SleeperNext ==
    ASSUME ProcInv, [Next]_vars, NEW t \in Tasks, Sleeper(t)', ~NotFound(t)
    PROVE  /\ Sleeper(t) /\ call'[t] = call[t]
           /\ life[t] = "live" /\ tgid[t] = t /\ tgid'[t] = t
<1>1. Dozes(t) /\ call'[t] = call[t]
  BY DozeNext, Zenon DEF OnlyNotFoundDozes, Sleeper
<1>2. life[t] = "live"
  BY <1>1, Zenon DEF ProcInv, Standing, Running, WaitPlaces, Dozes
<1>3. tgid'[t] = tgid[t] /\ (HadThreads(t) => HadThreads(t)')
  BY <1>2, TreeGrows, Zenon
<1>4. tgid'[t] = t
  BY Zenon DEF Sleeper, is_clone
<1>5. ASSUME NEW s \in Subreapers, tgid[s] = tgid[t] PROVE FALSE
  <2>1. s \in Tasks
    BY ProcessAssumption, Zenon
  <2>2. CASE life[s] = "none"
    BY <1>2, <1>3, <1>4, <1>5, <2>1, <2>2, Zenon DEF ProcInv, Unmade
  <2>3. CASE life[s] # "none"
    BY <1>3, <1>5, <2>1, <2>3, TreeGrows, Zenon DEF Sleeper
  <2> QED
    BY <2>2, <2>3, Zenon
<1> QED
  BY <1>1, <1>2, <1>3, <1>4, <1>5, Zenon DEF Sleeper, is_clone

\* The exit of a child that wait4 sleeps for.
LEMMA ToldNext == ProcInv /\ WillBeTold /\ [Next]_vars => WillBeTold'
<1> SUFFICES ASSUME ProcInv, WillBeTold, [Next]_vars, NEW t \in Tasks, NEW c \in Tasks,
                    c \notin orphaned', Sleeper(t)', c \in Dead(t)'
             PROVE  at'[c] \in {"status", "wake", "notify"}
  BY Zenon DEF WillBeTold
<1>0. TypeOK /\ Standing /\ InitStays /\ Building /\ Family /\ Held /\ FreeList /\ WillBeTold
  BY Zenon DEF ProcInv
<1> USE <1>0, ProcessAssumption
<1>1. CASE NotFound(t)
  <2>1. at'[t] \in {"block", "wait"}
    BY Zenon DEF Sleeper, Dozes
  <2>2. call' = call
    BY <1>1, <2>1 DEF NotFound, GiveUp, TypeOK
  <2>3. Dead(t)' = Dead(t) /\ Dead(t) = {}
    BY <1>1, <2>2, Zenon DEF NotFound, Dead, Wanted, Children, Exists, is_clone, ParentPid,
       treeVars, exitVars
  <2> QED
    BY <2>3, Zenon
<1>2. CASE ~NotFound(t)
  <2>1. Sleeper(t) /\ call'[t] = call[t] /\ life[t] = "live" /\ tgid[t] = t /\ tgid'[t] = t
    BY <1>2, SleeperNext, Zenon
  <2>2. /\ life'[c] = "died" /\ tgid'[c] = c /\ c \notin reaped' /\ c \in call[t].want
        /\ parent'[c] # None /\ tgid'[parent'[c]] = t
    BY <2>1, Zenon DEF Dead, Wanted, Children, is_clone, ParentPid
  <2>3. ASSUME life[c] = "died", tgid[c] = c, c \notin reaped, c \notin orphaned,
               parent[c] # None, tgid[parent[c]] = t
        PROVE  at[c] \in {"status", "wake", "notify"}
    <3>1. c \in Dead(t)
      BY <2>1, <2>2, <2>3, Zenon DEF Dead, Wanted, Children, Exists, is_clone, ParentPid
    <3> QED
      BY <2>1, <2>3, <3>1, Zenon DEF WillBeTold
  <2>4. \A s \in Subreapers : tgid[s] # t
    BY <2>1, Zenon DEF Sleeper
  <2>5. CASE Quiet
    BY <2>2, <2>3, <2>5, Zenon DEF Quiet, treeVars
  <2>6. ASSUME NEW w \in Tasks, CloneStart(w) PROVE at'[c] \in {"status", "wake", "notify"}
    <3> DEFINE b == call[w].task
    <3>1. b \in Tasks /\ life[b] = "new" /\ at[w] = "start"
      BY <2>6 DEF CloneStart, Building, TypeOK, Calls
    <3>2. /\ UNCHANGED <<tgid, parent, orphaned, reaped>>
          /\ life' = [life EXCEPT ![b] = "live"]
          /\ at' = [at EXCEPT ![w] = IF call[w].kind = "vfork" THEN "vcheck" ELSE "forked",
                              ![b] = "user"]
      BY <2>6, Zenon DEF CloneStart, exitVars
    <3> HIDE DEF b
    <3>3. c # b /\ life[c] = "died"
      BY <2>2, <3>1, <3>2, Zenon DEF TypeOK
    <3>4. at[c] \in {"status", "wake", "notify"}
      BY <2>2, <2>3, <3>2, <3>3, Zenon
    <3> QED
      BY <3>1, <3>2, <3>3, <3>4, Zenon DEF TypeOK
  <2>7. ASSUME NEW w \in Tasks, Die(w) PROVE at'[c] \in {"status", "wake", "notify"}
    <3>1. /\ UNCHANGED <<tgid, parent, orphaned, reaped>> /\ at'[w] = "status"
          /\ \A u \in Tasks \ {w} : life'[u] = life[u] /\ at'[u] = at[u]
      BY <2>7, Zenon DEF Die, Goto, TypeOK, exitVars
    <3> QED
      BY <2>2, <2>3, <3>1, Zenon
  <2>8. ASSUME NEW w \in Tasks, Found(w) PROVE at'[c] \in {"status", "wake", "notify"}
    <3>1. /\ UNCHANGED <<life, tgid, parent, orphaned>> /\ reaped \subseteq reaped' /\
             at[w] = "scan"
          /\ \A u \in Tasks \ {w} : at'[u] = at[u]
      BY <2>8 DEF Found, Goto, TypeOK, treeVars
    <3> QED
      BY <2>2, <2>3, <3>1, Zenon
  <2>9. ASSUME NEW w \in Tasks, NEW b \in Tasks, NEW kind \in Clones, CloneAttach(w, b, kind)
        PROVE  at'[c] \in {"status", "wake", "notify"}
    <3>1. life[b] = "none" /\ at[w] = "user" /\ UNCHANGED <<orphaned, reaped>> /\ life'[b] = "new"
          /\ (\A u \in Tasks \ {w} : at'[u] = at[u])
          /\ (\A u \in Tasks \ {b} : life'[u] = life[u] /\ tgid'[u] = tgid[u] /\
                parent'[u] = parent[u])
      BY <2>9 DEF CloneAttach, Goto, TypeOK, exitVars
    <3>2. c # b /\ life[c] = "died" /\ tgid[c] = c /\ parent[c] = parent'[c]
      BY <2>2, <3>1, Zenon
    <3>3. parent[c] \in Tasks /\ parent[c] # b
      BY <2>2, <3>1, <3>2 DEF Family, Exists, is_clone, TypeOK
    <3>4. at[c] \in {"status", "wake", "notify"}
      BY <2>2, <2>3, <3>1, <3>2, <3>3, Zenon
    <3> QED
      BY <3>1, <3>4, Zenon
  <2>10. ASSUME NEW w \in Tasks, NEW d, NEW blocked, NotifyParent(w, d, blocked)
         PROVE  at'[c] \in {"status", "wake", "notify"}
    <3>1. UNCHANGED <<life, tgid, orphaned, call>> /\ at[w] = "notify"
          /\ \A u \in Tasks \ {w} : at'[u] = at[u]
      BY <2>10, Zenon DEF NotifyParent, Goto, TypeOK
    <3>2. reaped \subseteq reaped'
      BY <2>10, Zenon DEF NotifyParent, ReleaseSelf
    <3>3. parent'[c] = parent[c]
      BY <2>2, <2>10 DEF NotifyParent, TypeOK
    <3>4. at[c] \in {"status", "wake", "notify"}
      BY <2>2, <2>3, <3>1, <3>2, <3>3, Zenon
    <3>5. CASE c # w
      BY <3>1, <3>4, <3>5, Zenon
    <3>6. CASE c = w
      <4>1. ~is_clone(c) /\ ParentPid(c) = t /\ Lookup(t) = t /\ t # None
        BY <2>1, <2>2, <3>1, <3>3, Zenon DEF is_clone, ParentPid, Lookup, Exists
      <4>2. sleep' = Woken((IF d # "ignore" /\ ~blocked THEN {t} ELSE {}) \cup Armed(t))
        BY <2>10, <3>6, <4>1, Zenon DEF NotifyParent
      <4>3. PICK ts : sleep' = Woken(ts) /\ Armed(t) \subseteq ts
        BY <4>2
      <4>4. call[t].kind = "wait" /\ at[t] \in {"block", "wait"}
        BY <2>1, Zenon DEF Sleeper, Dozes, ProcInv, Calling
      <4>5. t \in ts
        BY <4>1, <4>3, <4>4, Zenon DEF Armed
      <4>6. sleep'[t] \notin {"prepared", "asleep"}
        BY <2>1, <4>3, <4>5, WokenFacts, Zenon
      <4> QED
        BY <4>6, Zenon DEF Sleeper, Dozes
    <3> QED
      BY <3>5, <3>6, Zenon
  <2>11. ASSUME NEW w \in Tasks, NEW outcome \in Faults, Collect(w, outcome)
         PROVE  at'[c] \in {"status", "wake", "notify"}
    <3>1. /\ UNCHANGED <<life, tgid, parent, orphaned>> /\ at[w] = "copy" /\ at'[w] = "user"
          /\ \A u \in Tasks \ {w} : at'[u] = at[u]
      BY <2>11, Zenon DEF Collect, Goto, TypeOK, treeVars
    <3>2. CASE c \notin reaped
      BY <2>2, <2>3, <3>1, <3>2, Zenon
    <3>3. CASE c \in reaped
      <4>1. outcome # "ok" /\ c = call[w].task
        BY <2>2, <2>11, <3>3, Zenon DEF Collect
      <4>2. ~HadThreads(t)
        BY <2>1, <4>1, Zenon DEF Sleeper
      <4>3. life[w] = "live" /\ w # t
        BY <3>1, Zenon DEF Standing, Running, WaitPlaces, Sleeper, Dozes
      <4>4. tgid[w] # t
        BY <2>1, <4>2, <4>3, Zenon DEF HadThreads
      <4>5. Inherited(c)
        BY <2>2, <3>1, <4>1, <4>4, Zenon DEF Held, ParentPid
      <4>6. parent[c] \in Tasks /\ life[parent[c]] # "none" /\ tgid[parent[c]] = t
        BY <2>2, <3>1 DEF Family, Exists, is_clone, TypeOK
      <4>7. parent[c] = t
        BY <2>1, <4>2, <4>6, Zenon DEF HadThreads
      <4> QED
        BY <2>1, <2>2, <2>4, <3>1, <4>2, <4>5, <4>7, Zenon DEF Inherited
    <3> QED
      BY <3>2, <3>3, Zenon
  <2>12. ASSUME NEW ts \in SUBSET Tasks, NEW x \in Tasks, SetParent(ts, None), life[x] # "none",
                life' = [life EXCEPT ![x] = "freed"], tgid' = tgid, reaped' = reaped
         PROVE  at[c] \in {"status", "wake", "notify"}
    <3>1. parent'[c] = (IF c \in ts THEN None ELSE parent[c]) /\ (c \notin ts => c \notin orphaned)
      BY <2>12, SetParentFacts, Zenon
    <3>2. c # x /\ life[c] = "died"
      BY <2>2, <2>12, Zenon DEF TypeOK
    <3> QED
      BY <2>2, <2>3, <2>12, <3>1, <3>2, Zenon
  <2>13. ASSUME NEW w \in Tasks, CloneFail(w) PROVE at'[c] \in {"status", "wake", "notify"}
    <3> DEFINE b  == call[w].task
               ts == {b} \cup {k \in Children(tgid[b]) : parent[k] = b}
    <3>1. b \in Tasks /\ life[b] = "new" /\ at[w] = "start"
      BY <2>13 DEF CloneFail, Goto, Building, TypeOK, Calls
    <3>2. ts \in SUBSET Tasks /\ SetParent(ts, None) /\ life' = [life EXCEPT ![b] = "freed"]
          /\ tgid' = tgid /\ reaped' = reaped
      BY <2>13, <3>1, Zenon DEF CloneFail, Children, exitVars
    <3> HIDE DEF ts, b
    <3>3. at[c] \in {"status", "wake", "notify"}
      BY <2>12, <3>1, <3>2, Zenon
    <3>4. \A u \in Tasks \ {w} : at'[u] = at[u]
      BY <2>13, Zenon DEF CloneFail, Goto, TypeOK
    <3> QED
      BY <3>1, <3>3, <3>4, Zenon
  <2>14. CASE free_task
    <3> DEFINE x == Head(freeq)
    <3>1. x \in Tasks /\ life[x] = "died" /\ at' = at /\ reaped' = reaped
      BY <2>14, TailFacts, Zenon DEF free_task, FreeList, TypeOK, exitVars
    <3>2. CASE on_cpu(x)
      BY <2>2, <2>3, <2>14, <3>1, <3>2, Zenon DEF free_task, treeVars
    <3>3. CASE ~on_cpu(x)
      <4>1. Release(x)
        BY <2>14, <3>3, Zenon DEF free_task
      <4> HIDE DEF x
      <4>2. PICK ts \in SUBSET Tasks :
                SetParent(ts, None) /\ life' = [life EXCEPT ![x] = "freed"] /\ tgid' = tgid
        BY <3>1, <4>1, ReleaseFacts, Zenon
      <4> QED
        BY <2>12, <3>1, <4>2, Zenon
    <3> QED
      BY <3>2, <3>3, Zenon
  <2>15. ASSUME NEW w \in Tasks, Reparent(w) PROVE at'[c] \in {"status", "wake", "notify"}
    <3>1. w # InitTask /\ Exists(InitTask) /\ at[w] = "reparent" /\ UNCHANGED <<life, tgid, reaped>>
      BY <2>15, InitExists, Zenon DEF Reparent, ExitPlaces
    <3>2. \A u \in Tasks \ {w} : at'[u] = at[u]
      BY <2>15, Zenon DEF Reparent, TypeOK
    <3>3. PICK p \in Tasks \ {w}, ts \in SUBSET (Children(tgid[w]) \ {w}) :
              /\ SetParent(ts, p)
              /\ \/ p = InitTask \/ p \in Subreapers
                 \/ tgid[p] = tgid[w] /\ \A k \in ts : parent[k] = w
      BY <2>15, <3>1, ReparentFacts
    <3>4. ts \in SUBSET Tasks
      BY <3>3, Zenon DEF Children
    <3>5. /\ parent'[c] = IF c \in ts THEN p ELSE parent[c]
          /\ c \notin ts \/ parent[c] = p => c \notin orphaned
          /\ c \in ts /\ parent[c] # p => p # InitTask
      <4>1. /\ \A k \in Tasks : parent'[k] = IF k \in ts THEN p ELSE parent[k]
            /\ \A k \in Tasks \ ts : k \in orphaned' <=> k \in orphaned
            /\ \A k \in Tasks \cap ts : parent[k] # p => (k \in orphaned' <=> p = InitTask)
            /\ \A k \in Tasks \cap ts : parent[k] = p => (k \in orphaned' <=> k \in orphaned)
        BY <3>3, <3>4, SetParentFacts, Zenon
      <4> QED
        BY <4>1, Zenon
    <3>6. at[c] \in {"status", "wake", "notify"}
      <4>1. CASE c \notin ts \/ parent[c] = p
        BY <2>2, <2>3, <3>1, <3>5, <4>1, Zenon
      <4>2. CASE c \in ts /\ parent[c] # p
        <5>1. parent'[c] = p /\ p # InitTask /\ tgid[p] = t
          BY <2>2, <3>1, <3>5, <4>2, Zenon
        <5>2. tgid[p] = tgid[w] /\ parent[c] = w
          BY <2>4, <3>3, <4>2, <5>1, Zenon
        <5>3. c \notin orphaned
          BY <3>1, <5>2, Zenon DEF Family
        <5> QED
          BY <2>2, <2>3, <3>1, <5>1, <5>2, <5>3, Zenon
      <4> QED
        BY <4>1, <4>2, Zenon
    <3> QED
      BY <3>1, <3>2, <3>6, Zenon
  <2> QED
    BY <2>5, <2>6, <2>7, <2>8, <2>9, <2>10, <2>11, <2>13, <2>14, <2>15, QuietSteps, Zenon DEF
       Loud
<1> QED
  BY <1>1, <1>2, Zenon

-----------------------------------------------------------------------------
(* Both hold in every state.                                               *)

\* Together with the invariant of the task tree, both hold when the first
\* task runs and after every step.
LEMMA ToldHolds == Spec => [](ProcInv /\ VforkTold /\ WillBeTold)
<1>1. Init => VforkTold /\ WillBeTold
  BY ProcessAssumption, Zenon DEF Init, VforkTold, WillBeTold, Sleeper, Dozes
<1> QED
  BY <1>1, InvHolds, VforkNext, ToldNext, PTL DEF Spec

\* A parent that sleeps in vfork has not been told yet, and a live child is
\* left to tell it.
THEOREM VforkParentsAreTold == Spec => []NoVforkStall
<1>1. VforkTold => NoVforkStall
  <2> SUFFICES ASSUME VforkTold, NEW t \in Tasks, at[t] = "vwait", sleep[t] = "asleep"
               PROVE  t \notin vdone /\ \E c \in Tasks : vparent[c] = t /\ task_is_live(c)
    BY Zenon DEF NoVforkStall
  <2>1. t \notin vdone /\ \E c \in Tasks : vparent[c] = t /\ life[c] = "live"
    BY Zenon DEF VforkTold
  <2> QED
    BY <2>1, ProcessAssumption, Zenon DEF task_is_live, Exists
<1> QED
  BY <1>1, ToldHolds, PTL

\* The first thread of a process does not sleep in wait4 through the exit of
\* a child of its own.
THEOREM ExitsAreNotMissed == Spec => []NoMissedExit
<1>1. WillBeTold => NoMissedExit
  BY Zenon DEF WillBeTold, NoMissedExit, Sleeper, Dozes, Misses
<1> QED
  BY <1>1, ToldHolds, PTL

=============================================================================
