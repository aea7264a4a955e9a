-------------------------- MODULE TaskBlockProofs --------------------------
(***************************************************************************)
(* The safety properties of the sleep/wake protocol, proved for every set  *)
(* of tasks, CPUs and wakers.  Inv strengthens them to an inductive        *)
(* invariant.                                                              *)
(***************************************************************************)
EXTENDS TaskBlock, TLAPS

\* A context past the start of task_unblock has a target.
TokensHaveTargets ==
    \A x \in Contexts :
        wpc[x] \in {"prepare"} \cup Finishing => token[x].task \in Tasks

\* block_preparing holds from task_prepare_block to the commit, and not after.
PreparingMatchesPc ==
    \A t \in Tasks :
        /\ pc[t] \in {"check", "block", "arm", "commit"} => t \in block_preparing
        /\ pc[t] \in {"sched", "pick", "woken"} => t \notin block_preparing

\* Only a task inside schedule() of task_block can be asleep.
SleepsInSchedule ==
    \A t \in Tasks : pc[t] \notin {"sched", "pick", "woken"} => state[t] = "ready"

\* The wake of a condition made true before the commit is recorded, or its
\* waker has yet to arrive.
WakeRecorded ==
    \A t \in Tasks :
        t \in cond /\ pc[t] \in {"block", "arm", "commit"} /\ t \notin wake_pending =>
            \E x \in Contexts : wpc[x] = "prepare" /\ token[x].task = t

\* An attached entity belongs to the task its CPU runs.
CurrIsCurrent ==
    \A c \in CPUs : curr[c] \in Tasks => current[c] = curr[c]

Typed == TypeOK /\ TokensHaveTargets

Inv ==
    /\ Typed
    /\ PreparingMatchesPc
    /\ SleepsInSchedule
    /\ WakeRecorded
    /\ CurrIsCurrent
    /\ NoLostWakeup
    /\ RunsOnlyReady
    /\ NotStranded

-----------------------------------------------------------------------------
LEMMA TypeInit == Init => TypeOK /\ TokensHaveTargets
BY ConstantsAssumption
   DEF Init, TypeOK, TokensHaveTargets, NoToken, Contexts, Reasons, Pcs, Finishing

LEMMA TypeStep == Typed /\ [Next]_vars => Typed'
<1> SUFFICES ASSUME Typed, [Next]_vars PROVE Typed'
  OBVIOUS
<1> USE ConstantsAssumption
    DEF Typed, TypeOK, TokensHaveTargets, Contexts, Reasons, Pcs, Finishing, NoToken,
        taskVars, rqVars, callVars, wakeVars, timerVars
<1>1. ASSUME NEW t \in Tasks, task_prepare_block(t) PROVE Typed'
  BY <1>1 DEF task_prepare_block, Step
<1>2. ASSUME NEW t \in Tasks, CheckCondition(t) PROVE Typed'
  BY <1>2 DEF CheckCondition, Step
<1>3. ASSUME NEW t \in Tasks, BlockEnter(t) PROVE Typed'
  <2>1. CASE t \in wake_pending
    BY <1>3, <2>1 DEF BlockEnter, Step
  <2>2. CASE t \notin wake_pending /\ timeout[t] = "zero"
    BY <1>3, <2>2 DEF BlockEnter, Step
  <2>3. CASE t \notin wake_pending /\ timeout[t] # "zero"
    <3>1. Deadline \in Nat
      BY DEF Deadline
    <3> QED BY <1>3, <2>3, <3>1, SMTT(30) DEF BlockEnter, Step
  <2> QED BY <2>1, <2>2, <2>3
<1>4. ASSUME NEW t \in Tasks, task_timeout_arm(t) PROVE Typed'
  BY <1>4 DEF task_timeout_arm, Step
<1>5. ASSUME NEW t \in Tasks, BlockCommit(t) PROVE Typed'
  <2>1. CASE t \in wake_pending
    BY <1>5, <2>1 DEF BlockCommit, Step
  <2>2. CASE t \notin wake_pending
    BY <1>5, <2>2, SMTT(30) DEF BlockCommit, Step, RemoveEntity
  <2> QED BY <2>1, <2>2
<1>6. ASSUME NEW t \in Tasks, BlockCancel(t) PROVE Typed'
  BY <1>6 DEF BlockCancel, Step
<1>7. ASSUME NEW t \in Tasks, BlockRequeue(t) PROVE Typed'
  BY <1>7 DEF BlockRequeue, Step, AddEntity
<1>8. ASSUME NEW t \in Tasks, ScheduleCheck(t) PROVE Typed'
  BY <1>8 DEF ScheduleCheck, Step
<1>9. ASSUME NEW t \in Tasks, SchedulePick(t) PROVE Typed'
  BY <1>9 DEF SchedulePick, Step, PickNext, Live, Pickable, OnCpu
<1>10. ASSUME NEW t \in Tasks, BlockReturn(t) PROVE Typed'
  BY <1>10 DEF BlockReturn, Step
<1>11. ASSUME NEW t \in Tasks, task_cancel_block_prepare(t) PROVE Typed'
  <2>1. CASE t \in block_preparing /\ state[t] # "blocking"
    BY <1>11, <2>1 DEF task_cancel_block_prepare, Step
  <2>2. CASE ~(t \in block_preparing /\ state[t] # "blocking")
    BY <1>11, <2>2 DEF task_cancel_block_prepare, Step
  <2> QED BY <2>1, <2>2
<1>12. ASSUME NEW c \in CPUs, Interrupt(c) PROVE Typed'
  BY <1>12 DEF Interrupt, PickNext, Live, Pickable, OnCpu
<1>13. ASSUME NEW w \in Wakers, NEW t \in Tasks, NEW r \in {"EOK", "EINTR"},
             StartWake(w, t, r)
      PROVE  Typed'
  BY <1>13 DEF StartWake, Move
<1>14. ASSUME NEW x \in Contexts, task_unblock_prepare(x) PROVE Typed'
  <2>1. CASE state[token[x].task] = "blocking"
    BY <1>14, <2>1, SMTT(30) DEF task_unblock_prepare, Move
  <2>2. CASE state[token[x].task] # "blocking"
    BY <1>14, <2>2, SMTT(30) DEF task_unblock_prepare, Move, AcceptsWake
  <2> QED BY <2>1, <2>2
<1>15. ASSUME NEW x \in Contexts, FinishCancel(x) PROVE Typed'
  BY <1>15 DEF FinishCancel, Move
<1>16. ASSUME NEW x \in Contexts, FinishClear(x) PROVE Typed'
  BY <1>16 DEF FinishClear, Move
<1>17. ASSUME NEW x \in Contexts, FinishEnqueue(x) PROVE Typed'
  BY <1>17 DEF FinishEnqueue, Move, AddEntity
<1>18. ASSUME NEW c \in CPUs, TimeoutPop(c) PROVE Typed'
  BY <1>18 DEF TimeoutPop, OnCpu
<1>19. ASSUME NEW t \in Tasks, TimeoutCheck(t) PROVE Typed'
  <2>1. CASE force_wakeup[t] # Never /\ force_wakeup[t] <= timer_now
    BY <1>19, <2>1 DEF TimeoutCheck
  <2>2. CASE ~(force_wakeup[t] # Never /\ force_wakeup[t] <= timer_now)
    BY <1>19, <2>2 DEF TimeoutCheck
  <2> QED BY <2>1, <2>2
<1>20. CASE ClockTick
  BY <1>20 DEF ClockTick
<1>21. CASE UNCHANGED vars
  BY <1>21 DEF vars
<1> HIDE DEF Typed
<1> QED
  BY <1>1, <1>2, <1>3, <1>4, <1>5, <1>6, <1>7, <1>8, <1>9, <1>10, <1>11, <1>12, <1>13, <1>14, <1>15, <1>16, <1>17, <1>18, <1>19, <1>20, <1>21
  DEF Next, TaskStep, WakeStep, TimerStep

LEMMA InvInit == Init => Inv
BY TypeInit, ConstantsAssumption, SMTT(30)
   DEF Init, Inv, Typed, PreparingMatchesPc, SleepsInSchedule, WakeRecorded,
       CurrIsCurrent, NoLostWakeup, RunsOnlyReady, NotStranded

\* The flags of the block protocol follow the place of the task.
LEMMA SleepStep == Inv /\ [Next]_vars => PreparingMatchesPc' /\ SleepsInSchedule'
<1> SUFFICES ASSUME Inv, [Next]_vars PROVE PreparingMatchesPc' /\ SleepsInSchedule'
  OBVIOUS
<1> USE ConstantsAssumption DEF Inv, Typed, TypeOK, TokensHaveTargets,
        PreparingMatchesPc, SleepsInSchedule, RunsOnlyReady, taskVars,
        rqVars, callVars, wakeVars, timerVars
<1>1. ASSUME NEW t \in Tasks, task_prepare_block(t)
      PROVE  PreparingMatchesPc' /\ SleepsInSchedule'
  BY <1>1 DEF task_prepare_block, Step
<1>2. ASSUME NEW t \in Tasks, CheckCondition(t)
      PROVE  PreparingMatchesPc' /\ SleepsInSchedule'
  BY <1>2 DEF CheckCondition, Step
<1>3. ASSUME NEW t \in Tasks, BlockEnter(t)
      PROVE  PreparingMatchesPc' /\ SleepsInSchedule'
  <2>1. CASE t \in wake_pending
    BY <1>3, <2>1 DEF BlockEnter, Step
  <2>2. CASE t \notin wake_pending /\ timeout[t] = "zero"
    BY <1>3, <2>2 DEF BlockEnter, Step
  <2>3. CASE t \notin wake_pending /\ timeout[t] # "zero"
    BY <1>3, <2>3 DEF BlockEnter, Step
  <2> QED BY <2>1, <2>2, <2>3
<1>4. ASSUME NEW t \in Tasks, task_timeout_arm(t)
      PROVE  PreparingMatchesPc' /\ SleepsInSchedule'
  BY <1>4 DEF task_timeout_arm, Step
<1>5. ASSUME NEW t \in Tasks, BlockCommit(t)
      PROVE  PreparingMatchesPc' /\ SleepsInSchedule'
  <2>1. CASE t \in wake_pending
    BY <1>5, <2>1 DEF BlockCommit, Step, RemoveEntity
  <2>2. CASE t \notin wake_pending
    BY <1>5, <2>2 DEF BlockCommit, Step, RemoveEntity
  <2> QED BY <2>1, <2>2
<1>6. ASSUME NEW t \in Tasks, BlockCancel(t)
      PROVE  PreparingMatchesPc' /\ SleepsInSchedule'
  BY <1>6 DEF BlockCancel, Step
<1>7. ASSUME NEW t \in Tasks, BlockRequeue(t)
      PROVE  PreparingMatchesPc' /\ SleepsInSchedule'
  BY <1>7 DEF BlockRequeue, Step, AddEntity
<1>8. ASSUME NEW t \in Tasks, ScheduleCheck(t)
      PROVE  PreparingMatchesPc' /\ SleepsInSchedule'
  BY <1>8, SMTT(30) DEF ScheduleCheck, Step
<1>9. ASSUME NEW t \in Tasks, SchedulePick(t)
      PROVE  PreparingMatchesPc' /\ SleepsInSchedule'
  BY <1>9 DEF SchedulePick, Step, PickNext, Live, Pickable, OnCpu
<1>10. ASSUME NEW t \in Tasks, BlockReturn(t)
      PROVE  PreparingMatchesPc' /\ SleepsInSchedule'
  BY <1>10 DEF BlockReturn, Step
<1>11. ASSUME NEW t \in Tasks, task_cancel_block_prepare(t)
      PROVE  PreparingMatchesPc' /\ SleepsInSchedule'
  <2>1. CASE t \in block_preparing /\ state[t] # "blocking"
    BY <1>11, <2>1 DEF task_cancel_block_prepare, Step
  <2>2. CASE ~(t \in block_preparing /\ state[t] # "blocking")
    BY <1>11, <2>2, SMTT(30) DEF task_cancel_block_prepare, Step
  <2> QED BY <2>1, <2>2
<1>12. ASSUME NEW x \in Contexts, task_unblock_prepare(x)
      PROVE  PreparingMatchesPc' /\ SleepsInSchedule'
  <2>1. CASE state[token[x].task] = "blocking"
    BY <1>12, <2>1, SMTT(30) DEF task_unblock_prepare, Move, AcceptsWake, NoToken
  <2>2. CASE state[token[x].task] # "blocking" /\ token[x].task \in block_preparing
    BY <1>12, <2>2, SMTT(30) DEF task_unblock_prepare, Move, AcceptsWake, NoToken
  <2>3. CASE state[token[x].task] # "blocking" /\ token[x].task \notin block_preparing
    BY <1>12, <2>3 DEF task_unblock_prepare, Move, AcceptsWake, NoToken
  <2> QED BY <2>1, <2>2, <2>3, SMTT(30)
<1>13. CASE UNCHANGED <<pc, state, block_preparing>>
  BY <1>13, SMTT(30)
<1> HIDE DEF Inv, Typed, TypeOK, TokensHaveTargets, PreparingMatchesPc,
             SleepsInSchedule, RunsOnlyReady
<1> QED
  BY <1>1, <1>2, <1>3, <1>4, <1>5, <1>6, <1>7, <1>8, <1>9, <1>10, <1>11,
     <1>12, <1>13
  DEF Next, TaskStep, WakeStep, TimerStep, Interrupt, StartWake,
      FinishCancel, FinishClear, FinishEnqueue, TimeoutPop, TimeoutCheck,
      ClockTick, vars, taskVars, rqVars, callVars, wakeVars, timerVars

\* A wake on its way to a task is recorded before the task sleeps.
LEMMA WakeupStep == Inv /\ [Next]_vars => WakeRecorded' /\ NoLostWakeup'
<1> SUFFICES ASSUME Inv, [Next]_vars PROVE WakeRecorded' /\ NoLostWakeup'
  OBVIOUS
<1> USE ConstantsAssumption DEF Inv, Typed, TypeOK, TokensHaveTargets,
        PreparingMatchesPc, SleepsInSchedule, WakeRecorded, NoLostWakeup,
        Contexts, Finishing, taskVars, rqVars, callVars, wakeVars, timerVars
<1>1. ASSUME NEW t \in Tasks, task_prepare_block(t)
      PROVE  WakeRecorded' /\ NoLostWakeup'
  BY <1>1 DEF task_prepare_block, Step
<1>2. ASSUME NEW t \in Tasks, CheckCondition(t)
      PROVE  WakeRecorded' /\ NoLostWakeup'
  BY <1>2, SMTT(30) DEF CheckCondition, Step
<1>3. ASSUME NEW t \in Tasks, BlockEnter(t)
      PROVE  WakeRecorded' /\ NoLostWakeup'
  <2>1. CASE t \in wake_pending
    BY <1>3, <2>1, SMTT(30) DEF BlockEnter, Step
  <2>2. CASE t \notin wake_pending /\ timeout[t] = "zero"
    BY <1>3, <2>2, SMTT(30) DEF BlockEnter, Step
  <2>3. CASE t \notin wake_pending /\ timeout[t] # "zero"
    BY <1>3, <2>3 DEF BlockEnter, Step
  <2> QED BY <2>1, <2>2, <2>3, SMTT(30)
<1>4. ASSUME NEW t \in Tasks, task_timeout_arm(t)
      PROVE  WakeRecorded' /\ NoLostWakeup'
  BY <1>4, SMTT(30) DEF task_timeout_arm, Step
<1>5. ASSUME NEW t \in Tasks, BlockCommit(t)
      PROVE  WakeRecorded' /\ NoLostWakeup'
  <2>1. CASE t \in wake_pending
    BY <1>5, <2>1, SMTT(30) DEF BlockCommit, Step, RemoveEntity
  <2>2. CASE t \notin wake_pending
    BY <1>5, <2>2 DEF BlockCommit, Step, RemoveEntity
  <2> QED BY <2>1, <2>2, SMTT(30)
<1>6. ASSUME NEW t \in Tasks, BlockCancel(t)
      PROVE  WakeRecorded' /\ NoLostWakeup'
  BY <1>6 DEF BlockCancel, Step
<1>7. ASSUME NEW t \in Tasks, BlockRequeue(t)
      PROVE  WakeRecorded' /\ NoLostWakeup'
  BY <1>7, SMTT(30) DEF BlockRequeue, Step, AddEntity
<1>8. ASSUME NEW t \in Tasks, ScheduleCheck(t)
      PROVE  WakeRecorded' /\ NoLostWakeup'
  BY <1>8, SMTT(30) DEF ScheduleCheck, Step
<1>9. ASSUME NEW t \in Tasks, SchedulePick(t)
      PROVE  WakeRecorded' /\ NoLostWakeup'
  BY <1>9, SMTT(30) DEF SchedulePick, Step, PickNext, Live, Pickable, OnCpu
<1>10. ASSUME NEW t \in Tasks, BlockReturn(t)
      PROVE  WakeRecorded' /\ NoLostWakeup'
  BY <1>10, SMTT(30) DEF BlockReturn, Step
<1>11. ASSUME NEW t \in Tasks, task_cancel_block_prepare(t)
      PROVE  WakeRecorded' /\ NoLostWakeup'
  <2>1. CASE t \in block_preparing /\ state[t] # "blocking"
    BY <1>11, <2>1, SMTT(30) DEF task_cancel_block_prepare, Step
  <2>2. CASE ~(t \in block_preparing /\ state[t] # "blocking")
    BY <1>11, <2>2, SMTT(30) DEF task_cancel_block_prepare, Step
  <2> QED BY <2>1, <2>2, SMTT(30)
<1>12. ASSUME NEW w \in Wakers, NEW t \in Tasks, NEW r \in {"EOK", "EINTR"},
             StartWake(w, t, r)
      PROVE  WakeRecorded' /\ NoLostWakeup'
  BY <1>12, SMTT(30) DEF StartWake, Move
<1>13. ASSUME NEW x \in Contexts, task_unblock_prepare(x)
      PROVE  WakeRecorded' /\ NoLostWakeup'
  <2>1. CASE state[token[x].task] = "blocking"
    BY <1>13, <2>1, SMTT(30) DEF task_unblock_prepare, Move, AcceptsWake, NoToken
  <2>2. CASE state[token[x].task] # "blocking" /\ token[x].task \in block_preparing
    BY <1>13, <2>2, SMTT(30) DEF task_unblock_prepare, Move, AcceptsWake, NoToken
  <2>3. CASE state[token[x].task] # "blocking" /\ token[x].task \notin block_preparing
    BY <1>13, <2>3, SMTT(30) DEF task_unblock_prepare, Move, AcceptsWake, NoToken
  <2> QED BY <2>1, <2>2, <2>3, SMTT(30)
<1>14. ASSUME NEW x \in Contexts, FinishCancel(x)
      PROVE  WakeRecorded' /\ NoLostWakeup'
  BY <1>14, SMTT(30) DEF FinishCancel, Move
<1>15. ASSUME NEW x \in Contexts, FinishClear(x)
      PROVE  WakeRecorded' /\ NoLostWakeup'
  BY <1>15, SMTT(30) DEF FinishClear, Move
<1>16. ASSUME NEW x \in Contexts, FinishEnqueue(x)
      PROVE  WakeRecorded' /\ NoLostWakeup'
  BY <1>16, SMTT(30) DEF FinishEnqueue, Move, AddEntity, NoToken
<1>17. ASSUME NEW t \in Tasks, TimeoutCheck(t)
      PROVE  WakeRecorded' /\ NoLostWakeup'
  <2>1. CASE force_wakeup[t] # Never /\ force_wakeup[t] <= timer_now
    BY <1>17, <2>1, SMTT(30) DEF TimeoutCheck
  <2>2. CASE ~(force_wakeup[t] # Never /\ force_wakeup[t] <= timer_now)
    BY <1>17, <2>2, SMTT(30) DEF TimeoutCheck
  <2> QED BY <2>1, <2>2, SMTT(30)
<1>18. CASE UNCHANGED <<pc, state, wake_pending, cond, wpc, token>>
  BY <1>18
<1> HIDE DEF Inv, Typed, TypeOK, TokensHaveTargets, PreparingMatchesPc,
             SleepsInSchedule, WakeRecorded, NoLostWakeup, Contexts,
             Finishing
<1> QED
  BY <1>1, <1>2, <1>3, <1>4, <1>5, <1>6, <1>7, <1>8, <1>9, <1>10, <1>11,
     <1>12, <1>13, <1>14, <1>15, <1>16, <1>17, <1>18
  DEF Next, TaskStep, WakeStep, TimerStep, Interrupt, TimeoutPop, ClockTick,
      vars, taskVars, rqVars, callVars, wakeVars, timerVars

\* The runqueue, the running task and the unblock tokens cover READY tasks.
LEMMA RunStep == Inv /\ [Next]_vars => CurrIsCurrent' /\ RunsOnlyReady' /\ NotStranded'
<1> SUFFICES ASSUME Inv, [Next]_vars PROVE CurrIsCurrent' /\ RunsOnlyReady' /\ NotStranded'
  BY SMTT(30)
<1> USE ConstantsAssumption DEF Inv, Typed, TypeOK, TokensHaveTargets,
        SleepsInSchedule, CurrIsCurrent, RunsOnlyReady, NotStranded,
        Prepared, Contexts, Finishing, taskVars, rqVars, callVars, wakeVars,
        timerVars
<1>1. ASSUME NEW t \in Tasks, task_prepare_block(t)
      PROVE  CurrIsCurrent' /\ RunsOnlyReady' /\ NotStranded'
  BY <1>1, SMTT(30) DEF task_prepare_block, Step
<1>2. ASSUME NEW t \in Tasks, CheckCondition(t)
      PROVE  CurrIsCurrent' /\ RunsOnlyReady' /\ NotStranded'
  BY <1>2, SMTT(30) DEF CheckCondition, Step
<1>3. ASSUME NEW t \in Tasks, BlockEnter(t)
      PROVE  CurrIsCurrent' /\ RunsOnlyReady' /\ NotStranded'
  <2>1. CASE t \in wake_pending
    BY <1>3, <2>1, SMTT(30) DEF BlockEnter, Step
  <2>2. CASE t \notin wake_pending /\ timeout[t] = "zero"
    BY <1>3, <2>2 DEF BlockEnter, Step
  <2>3. CASE t \notin wake_pending /\ timeout[t] # "zero"
    BY <1>3, <2>3, SMTT(30) DEF BlockEnter, Step
  <2> QED BY <2>1, <2>2, <2>3, SMTT(30)
<1>4. ASSUME NEW t \in Tasks, task_timeout_arm(t)
      PROVE  CurrIsCurrent' /\ RunsOnlyReady' /\ NotStranded'
  BY <1>4, SMTT(30) DEF task_timeout_arm, Step
<1>5. ASSUME NEW t \in Tasks, BlockCommit(t)
      PROVE  CurrIsCurrent' /\ RunsOnlyReady' /\ NotStranded'
  <2>1. CASE t \in wake_pending
    BY <1>5, <2>1, SMTT(30) DEF BlockCommit, Step, RemoveEntity
  <2>2. CASE t \notin wake_pending
    BY <1>5, <2>2, SMTT(30) DEF BlockCommit, Step, RemoveEntity
  <2> QED BY <2>1, <2>2, SMTT(30)
<1>6. ASSUME NEW t \in Tasks, BlockCancel(t)
      PROVE  CurrIsCurrent' /\ RunsOnlyReady' /\ NotStranded'
  BY <1>6, SMTT(30) DEF BlockCancel, Step
<1>7. ASSUME NEW t \in Tasks, BlockRequeue(t)
      PROVE  CurrIsCurrent' /\ RunsOnlyReady' /\ NotStranded'
  BY <1>7, SMTT(30) DEF BlockRequeue, Step, AddEntity
<1>8. ASSUME NEW t \in Tasks, ScheduleCheck(t)
      PROVE  CurrIsCurrent' /\ RunsOnlyReady' /\ NotStranded'
  BY <1>8, SMTT(30) DEF ScheduleCheck, Step
<1>9. ASSUME NEW t \in Tasks, SchedulePick(t)
      PROVE  CurrIsCurrent' /\ RunsOnlyReady' /\ NotStranded'
  <2>1. CurrIsCurrent'
    BY <1>9, SMTT(30) DEF SchedulePick, Step, PickNext, Live, Pickable, OnCpu
  <2>2. RunsOnlyReady'
    BY <1>9, SMTT(30) DEF SchedulePick, Step, PickNext, Live, Pickable, OnCpu
  <2>3. NotStranded'
    BY <1>9, SMTT(30) DEF SchedulePick, Step, PickNext, Live, Pickable, OnCpu
  <2> QED BY <2>1, <2>2, <2>3, SMTT(30)
<1>10. ASSUME NEW t \in Tasks, BlockReturn(t)
      PROVE  CurrIsCurrent' /\ RunsOnlyReady' /\ NotStranded'
  BY <1>10, SMTT(30) DEF BlockReturn, Step
<1>11. ASSUME NEW t \in Tasks, task_cancel_block_prepare(t)
      PROVE  CurrIsCurrent' /\ RunsOnlyReady' /\ NotStranded'
  <2>1. CASE t \in block_preparing /\ state[t] # "blocking"
    BY <1>11, <2>1, SMTT(30) DEF task_cancel_block_prepare, Step
  <2>2. CASE ~(t \in block_preparing /\ state[t] # "blocking")
    BY <1>11, <2>2, SMTT(30) DEF task_cancel_block_prepare, Step
  <2> QED BY <2>1, <2>2, SMTT(30)
<1>12. ASSUME NEW c \in CPUs, Interrupt(c)
      PROVE  CurrIsCurrent' /\ RunsOnlyReady' /\ NotStranded'
  <2>1. CurrIsCurrent'
    BY <1>12, SMTT(30) DEF Interrupt, PickNext, Live, Pickable, OnCpu
  <2>2. RunsOnlyReady'
    BY <1>12, SMTT(30) DEF Interrupt, PickNext, Live, Pickable, OnCpu
  <2>3. NotStranded'
    BY <1>12, SMTT(30) DEF Interrupt, PickNext, Live, Pickable, OnCpu
  <2> QED BY <2>1, <2>2, <2>3, SMTT(30)
<1>13. ASSUME NEW w \in Wakers, NEW t \in Tasks, NEW r \in {"EOK", "EINTR"},
             StartWake(w, t, r)
      PROVE  CurrIsCurrent' /\ RunsOnlyReady' /\ NotStranded'
  BY <1>13, SMTT(30) DEF StartWake, Move
<1>14. ASSUME NEW x \in Contexts, task_unblock_prepare(x)
      PROVE  CurrIsCurrent' /\ RunsOnlyReady' /\ NotStranded'
  <2>1. CASE state[token[x].task] = "blocking"
    BY <1>14, <2>1, SMTT(30) DEF task_unblock_prepare, Move, AcceptsWake, NoToken
  <2>2. CASE state[token[x].task] # "blocking" /\ token[x].task \in block_preparing
    BY <1>14, <2>2, SMTT(30) DEF task_unblock_prepare, Move, AcceptsWake, NoToken
  <2>3. CASE state[token[x].task] # "blocking" /\ token[x].task \notin block_preparing
    BY <1>14, <2>3, SMTT(30) DEF task_unblock_prepare, Move, AcceptsWake, NoToken
  <2> QED BY <2>1, <2>2, <2>3, SMTT(30)
<1>15. ASSUME NEW x \in Contexts, FinishCancel(x)
      PROVE  CurrIsCurrent' /\ RunsOnlyReady' /\ NotStranded'
  BY <1>15, SMTT(30) DEF FinishCancel, Move
<1>16. ASSUME NEW x \in Contexts, FinishClear(x)
      PROVE  CurrIsCurrent' /\ RunsOnlyReady' /\ NotStranded'
  BY <1>16, SMTT(30) DEF FinishClear, Move
<1>17. ASSUME NEW x \in Contexts, FinishEnqueue(x)
      PROVE  CurrIsCurrent' /\ RunsOnlyReady' /\ NotStranded'
  BY <1>17, SMTT(30) DEF FinishEnqueue, Move, AddEntity, NoToken
<1>18. ASSUME NEW t \in Tasks, TimeoutCheck(t)
      PROVE  CurrIsCurrent' /\ RunsOnlyReady' /\ NotStranded'
  <2>1. CASE force_wakeup[t] # Never /\ force_wakeup[t] <= timer_now
    BY <1>18, <2>1, SMTT(30) DEF TimeoutCheck
  <2>2. CASE ~(force_wakeup[t] # Never /\ force_wakeup[t] <= timer_now)
    BY <1>18, <2>2 DEF TimeoutCheck
  <2> QED BY <2>1, <2>2, SMTT(30)
<1>19. CASE UNCHANGED <<pc, state, queued, curr, current, wpc, token>>
  BY <1>19
<1> HIDE DEF Inv, Typed, TypeOK, TokensHaveTargets, SleepsInSchedule,
             CurrIsCurrent, RunsOnlyReady, NotStranded, Prepared, Contexts,
             Finishing
<1> QED
  BY <1>1, <1>2, <1>3, <1>4, <1>5, <1>6, <1>7, <1>8, <1>9, <1>10, <1>11,
     <1>12, <1>13, <1>14, <1>15, <1>16, <1>17, <1>18, <1>19
  DEF Next, TaskStep, WakeStep, TimerStep, TimeoutPop, ClockTick, vars,
      taskVars, rqVars, callVars, wakeVars, timerVars

LEMMA InvStep == Inv /\ [Next]_vars => Inv'
<1> SUFFICES ASSUME Inv, [Next]_vars PROVE Inv'
  OBVIOUS
<1>1. Typed'
  BY TypeStep DEF Inv
<1> QED
  BY <1>1, SleepStep, WakeupStep, RunStep DEF Inv

LEMMA Invariance == Spec => []Inv
BY InvInit, InvStep, PTL DEF Spec

-----------------------------------------------------------------------------
\* Every reachable state is well typed.
THEOREM TypeCorrect == Spec => []TypeOK
<1>1. Inv => TypeOK
  BY DEF Inv, Typed
<1> QED
  BY <1>1, Invariance, PTL

\* No wakeup is lost, however task_block, task_unblock, signals, timeouts and
\* preemption interleave, for any number of tasks, CPUs and wakers.
THEOREM WakeupsAreNotLost == Spec => []NoLostWakeup
<1>1. Inv => NoLostWakeup
  BY DEF Inv
<1> QED
  BY <1>1, Invariance, PTL

\* The scheduler runs only READY tasks, although a stale task_unblock_finish
\* may enqueue a task that sleeps.
THEOREM OnlyReadyTasksRun == Spec => []RunsOnlyReady
<1>1. Inv => RunsOnlyReady
  BY DEF Inv
<1> QED
  BY <1>1, Invariance, PTL

\* A READY task is on a runqueue, running, or about to be enqueued.
THEOREM ReadyTasksAreNotStranded == Spec => []NotStranded
<1>1. Inv => NotStranded
  BY DEF Inv
<1> QED
  BY <1>1, Invariance, PTL

\* The wake that ends a sleep also decides its result.
THEOREM ResultIsTheFirstWakes == Spec => FirstWakeWins
<1> DEFINE A == \A t \in Tasks :
                    pc[t] \in {"sched", "pick", "woken"} /\ state[t] = "ready" =>
                        status'[t] = status[t]
<1>1. Inv /\ [Next]_vars => [A]_vars
  <2> SUFFICES ASSUME Inv, Next PROVE A
    BY SMTT(30)
  <2> USE DEF Inv, Typed, TypeOK, PreparingMatchesPc, taskVars, rqVars, callVars,
            wakeVars, timerVars
  <2>1. ASSUME NEW t \in Tasks, TaskStep(t) PROVE A
    <3>1. CASE task_prepare_block(t)
      BY <3>1, SMTT(30) DEF task_prepare_block, Step
    <3>2. CASE BlockEnter(t)
      BY <3>2 DEF BlockEnter, Step
    <3>3. CASE task_cancel_block_prepare(t)
      BY <3>3 DEF task_cancel_block_prepare, Step
    <3>4. CASE UNCHANGED status
      BY <3>4, SMTT(30)
    <3> HIDE DEF A, Inv
    <3> QED
      BY <2>1, <3>1, <3>2, <3>3, <3>4
      DEF TaskStep, CheckCondition, task_timeout_arm, BlockCommit, BlockCancel,
          BlockRequeue, ScheduleCheck, SchedulePick, BlockReturn, taskVars
  <2>2. ASSUME NEW x \in Contexts, WakeStep(x) PROVE A
    <3>1. CASE task_unblock_prepare(x)
      BY <3>1 DEF task_unblock_prepare, AcceptsWake, TokensHaveTargets
    <3>2. CASE UNCHANGED status
      BY <3>2, SMTT(30)
    <3> HIDE DEF A, Inv
    <3> QED
      BY <2>2, <3>1, <3>2, SMTT(30)
      DEF WakeStep, FinishCancel, FinishClear, FinishEnqueue, taskVars
  <2>3. CASE TimerStep \/ ClockTick
    BY <2>3 DEF TimerStep, TimeoutPop, TimeoutCheck, ClockTick
  <2>4. ASSUME NEW c \in CPUs, Interrupt(c) PROVE A
    BY <2>4, SMTT(30) DEF Interrupt
  <2>5. ASSUME NEW w \in Wakers, NEW t \in Tasks, NEW r \in {"EOK", "EINTR"},
               StartWake(w, t, r)
        PROVE  A
    BY <2>5 DEF StartWake
  <2> HIDE DEF A, Inv
  <2> QED
    BY <2>1, <2>2, <2>3, <2>4, <2>5 DEF Next
<1> QED
  BY <1>1, Invariance, PTL DEF Spec, FirstWakeWins
=============================================================================
