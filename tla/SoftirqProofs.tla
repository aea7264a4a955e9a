--------------------------- MODULE SoftirqProofs ---------------------------
(***************************************************************************)
(* No raised softirq is slept on and no queued work is forgotten, for any  *)
(* number of raisers, any budgets and any amount of work.                  *)
(***************************************************************************)
EXTENDS Softirq, TLAPS

\* What softirqd's place says of its sleep and of its local copy of the
\* pending word.
Places_OK ==
    /\ at \in {"check", "block"} => wsleep \in {"prepared", "pending"}
    /\ wsleep = "asleep" => at = "wait"
    /\ at \in {"prepare", "check", "cancel", "take", "block", "wait"} => taken = {}

Inv == SoftirqTypeOK /\ Places_OK /\ NoLostRaise /\ NoForgottenWork

LEMMA TypeStep == SoftirqTypeOK /\ [SoftirqNext]_softirqVars => SoftirqTypeOK'
  <1> SUFFICES ASSUME SoftirqTypeOK, [SoftirqNext]_softirqVars PROVE SoftirqTypeOK'
      OBVIOUS
  <1> USE SoftirqAssumption DEF SoftirqTypeOK, Places, Ids, Kinds, IdOf
  <1>1. CASE UNCHANGED softirqVars
        BY <1>1 DEF softirqVars
  <1>2. ASSUME NEW r \in Raisers, RaiserStep(r) PROVE SoftirqTypeOK'
        BY <1>2 DEF RaiserStep, softirq_raise, sched_wake_softirqd, Unblocked
  <1>3. ASSUME NEW r \in Raisers, NEW kind \in Kinds, Queue(r, kind) PROVE SoftirqTypeOK'
        BY <1>3 DEF Queue
  <1>4. CASE DaemonPrepare \/ DaemonCheck \/ DaemonCancel \/ DaemonBlock \/ DaemonReturn \/ Take \/ Yield
        BY <1>4 DEF DaemonPrepare, DaemonCheck, DaemonCancel, DaemonBlock, DaemonReturn, Take, Yield
  <1>5. CASE task_timer_softirq \/ timerfd_softirq
        BY <1>5 DEF task_timer_softirq, timerfd_softirq, Handler, NextId
  <1>6. CASE ReapTasks
        BY <1>6 DEF ReapTasks, Handler, BatchOf
  <1>7. CASE ReapMms
        BY <1>7 DEF ReapMms, BatchOf
  <1>8. CASE Recheck
        BY <1>8 DEF Recheck
  <1> QED BY <1>1, <1>2, <1>3, <1>4, <1>5, <1>6, <1>7, <1>8 DEF SoftirqNext, Daemon, sched_check_wakeup,
             timerfd_check_wakeup, task_enqueue_should_free, task_enqueue_mm_free, Kinds

LEMMA PlacesStep == SoftirqTypeOK /\ Places_OK /\ [SoftirqNext]_softirqVars => Places_OK'
  <1> SUFFICES ASSUME SoftirqTypeOK, Places_OK, [SoftirqNext]_softirqVars PROVE Places_OK'
      OBVIOUS
  <1> USE DEF SoftirqTypeOK, Places, Places_OK
  <1>1. CASE UNCHANGED softirqVars
        BY <1>1 DEF softirqVars
  <1>2. ASSUME NEW r \in Raisers, RaiserStep(r) PROVE Places_OK'
        BY <1>2 DEF RaiserStep, softirq_raise, sched_wake_softirqd, Unblocked
  <1>3. ASSUME NEW r \in Raisers, NEW kind \in Kinds, Queue(r, kind) PROVE Places_OK'
        BY <1>3 DEF Queue
  <1>4. CASE DaemonPrepare \/ DaemonCheck \/ DaemonCancel \/ DaemonBlock \/ DaemonReturn \/ Take \/ Yield
        BY <1>4 DEF DaemonPrepare, DaemonCheck, DaemonCancel, DaemonBlock, DaemonReturn, Take, Yield
  <1>5. CASE task_timer_softirq \/ timerfd_softirq \/ ReapTasks \/ ReapMms \/ Recheck
        BY <1>5 DEF task_timer_softirq, timerfd_softirq, Handler, ReapTasks,
                     ReapMms, Recheck
  <1> QED BY <1>1, <1>2, <1>3, <1>4, <1>5 DEF SoftirqNext, Daemon, sched_check_wakeup,
             timerfd_check_wakeup, task_enqueue_should_free, task_enqueue_mm_free, Kinds

LEMMA RaiseStep ==
    SoftirqTypeOK /\ Places_OK /\ NoLostRaise /\ [SoftirqNext]_softirqVars => NoLostRaise'
  <1> SUFFICES ASSUME SoftirqTypeOK, Places_OK, NoLostRaise, [SoftirqNext]_softirqVars
               PROVE  NoLostRaise'
      OBVIOUS
  <1> USE DEF SoftirqTypeOK, Places, Places_OK, NoLostRaise
  <1>1. CASE UNCHANGED softirqVars
        BY <1>1 DEF softirqVars
  <1>2. ASSUME NEW r \in Raisers, softirq_raise(r) PROVE NoLostRaise'
    <2>1. CASE pending = {}
          BY <1>2, <2>1 DEF softirq_raise
    <2>2. CASE pending # {}
          BY <1>2, <2>2 DEF softirq_raise
    <2> QED BY <2>1, <2>2
  <1>3. ASSUME NEW r \in Raisers, sched_wake_softirqd(r) PROVE NoLostRaise'
        BY <1>3 DEF sched_wake_softirqd, Unblocked
  <1>4. ASSUME NEW r \in Raisers, NEW kind \in Kinds, Queue(r, kind)
        PROVE NoLostRaise'
        BY <1>4 DEF Queue
  <1>5. CASE DaemonPrepare \/ DaemonCheck \/ DaemonCancel \/ DaemonBlock \/ DaemonReturn
        BY <1>5 DEF DaemonPrepare, DaemonCheck, DaemonCancel, DaemonBlock, DaemonReturn
  <1>6. CASE Take \/ Yield \/ task_timer_softirq \/ timerfd_softirq \/ ReapTasks \/ ReapMms \/ Recheck
        BY <1>6 DEF Take, Yield, task_timer_softirq, timerfd_softirq, Handler, ReapTasks,
                     ReapMms, Recheck
  <1> QED BY <1>1, <1>2, <1>3, <1>4, <1>5, <1>6 DEF SoftirqNext, Daemon, RaiserStep, sched_check_wakeup, timerfd_check_wakeup,
             task_enqueue_should_free, task_enqueue_mm_free, Kinds

LEMMA WorkStep ==
    SoftirqTypeOK /\ Places_OK /\ NoForgottenWork /\ [SoftirqNext]_softirqVars => NoForgottenWork'
  <1> DEFINE Raising(k) == \E r \in Raisers : raiser[r] = [todo |-> "raise", id |-> IdOf(k)]
             Covered(k) == \/ IdOf(k) \in pending \cup taken
                           \/ Raising(k)
                           \/ k = "mms" /\ at = "mms"
                           \/ IdOf(k) = "reap" /\ at \in {"mms", "recheck"} /\ reaped > 0
  <1> SUFFICES ASSUME SoftirqTypeOK, Places_OK, NoForgottenWork, [SoftirqNext]_softirqVars,
                      NEW k \in Kinds, work'[k] > 0
               PROVE  Covered(k)'
      BY DEF NoForgottenWork
  <1>0. work[k] > 0 => Covered(k)
        BY DEF NoForgottenWork
  <1> USE SoftirqAssumption DEF SoftirqTypeOK, Places, Places_OK, Ids, Kinds, IdOf
  <1>1. CASE UNCHANGED softirqVars
        BY <1>0, <1>1 DEF softirqVars
  <1>2. ASSUME NEW r \in Raisers, softirq_raise(r) PROVE Covered(k)'
    <2>1. CASE raiser[r].id = IdOf(k)
          BY <1>2, <2>1 DEF softirq_raise
    <2>2. CASE raiser[r].id # IdOf(k)
      <3>1. Raising(k) => Raising(k)'
        <4> SUFFICES ASSUME NEW q \in Raisers,
                            raiser[q] = [todo |-> "raise", id |-> IdOf(k)]
                     PROVE  raiser'[q] = raiser[q]
            OBVIOUS
        <4> QED BY <1>2, <2>2 DEF softirq_raise
      <3> QED BY <1>0, <1>2, <3>1 DEF softirq_raise
    <2> QED BY <2>1, <2>2
  <1>3. ASSUME NEW r \in Raisers, sched_wake_softirqd(r) PROVE Covered(k)'
    <2>1. Raising(k) => Raising(k)'
      <3> SUFFICES ASSUME NEW q \in Raisers,
                          raiser[q] = [todo |-> "raise", id |-> IdOf(k)]
                   PROVE  raiser'[q] = raiser[q]
          OBVIOUS
      <3> QED BY <1>3 DEF sched_wake_softirqd
    <2> QED BY <1>0, <1>3, <2>1 DEF sched_wake_softirqd
  <1>4. ASSUME NEW r \in Raisers, NEW kind \in Kinds, Queue(r, kind)
        PROVE  Covered(k)'
    <2>1. CASE k = kind
          BY <1>4, <2>1 DEF Queue
    <2>2. CASE k # kind
      <3>1. Raising(k) => Raising(k)'
        <4> SUFFICES ASSUME NEW q \in Raisers,
                            raiser[q] = [todo |-> "raise", id |-> IdOf(k)]
                     PROVE  raiser'[q] = raiser[q]
            OBVIOUS
        <4> QED BY <1>4 DEF Queue
      <3> QED BY <1>0, <1>4, <2>2, <3>1 DEF Queue
    <2> QED BY <2>1, <2>2
  <1>5. CASE DaemonPrepare \/ DaemonCheck \/ DaemonCancel \/ DaemonBlock \/ DaemonReturn \/ Take \/ Yield
        BY <1>0, <1>5 DEF DaemonPrepare, DaemonCheck, DaemonCancel, DaemonBlock, DaemonReturn, Take, Yield
  <1>6. CASE task_timer_softirq \/ timerfd_softirq
        BY <1>0, <1>6 DEF task_timer_softirq, timerfd_softirq, Handler, NextId
  <1>7. CASE ReapTasks
        BY <1>0, <1>7 DEF ReapTasks, Handler, NextId, BatchOf
  <1>8. CASE ReapMms
        BY <1>0, <1>8 DEF ReapMms, BatchOf
  <1>9. CASE Recheck
        BY <1>0, <1>9 DEF Recheck
  <1> QED BY <1>1, <1>2, <1>3, <1>4, <1>5, <1>6, <1>7, <1>8, <1>9
          DEF SoftirqNext, Daemon, RaiserStep, sched_check_wakeup, timerfd_check_wakeup,
             task_enqueue_should_free, task_enqueue_mm_free, Kinds

LEMMA InvInit == SoftirqInit => Inv
  BY SoftirqAssumption DEF SoftirqInit, Inv, SoftirqTypeOK, Places, Ids, Kinds, IdOf, Places_OK, NoLostRaise,
     NoForgottenWork

LEMMA InvStep == Inv /\ [SoftirqNext]_softirqVars => Inv'
  BY TypeStep, PlacesStep, RaiseStep, WorkStep DEF Inv

\* The state of the softirq machinery is well typed: in particular no handler
\* takes more items than its list has.
THEOREM TypeCorrect == SoftirqSpec => []SoftirqTypeOK
  BY InvInit, InvStep, PTL DEF SoftirqSpec, Inv

\* softirqd never sleeps on a pending softirq unless the raiser that found the
\* pending word zero is still about to wake it.
THEOREM RaisesAreNotLost == SoftirqSpec => []NoLostRaise
  BY InvInit, InvStep, PTL DEF SoftirqSpec, Inv

\* Work that has been queued for a softirq is always known to somebody who
\* will get it handled, whatever the budgets of a batch.
THEOREM WorkIsNotForgotten == SoftirqSpec => []NoForgottenWork
  BY InvInit, InvStep, PTL DEF SoftirqSpec, Inv

=============================================================================
