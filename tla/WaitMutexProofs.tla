-------------------------- MODULE WaitMutexProofs --------------------------
(***************************************************************************)
(* The safety half of "WaitMutex implements Mutex", for any number of      *)
(* tasks, spinning callers and calls: HolderKnows ties the flag to where   *)
(* the tasks are in their calls.                                           *)
(***************************************************************************)
EXTENDS WaitMutex, TLAPS

\* Only a task between a successful trylock and its unlock is the holder.
HolderKnows ==
    /\ pc \in [Tasks -> {"out", "try", "prepare", "add", "retry", "block", "wait",
                         "remove", "cancel", "in", "wake"}]
    /\ \A t \in Tasks :
          /\ pc[t] = "in" => holder = t
          /\ holder = t => pc[t] \in {"remove", "cancel", "in"}

LEMMA HolderInit == Init => HolderKnows
BY QueueAssumption, MutexAssumption DEF Init, HolderKnows

LEMMA HolderStep == HolderKnows /\ [Next]_vars => HolderKnows'
<1> SUFFICES ASSUME HolderKnows, [Next]_vars PROVE HolderKnows'
  OBVIOUS
<1> USE QueueAssumption, MutexAssumption DEF HolderKnows
<1>1. ASSUME NEW t \in Tasks, Try(t) \/ Retry(t) PROVE HolderKnows'
  BY <1>1 DEF Try, Retry, wait_mutex_trylock, Goto
<1>2. ASSUME NEW t \in Tasks,
             Call(t) \/ Prepare(t) \/ Add(t) \/ Block(t) \/ Return(t) \/ Remove(t)
      PROVE  HolderKnows'
  BY <1>2 DEF Call, Prepare, Add, Block, Return, Remove, Goto
<1>3. ASSUME NEW t \in Tasks, Cancel(t) \/ Unlock(t) \/ Unlocked(t)
      PROVE  HolderKnows'
  BY <1>3 DEF Cancel, Unlock, Unlocked, Goto
<1>4. CASE UNCHANGED <<holder, pc, calls>>
  BY <1>4
<1>5. CASE UNCHANGED vars
  BY <1>5 DEF vars
<1> QED
  BY <1>1, <1>2, <1>3, <1>4, <1>5 DEF Next, TaskStep, Rest

LEMMA HolderInvariance == Spec => []HolderKnows
BY HolderInit, HolderStep, PTL DEF Spec

-----------------------------------------------------------------------------
LEMMA InitRefines == Init => Abstract!Init
BY DEF Init, Abstract!Init, Waiting

\* Every step is a call, an acquisition or a release of the abstract mutex,
\* or leaves it alone.
LEMMA StepRefines == HolderKnows /\ [Next]_vars => [Abstract!Next]_(Abstract!vars)
<1> SUFFICES ASSUME HolderKnows, [Next]_vars PROVE [Abstract!Next]_(Abstract!vars)
  OBVIOUS
<1> USE QueueAssumption, MutexAssumption DEF HolderKnows, Waiting, Abstract!vars
<1>1. ASSUME NEW t \in Tasks, Call(t) PROVE Abstract!Call(t)
  BY <1>1 DEF Call, Goto, Abstract!Call
<1>2. ASSUME NEW t \in Tasks, Try(t) \/ Retry(t)
      PROVE  Abstract!Acquire(t) \/ UNCHANGED Abstract!vars
  BY <1>2 DEF Try, Retry, wait_mutex_trylock, Goto, Abstract!Acquire
<1>3. ASSUME NEW t \in Tasks, Unlock(t) PROVE Abstract!Release(t)
  BY <1>3 DEF Unlock, Goto, Abstract!Release
<1>4. ASSUME NEW t \in Tasks,
             \/ Prepare(t) \/ Add(t) \/ Block(t) \/ Return(t) \/ Remove(t)
             \/ Cancel(t) \/ Unlocked(t)
      PROVE  UNCHANGED Abstract!vars
  BY <1>4 DEF Prepare, Add, Block, Return, Remove, Cancel, Unlocked, Goto
<1>5. CASE UNCHANGED <<holder, pc, calls>> \/ UNCHANGED vars
  BY <1>5 DEF vars
<1> QED
  BY <1>1, <1>2, <1>3, <1>4, <1>5 DEF Next, TaskStep, Rest, Abstract!Next

\* wait_mutex_lock and wait_mutex_unlock grant and release the mutex the way
\* Mutex does: never two holders, never a grant nobody asked for.
THEOREM MutexIsImplemented == Spec => GrantsLikeMutex
BY InitRefines, StepRefines, HolderInvariance, PTL
   DEF Spec, GrantsLikeMutex, Abstract!Safety

=============================================================================
