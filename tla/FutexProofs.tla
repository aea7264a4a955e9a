---------------------------- MODULE FutexProofs ----------------------------
(***************************************************************************)
(* Pairs of bucket locks do not deadlock, for any number of tasks, words   *)
(* and buckets.  The invariant says which buckets a task holds at each     *)
(* place; the argument looks at the highest bucket that is locked.         *)
(***************************************************************************)
EXTENDS Futex, FiniteSetTheorems, WellFoundedInduction, TLAPS

\* Calls on one word, and calls on two.
OnePlaces == {"lock", "check", "wake", "pi", "take", "release"} \cup WaitPlaces
TwoPlaces == {"first", "second", "both", "write", "move"}

\* What the argument needs of the types.
LockTypes ==
    /\ at \in [Tasks -> Places]
    /\ call \in [Tasks -> Calls]
    /\ bucket_id \in [Tasks -> Nat]
    /\ lock \in [Buckets -> Tasks \cup {None}]

\* The buckets a task holds at its place.
Held(t) == CASE at[t] \in {"check", "take"}         -> {Bucket[call[t].a]}
             [] at[t] = "second"                    -> {First(t)}
             [] at[t] \in {"both", "write", "move"} -> Pair(t)
             [] OTHER                               -> {}

\* A call knows its words, and the locks of a task are those of its place.
CallOK(t) ==
    /\ at[t] \in OnePlaces \cup TwoPlaces => call[t].a \in Addrs
    /\ at[t] \in TwoPlaces => call[t].a2 \in Addrs
    /\ at[t] = "second" => Second(t) # First(t)
HoldsOK(t) == \A b \in Buckets : lock[b] = t <=> b \in Held(t)

LockInv == LockTypes /\ \A t \in Tasks : CallOK(t) /\ HoldsOK(t)

-----------------------------------------------------------------------------
(* The order of two buckets.                                               *)

\* The buckets in use are numbers below FUTEX_BUCKET_COUNT.
LEMMA BucketsAreNumbers == /\ Buckets \subseteq Nat
                           /\ \A b \in Buckets : b < FUTEX_BUCKET_COUNT
                           /\ \A a \in Addrs : Bucket[a] \in Buckets
  BY FutexAssumption DEF Buckets

\* A set of numbers with a bound has a greatest one.
LEMMA GreatestOf ==
    ASSUME NEW n \in Nat, NEW S \in SUBSET Nat, \A s \in S : s < n, S # {}
    PROVE  \E s \in S : \A r \in S : r <= s
<1> DEFINE T == {n - s : s \in S}
<1>1. T \subseteq Nat /\ T # {}
  <2>1. \A s \in S : n - s \in Nat
    OBVIOUS
  <2>2. PICK s \in S : TRUE
    BY Zenon
  <2>3. n - s \in T
    BY <2>2
  <2> QED
    BY <2>1, <2>3
<1>2. \E x \in T : \A y \in T : ~(<<y, x>> \in OpToRel(<, Nat))
  BY <1>1, NatLessThanWellFounded, WFMin, Zenon
<1>3. PICK x \in T : \A y \in T : ~(<<y, x>> \in OpToRel(<, Nat))
  BY <1>2, Zenon
<1>4. \A y \in T : ~(y < x)
  BY <1>1, <1>3, Zenon DEF OpToRel
<1>5. PICK s \in S : x = n - s
  OBVIOUS
<1>6. ASSUME NEW r \in S PROVE r <= s
  <2>1. n - r \in T /\ r \in Nat /\ s \in Nat
    OBVIOUS
  <2>2. ~(n - r < n - s)
    BY <1>4, <1>5, <2>1
  <2> QED
    BY <2>1, <2>2
<1> QED
  BY <1>6

\* futex_lock_bucket_pair takes the lower bucket first.
LEMMA PairInOrder ==
    ASSUME NEW t \in Tasks, call[t].a \in Addrs, call[t].a2 \in Addrs
    PROVE  /\ Pair(t) \subseteq Buckets
           /\ Pair(t) = {First(t), Second(t)}
           /\ First(t) <= Second(t)
<1> DEFINE p == Bucket[call[t].a]
           q == Bucket[call[t].a2]
<1>1. p \in Nat /\ q \in Nat /\ p \in Buckets /\ q \in Buckets
  BY BucketsAreNumbers, Zenon
<1>2. Pair(t) = {p, q}
  BY DEF Pair
<1>3. \E b \in Pair(t) : \A c \in Pair(t) : b <= c
  BY <1>1, <1>2
<1>4. First(t) \in Pair(t) /\ \A c \in Pair(t) : First(t) <= c
  BY <1>3 DEF First
<1>5. Second(t) \in Pair(t) /\ Pair(t) = {First(t), Second(t)}
  <2>1. CASE Pair(t) = {First(t)}
    BY <2>1 DEF Second
  <2>2. CASE Pair(t) # {First(t)}
    <3>1. \E b \in Pair(t) : b # First(t)
      BY <2>2, <1>4
    <3>2. Second(t) \in Pair(t) /\ Second(t) # First(t)
      BY <2>2, <3>1 DEF Second
    <3> QED
      BY <3>2, <1>2, <1>4
  <2> QED
    BY <2>1, <2>2
<1> QED
  BY <1>1, <1>2, <1>4, <1>5

-----------------------------------------------------------------------------
\* The task that holds the highest bucket either has all it needs or needs a
\* higher one, which is free.
LEMMA HighestGoesOn == LockInv => NoBucketDeadlock
<1> SUFFICES ASSUME LockInv, \E b \in Buckets : lock[b] # None
             PROVE  \E b \in Buckets : /\ lock[b] # None
                                       /\ at[lock[b]] # "second" \/ Free(Second(lock[b]))
  BY DEF NoBucketDeadlock
<1> DEFINE L == {b \in Buckets : lock[b] # None}
<1>1. PICK b \in L : \A c \in L : c <= b
  <2>1. L \in SUBSET Nat /\ L # {} /\ \A s \in L : s < FUTEX_BUCKET_COUNT
    BY BucketsAreNumbers, Zenon
  <2> QED
    BY <2>1, GreatestOf, FutexAssumption, Zenon
<1>2. CASE at[lock[b]] # "second"
  BY <1>2
<1>3. CASE at[lock[b]] = "second"
  <2> DEFINE t == lock[b]
  <2>1. t \in Tasks /\ call[t].a \in Addrs /\ call[t].a2 \in Addrs
    BY <1>3 DEF LockInv, LockTypes, CallOK, TwoPlaces
  <2>2. /\ Pair(t) \subseteq Buckets /\ Pair(t) = {First(t), Second(t)}
        /\ First(t) <= Second(t)
    BY <2>1, PairInOrder
  <2>3. b = First(t) /\ Held(t) = {First(t)}
    BY <2>1, <1>3 DEF LockInv, HoldsOK, Held
  <2>4. Second(t) \in L => Second(t) = First(t)
    <3>1. First(t) \in Nat /\ Second(t) \in Nat
      BY <2>2, BucketsAreNumbers, Zenon
    <3>2. Second(t) \in L => Second(t) <= First(t)
      BY <1>1, <2>3
    <3> QED
      BY <3>1, <3>2, <2>2
  <2>5. Second(t) # First(t)
    BY <2>1, <1>3 DEF LockInv, CallOK
  <2>6. Free(Second(t))
    BY <2>2, <2>4, <2>5 DEF Free
  <2> QED
    BY <2>6
<1> QED
  BY <1>2, <1>3

-----------------------------------------------------------------------------
(* Steps.                                                                  *)

\* A step of one task: the calls and the places of the others stay, and a
\* bucket changes hands only between the task and nobody.
LEMMA OneTaskMoves ==
    ASSUME LockInv, LockTypes', NEW t \in Tasks,
           \A u \in Tasks \ {t} : at'[u] = at[u] /\ call'[u] = call[u],
           \A b \in Buckets : lock'[b] = lock[b] \/ {lock[b], lock'[b]} \subseteq {t, None},
           CallOK(t)', HoldsOK(t)'
    PROVE  LockInv'
<1> SUFFICES ASSUME NEW u \in Tasks \ {t} PROVE CallOK(u)' /\ HoldsOK(u)'
  BY DEF LockInv
<1>1. at'[u] = at[u] /\ call'[u] = call[u] /\ u # t /\ u # None
  BY FutexAssumption
<1>2. Pair(u)' = Pair(u)
  BY <1>1 DEF Pair
<1>3. First(u)' = First(u)
  BY <1>2 DEF First
<1>4. Second(u)' = Second(u)
  BY <1>2, <1>3 DEF Second
<1>5. Held(u)' = Held(u)
  BY <1>1, <1>2, <1>3 DEF Held
<1>6. CallOK(u)'
  BY <1>1, <1>3, <1>4 DEF LockInv, CallOK
<1>7. HoldsOK(u)'
  <2> SUFFICES ASSUME NEW b \in Buckets PROVE lock'[b] = u <=> b \in Held(u)
    BY <1>5 DEF HoldsOK
  <2>1. lock'[b] = u <=> lock[b] = u
    BY <1>1
  <2> QED
    BY <2>1 DEF LockInv, HoldsOK
<1> QED
  BY <1>6, <1>7

\* A step that changes no lock, between places without locks.
LEMMA QuietStep ==
    ASSUME LockInv, LockTypes', NEW t \in Tasks, UNCHANGED lock,
           \A u \in Tasks \ {t} : at'[u] = at[u] /\ call'[u] = call[u],
           at[t] \notin LockPlaces, at'[t] \notin LockPlaces, CallOK(t)'
    PROVE  LockInv'
<1>1. Held(t) = {} /\ Held(t)' = {}
  BY DEF Held, LockPlaces
<1>2. HoldsOK(t)'
  BY <1>1, Zenon DEF LockInv, HoldsOK
<1> QED
  BY <1>2, OneTaskMoves

\* A step that changes neither places nor calls nor locks.
LEMMA StillStep ==
    ASSUME LockInv, UNCHANGED <<at, call, lock, bucket_id>>
    PROVE  LockInv'
<1>1. \A t \in Tasks : Pair(t)' = Pair(t) /\ First(t)' = First(t) /\ Second(t)' = Second(t)
  BY DEF Pair, First, Second
<1>2. \A t \in Tasks : Held(t)' = Held(t)
  BY <1>1 DEF Held
<1> QED
  BY <1>1, <1>2 DEF LockInv, LockTypes, CallOK, HoldsOK

\* The task goes to a place without locks.
LEMMA QuietMove ==
    ASSUME LockInv, NEW t \in Tasks, NEW p \in Places \ LockPlaces, NEW c \in Calls,
           at' = [at EXCEPT ![t] = p], call' = [call EXCEPT ![t] = c],
           UNCHANGED lock, bucket_id' \in [Tasks -> Nat], at[t] \notin LockPlaces,
           p \in OnePlaces \cup TwoPlaces => c.a \in Addrs,
           p \in TwoPlaces => c.a2 \in Addrs
    PROVE  LockInv'
<1>1. LockTypes'
  BY Zenon DEF LockInv, LockTypes
<1>2. at'[t] = p /\ call'[t] = c
  BY DEF LockInv, LockTypes
<1>3. CallOK(t)'
  BY <1>2 DEF CallOK, LockPlaces
<1>4. \A u \in Tasks \ {t} : at'[u] = at[u] /\ call'[u] = call[u]
  BY DEF LockInv, LockTypes
<1> QED
  BY <1>1, <1>2, <1>3, <1>4, QuietStep, Zenon

\* A task that enters a call holds no bucket yet.
LEMMA EnterStep ==
    ASSUME LockInv, NEW t \in Tasks, NEW op \in OpNames, NEW args \in Calls,
           NEW place \in {"lock", "wake", "first", "pi", "release"},
           Enter(t, op, place, args), UNCHANGED <<lock, bucket_id>>,
           args.a \in Addrs, place = "first" => args.a2 \in Addrs
    PROVE  LockInv'
<1> DEFINE c == [args EXCEPT !.op = op]
<1>1. c \in Calls /\ c.a = args.a /\ c.a2 = args.a2
  BY DEF Calls
<1>2. at' = [at EXCEPT ![t] = place] /\ call' = [call EXCEPT ![t] = c]
      /\ at[t] \notin LockPlaces
  BY DEF Enter, LockPlaces
<1>3. place \in Places \ LockPlaces /\ (place \in TwoPlaces => place = "first")
  BY DEF Places, LockPlaces, TwoPlaces
<1>4. bucket_id' \in [Tasks -> Nat]
  BY Zenon DEF LockInv, LockTypes
<1> HIDE DEF c
<1> QED
  BY <1>1, <1>2, <1>3, <1>4, QuietMove, Zenon

\* A system call begins.
LEMMA UserStepKeeps ==
    ASSUME LockInv, NEW t \in Tasks, UserStep(t)
    PROVE  LockInv'
<1>0. All \in Nat /\ AllBits \in SUBSET AllBits /\ \A m \in BitSets : m \in SUBSET AllBits
  BY FutexAssumption, FS_CardinalityType, Zenon DEF All, AllBits
<1>1. ASSUME NEW op \in {"wait", "timed"}, NEW a \in Words, NEW v \in Vals,
             NEW m \in SUBSET AllBits, WaitCall(t, op, a, v, m)
      PROVE  LockInv'
  <2> DEFINE args == [NoCall EXCEPT !.a = a, !.val = v, !.bits = m]
  <2>1. args \in Calls /\ args.a \in Addrs
    BY Zenon DEF Calls, NoCall, Addrs, Results, Vals
  <2>2. Enter(t, op, "lock", args) /\ UNCHANGED <<lock, bucket_id>> /\ op \in OpNames
    BY <1>1 DEF WaitCall, chainVars, OpNames
  <2> HIDE DEF args
  <2> QED
    BY <2>1, <2>2, EnterStep, Zenon
<1>2. ASSUME NEW a \in Words, NEW nr \in Counts, NEW m \in BitSets, WakeCall(t, a, nr, m)
      PROVE  LockInv'
  <2> DEFINE args == [NoCall EXCEPT !.a = a, !.nr = nr, !.bits = m]
  <2>1. args \in Calls /\ args.a \in Addrs
    BY <1>0, FutexAssumption, Zenon DEF Calls, NoCall, Addrs, Results, Vals
  <2>2. /\ Enter(t, "wake", "wake", args) /\ UNCHANGED <<lock, bucket_id>>
        /\ "wake" \in OpNames
    BY <1>2 DEF WakeCall, chainVars, OpNames
  <2> HIDE DEF args
  <2> QED
    BY <2>1, <2>2, EnterStep
<1>3. ASSUME NEW a \in Events, Store(t, a) \/ futex_on_exit_task(t, a)
      PROVE  LockInv'
  <2> DEFINE args == [NoCall EXCEPT !.a = a, !.nr = All, !.bits = AllBits]
  <2>1. args \in Calls /\ args.a \in Addrs
    BY <1>0, Zenon DEF Calls, NoCall, Addrs, Words, Results, Vals
  <2>2. UNCHANGED <<lock, bucket_id>> /\ {"store", "exit"} \subseteq OpNames
    BY <1>3 DEF Store, futex_on_exit_task, chainVars, OpNames
  <2>3. Enter(t, "store", "wake", args) \/ Enter(t, "exit", "wake", args)
    BY <1>3 DEF Store, futex_on_exit_task
  <2> HIDE DEF args
  <2> QED
    BY <2>1, <2>2, <2>3, EnterStep, Zenon
<1>4. ASSUME NEW op \in {"wakeop", "requeue", "cmprequeue"}, NEW a \in Words,
             NEW a2 \in Words, NEW v \in Vals, NEW nr \in Counts, NEW nr2 \in Counts,
             PairCall(t, op, a, a2, v, nr, nr2)
      PROVE  LockInv'
  <2> DEFINE args == [NoCall EXCEPT !.a = a, !.a2 = a2, !.val = v, !.nr = nr, !.nr2 = nr2]
  <2>1. args \in Calls /\ args.a \in Addrs /\ args.a2 \in Addrs
    BY FutexAssumption, Zenon DEF Calls, NoCall, Addrs, Results
  <2>2. Enter(t, op, "first", args) /\ UNCHANGED <<lock, bucket_id>> /\ op \in OpNames
    BY <1>4 DEF PairCall, chainVars, OpNames
  <2> HIDE DEF args
  <2> QED
    BY <2>1, <2>2, EnterStep
<1>5. ASSUME NEW l \in Locks, NEW op \in {"lockpi", "timedpi"}, PiCall(t, op, l)
      PROVE  LockInv'
  <2> DEFINE args == [NoCall EXCEPT !.a = l, !.bits = AllBits]
  <2>1. args \in Calls /\ args.a \in Addrs
    BY <1>0, Zenon DEF Calls, NoCall, Addrs, Results, Vals
  <2>2. Enter(t, op, "pi", args) /\ UNCHANGED <<lock, bucket_id>> /\ op \in OpNames
    BY <1>5 DEF PiCall, chainVars, OpNames
  <2> HIDE DEF args
  <2> QED
    BY <2>1, <2>2, EnterStep
<1>6. ASSUME NEW l \in Locks, UnlockCall(t, l)
      PROVE  LockInv'
  <2> DEFINE args == [NoCall EXCEPT !.a = l]
  <2>1. args \in Calls /\ args.a \in Addrs
    BY DEF Calls, NoCall, Addrs, Results, Vals
  <2>2. /\ Enter(t, "unlockpi", "release", args)
        /\ UNCHANGED <<lock, bucket_id>> /\ "unlockpi" \in OpNames
    BY <1>6 DEF UnlockCall, chainVars, OpNames
  <2> HIDE DEF args
  <2> QED
    BY <2>1, <2>2, EnterStep
<1>7. Events \subseteq Words /\ OpWords \subseteq Words /\ 0 \in Vals
  BY DEF Words, Vals
<1> QED
  BY <1>0, <1>1, <1>2, <1>3, <1>4, <1>5, <1>6, <1>7, Zenon DEF UserStep

\* The changes a call makes to its locals.
LEMMA CallChanges ==
    ASSUME NEW c \in Calls
    PROVE  /\ NoCall \in Calls
           /\ \A r \in Results : /\ [c EXCEPT !.res = r] \in Calls
                                 /\ [c EXCEPT !.res = r].a = c.a
           /\ \A n \in Nat : /\ [c EXCEPT !.b = n] \in Calls
                             /\ [c EXCEPT !.b = n].a = c.a
           /\ [c EXCEPT !.b = 0, !.res = "none"] \in Calls
           /\ [c EXCEPT !.b = 0, !.res = "none"].a = c.a
<1>1. NoCall \in Calls
  BY DEF Calls, NoCall, Results, Vals
<1>2. ASSUME NEW d \in Calls, NEW r \in Results
      PROVE  [d EXCEPT !.res = r] \in Calls /\ [d EXCEPT !.res = r].a = d.a
  BY DEF Calls
<1>3. ASSUME NEW n \in Nat
      PROVE  [c EXCEPT !.b = n] \in Calls /\ [c EXCEPT !.b = n].a = c.a
  BY DEF Calls
<1>4. [c EXCEPT !.b = 0, !.res = "none"] = [[c EXCEPT !.b = 0] EXCEPT !.res = "none"]
  BY DEF Calls
<1>5. 0 \in Nat /\ "none" \in Results
  BY DEF Results
<1>6. [c EXCEPT !.b = 0] \in Calls /\ [c EXCEPT !.b = 0].a = c.a
  BY <1>3, <1>5
<1>7. /\ [c EXCEPT !.b = 0, !.res = "none"] \in Calls
      /\ [c EXCEPT !.b = 0, !.res = "none"].a = c.a
  BY <1>2, <1>4, <1>5, <1>6, Zenon
<1> QED
  BY <1>1, <1>2, <1>3, <1>7, Zenon

\* A call that locks no bucket over several steps, or returns.
LEMMA QuietKeeps ==
    ASSUME LockInv, NEW t \in Tasks,
           \/ Poll(t) \/ PollLock(t) \/ Test(t) \/ Block(t) \/ Awake(t) \/ Prepare(t)
           \/ Leave(t) \/ LeaveLock(t) \/ sys_futex_wake_key(t) \/ PiRelease(t)
    PROVE  LockInv'
<1>0. /\ NoCall \in Calls /\ call[t] \in Calls /\ call = [call EXCEPT ![t] = call[t]]
      /\ \A r \in Results : /\ [call[t] EXCEPT !.res = r] \in Calls
                            /\ [call[t] EXCEPT !.res = r].a = call[t].a
      /\ \A n \in Nat : /\ [call[t] EXCEPT !.b = n] \in Calls
                        /\ [call[t] EXCEPT !.b = n].a = call[t].a
      /\ [call[t] EXCEPT !.b = 0, !.res = "none"] \in Calls
      /\ [call[t] EXCEPT !.b = 0, !.res = "none"].a = call[t].a
  <2>1. call \in [Tasks -> Calls]
    BY DEF LockInv, LockTypes
  <2>2. call[t] \in Calls /\ call = [call EXCEPT ![t] = call[t]]
    BY <2>1
  <2> QED
    BY <2>2, CallChanges, Zenon
<1> USE DEF LockInv, LockTypes
<1>a. at[t] \in WaitPlaces => call[t].a \in Addrs
  BY DEF CallOK, OnePlaces
<1> DEFINE Quiet(p, c) ==
        /\ p \in Places \ LockPlaces /\ c \in Calls
        /\ at' = [at EXCEPT ![t] = p] /\ call' = [call EXCEPT ![t] = c]
        /\ p \in OnePlaces \cup TwoPlaces => p \notin TwoPlaces /\ c.a \in Addrs
<1>1. ASSUME NEW p, NEW c, Quiet(p, c), UNCHANGED lock, bucket_id' \in [Tasks -> Nat],
             at[t] \notin LockPlaces
      PROVE  LockInv'
  BY <1>1, QuietMove, Zenon
<1>2. ASSUME NEW r, Return(t, r) PROVE \E p : Quiet(p, NoCall)
  <2> DEFINE p == IF r = "ok" THEN "user" ELSE "failed"
  <2>1. Quiet(p, NoCall)
    BY <1>2, <1>0 DEF Return, Places, LockPlaces, OnePlaces, TwoPlaces, WaitPlaces
  <2> QED
    BY <2>1, Zenon
<1>3. CASE Poll(t) \/ Leave(t)
  <2>1. bucket_id[t] \in Nat /\ UNCHANGED <<lock, bucket_id>> /\ at[t] \notin LockPlaces
    BY <1>3 DEF Poll, Leave, ReadBucket, Goto, chainVars, LockPlaces
  <2>2. Quiet("polllock", [call[t] EXCEPT !.b = bucket_id[t]])
        \/ Quiet("leavelock", [call[t] EXCEPT !.b = bucket_id[t]])
    BY <1>3, <1>0, <1>a, <2>1 DEF Poll, Leave, ReadBucket, Goto, Places, LockPlaces,
                                  OnePlaces, TwoPlaces, WaitPlaces
  <2> HIDE DEF Quiet
  <2> QED
    BY <1>1, <2>1, <2>2
<1>4. CASE Test(t) \/ Block(t) \/ Awake(t) \/ Prepare(t)
  <2>1. UNCHANGED <<lock, bucket_id>> /\ at[t] \notin LockPlaces
    BY <1>4, Zenon DEF Test, Block, Awake, Prepare, GiveUp, Goto, chainVars, LockPlaces
  <2>2. \E p, c : Quiet(p, c)
    <3>1. ASSUME NEW from \in {"test", "sleep"}, NEW r \in Results, GiveUp(t, from, r)
          PROVE  Quiet("leave", [call[t] EXCEPT !.res = r])
      BY <3>1, <1>0, <1>a, Zenon DEF GiveUp, Goto, Places, LockPlaces, OnePlaces, TwoPlaces,
                              WaitPlaces
    <3>2. ASSUME NEW from \in {"test", "block", "sleep", "prepare"},
                 NEW to \in {"block", "sleep", "prepare", "poll"},
                 Goto(t, from, to), UNCHANGED call
          PROVE  Quiet(to, call[t])
      BY <3>2, <1>0, <1>a, Zenon DEF Goto, Places, LockPlaces, OnePlaces, TwoPlaces,
                              WaitPlaces
    <3>3. {"EINTR", "ETIMEDOUT"} \subseteq Results
      BY DEF Results
    <3> HIDE DEF Quiet
    <3>4. CASE Test(t)
      BY <3>1, <3>2, <3>3, <3>4, Zenon DEF Test
    <3>5. CASE Block(t) \/ Prepare(t)
      BY <3>2, <3>5 DEF Block, Prepare
    <3>6. CASE Awake(t)
      BY <3>1, <3>2, <3>3, <3>6, Zenon DEF Awake
    <3> QED
      BY <1>4, <3>4, <3>5, <3>6, Zenon
  <2> HIDE DEF Quiet
  <2> QED
    BY <1>1, <2>1, <2>2, Zenon
<1>5. ASSUME NEW r, Leaves(t, r), at[t] \in {"polllock", "leavelock"}, UNCHANGED lock
      PROVE  LockInv'
  <2>1. bucket_id' \in [Tasks -> Nat] /\ at[t] \notin LockPlaces
    BY <1>5, Zenon DEF Leaves, Forget, LockPlaces
  <2>2. CASE IsPi(t) /\ r = "ok"
    <3>1. call[t].a \in Addrs
      BY <1>5, <1>a, Zenon DEF WaitPlaces
    <3>2. Quiet("pi", [call[t] EXCEPT !.b = 0, !.res = "none"])
      BY <1>5, <2>2, <1>0, <3>1, Zenon DEF Leaves, Places, LockPlaces, OnePlaces, TwoPlaces,
                                      WaitPlaces
    <3> HIDE DEF Quiet
    <3> QED
      BY <1>1, <1>5, <2>1, <3>2, Zenon
  <2>3. CASE ~(IsPi(t) /\ r = "ok")
    <3>1. Return(t, r)
      BY <1>5, <2>3 DEF Leaves
    <3> HIDE DEF Quiet
    <3> QED
      BY <1>1, <1>2, <1>5, <2>1, <3>1
  <2> QED
    BY <2>2, <2>3
<1>6. CASE PollLock(t) \/ LeaveLock(t)
  <2>1. at[t] \in {"polllock", "leavelock"} /\ UNCHANGED lock
    BY <1>6 DEF PollLock, LeaveLock
  <2>2. ASSUME NEW from \in {"polllock", "leavelock"}, NEW to \in {"poll", "test", "leave"},
               Goto(t, from, to),
               UNCHANGED <<chainVars, call>>
        PROVE  LockInv'
    <3>1. Quiet(to, call[t])
      BY <2>2, <1>0, <1>a DEF Goto, Places, LockPlaces, OnePlaces, TwoPlaces, WaitPlaces
    <3>2. bucket_id' \in [Tasks -> Nat] /\ at[t] \notin LockPlaces
      BY <2>1, <2>2 DEF chainVars, LockPlaces
    <3> HIDE DEF Quiet
    <3> QED
      BY <1>1, <2>1, <3>1, <3>2
  <2> HIDE DEF LockInv, LockTypes
  <2>3. CASE PollLock(t)
    <3>1. \/ Leaves(t, "ok")
          \/ /\ Goto(t, "polllock", "poll") \/ Goto(t, "polllock", "test")
             /\ UNCHANGED <<chainVars, call>>
      BY <2>3 DEF PollLock
    <3> QED
      BY <1>5, <2>1, <2>2, <3>1
  <2>4. CASE LeaveLock(t)
    BY <1>5, <2>1, <2>2, <2>4 DEF LeaveLock
  <2> QED
    BY <1>6, <2>3, <2>4
<1>7. CASE sys_futex_wake_key(t)
  <2> DEFINE p == IF call[t].op = "exit" THEN "dead" ELSE "user"
  <2>1. Quiet(p, NoCall)
    BY <1>7, <1>0 DEF sys_futex_wake_key, Places, LockPlaces, OnePlaces, TwoPlaces,
                       WaitPlaces
  <2>2. bucket_id' \in [Tasks -> Nat] /\ at[t] \notin LockPlaces /\ UNCHANGED lock
    BY <1>7, Zenon DEF sys_futex_wake_key, LockPlaces
  <2> HIDE DEF Quiet
  <2> QED
    BY <1>1, <2>1, <2>2
<1>8. CASE PiRelease(t)
  <2>1. bucket_id' \in [Tasks -> Nat] /\ at[t] \notin LockPlaces /\ UNCHANGED lock
    BY <1>8, Zenon DEF PiRelease, LockPlaces
  <2>2. Return(t, "ok")
    BY <1>8, Zenon DEF PiRelease
  <2> HIDE DEF Quiet
  <2> QED
    BY <1>1, <1>2, <2>1, <2>2, Zenon
<1> QED
  BY <1>3, <1>4, <1>6, <1>7, <1>8

-----------------------------------------------------------------------------
(* Steps that lock and unlock.                                             *)

\* One bucket is locked (FUTEX_WAIT and FUTEX_LOCK_PI).
LEMMA TakeBucket ==
    ASSUME LockInv, NEW t \in Tasks, NEW p \in {"check", "take"}, NEW b, b = Bucket[call[t].a],
           at[t] \in {"lock", "pi"}, at' = [at EXCEPT ![t] = p], UNCHANGED <<call, bucket_id>>,
           Free(b), lock' = [lock EXCEPT ![b] = t]
    PROVE  LockInv'
<1> USE DEF LockInv, LockTypes
<1>1. call[t].a \in Addrs /\ b \in Buckets
  BY BucketsAreNumbers, Zenon DEF CallOK, OnePlaces
<1>2. LockTypes'
  BY <1>1, Zenon DEF Places
<1>3. at'[t] = p /\ call'[t] = call[t] /\ Held(t) = {} /\ Held(t)' = {b}
  BY Zenon DEF Held
<1>4. CallOK(t)'
  BY <1>1, <1>3, Zenon DEF CallOK, TwoPlaces
<1>5. HoldsOK(t)'
  BY <1>1, <1>3, FutexAssumption DEF HoldsOK
<1>6. \A c \in Buckets : lock'[c] = lock[c] \/ {lock[c], lock'[c]} \subseteq {t, None}
  BY <1>1, Zenon DEF Free
<1>7. \A u \in Tasks \ {t} : at'[u] = at[u] /\ call'[u] = call[u]
  BY Zenon
<1> QED
  BY <1>2, <1>4, <1>5, <1>6, <1>7, OneTaskMoves, Zenon

\* All that a task holds is unlocked at once.
LEMMA DropAll ==
    ASSUME LockInv, NEW t \in Tasks, NEW p \in Places \ LockPlaces, NEW c \in Calls,
           at' = [at EXCEPT ![t] = p], call' = [call EXCEPT ![t] = c],
           bucket_id' \in [Tasks -> Nat],
           lock' = [b \in Buckets |-> IF b \in Held(t) THEN None ELSE lock[b]],
           p \in OnePlaces => c.a \in Addrs, p \notin TwoPlaces
    PROVE  LockInv'
<1> USE DEF LockInv, LockTypes
<1>1. LockTypes'
  BY Zenon
<1>2. at'[t] = p /\ call'[t] = c
  OBVIOUS
<1>3. Held(t)' = {}
  BY <1>2 DEF Held, LockPlaces
<1>4. CallOK(t)'
  BY <1>2 DEF CallOK, TwoPlaces
<1>5. HoldsOK(t)'
  BY <1>3, FutexAssumption DEF HoldsOK
<1>6. \A b \in Buckets : lock'[b] = lock[b] \/ {lock[b], lock'[b]} \subseteq {t, None}
  BY DEF HoldsOK
<1>7. \A u \in Tasks \ {t} : at'[u] = at[u] /\ call'[u] = call[u]
  OBVIOUS
<1> QED
  BY <1>1, <1>4, <1>5, <1>6, <1>7, OneTaskMoves, Zenon

\* FUTEX_WAIT, FUTEX_LOCK_PI and their single bucket.
LEMMA OneBucketKeeps ==
    ASSUME LockInv, NEW t \in Tasks, WaitLock(t) \/ WaitEnqueue(t) \/ PiLock(t) \/ PiTake(t)
    PROVE  LockInv'
<1>t. /\ at \in [Tasks -> Places] /\ call \in [Tasks -> Calls]
      /\ bucket_id \in [Tasks -> Nat] /\ lock \in [Buckets -> Tasks \cup {None}]
      /\ CallOK(t) /\ HoldsOK(t)
  BY DEF LockInv, LockTypes
<1> DEFINE b == Bucket[call[t].a]
<1>0. NoCall \in Calls /\ call[t] \in Calls /\ call = [call EXCEPT ![t] = call[t]]
  BY <1>t DEF Calls, NoCall, Results, Vals
<1>1. ASSUME NEW r, Return(t, r)
      PROVE  \E p \in {"user", "failed"} : /\ at' = [at EXCEPT ![t] = p]
                                          /\ call' = [call EXCEPT ![t] = NoCall]
  BY <1>1, Zenon DEF Return
<1>2. /\ {"user", "failed", "poll"} \subseteq Places \ LockPlaces
      /\ {"user", "failed"} \cap OnePlaces = {}
      /\ {"user", "failed", "poll"} \cap TwoPlaces = {}
  BY DEF Places, LockPlaces, OnePlaces, TwoPlaces, WaitPlaces
<1>3. at[t] \in {"check", "take"} => Held(t) = {b} /\ call[t].a \in Addrs /\ b \in Buckets
  BY <1>t, BucketsAreNumbers DEF Held, CallOK, OnePlaces
<1>4. CASE WaitLock(t)
  <2>1. at[t] = "lock" /\ Free(b) /\ UNCHANGED bucket_id
    BY <1>4 DEF WaitLock, chainVars
  <2>0. IF word[call[t].a] = call[t].val
        THEN /\ Goto(t, "lock", "check") /\ lock' = [lock EXCEPT ![b] = t]
             /\ UNCHANGED call
        ELSE Return(t, "EAGAIN") /\ UNCHANGED lock
    BY <1>4, Zenon DEF WaitLock
  <2>2. CASE word[call[t].a] = call[t].val
    <3>1. /\ at' = [at EXCEPT ![t] = "check"] /\ UNCHANGED call
          /\ lock' = [lock EXCEPT ![b] = t]
      BY <2>0, <2>2, ZenonT(60) DEF Goto
    <3> QED
      BY <2>1, <3>1, TakeBucket, Zenon
  <2>3. CASE word[call[t].a] # call[t].val
    <3>1. Return(t, "EAGAIN") /\ UNCHANGED lock
      BY <2>0, <2>3, Zenon
    <3>2. at[t] \notin LockPlaces
      BY <2>1 DEF LockPlaces
    <3> QED
      BY <1>t, <1>0, <1>1, <1>2, <2>1, <3>1, <3>2, QuietMove
  <2> QED
    BY <2>2, <2>3, Zenon
<1>5. CASE PiLock(t)
  <2>1. /\ at[t] = "pi" /\ Free(b) /\ UNCHANGED <<bucket_id, call>>
        /\ lock' = [lock EXCEPT ![b] = t]
    BY <1>5 DEF PiLock, chainVars
  <2>2. \E p \in {"check", "take"} : at' = [at EXCEPT ![t] = p]
    BY <1>5, Zenon DEF PiLock, Goto
  <2> QED
    BY <2>1, <2>2, TakeBucket, ZenonT(60)
<1>6. ASSUME at[t] \in {"check", "take"}, lock' = [lock EXCEPT ![b] = None]
      PROVE  lock' = [c \in Buckets |-> IF c \in Held(t) THEN None ELSE lock[c]]
  BY <1>t, <1>3, <1>6, Zenon
<1>a. ASSUME NEW r, Return(t, r), at[t] \in {"check", "take"}, UNCHANGED bucket_id,
             lock' = [lock EXCEPT ![b] = None]
      PROVE  LockInv'
  <2>1. PICK p \in {"user", "failed"} : /\ at' = [at EXCEPT ![t] = p]
                                        /\ call' = [call EXCEPT ![t] = NoCall]
    BY <1>1, <1>a
  <2>2. p \in Places \ LockPlaces /\ p \notin OnePlaces /\ p \notin TwoPlaces
    BY <1>2
  <2>3. lock' = [c \in Buckets |-> IF c \in Held(t) THEN None ELSE lock[c]]
    BY <1>6, <1>a
  <2>4. bucket_id' \in [Tasks -> Nat]
    BY <1>t, <1>a
  <2> QED
    BY <1>0, <2>1, <2>2, <2>3, <2>4, DropAll, ZenonT(60)
<1>7. CASE WaitEnqueue(t)
  <2>1. at[t] = "check" /\ lock' = [lock EXCEPT ![b] = None]
    BY <1>7, Zenon DEF WaitEnqueue
  <2>2. ASSUME NEW r, Return(t, r), UNCHANGED chainVars PROVE LockInv'
    <3>1. UNCHANGED bucket_id
      BY <2>2, Zenon DEF chainVars
    <3> QED
      BY <1>a, <2>1, <2>2, <3>1, Zenon
  <2>3. ASSUME Goto(t, "check", "poll"), bucket_id' = [bucket_id EXCEPT ![t] = b],
               UNCHANGED call
        PROVE  LockInv'
    <3>1. at' = [at EXCEPT ![t] = "poll"] /\ call' = [call EXCEPT ![t] = call[t]]
      BY <1>0, <2>3 DEF Goto
    <3>2. bucket_id' \in [Tasks -> Nat]
      BY <1>t, <1>3, <2>1, <2>3, BucketsAreNumbers, ZenonT(60)
    <3> QED
      BY <1>0, <1>2, <1>3, <1>6, <2>1, <3>1, <3>2, DropAll, ZenonT(60)
  <2> QED
    BY <1>7, <2>2, <2>3, Zenon DEF WaitEnqueue
<1>8. CASE PiTake(t)
  <2>1. /\ at[t] = "take" /\ lock' = [lock EXCEPT ![b] = None] /\ Return(t, "ok")
        /\ UNCHANGED bucket_id
    BY <1>8, Zenon DEF PiTake, chainVars
  <2> QED
    BY <1>a, <2>1
<1> QED
  BY <1>4, <1>5, <1>7, <1>8

\* FUTEX_WAKE_OP and the requeues with their two buckets.
LEMMA TwoBucketsKeep ==
    ASSUME LockInv, NEW t \in Tasks,
           LockFirst(t) \/ LockSecond(t) \/ OpRead(t) \/ OpWrite(t) \/ RequeueCheck(t)
           \/ RequeueMove(t)
    PROVE  LockInv'
<1>t. /\ at \in [Tasks -> Places] /\ call \in [Tasks -> Calls]
      /\ bucket_id \in [Tasks -> Nat] /\ lock \in [Buckets -> Tasks \cup {None}]
      /\ CallOK(t) /\ HoldsOK(t)
  BY Zenon DEF LockInv, LockTypes
<1>0. NoCall \in Calls /\ call[t] \in Calls
  BY <1>t, Zenon DEF Calls, NoCall, Results, Vals
<1>1. at[t] \in TwoPlaces /\ call[t].a \in Addrs /\ call[t].a2 \in Addrs
  <2>1. at[t] \in TwoPlaces
    BY Zenon DEF LockFirst, LockSecond, OpRead, OpWrite, RequeueCheck, RequeueMove, Goto,
           TwoPlaces
  <2> QED
    BY <1>t, <2>1, Zenon DEF CallOK
<1>2. Pair(t) \subseteq Buckets /\ Pair(t) = {First(t), Second(t)} /\ First(t) <= Second(t)
  BY <1>1, PairInOrder, Zenon
<1>3. ASSUME call'[t].a = call[t].a, call'[t].a2 = call[t].a2
      PROVE  Pair(t)' = Pair(t) /\ First(t)' = First(t) /\ Second(t)' = Second(t)
  <2>1. Pair(t)' = Pair(t)
    BY <1>3, Zenon DEF Pair
  <2>2. First(t)' = First(t)
    BY <2>1, Zenon DEF First
  <2> QED
    BY <2>1, <2>2 DEF Second
<1>4. ASSUME NEW b \in Buckets, NEW p \in {"second", "both"}, Free(b), UNCHANGED call,
             UNCHANGED bucket_id, at' = [at EXCEPT ![t] = p], lock' = [lock EXCEPT ![b] = t],
             Held(t)' = Held(t) \cup {b}, p = "second" => Second(t) # First(t)
      PROVE  LockInv'
  <2>1. LockTypes'
    BY <1>t, <1>4, Zenon DEF LockTypes, Places
  <2>2. CallOK(t)'
    BY <1>t, <1>1, <1>3, <1>4, Zenon DEF CallOK
  <2>3. HoldsOK(t)'
    BY <1>t, <1>4, Zenon DEF HoldsOK
  <2>4. \A c \in Buckets : lock'[c] = lock[c] \/ {lock[c], lock'[c]} \subseteq {t, None}
    BY <1>t, <1>4, Zenon DEF Free
  <2>5. \A u \in Tasks \ {t} : at'[u] = at[u] /\ call'[u] = call[u]
    BY <1>t, <1>4, Zenon
  <2> QED
    BY <2>1, <2>2, <2>3, <2>4, <2>5, OneTaskMoves, Zenon
<1>5. CASE LockFirst(t)
  <2> DEFINE p == IF Second(t) = First(t) THEN "both" ELSE "second"
  <2>1. /\ at[t] = "first" /\ Free(First(t)) /\ UNCHANGED <<call, bucket_id>>
        /\ at' = [at EXCEPT ![t] = p] /\ lock' = [lock EXCEPT ![First(t)] = t]
    BY <1>5 DEF LockFirst, Goto, chainVars
  <2>2. at'[t] = p /\ Held(t) = {} /\ Held(t)' = {First(t)}
    BY <1>t, <1>2, <1>3, <2>1 DEF Held
  <2> QED
    BY <1>2, <1>4, <2>1, <2>2, Zenon
<1>6. CASE LockSecond(t)
  <2>1. /\ at[t] = "second" /\ Free(Second(t)) /\ UNCHANGED <<call, bucket_id>>
        /\ at' = [at EXCEPT ![t] = "both"] /\ lock' = [lock EXCEPT ![Second(t)] = t]
    BY <1>6 DEF LockSecond, Goto, chainVars
  <2>2. at'[t] = "both" /\ Held(t) = {First(t)} /\ Held(t)' = Pair(t)
    BY <1>t, <1>3, <2>1 DEF Held
  <2> QED
    BY <1>2, <1>4, <2>1, <2>2, Zenon
<1>7. ASSUME NEW p \in {"write", "move"}, NEW c \in Calls, at[t] = "both",
             c.a = call[t].a, c.a2 = call[t].a2, at' = [at EXCEPT ![t] = p],
             call' = [call EXCEPT ![t] = c], UNCHANGED <<lock, bucket_id>>
      PROVE  LockInv'
  <2>1. LockTypes' /\ at'[t] = p /\ call'[t] = c
    BY <1>t, <1>7, Zenon DEF LockTypes, Places
  <2>2. CallOK(t)'
    BY <1>1, <1>7, <2>1, Zenon DEF CallOK
  <2>3. Held(t) = Pair(t) /\ Held(t)' = Pair(t)
    BY <1>t, <1>3, <1>7, <2>1, Zenon DEF Held
  <2>4. HoldsOK(t)'
    BY <1>t, <1>7, <2>3, Zenon DEF HoldsOK
  <2>5. \A u \in Tasks \ {t} : at'[u] = at[u] /\ call'[u] = call[u]
    BY <1>t, <1>7, Zenon
  <2> QED
    BY <1>7, <2>1, <2>2, <2>4, <2>5, OneTaskMoves
<1>8. ASSUME NEW r, at[t] \in {"both", "write", "move"}, UnlockPair(t), Return(t, r),
             bucket_id' \in [Tasks -> Nat]
      PROVE  LockInv'
  <2> DEFINE p == IF r = "ok" THEN "user" ELSE "failed"
  <2>1. at' = [at EXCEPT ![t] = p] /\ call' = [call EXCEPT ![t] = NoCall]
    BY <1>8 DEF Return
  <2>2. lock' = [b \in Buckets |-> IF b \in Held(t) THEN None ELSE lock[b]]
    BY <1>t, <1>8 DEF UnlockPair, Held
  <2>3. p \in Places \ LockPlaces /\ p \notin OnePlaces \cup TwoPlaces
    BY DEF Places, LockPlaces, OnePlaces, TwoPlaces, WaitPlaces
  <2> HIDE DEF p
  <2> QED
    BY <1>0, <1>8, <2>1, <2>2, <2>3, DropAll, ZenonT(60)
<1>9. CASE OpRead(t)
  <2> DEFINE n == IF word[call[t].a2] = call[t].val THEN call[t].nr2 ELSE 0
             c == [call[t] EXCEPT !.nr2 = n]
  <2>1. c \in Calls /\ c.a = call[t].a /\ c.a2 = call[t].a2
    BY <1>0 DEF Calls
  <2>2. /\ at[t] = "both" /\ at' = [at EXCEPT ![t] = "write"]
        /\ call' = [call EXCEPT ![t] = c] /\ UNCHANGED <<lock, bucket_id>>
    BY <1>9 DEF OpRead, Goto, chainVars
  <2> HIDE DEF c
  <2> QED
    BY <1>7, <2>1, <2>2, Zenon
<1>10. CASE OpWrite(t)
  <2>1. at[t] = "write" /\ UnlockPair(t) /\ Return(t, "ok") /\ UNCHANGED bucket_id
    BY <1>10, Zenon DEF OpWrite
  <2> QED
    BY <1>t, <1>8, <2>1
<1>11. CASE RequeueCheck(t)
  <2>1. at[t] = "both" /\ UNCHANGED bucket_id
    BY <1>11, Zenon DEF RequeueCheck, Goto, chainVars
  <2>2. CASE call[t].op = "requeue" \/ word[call[t].a] = call[t].val
    <3>1. at' = [at EXCEPT ![t] = "move"] /\ UNCHANGED <<lock, call>>
      BY <1>11, <2>2, Zenon DEF RequeueCheck, Goto
    <3>2. call' = [call EXCEPT ![t] = call[t]]
      BY <1>t, <3>1
    <3> QED
      BY <1>0, <1>7, <2>1, <3>1, <3>2, Zenon
  <2>3. CASE ~(call[t].op = "requeue" \/ word[call[t].a] = call[t].val)
    <3>0. at[t] \in {"both", "write", "move"}
      BY <2>1
    <3>1. UnlockPair(t) /\ Return(t, "EAGAIN")
      BY <1>11, <2>3, Zenon DEF RequeueCheck
    <3>2. bucket_id' \in [Tasks -> Nat]
      BY <1>t, <2>1, Zenon
    <3> QED
      BY <1>8, <3>0, <3>1, <3>2
  <2> QED
    BY <2>2, <2>3, Zenon
<1>12. CASE RequeueMove(t)
  <2>1. at[t] = "move" /\ UnlockPair(t) /\ Return(t, "ok")
    BY <1>12, Zenon DEF RequeueMove
  <2>2. PICK moves : NewBucket(t, moves)
    BY <1>12, Zenon DEF RequeueMove
  <2>3. bucket_id' \in [Tasks -> Nat]
    BY <1>t, <1>1, <2>2, BucketsAreNumbers, Zenon DEF NewBucket
  <2> QED
    BY <1>8, <2>1, <2>3
<1> QED
  BY <1>5, <1>6, <1>9, <1>10, <1>11, <1>12, Zenon

-----------------------------------------------------------------------------
\* Nobody holds a bucket at first.
LEMMA LockInvInit == Init => LockInv
<1> SUFFICES ASSUME Init PROVE LockInv
  BY Zenon
<1>1. LockTypes
  BY Zenon DEF Init, LockTypes, Places, Calls, NoCall, Results, Vals
<1>2. ASSUME NEW t \in Tasks PROVE CallOK(t) /\ HoldsOK(t)
  <2>1. at[t] = "user" /\ Held(t) = {}
    BY Zenon DEF Init, Held
  <2>2. CallOK(t)
    BY <2>1, Zenon DEF CallOK, OnePlaces, TwoPlaces, WaitPlaces
  <2>3. HoldsOK(t)
    BY <2>1, FutexAssumption, Zenon DEF HoldsOK, Init
  <2> QED
    BY <2>2, <2>3, Zenon
<1> QED
  BY <1>1, <1>2, Zenon DEF LockInv

\* Every step keeps the locks of a task those of its place.
LEMMA LockInvNext == LockInv /\ [Next]_vars => LockInv'
<1> SUFFICES ASSUME LockInv, [Next]_vars PROVE LockInv'
  OBVIOUS
<1>1. ASSUME NEW t \in Tasks, UserStep(t) PROVE LockInv'
  BY <1>1, UserStepKeeps, Zenon
<1>2. ASSUME NEW t \in Tasks, KernelStep(t) PROVE LockInv'
  <2>1. CASE Timeout(t)
    BY <2>1, StillStep, Zenon DEF Timeout, chainVars
  <2> QED
    BY <1>2, <2>1, QuietKeeps, OneBucketKeeps, TwoBucketsKeep, Zenon DEF KernelStep
<1>3. ASSUME NEW t, HandleSignal(t) \/ SendSignal(t) \/ signal_wake_interruptible_task(t)
      PROVE  LockInv'
  BY <1>3, StillStep, Zenon DEF HandleSignal, SendSignal, signal_wake_interruptible_task,
                                chainVars
<1>4. CASE UNCHANGED vars
  BY <1>4, StillStep, Zenon DEF vars, chainVars
<1> QED
  BY <1>1, <1>2, <1>3, <1>4, Zenon DEF Next

\* Whatever calls lock pairs of buckets, in any number and with any words: of
\* the tasks that hold bucket locks one can go on (futex_lock_bucket_pair).
THEOREM BucketsDoNotDeadlock == Spec => []NoBucketDeadlock
<1>1. Spec => []LockInv
  BY LockInvInit, LockInvNext, PTL DEF Spec
<1> QED
  BY <1>1, HighestGoesOn, PTL

=============================================================================
