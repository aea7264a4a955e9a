--------------------------- MODULE SchedRqProofs ---------------------------
(***************************************************************************)
(* The runqueue of sched.c, for any number of tasks, any nice values and   *)
(* weights and any granularities: the counters match the tree and curr,    *)
(* the CPU does not idle while a READY task is there, the preemption timer *)
(* is armed for a time at which it preempts, and the whole implements      *)
(* RunQueue.  Good is what every operator on runqueues keeps; each         *)
(* operator has one lemma that says so and how it moves the entities.      *)
(* The actions are then short.  load_weight is a sum, so the first part    *)
(* shows what adding and removing an entity does to a sum over a set.      *)
(***************************************************************************)
EXTENDS SchedRq, FiniteSetTheorems, WellFoundedInduction, TLAPS

-----------------------------------------------------------------------------
(* Least elements and induction, stated over sets.                         *)

\* A nonempty set of naturals has a least element.
LEMMA LeastOf ==
    ASSUME NEW S \in SUBSET Nat, S # {}
    PROVE  \E x \in S : \A y \in S : x <= y
<1>1. PICK x \in S : \A y \in S : ~(<<y, x>> \in OpToRel(<, Nat))
  BY NatLessThanWellFounded, WFMin, Zenon
<1>2. \A y \in S : ~(y < x)
  BY <1>1, Zenon DEF OpToRel
<1>3. \A y \in S : x <= y
  BY <1>2
<1> QED
  BY <1>3, Zenon

\* Induction over the naturals, for the set of those that have a property.
LEMMA NatSetInduction ==
    ASSUME NEW P, 0 \in P, \A k \in Nat : k \in P => k + 1 \in P
    PROVE  \A k \in Nat : k \in P
<1> SUFFICES ASSUME NEW b \in Nat, b \notin P PROVE FALSE
  BY Zenon
<1> DEFINE Bad == {k \in Nat : k \notin P}
<1>1. PICK k \in Bad : \A m \in Bad : k <= m
  <2>1. Bad \in SUBSET Nat /\ Bad # {}
    BY Zenon
  <2> QED
    BY <2>1, LeastOf, Zenon
<1>2. k # 0 /\ k - 1 \in Nat
  BY <1>1
<1>3. k - 1 \in P
  BY <1>1, <1>2
<1> QED
  BY <1>1, <1>2, <1>3

\* A set of finite sets that holds a set whenever it holds that set without
\* any one of its elements holds them all.
LEMMA SetInduction ==
    ASSUME NEW D, IsFiniteSet(D), NEW P,
           ASSUME NEW s \in SUBSET D, \A x \in s : s \ {x} \in P PROVE s \in P
    PROVE  \A s \in SUBSET D : s \in P
<1> SUFFICES ASSUME NEW b \in SUBSET D, b \notin P PROVE FALSE
  BY Zenon
<1> DEFINE Bad == {s \in SUBSET D : s \notin P}
           N == {Cardinality(s) : s \in Bad}
<1>1. \A s \in SUBSET D : IsFiniteSet(s) /\ Cardinality(s) \in Nat
  BY FS_Subset, FS_CardinalityType, Zenon
<1>2. N \in SUBSET Nat /\ N # {}
  BY <1>1
<1>3. PICK k \in N : \A m \in N : k <= m
  BY <1>2, LeastOf, Zenon
<1>4. PICK s \in Bad : k = Cardinality(s)
  OBVIOUS
<1>5. ASSUME NEW x \in s PROVE s \ {x} \in P
  <2>1. Cardinality(s \ {x}) = Cardinality(s) - 1
    BY <1>1, FS_RemoveElement, Zenon
  <2>2. s \ {x} \in SUBSET D
    BY <1>4, Zenon
  <2>3. CASE s \ {x} \notin P
    <3>1. Cardinality(s \ {x}) \in N
      BY <2>2, <2>3, Zenon
    <3>2. Cardinality(s) \in Nat /\ Cardinality(s) <= Cardinality(s \ {x})
      BY <1>1, <1>3, <1>4, <3>1, Zenon
    <3> QED
      BY <2>1, <3>2
  <2> QED
    BY <2>3, Zenon
<1>6. s \in P
  BY <1>4, <1>5, Zenon
<1> QED
  BY <1>4, <1>6, Zenon

-----------------------------------------------------------------------------
(* The total weight of a set of entities.                                  *)

\* What load_weight should be for the entities S under the nice values n.
Total(n, S) == MapThenSumSet(LAMBDA e : WeightOf[n[e]], S)

Some(s) == CHOOSE x \in s : TRUE

\* g is the fold that Total takes, on the sets of D.
IsSum(g, D, n) ==
    g = [s \in D |-> IF s = {} THEN 0
                     ELSE WeightOf[n[Some(s)]] + g[s \ {Some(s)}]]

\* The fold is the chosen function with the recursive equation.
LEMMA TotalIsFold ==
    ASSUME NEW n, NEW S
    PROVE  Total(n, S) = (CHOOSE g : IsSum(g, SUBSET S, n))[S]
  BY Zenon DEF Total, MapThenSumSet, MapThenFoldSet, IsSum, Some

\* Every set of entities has a sum: the equation has a solution.
LEMMA SumExists ==
    ASSUME NEW n \in [Tasks -> Nices]
    PROVE  \E g \in [SUBSET Tasks -> Nat] : IsSum(g, SUBSET Tasks, n)
<1> DEFINE Small(k) == {s \in SUBSET Tasks : Cardinality(s) <= k}
           P == {k \in Nat : \E g \in [Small(k) -> Nat] : IsSum(g, Small(k), n)}
           Up(g, k) == [s \in Small(k) |-> IF s = {} THEN 0
                            ELSE WeightOf[n[Some(s)]] + g[s \ {Some(s)}]]
<1>1. \A s \in SUBSET Tasks : IsFiniteSet(s) /\ Cardinality(s) \in Nat
  BY FS_Subset, FS_CardinalityType, ConstantsAssumption, Zenon
<1>2. ASSUME NEW s \in SUBSET Tasks, s # {}
      PROVE  /\ Some(s) \in s /\ WeightOf[n[Some(s)]] \in Nat
             /\ s \ {Some(s)} \in SUBSET Tasks
             /\ Cardinality(s \ {Some(s)}) = Cardinality(s) - 1
  <2>1. Some(s) \in s
    BY <1>2, Zenon DEF Some
  <2>2. WeightOf[n[Some(s)]] \in Nat
    BY <2>1, ConstantsAssumption, Zenon
  <2> QED
    BY <2>1, <2>2, <1>1, FS_RemoveElement, Zenon
<1>3. 0 \in P
  <2>1. \A s \in Small(0) : s = {}
    BY <1>1, FS_EmptySet
  <2>2. [s \in Small(0) |-> 0] \in [Small(0) -> Nat]
    BY Zenon
  <2>3. IsSum([s \in Small(0) |-> 0], Small(0), n)
    BY <2>1, Zenon DEF IsSum
  <2> QED
    BY <2>2, <2>3, Zenon
<1>4. ASSUME NEW k \in Nat, k \in P PROVE k + 1 \in P
  <2>1. PICK g \in [Small(k) -> Nat] : IsSum(g, Small(k), n)
    BY <1>4, Zenon
  <2>2. ASSUME NEW s \in Small(k + 1), s # {} PROVE s \ {Some(s)} \in Small(k)
    BY <2>2, <1>1, <1>2
  <2>3. Up(g, k + 1) \in [Small(k + 1) -> Nat]
    BY <1>2, <2>2
  <2>4. ASSUME NEW s \in Small(k) PROVE Up(g, k + 1)[s] = g[s]
    <3>1. s \in Small(k + 1)
      BY <1>1
    <3> QED
      BY <3>1, <2>1, Zenon DEF IsSum
  <2>5. IsSum(Up(g, k + 1), Small(k + 1), n)
    BY <2>2, <2>4, Zenon DEF IsSum
  <2> HIDE DEF Up, Small
  <2>6. \E h \in [Small(k + 1) -> Nat] : IsSum(h, Small(k + 1), n)
    BY <2>3, <2>5, Zenon
  <2> QED
    BY <2>6
<1>5. Cardinality(Tasks) \in P
  <2> HIDE DEF P
  <2>1. \A k \in Nat : k \in P
    BY <1>3, <1>4, NatSetInduction, Zenon
  <2> QED
    BY <2>1, <1>1, Zenon
<1>6. Small(Cardinality(Tasks)) = SUBSET Tasks
  BY <1>1, FS_Subset, ConstantsAssumption, Zenon
<1> QED
  BY <1>5, <1>6, Zenon

\* The sum of the entities under the nice values n, as one function.
LEMMA SumOfAll ==
    ASSUME NEW n \in [Tasks -> Nices]
    PROVE  \E g \in [SUBSET Tasks -> Nat] :
               /\ \A S \in SUBSET Tasks : Total(n, S) = g[S]
               /\ g[{}] = 0
               /\ \A S \in SUBSET Tasks : \A x \in S :
                      g[S] = WeightOf[n[x]] + g[S \ {x}]
<1>1. PICK g \in [SUBSET Tasks -> Nat] : IsSum(g, SUBSET Tasks, n)
  BY SumExists, Zenon
<1>2. \A x \in Tasks : WeightOf[n[x]] \in Nat
  BY ConstantsAssumption, Zenon
<1>3. ASSUME NEW s \in SUBSET Tasks, s # {}
      PROVE  /\ Some(s) \in s
             /\ g[s] = WeightOf[n[Some(s)]] + g[s \ {Some(s)}]
  BY <1>1, <1>3, Zenon DEF IsSum, Some
<1>4. g[{}] = 0
  BY <1>1, Zenon DEF IsSum
<1>5. ASSUME NEW S \in SUBSET Tasks PROVE Total(n, S) = g[S]
  <2> DEFINE r == [s \in SUBSET S |-> g[s]]
             h == CHOOSE f : IsSum(f, SUBSET S, n)
  <2>1. IsSum(r, SUBSET S, n)
    <3>1. \A s \in SUBSET S : s # {} => s \ {Some(s)} \in SUBSET S
      BY Zenon
    <3> QED
      BY <3>1, <1>3, <1>4, Zenon DEF IsSum
  <2>2. IsSum(h, SUBSET S, n)
    <3> HIDE DEF r
    <3> QED
      BY <2>1, Zenon
  <2> HIDE DEF h
  <2> DEFINE P == {s \in SUBSET S : h[s] = g[s]}
  <2>3. ASSUME NEW s \in SUBSET S, \A x \in s : s \ {x} \in P PROVE s \in P
    <3>1. CASE s = {}
      BY <3>1, <2>2, <1>4, Zenon DEF IsSum
    <3>2. CASE s # {}
      <4>1. h[s] = WeightOf[n[Some(s)]] + h[s \ {Some(s)}]
        BY <3>2, <2>2, Zenon DEF IsSum
      <4>2. h[s \ {Some(s)}] = g[s \ {Some(s)}]
        BY <3>2, <1>3, <2>3, Zenon
      <4> QED
        BY <3>2, <4>1, <4>2, <1>3, Zenon
    <3> QED
      BY <3>1, <3>2, Zenon
  <2>4. IsFiniteSet(S)
    BY FS_Subset, ConstantsAssumption, Zenon
  <2>5. S \in P
    <3> HIDE DEF P
    <3>1. \A s \in SUBSET S : s \in P
      BY <2>3, <2>4, SetInduction, Zenon
    <3> QED
      BY <3>1, Zenon
  <2> QED
    BY <2>5, TotalIsFold, Zenon DEF h
<1>6. \A S \in SUBSET Tasks : \A x \in S : g[S] = WeightOf[n[x]] + g[S \ {x}]
  <2> DEFINE P == {s \in SUBSET Tasks :
                     \A x \in s : g[s] = WeightOf[n[x]] + g[s \ {x}]}
  <2>1. ASSUME NEW s \in SUBSET Tasks, \A x \in s : s \ {x} \in P PROVE s \in P
    <3> SUFFICES ASSUME NEW x \in s PROVE g[s] = WeightOf[n[x]] + g[s \ {x}]
      BY Zenon
    <3> DEFINE c == Some(s)
    <3>1. c \in s /\ g[s] = WeightOf[n[c]] + g[s \ {c}]
      BY <1>3, Zenon
    <3> HIDE DEF c
    <3>2. CASE x = c
      BY <3>1, <3>2, Zenon
    <3>3. CASE x # c
      <4>1. g[s \ {c}] = WeightOf[n[x]] + g[(s \ {c}) \ {x}]
        BY <3>1, <3>3, <2>1, Zenon
      <4>2. g[s \ {x}] = WeightOf[n[c]] + g[(s \ {x}) \ {c}]
        BY <3>1, <3>3, <2>1, Zenon
      <4>3. (s \ {c}) \ {x} = (s \ {x}) \ {c}
        BY Zenon
      <4>4. /\ WeightOf[n[x]] \in Nat /\ WeightOf[n[c]] \in Nat
            /\ g[(s \ {x}) \ {c}] \in Nat
        BY <3>1, <1>2, Zenon
      <4>5. g[s] = WeightOf[n[c]] + (WeightOf[n[x]] + g[(s \ {x}) \ {c}])
        BY <3>1, <4>1, <4>3, Zenon
      <4>6. \A i, j, k \in Nat : i + (j + k) = j + (i + k)
        OBVIOUS
      <4>7. WeightOf[n[c]] + (WeightOf[n[x]] + g[(s \ {x}) \ {c}])
              = WeightOf[n[x]] + (WeightOf[n[c]] + g[(s \ {x}) \ {c}])
        BY <4>4, <4>6, Zenon
      <4> QED
        BY <4>2, <4>5, <4>7, Zenon
    <3> QED
      BY <3>2, <3>3, Zenon
  <2> HIDE DEF P
  <2>2. \A s \in SUBSET Tasks : s \in P
    BY <2>1, SetInduction, ConstantsAssumption, Zenon
  <2> QED
    BY <2>2, Zenon DEF P
<1> QED
  BY <1>4, <1>5, <1>6, Zenon

\* What the additions and subtractions of load_weight do to the total.
LEMMA TotalFacts ==
    ASSUME NEW n \in [Tasks -> Nices], NEW S \in SUBSET Tasks
    PROVE  /\ Total(n, S) \in Nat /\ Total(n, {}) = 0
           /\ \A x \in S : Total(n, S) = WeightOf[n[x]] + Total(n, S \ {x})
           /\ \A x \in Tasks \ S : Total(n, S \cup {x}) = WeightOf[n[x]] + Total(n, S)
<1>1. PICK g \in [SUBSET Tasks -> Nat] :
               /\ \A R \in SUBSET Tasks : Total(n, R) = g[R]
               /\ g[{}] = 0
               /\ \A R \in SUBSET Tasks : \A x \in R :
                      g[R] = WeightOf[n[x]] + g[R \ {x}]
  BY SumOfAll, Zenon
<1>2. Total(n, S) \in Nat /\ Total(n, {}) = 0
  BY <1>1, Zenon
<1>3. ASSUME NEW x \in S PROVE Total(n, S) = WeightOf[n[x]] + Total(n, S \ {x})
  BY <1>1, Zenon
<1>4. ASSUME NEW x \in Tasks \ S
      PROVE  Total(n, S \cup {x}) = WeightOf[n[x]] + Total(n, S)
  <2>1. S \cup {x} \in SUBSET Tasks /\ x \in S \cup {x} /\ (S \cup {x}) \ {x} = S
    BY Zenon
  <2>2. Total(n, S \cup {x}) = WeightOf[n[x]] + Total(n, (S \cup {x}) \ {x})
    BY <1>1, <2>1
  <2> QED
    BY <2>1, <2>2, Zenon
<1> QED
  BY <1>2, <1>3, <1>4, Zenon

\* The total depends on the nice values of the set only.
LEMMA TotalSame ==
    ASSUME NEW m \in [Tasks -> Nices], NEW n \in [Tasks -> Nices],
           NEW S \in SUBSET Tasks, \A x \in S : m[x] = n[x]
    PROVE  Total(m, S) = Total(n, S)
<1> DEFINE P == {s \in SUBSET S : Total(m, s) = Total(n, s)}
<1>1. IsFiniteSet(S)
  BY FS_Subset, ConstantsAssumption, Zenon
<1>2. ASSUME NEW s \in SUBSET S, \A x \in s : s \ {x} \in P PROVE s \in P
  <2>1. CASE s = {}
    <3>1. Total(m, {}) = 0 /\ Total(n, {}) = 0
      BY TotalFacts, Zenon
    <3> QED
      BY <2>1, <3>1, Zenon
  <2>2. CASE s # {}
    <3>1. PICK x \in s : TRUE
      BY <2>2, Zenon
    <3>2. Total(m, s \ {x}) = Total(n, s \ {x})
      BY <1>2, Zenon
    <3>3. s \in SUBSET Tasks
      BY Zenon
    <3>4. Total(m, s) = WeightOf[m[x]] + Total(m, s \ {x})
      BY <3>3, TotalFacts, Zenon
    <3>5. Total(n, s) = WeightOf[n[x]] + Total(n, s \ {x})
      BY <3>3, TotalFacts, Zenon
    <3> QED
      BY <3>2, <3>4, <3>5, Zenon
  <2> QED
    BY <2>1, <2>2, Zenon
<1> HIDE DEF P
<1>3. \A s \in SUBSET S : s \in P
  BY <1>1, <1>2, SetInduction, Zenon
<1> QED
  BY <1>3, Zenon DEF P

\* The total of a difference.
LEMMA TotalWithout ==
    ASSUME NEW n \in [Tasks -> Nices], NEW S \in SUBSET Tasks, NEW R \in SUBSET S
    PROVE  Total(n, S) = Total(n, S \ R) + Total(n, R)
<1> DEFINE P == {r \in SUBSET R : Total(n, S) = Total(n, S \ r) + Total(n, r)}
<1>1. IsFiniteSet(R)
  <2>1. R \in SUBSET Tasks
    BY Zenon
  <2> QED
    BY <2>1, FS_Subset, ConstantsAssumption, Zenon
<1>2. ASSUME NEW r \in SUBSET R, \A x \in r : r \ {x} \in P PROVE r \in P
  <2>1. CASE r = {}
    <3>1. Total(n, {}) = 0 /\ Total(n, S) \in Nat /\ S \ {} = S
      BY TotalFacts, Zenon
    <3> QED
      BY <2>1, <3>1
  <2>2. CASE r # {}
    <3>1. PICK x \in r : TRUE
      BY <2>2, Zenon
    <3>2. Total(n, S) = Total(n, S \ (r \ {x})) + Total(n, r \ {x})
      BY <1>2, Zenon
    <3>3. r \in SUBSET Tasks /\ r \ {x} \in SUBSET Tasks /\ x \in Tasks
      BY Zenon
    <3>4. S \ (r \ {x}) \in SUBSET Tasks /\ x \in S \ (r \ {x})
      BY Zenon
    <3>5. (S \ (r \ {x})) \ {x} = S \ r
      BY Zenon
    <3>6. Total(n, S \ (r \ {x})) = WeightOf[n[x]] + Total(n, S \ r)
      <4>1. Total(n, S \ (r \ {x}))
              = WeightOf[n[x]] + Total(n, (S \ (r \ {x})) \ {x})
        BY <3>4, TotalFacts, Zenon
      <4> QED
        BY <4>1, <3>5, Zenon
    <3>7. Total(n, r) = WeightOf[n[x]] + Total(n, r \ {x})
      BY <3>3, TotalFacts, Zenon
    <3>8. /\ WeightOf[n[x]] \in Nat /\ Total(n, r \ {x}) \in Nat
          /\ Total(n, S \ r) \in Nat
      <4>1. S \ r \in SUBSET Tasks
        BY Zenon
      <4> QED
        BY <4>1, <3>3, TotalFacts, ConstantsAssumption, Zenon
    <3>9. \A i, j, k \in Nat : (i + j) + k = j + (i + k)
      OBVIOUS
    <3>10. (WeightOf[n[x]] + Total(n, S \ r)) + Total(n, r \ {x})
             = Total(n, S \ r) + (WeightOf[n[x]] + Total(n, r \ {x}))
      BY <3>8, <3>9, Zenon
    <3>11. Total(n, S) = Total(n, S \ r) + Total(n, r)
      BY <3>2, <3>6, <3>7, <3>10, Zenon
    <3> QED
      BY <3>11, Zenon
  <2> QED
    BY <2>1, <2>2, Zenon
<1> HIDE DEF P
<1>3. \A r \in SUBSET R : r \in P
  BY <1>1, <1>2, SetInduction, Zenon
<1> QED
  BY <1>3, Zenon DEF P

-----------------------------------------------------------------------------
(* The operators on runqueues.                                             *)

On(s) == s.tree \cup ({s.curr} \ {Idle})

\* The counters and the times of a runqueue are right.
Good(s) ==
    /\ now \in Nat /\ s \in Runqueues
    /\ s.curr \notin s.tree
    /\ s.nr_queued = Cardinality(s.tree)
    /\ s.nr_running = Cardinality(On(s))
    /\ s.load_weight = Total(s.nice, On(s))
    /\ \A e \in Tasks : s.exec_start[e] <= now /\ s.account_start[e] <= now
    /\ s.curr # Idle => s.slice[s.curr] \in MIN_GRANULARITY .. MAX_GRANULARITY

\* r and s agree on what the counters count.
SameQueue(r, s) ==
    /\ r.tree = s.tree /\ r.curr = s.curr /\ r.nice = s.nice
    /\ r.nr_queued = s.nr_queued /\ r.nr_running = s.nr_running
    /\ r.load_weight = s.load_weight

SameTimes(r, s) ==
    r.exec_start = s.exec_start /\ r.account_start = s.account_start

\* Idle is not a pid.
LEMMA IdleIsNoTask == Idle \notin Tasks /\ IsFiniteSet(Tasks)
  BY ConstantsAssumption, Zenon DEF Idle

\* Quotients of naturals.
LEMMA DivNat ==
    ASSUME NEW a \in Nat, NEW b \in Nat \ {0}
    PROVE  a \div b \in Nat
  OBVIOUS

\* Weights are positive and a slice is clamped to the granularities.
LEMMA SliceFacts ==
    ASSUME NEW s \in Runqueues, NEW e \in Tasks
    PROVE  /\ Weight(s, e) \in Nat \ {0}
           /\ \A d \in Nat : DeltaFair(s, e, d) \in Nat
           /\ Slice(s, e) \in MIN_GRANULARITY .. MAX_GRANULARITY
           /\ Slice(s, e) \in Nat
<1>1. Weight(s, e) \in Nat \ {0}
  BY ConstantsAssumption, Zenon DEF Weight, Runqueues
<1>2. ASSUME NEW d \in Nat PROVE DeltaFair(s, e, d) \in Nat
  <2>1. d * NICE_0_LOAD \in Nat
    BY ConstantsAssumption
  <2> QED
    BY <1>1, <2>1, DivNat, Zenon DEF DeltaFair
<1>3. \A x \in Nat : Clamp(x) \in MIN_GRANULARITY .. MAX_GRANULARITY
  BY ConstantsAssumption DEF Clamp
<1>4. Slice(s, e) \in MIN_GRANULARITY .. MAX_GRANULARITY
  <2> DEFINE total == s.load_weight + IF OnRq(s, e) THEN 0 ELSE Weight(s, e)
             x == IF total = 0 THEN LATENCY ELSE (LATENCY * Weight(s, e)) \div total
  <2>1. total \in Nat
    BY <1>1 DEF Runqueues
  <2>2. LATENCY \in Nat /\ LATENCY * Weight(s, e) \in Nat
    BY <1>1, ConstantsAssumption
  <2>3. x \in Nat
    BY <2>1, <2>2, DivNat, Zenon
  <2> QED
    BY <2>3, <1>3, Zenon DEF Slice
<1> QED
  BY <1>1, <1>2, <1>4, ConstantsAssumption

\* sched_set_deadline_locked writes a slice in range and a deadline, no more.
LEMMA SetDeadlineFacts ==
    ASSUME NEW s \in Runqueues, NEW e \in Tasks
    PROVE  /\ SetDeadline(s, e) \in Runqueues
           /\ SameQueue(SetDeadline(s, e), s) /\ SameTimes(SetDeadline(s, e), s)
           /\ SetDeadline(s, e).cleanup = s.cleanup
           /\ SetDeadline(s, e).vruntime = s.vruntime
           /\ SetDeadline(s, e).slice[e] \in MIN_GRANULARITY .. MAX_GRANULARITY
           /\ \A f \in Tasks \ {e} : SetDeadline(s, e).slice[f] = s.slice[f]
<1> DEFINE sl == Slice(s, e)
           dl == s.vruntime[e] + DeltaFair(s, e, Slice(s, e))
<1>1. sl \in MIN_GRANULARITY .. MAX_GRANULARITY /\ sl \in Nat
  BY SliceFacts, Zenon
<1>2. dl \in Nat
  <2>1. s.vruntime[e] \in Nat
    BY Zenon DEF Runqueues, PerTask
  <2>2. DeltaFair(s, e, Slice(s, e)) \in Nat
    BY SliceFacts, Zenon
  <2> QED
    BY <2>1, <2>2
<1> DEFINE slices == [s.slice EXCEPT ![e] = sl]
           deadlines == [s.deadline EXCEPT ![e] = dl]
           r == [s EXCEPT !.slice = slices, !.deadline = deadlines]
<1>3. SetDeadline(s, e) = r
  BY Zenon DEF SetDeadline
<1>4. slices \in PerTask /\ deadlines \in PerTask
  BY <1>1, <1>2, Zenon DEF Runqueues, PerTask
<1>5. slices[e] = sl /\ \A f \in Tasks \ {e} : slices[f] = s.slice[f]
  BY Zenon DEF Runqueues, PerTask
<1> HIDE DEF sl, dl, slices, deadlines
<1>6. r \in Runqueues /\ r.slice = slices
  BY <1>4, Zenon DEF Runqueues
<1>7. SameQueue(r, s) /\ SameTimes(r, s)
  BY Zenon DEF Runqueues, SameQueue, SameTimes
<1>8. r.cleanup = s.cleanup /\ r.vruntime = s.vruntime
  BY Zenon DEF Runqueues
<1> HIDE DEF r
<1> QED
  BY <1>1, <1>3, <1>5, <1>6, <1>7, <1>8, Zenon

\* sched_update_min_vruntime_locked writes min_vruntime only.
LEMMA UpdateMinFacts ==
    ASSUME NEW s \in Runqueues
    PROVE  /\ UpdateMin(s) \in Runqueues
           /\ SameQueue(UpdateMin(s), s) /\ SameTimes(UpdateMin(s), s)
           /\ UpdateMin(s).cleanup = s.cleanup
           /\ UpdateMin(s).vruntime = s.vruntime
           /\ UpdateMin(s).deadline = s.deadline
           /\ UpdateMin(s).slice = s.slice
<1> DEFINE live == IF s.curr # Idle /\ (Ready(s.curr) \/ running = s.curr)
                   THEN {s.curr} ELSE {}
           found == {s.vruntime[e] : e \in s.tree \cup live}
           m == Max({s.min_vruntime, Min(found)})
<1>1. found \in SUBSET Nat
  BY DEF Runqueues, PerTask
<1>2. ASSUME found # {} PROVE m \in Nat
  <2> HIDE DEF found
  <2>1. Min(found) \in Nat
    BY <1>1, <1>2, LeastOf, Zenon DEF Min
  <2> QED
    BY <2>1 DEF Max, Runqueues
<1>3. UpdateMin(s) = IF found = {} THEN s ELSE [s EXCEPT !.min_vruntime = m]
  BY Zenon DEF UpdateMin
<1> HIDE DEF found, m
<1> QED
  BY <1>2, <1>3 DEF Runqueues, PerTask, SameQueue, SameTimes

\* The counters after one more and one fewer entity.
LEMMA CountFacts ==
    ASSUME NEW S \in SUBSET Tasks
    PROVE  /\ IsFiniteSet(S) /\ Cardinality(S) \in Nat
           /\ \A e \in S : /\ Less(Cardinality(S), 1) = Cardinality(S \ {e})
           /\ \A e \in Tasks \ S : Cardinality(S \cup {e}) = Cardinality(S) + 1
           /\ \A n \in [Tasks -> Nices] : \A e \in S :
                  Less(Total(n, S), WeightOf[n[e]]) = Total(n, S \ {e})
<1>1. IsFiniteSet(S) /\ Cardinality(S) \in Nat
  BY IdleIsNoTask, FS_Subset, FS_CardinalityType, Zenon
<1>2. ASSUME NEW e \in S PROVE Less(Cardinality(S), 1) = Cardinality(S \ {e})
  <2>1. /\ Cardinality(S \ {e}) = Cardinality(S) - 1
        /\ Cardinality(S \ {e}) \in Nat
    BY <1>1, FS_RemoveElement, FS_CardinalityType, Zenon
  <2> QED
    BY <1>1, <2>1 DEF Less
<1>3. ASSUME NEW e \in Tasks \ S
      PROVE  Cardinality(S \cup {e}) = Cardinality(S) + 1
  BY <1>1, FS_AddElement, Zenon
<1>4. ASSUME NEW n \in [Tasks -> Nices], NEW e \in S
      PROVE  Less(Total(n, S), WeightOf[n[e]]) = Total(n, S \ {e})
  <2>1. Total(n, S) = WeightOf[n[e]] + Total(n, S \ {e})
    BY TotalFacts, Zenon
  <2>2. Total(n, S \ {e}) \in Nat
    BY TotalFacts, Zenon
  <2>3. WeightOf[n[e]] \in Nat
    BY ConstantsAssumption, Zenon
  <2> QED
    BY <2>1, <2>2, <2>3 DEF Less
<1> QED
  BY <1>1, <1>2, <1>3, <1>4, Zenon

\* An entity joins the tree.
LEMMA EnqueueFacts ==
    ASSUME NEW s, Good(s), NEW e \in Tasks, e \notin s.tree, s.curr # e
    PROVE  /\ Good(Enqueue(s, e))
           /\ Enqueue(s, e).tree = s.tree \cup {e} /\ Enqueue(s, e).curr = s.curr
           /\ SameTimes(Enqueue(s, e), s) /\ Enqueue(s, e).nice = s.nice
           /\ Enqueue(s, e).vruntime = s.vruntime
<1> DEFINE d == SetDeadline(s, e)
           r == Enqueue(s, e)
<1>1. s \in Runqueues /\ s.tree \in SUBSET Tasks /\ s.curr \in Tasks \cup {Idle}
  BY Zenon DEF Good, Runqueues
<1>2. /\ d \in Runqueues /\ SameQueue(d, s) /\ SameTimes(d, s)
      /\ d.vruntime = s.vruntime
      /\ \A f \in Tasks \ {e} : d.slice[f] = s.slice[f]
  BY <1>1, SetDeadlineFacts, Zenon
<1>3. Weight(s, e) = WeightOf[s.nice[e]] /\ Weight(s, e) \in Nat
  BY <1>1, SliceFacts, Zenon DEF Weight
<1> DEFINE T == d.tree \cup {e}
           b == d.cleanup \/ ~Ready(e)
           q == d.nr_queued + 1
           k == d.nr_running + 1
           w == d.load_weight + Weight(s, e)
<1>4. r = [d EXCEPT !.tree = T, !.cleanup = b, !.nr_queued = q,
                    !.nr_running = k, !.load_weight = w]
  <2> HIDE DEF d
  <2> QED
    BY <1>2, Zenon DEF Enqueue, d, Runqueues
<1> HIDE DEF d, r
<1>5. /\ T \in SUBSET Tasks /\ b \in BOOLEAN
      /\ q \in Nat /\ k \in Nat /\ w \in Nat
  BY <1>2, <1>3 DEF Runqueues
<1>6. /\ r \in Runqueues /\ SameTimes(r, d) /\ r.tree = T /\ r.curr = d.curr
      /\ r.nr_queued = q /\ r.nr_running = k /\ r.load_weight = w
      /\ r.nice = d.nice /\ r.vruntime = d.vruntime /\ r.slice = d.slice
  <2> HIDE DEF T, b, q, k, w
  <2> QED
    BY <1>2, <1>4, <1>5, Zenon DEF Runqueues, SameTimes
<1>7. /\ r.tree = s.tree \cup {e} /\ r.curr = s.curr /\ r.nice = s.nice
      /\ r.nr_queued = s.nr_queued + 1 /\ r.nr_running = s.nr_running + 1
      /\ r.load_weight = s.load_weight + Weight(s, e)
  BY <1>2, <1>6, Zenon DEF SameQueue
<1>8. On(r) = On(s) \cup {e} /\ e \in Tasks \ On(s) /\ On(s) \in SUBSET Tasks
  BY <1>1, <1>7, IdleIsNoTask, Zenon DEF On
<1>9. r.nr_queued = Cardinality(r.tree) /\ r.nr_running = Cardinality(On(r))
  BY <1>1, <1>7, <1>8, CountFacts DEF Good
<1>10. r.load_weight = Total(r.nice, On(r))
  <2>1. s.nice \in [Tasks -> Nices]
    BY <1>1, Zenon DEF Runqueues
  <2>2. Total(s.nice, On(s) \cup {e}) = WeightOf[s.nice[e]] + Total(s.nice, On(s))
    BY <1>8, <2>1, TotalFacts, Zenon
  <2>3. Total(s.nice, On(s)) \in Nat
    BY <1>8, <2>1, TotalFacts, Zenon
  <2>4. s.load_weight = Total(s.nice, On(s))
    BY Zenon DEF Good
  <2> QED
    BY <1>3, <1>7, <1>8, <2>2, <2>3, <2>4
<1>11. r.curr # Idle => r.slice[r.curr] \in MIN_GRANULARITY .. MAX_GRANULARITY
  BY <1>1, <1>2, <1>6, <1>7, Zenon DEF Good
<1>12. SameTimes(r, s) /\ r.vruntime = s.vruntime
  BY <1>2, <1>6, Zenon DEF SameTimes
<1>13. Good(r)
  BY <1>1, <1>6, <1>7, <1>9, <1>10, <1>11, <1>12, Zenon DEF Good, SameTimes
<1> QED
  BY <1>7, <1>12, <1>13, Zenon DEF r

\* What is left of the entities E, which leave the runqueue.
LEMMA ForgetFacts ==
    ASSUME NEW s \in Runqueues, NEW E \in SUBSET Tasks
    PROVE  /\ Forget(s, E) \in Runqueues
           /\ SameQueue(Forget(s, E), s)
           /\ Forget(s, E).cleanup = s.cleanup
           /\ Forget(s, E).vruntime = s.vruntime
           /\ Forget(s, E).account_start = s.account_start
           /\ \A e \in E : Forget(s, E).exec_start[e] = 0
           /\ \A e \in Tasks \ E : /\ Forget(s, E).exec_start[e] = s.exec_start[e]
                                   /\ Forget(s, E).slice[e] = s.slice[e]
                                   /\ Forget(s, E).deadline[e] = s.deadline[e]
<1> DEFINE F(f) == [e \in Tasks |-> IF e \in E THEN 0 ELSE f[e]]
           x == F(s.deadline)
           y == F(s.slice)
           z == F(s.exec_start)
           r == [s EXCEPT !.deadline = x, !.slice = y, !.exec_start = z]
<1>1. Forget(s, E) = r
  BY Zenon DEF Forget
<1>2. x \in PerTask /\ y \in PerTask /\ z \in PerTask
  BY Zenon DEF Runqueues, PerTask
<1>3. /\ \A e \in E : z[e] = 0
      /\ \A e \in Tasks \ E : /\ z[e] = s.exec_start[e] /\ y[e] = s.slice[e]
                              /\ x[e] = s.deadline[e]
  BY Zenon
<1> HIDE DEF x, y, z
<1>4. /\ r \in Runqueues /\ SameQueue(r, s) /\ r.cleanup = s.cleanup
      /\ r.vruntime = s.vruntime /\ r.account_start = s.account_start
      /\ r.exec_start = z /\ r.slice = y /\ r.deadline = x
  BY <1>2, Zenon DEF Runqueues, SameQueue
<1> HIDE DEF r
<1> QED
  BY <1>1, <1>3, <1>4, Zenon

\* An entity leaves the tree.
LEMMA DequeueFacts ==
    ASSUME NEW s, Good(s), NEW e \in s.tree
    PROVE  /\ Good(Dequeue(s, e)) /\ e \in Tasks
           /\ Dequeue(s, e).tree = s.tree \ {e} /\ Dequeue(s, e).curr = s.curr
           /\ Dequeue(s, e).nice = s.nice
           /\ Dequeue(s, e).vruntime = s.vruntime
           /\ Dequeue(s, e).account_start = s.account_start
<1> DEFINE d == Forget(s, {e})
           r == Dequeue(s, e)
           T == d.tree \ {e}
           q == Less(d.nr_queued, 1)
           k == Less(d.nr_running, 1)
           w == Less(d.load_weight, Weight(s, e))
<1>1. /\ s \in Runqueues /\ s.tree \in SUBSET Tasks /\ s.curr \in Tasks \cup {Idle}
      /\ e \in Tasks /\ e # s.curr
  BY Zenon DEF Good, Runqueues
<1>2. /\ d \in Runqueues /\ SameQueue(d, s) /\ d.vruntime = s.vruntime
      /\ d.account_start = s.account_start
      /\ d.exec_start[e] = 0
      /\ \A f \in Tasks \ {e} : /\ d.exec_start[f] = s.exec_start[f]
                                /\ d.slice[f] = s.slice[f]
  BY <1>1, ForgetFacts
<1>3. Weight(s, e) = WeightOf[s.nice[e]] /\ Weight(s, e) \in Nat
  BY <1>1, SliceFacts, Zenon DEF Weight
<1>4. r = [d EXCEPT !.tree = T, !.nr_queued = q, !.nr_running = k, !.load_weight = w]
  <2> HIDE DEF d
  <2> QED
    BY <1>2, Zenon DEF Dequeue, d, Runqueues
<1> HIDE DEF d, r
<1>5. T \in SUBSET Tasks /\ q \in Nat /\ k \in Nat /\ w \in Nat
  BY <1>2, <1>3 DEF Runqueues, Less
<1>6. /\ r \in Runqueues /\ SameTimes(r, d) /\ r.tree = T /\ r.curr = d.curr
      /\ r.nr_queued = q /\ r.nr_running = k /\ r.load_weight = w
      /\ r.nice = d.nice /\ r.vruntime = d.vruntime /\ r.slice = d.slice
  <2> HIDE DEF T, q, k, w
  <2> QED
    BY <1>2, <1>4, <1>5, Zenon DEF Runqueues, SameTimes
<1>7. /\ r.tree = s.tree \ {e} /\ r.curr = s.curr /\ r.nice = s.nice
      /\ r.nr_queued = Less(s.nr_queued, 1)
      /\ r.nr_running = Less(s.nr_running, 1)
      /\ r.load_weight = Less(s.load_weight, WeightOf[s.nice[e]])
  BY <1>2, <1>3, <1>6, Zenon DEF SameQueue
<1>8. On(r) = On(s) \ {e} /\ e \in On(s) /\ On(s) \in SUBSET Tasks
  BY <1>1, <1>7, IdleIsNoTask, Zenon DEF On
<1>9. r.nr_queued = Cardinality(r.tree) /\ r.nr_running = Cardinality(On(r))
  BY <1>1, <1>7, <1>8, CountFacts DEF Good
<1>10. r.load_weight = Total(r.nice, On(r))
  <2>1. s.nice \in [Tasks -> Nices]
    BY <1>1, Zenon DEF Runqueues
  <2> QED
    BY <1>7, <1>8, <2>1, CountFacts DEF Good
<1>11. r.curr # Idle => r.slice[r.curr] \in MIN_GRANULARITY .. MAX_GRANULARITY
  BY <1>1, <1>2, <1>6, <1>7, Zenon DEF Good
<1>12. /\ r.account_start = s.account_start /\ r.vruntime = s.vruntime
       /\ \A f \in Tasks : r.exec_start[f] <= now /\ r.account_start[f] <= now
  <2>1. r.account_start = s.account_start /\ r.vruntime = s.vruntime
    BY <1>2, <1>6, Zenon DEF SameTimes
  <2>2. ASSUME NEW f \in Tasks
        PROVE  r.exec_start[f] <= now /\ r.account_start[f] <= now
    BY <1>2, <1>6, <2>1 DEF SameTimes, Good
  <2> QED
    BY <2>1, <2>2, Zenon
<1>13. Good(r)
  BY <1>1, <1>6, <1>7, <1>9, <1>10, <1>11, <1>12, Zenon DEF Good
<1> QED
  BY <1>1, <1>7, <1>12, <1>13, Zenon DEF r

\* min_vruntime is no part of what is counted.
LEMMA GoodUpdateMin ==
    ASSUME NEW s, Good(s)
    PROVE  /\ Good(UpdateMin(s)) /\ SameQueue(UpdateMin(s), s)
           /\ SameTimes(UpdateMin(s), s)
           /\ UpdateMin(s).slice = s.slice
           /\ UpdateMin(s).vruntime = s.vruntime
<1> DEFINE r == UpdateMin(s)
<1>1. s \in Runqueues
  BY Zenon DEF Good
<1>2. /\ r \in Runqueues /\ SameQueue(r, s) /\ SameTimes(r, s) /\ r.slice = s.slice
      /\ r.vruntime = s.vruntime
  BY <1>1, UpdateMinFacts, Zenon
<1> HIDE DEF r
<1>3. On(r) = On(s)
  BY <1>2, Zenon DEF On, SameQueue
<1>4. Good(r)
  BY <1>2, <1>3, Zenon DEF Good, SameQueue, SameTimes
<1> QED
  BY <1>2, <1>4, Zenon DEF r

\* The attached entity leaves.
LEMMA DetachFacts ==
    ASSUME NEW s, Good(s), NEW e \in Tasks, s.curr = e
    PROVE  /\ Good(Detach(s, e))
           /\ Detach(s, e).tree = s.tree /\ Detach(s, e).curr = Idle
           /\ Detach(s, e).nice = s.nice
           /\ Detach(s, e).vruntime = s.vruntime
<1> DEFINE d == Forget(s, {e})
           k == Less(d.nr_running, 1)
           w == Less(d.load_weight, Weight(s, e))
           r == [d EXCEPT !.curr = Idle, !.nr_running = k, !.load_weight = w]
<1>1. /\ s \in Runqueues /\ s.tree \in SUBSET Tasks /\ e # Idle /\ e \notin s.tree
  BY IdleIsNoTask, Zenon DEF Good, Runqueues
<1>2. /\ d \in Runqueues /\ SameQueue(d, s) /\ d.vruntime = s.vruntime
      /\ d.account_start = s.account_start
      /\ d.exec_start[e] = 0
      /\ \A f \in Tasks \ {e} : d.exec_start[f] = s.exec_start[f]
  BY <1>1, ForgetFacts
<1>3. Weight(s, e) = WeightOf[s.nice[e]] /\ Weight(s, e) \in Nat
  BY <1>1, SliceFacts, Zenon DEF Weight
<1>4. Detach(s, e) = UpdateMin(r)
  <2>1. r = [d EXCEPT !.curr = Idle, !.nr_running = Less(@, 1),
                      !.load_weight = Less(@, Weight(s, e))]
    <3> HIDE DEF d
    <3> QED
      BY <1>2, Zenon DEF Runqueues
  <2> QED
    BY <2>1, Zenon DEF Detach
<1> HIDE DEF d
<1>5. k \in Nat /\ w \in Nat
  BY <1>2, <1>3 DEF Runqueues, Less
<1>6. /\ r \in Runqueues /\ SameTimes(r, d) /\ r.tree = d.tree /\ r.curr = Idle
      /\ r.nr_queued = d.nr_queued /\ r.nr_running = k /\ r.load_weight = w
      /\ r.nice = d.nice /\ r.vruntime = d.vruntime
  <2> HIDE DEF k, w
  <2> QED
    BY <1>2, <1>5, Zenon DEF Runqueues, SameTimes
<1> HIDE DEF r
<1>7. /\ r.tree = s.tree /\ r.nice = s.nice
      /\ r.nr_queued = s.nr_queued
      /\ r.nr_running = Less(s.nr_running, 1)
      /\ r.load_weight = Less(s.load_weight, WeightOf[s.nice[e]])
  BY <1>2, <1>3, <1>6, Zenon DEF SameQueue
<1>8. On(r) = On(s) \ {e} /\ e \in On(s) /\ On(s) \in SUBSET Tasks
  BY <1>1, <1>6, <1>7, IdleIsNoTask, Zenon DEF On
<1>9. r.nr_queued = Cardinality(r.tree) /\ r.nr_running = Cardinality(On(r))
  BY <1>1, <1>7, <1>8, CountFacts DEF Good
<1>10. r.load_weight = Total(r.nice, On(r))
  <2>1. s.nice \in [Tasks -> Nices]
    BY <1>1, Zenon DEF Runqueues
  <2> QED
    BY <1>7, <1>8, <2>1, CountFacts DEF Good
<1>11. ASSUME NEW f \in Tasks
       PROVE  r.exec_start[f] <= now /\ r.account_start[f] <= now
  BY <1>2, <1>6 DEF SameTimes, Good
<1>12. Good(r)
  BY <1>1, <1>6, <1>7, <1>9, <1>10, <1>11, IdleIsNoTask, Zenon DEF Good
<1>13. r.vruntime = s.vruntime
  BY <1>2, <1>6, Zenon
<1> QED
  BY <1>4, <1>6, <1>7, <1>12, <1>13, GoodUpdateMin DEF SameQueue

\* An entity that is off the runqueue is attached.
LEMMA AttachFacts ==
    ASSUME NEW s, Good(s), NEW e \in Tasks, s.curr = Idle, e \notin s.tree
    PROVE  /\ Good(Attach(s, e))
           /\ Attach(s, e).tree = s.tree /\ Attach(s, e).curr = e
           /\ Attach(s, e).nice = s.nice
           /\ Attach(s, e).vruntime = s.vruntime
<1> DEFINE k == s.nr_running + 1
           w == s.load_weight + Weight(s, e)
           x == [s.exec_start EXCEPT ![e] = now]
           y == [s.account_start EXCEPT ![e] = now]
           d == [s EXCEPT !.curr = e, !.nr_running = k, !.load_weight = w,
                          !.exec_start = x, !.account_start = y]
           r == SetDeadline(d, e)
<1>1. /\ s \in Runqueues /\ s.tree \in SUBSET Tasks /\ e # Idle /\ now \in Nat
  BY IdleIsNoTask, Zenon DEF Good, Runqueues
<1>2. Weight(s, e) = WeightOf[s.nice[e]] /\ Weight(s, e) \in Nat
  BY <1>1, SliceFacts, Zenon DEF Weight
<1>3. Attach(s, e) = r
  BY <1>1, Zenon DEF Attach, Runqueues
<1>4. k \in Nat /\ w \in Nat
  BY <1>1, <1>2 DEF Runqueues
<1>5. /\ x \in PerTask /\ y \in PerTask
      /\ \A f \in Tasks : x[f] <= now /\ y[f] <= now
  BY <1>1 DEF Good, Runqueues, PerTask
<1>6. /\ d \in Runqueues /\ d.tree = s.tree /\ d.curr = e
      /\ d.nr_queued = s.nr_queued /\ d.nr_running = k /\ d.load_weight = w
      /\ d.nice = s.nice /\ d.exec_start = x /\ d.account_start = y
      /\ d.vruntime = s.vruntime
  <2> HIDE DEF k, w, x, y
  <2> QED
    BY <1>1, <1>4, <1>5, Zenon DEF Runqueues
<1> HIDE DEF d, x, y
<1>7. /\ r \in Runqueues /\ SameQueue(r, d) /\ SameTimes(r, d)
      /\ r.vruntime = d.vruntime
      /\ r.slice[e] \in MIN_GRANULARITY .. MAX_GRANULARITY
  BY <1>6, SetDeadlineFacts, Zenon
<1> HIDE DEF r
<1>8. /\ r.tree = s.tree /\ r.curr = e /\ r.nice = s.nice
      /\ r.nr_queued = s.nr_queued /\ r.nr_running = s.nr_running + 1
      /\ r.load_weight = s.load_weight + Weight(s, e)
  BY <1>6, <1>7, Zenon DEF SameQueue
<1>9. On(r) = On(s) \cup {e} /\ e \in Tasks \ On(s) /\ On(s) \in SUBSET Tasks
  BY <1>1, <1>8, IdleIsNoTask, Zenon DEF On
<1>10. r.nr_queued = Cardinality(r.tree) /\ r.nr_running = Cardinality(On(r))
  BY <1>1, <1>8, <1>9, CountFacts DEF Good
<1>11. r.load_weight = Total(r.nice, On(r))
  <2>1. s.nice \in [Tasks -> Nices]
    BY <1>1, Zenon DEF Runqueues
  <2>2. Total(s.nice, On(s) \cup {e}) = WeightOf[s.nice[e]] + Total(s.nice, On(s))
    BY <1>9, <2>1, TotalFacts, Zenon
  <2>3. Total(s.nice, On(s)) \in Nat
    BY <1>9, <2>1, TotalFacts, Zenon
  <2>4. s.load_weight = Total(s.nice, On(s))
    BY Zenon DEF Good
  <2> QED
    BY <1>2, <1>8, <1>9, <2>2, <2>3, <2>4
<1>12. \A f \in Tasks : r.exec_start[f] <= now /\ r.account_start[f] <= now
  BY <1>5, <1>6, <1>7, Zenon DEF SameTimes
<1>13. Good(r)
  BY <1>1, <1>7, <1>8, <1>10, <1>11, <1>12, Zenon DEF Good
<1> QED
  BY <1>3, <1>6, <1>7, <1>8, <1>13, Zenon

-----------------------------------------------------------------------------
(* Dropping entities that are not READY, and the pick.                     *)

\* r is s without some entities that are not READY.
Cleaned(r, s) ==
    /\ r.tree \subseteq s.tree /\ r.curr = s.curr
    /\ \A e \in s.tree \ r.tree : ~Ready(e)
    /\ s.curr # Idle => /\ r.exec_start[s.curr] = s.exec_start[s.curr]
                        /\ r.slice[s.curr] = s.slice[s.curr]

\* The clean-up drops entities that are not READY, and its three subtractions
\* leave the counters exact.
LEMMA DropDeadFacts ==
    ASSUME NEW s, Good(s)
    PROVE  Good(DropDead(s)) /\ Cleaned(DropDead(s), s)
<1> DEFINE dead == {e \in s.tree : ~Ready(e)}
           d == Forget(s, dead)
           T == d.tree \ dead
           q == Less(d.nr_queued, Cardinality(dead))
           k == Less(d.nr_running, Cardinality(dead))
           w == Less(d.load_weight, Total(s.nice, dead))
           r == [d EXCEPT !.tree = T, !.cleanup = FALSE, !.nr_queued = q,
                          !.nr_running = k, !.load_weight = w]
<1>1. /\ s \in Runqueues /\ s.tree \in SUBSET Tasks /\ s.curr \in Tasks \cup {Idle}
      /\ s.nice \in [Tasks -> Nices] /\ dead \in SUBSET Tasks /\ s.curr \notin dead
  BY Zenon DEF Good, Runqueues
<1>2. /\ d \in Runqueues /\ SameQueue(d, s)
      /\ d.account_start = s.account_start
      /\ \A f \in dead : d.exec_start[f] = 0
      /\ \A f \in Tasks \ dead : /\ d.exec_start[f] = s.exec_start[f]
                                 /\ d.slice[f] = s.slice[f]
  <2> HIDE DEF dead
  <2> QED
    BY <1>1, ForgetFacts, Zenon
<1>3. DropDead(s) = IF dead = {} THEN r ELSE UpdateMin(r)
  <2>1. Total(s.nice, dead) = MapThenSumSet(LAMBDA e : Weight(s, e), dead)
    BY Zenon DEF Total, Weight
  <2>2. r = [d EXCEPT !.tree = @ \ dead, !.cleanup = FALSE,
                      !.nr_queued = Less(@, Cardinality(dead)),
                      !.nr_running = Less(@, Cardinality(dead)),
                      !.load_weight = Less(@, Total(s.nice, dead))]
    <3> HIDE DEF d, dead
    <3> QED
      BY <1>2, Zenon DEF Runqueues
  <2> QED
    BY <2>1, <2>2, Zenon DEF DropDead
<1> HIDE DEF d
<1>4. /\ IsFiniteSet(s.tree) /\ IsFiniteSet(dead) /\ Cardinality(dead) \in Nat
      /\ Total(s.nice, dead) \in Nat
  BY <1>1, CountFacts, TotalFacts, Zenon
<1>5. T \in SUBSET Tasks /\ q \in Nat /\ k \in Nat /\ w \in Nat
  <2> HIDE DEF dead
  <2> QED
    BY <1>2, <1>4 DEF Runqueues, Less
<1>6. /\ r \in Runqueues /\ SameTimes(r, d) /\ r.tree = T /\ r.curr = d.curr
      /\ r.nr_queued = q /\ r.nr_running = k /\ r.load_weight = w
      /\ r.nice = d.nice /\ r.slice = d.slice
  <2> HIDE DEF dead, T, q, k, w
  <2> QED
    BY <1>2, <1>5, Zenon DEF Runqueues, SameTimes
<1>7. dead \subseteq s.tree /\ \A e \in dead : ~Ready(e)
  BY Zenon
<1> HIDE DEF r, dead
<1>8. /\ r.tree = s.tree \ dead /\ r.nice = s.nice /\ r.curr = s.curr
      /\ r.nr_queued = Less(s.nr_queued, Cardinality(dead))
      /\ r.nr_running = Less(s.nr_running, Cardinality(dead))
      /\ r.load_weight = Less(s.load_weight, Total(s.nice, dead))
  BY <1>2, <1>6, Zenon DEF SameQueue
<1>9. On(r) = On(s) \ dead /\ dead \in SUBSET On(s) /\ On(s) \in SUBSET Tasks
  BY <1>1, <1>7, <1>8, IdleIsNoTask, Zenon DEF On
<1>10. ASSUME NEW S \in SUBSET Tasks, dead \in SUBSET S
       PROVE  Less(Cardinality(S), Cardinality(dead)) = Cardinality(S \ dead)
  <2>1. IsFiniteSet(S) /\ Cardinality(S) \in Nat /\ Cardinality(S \ dead) \in Nat
    BY CountFacts, Zenon
  <2>2. S \cap dead = dead
    BY <1>10, Zenon
  <2>3. Cardinality(S \ dead) = Cardinality(S) - Cardinality(S \cap dead)
    BY <2>1, FS_Difference, Zenon
  <2> QED
    BY <1>4, <2>1, <2>2, <2>3 DEF Less
<1>11. r.nr_queued = Cardinality(r.tree) /\ r.nr_running = Cardinality(On(r))
  BY <1>1, <1>7, <1>8, <1>9, <1>10, Zenon DEF Good
<1>12. r.load_weight = Total(r.nice, On(r))
  <2>1. Total(s.nice, On(s)) = Total(s.nice, On(s) \ dead) + Total(s.nice, dead)
    BY <1>1, <1>9, TotalWithout, Zenon
  <2>2. Total(s.nice, On(s) \ dead) \in Nat
    <3>1. On(s) \ dead \in SUBSET Tasks
      BY <1>9, Zenon
    <3> QED
      BY <1>1, <3>1, TotalFacts, Zenon
  <2>3. s.load_weight = Total(s.nice, On(s))
    BY Zenon DEF Good
  <2> QED
    BY <1>4, <1>8, <1>9, <2>1, <2>2, <2>3 DEF Less
<1>13. ASSUME NEW f \in Tasks
       PROVE  r.exec_start[f] <= now /\ r.account_start[f] <= now
  BY <1>2, <1>6 DEF SameTimes, Good
<1>14. s.curr # Idle => /\ r.exec_start[s.curr] = s.exec_start[s.curr]
                        /\ r.slice[s.curr] = s.slice[s.curr]
  BY <1>1, <1>2, <1>6, Zenon DEF SameTimes
<1>15. Good(r)
  BY <1>6, <1>8, <1>11, <1>12, <1>13, <1>14, Zenon DEF Good
<1>16. Cleaned(r, s)
  BY <1>7, <1>8, <1>14, Zenon DEF Cleaned
<1>17. Good(UpdateMin(r)) /\ Cleaned(UpdateMin(r), s)
  BY <1>15, <1>16, GoodUpdateMin, Zenon DEF SameQueue, SameTimes, Cleaned
<1> QED
  BY <1>3, <1>15, <1>16, <1>17, Zenon

\* The same when the clean-up may be skipped.
LEMMA CleanFacts ==
    ASSUME NEW s, Good(s), NEW dirty
    PROVE  Good(CleanIf(s, dirty)) /\ Cleaned(CleanIf(s, dirty), s)
  BY DropDeadFacts, Zenon DEF CleanIf, Cleaned

\* Dropping twice is dropping.
LEMMA CleanedTwice ==
    ASSUME NEW r, NEW s, NEW t, Cleaned(r, s), Cleaned(s, t)
    PROVE  Cleaned(r, t)
  BY Zenon DEF Cleaned

\* What sched_should_preempt does to the runqueue.
LEMMA PreemptCleansFacts ==
    ASSUME NEW s, Good(s), NEW e
    PROVE  Good(PreemptCleans(s, e)) /\ Cleaned(PreemptCleans(s, e), s)
<1>1. Good(s) /\ Cleaned(s, s)
  BY Zenon DEF Cleaned
<1> DEFINE c == CleanIf(s, s.cleanup)
<1>2. Good(c) /\ Cleaned(c, s)
  BY CleanFacts, Zenon
<1> HIDE DEF c
<1>3. Good(AfterPick(c, e)) /\ Cleaned(AfterPick(c, e), s)
  BY <1>2, CleanFacts, CleanedTwice, Zenon DEF AfterPick
<1> QED
  BY <1>1, <1>3, Zenon DEF PreemptCleans, c

\* The tree order has a first entity in every set of entities.
LEMMA FirstFacts ==
    ASSUME NEW s \in Runqueues, NEW S \in SUBSET Tasks, S # {}
    PROVE  First(s, S) \in S
<1> DEFINE D == {s.deadline[e] : e \in S}
<1>1. /\ \A e \in S : s.deadline[e] \in Nat /\ s.vruntime[e] \in Nat /\ e \in Nat
      /\ S \in SUBSET Nat
  BY ConstantsAssumption, Zenon DEF Runqueues, PerTask
<1>2. PICK d \in D : \A x \in D : d <= x
  <2>1. D \in SUBSET Nat /\ D # {}
    BY <1>1, Zenon
  <2> QED
    BY <2>1, LeastOf, Zenon
<1> DEFINE S1 == {e \in S : s.deadline[e] = d}
           V == {s.vruntime[e] : e \in S1}
<1>3. PICK v \in V : \A x \in V : v <= x
  <2>1. V \in SUBSET Nat /\ V # {}
    BY <1>1, <1>2, Zenon
  <2> QED
    BY <2>1, LeastOf, Zenon
<1> DEFINE S2 == {e \in S1 : s.vruntime[e] = v}
<1>4. PICK e \in S2 : \A x \in S2 : e <= x
  <2>1. S2 \in SUBSET Nat /\ S2 # {}
    BY <1>1, <1>3, Zenon
  <2> QED
    BY <2>1, LeastOf, Zenon
<1>5. ASSUME NEW f \in S \ {e} PROVE Before(s, e, f)
  <2>1. /\ s.deadline[e] \in Nat /\ s.deadline[f] \in Nat /\ e \in Nat /\ f \in Nat
        /\ s.vruntime[e] \in Nat /\ s.vruntime[f] \in Nat
        /\ s.deadline[e] = d /\ s.vruntime[e] = v
    BY <1>1, <1>4, Zenon
  <2>2. d <= s.deadline[f]
    BY <1>2, Zenon
  <2>3. s.deadline[f] = d => v <= s.vruntime[f]
    BY <1>3, Zenon
  <2>4. s.deadline[f] = d /\ s.vruntime[f] = v => e <= f
    BY <1>4, Zenon
  <2> QED
    BY <2>1, <2>2, <2>3, <2>4 DEF Before
<1>6. \E x \in S : \A f \in S \ {x} : Before(s, x, f)
  BY <1>4, <1>5, Zenon
<1> QED
  BY <1>6, Zenon DEF First

\* sched_pick_eevdf_locked finds a READY entity whenever there is one.
LEMMA PickFacts ==
    ASSUME NEW s \in Runqueues, NEW x
    PROVE  LET ok == {e \in s.tree : Ready(e) /\ e # x} IN
           IF ok = {} THEN PickEevdf(s, x) = Idle ELSE PickEevdf(s, x) \in ok
<1> DEFINE ok == {e \in s.tree : Ready(e) /\ e # x}
           el == ok \cap Eligible(s)
           least == {e \in ok : \A f \in ok : s.vruntime[e] <= s.vruntime[f]}
<1>1. ok \in SUBSET Tasks
  BY Zenon DEF Runqueues
<1>2. PickEevdf(s, x) = IF ok = {} THEN Idle
                        ELSE IF el # {} THEN First(s, el) ELSE First(s, least)
  BY Zenon DEF PickEevdf, Fallback
<1> HIDE DEF ok
<1>3. el # {} => First(s, el) \in ok
  <2>1. el \in SUBSET Tasks /\ el \subseteq ok
    BY <1>1, Zenon
  <2> HIDE DEF el
  <2> QED
    BY <2>1, FirstFacts, Zenon
<1>4. ASSUME ok # {} PROVE First(s, least) \in ok
  <2> DEFINE V == {s.vruntime[e] : e \in ok}
  <2>1. V \in SUBSET Nat /\ V # {}
    BY <1>1, <1>4 DEF Runqueues, PerTask
  <2>2. PICK v \in V : \A y \in V : v <= y
    <3> HIDE DEF V
    <3> QED
      BY <2>1, LeastOf, Zenon
  <2>3. PICK e \in ok : v = s.vruntime[e]
    BY <2>2, Zenon
  <2>4. e \in least
    BY <2>2, <2>3, Zenon
  <2>5. least \in SUBSET Tasks /\ least # {} /\ least \subseteq ok
    BY <1>1, <2>4, Zenon
  <2> HIDE DEF least
  <2> QED
    BY <2>5, FirstFacts, Zenon
<1> QED
  BY <1>2, <1>3, <1>4, Zenon DEF ok

-----------------------------------------------------------------------------
(* Single fields.                                                          *)

\* A vruntime is no part of what is counted.
LEMMA VruntimeFacts ==
    ASSUME NEW s, Good(s), NEW e \in Tasks, NEW v \in Nat
    PROVE  LET r == [s EXCEPT !.vruntime[e] = v] IN
           /\ Good(r) /\ SameQueue(r, s) /\ SameTimes(r, s)
           /\ r.vruntime[e] = v
<1> DEFINE f == [s.vruntime EXCEPT ![e] = v]
           r == [s EXCEPT !.vruntime = f]
<1>1. s \in Runqueues
  BY Zenon DEF Good
<1>2. f \in PerTask /\ f[e] = v
  BY <1>1, Zenon DEF Runqueues, PerTask
<1>3. [s EXCEPT !.vruntime[e] = v] = r
  BY Zenon
<1> HIDE DEF f
<1>4. /\ r \in Runqueues /\ SameQueue(r, s) /\ SameTimes(r, s) /\ r.vruntime = f
      /\ r.slice = s.slice
  BY <1>1, <1>2, Zenon DEF Runqueues, SameQueue, SameTimes
<1> HIDE DEF r
<1>5. On(r) = On(s)
  BY <1>4, Zenon DEF On, SameQueue
<1>6. Good(r)
  BY <1>4, <1>5, Zenon DEF Good, SameQueue, SameTimes
<1> QED
  BY <1>2, <1>3, <1>4, <1>6, Zenon

\* The nice value of an entity that is off the runqueue.
LEMMA NiceFacts ==
    ASSUME NEW s, Good(s), NEW e \in Tasks, e \notin On(s), NEW n \in Nices
    PROVE  LET r == [s EXCEPT !.nice[e] = n] IN
           /\ Good(r) /\ r.tree = s.tree /\ r.curr = s.curr
<1> DEFINE f == [s.nice EXCEPT ![e] = n]
           r == [s EXCEPT !.nice = f]
<1>1. s \in Runqueues /\ s.nice \in [Tasks -> Nices]
  BY Zenon DEF Good, Runqueues
<1>2. f \in [Tasks -> Nices] /\ \A x \in On(s) : f[x] = s.nice[x]
  BY <1>1
<1>3. [s EXCEPT !.nice[e] = n] = r
  BY Zenon
<1> HIDE DEF f
<1>4. /\ r \in Runqueues /\ SameTimes(r, s) /\ r.tree = s.tree /\ r.curr = s.curr
      /\ r.nr_queued = s.nr_queued /\ r.nr_running = s.nr_running
      /\ r.load_weight = s.load_weight /\ r.slice = s.slice /\ r.nice = f
  BY <1>1, <1>2, Zenon DEF Runqueues, SameTimes
<1> HIDE DEF r
<1>5. On(r) = On(s) /\ On(s) \in SUBSET Tasks
  BY <1>1, <1>4, IdleIsNoTask, Zenon DEF On, Runqueues
<1>6. Total(f, On(s)) = Total(s.nice, On(s))
  BY <1>1, <1>2, <1>5, TotalSame, Zenon
<1>7. Good(r)
  BY <1>4, <1>5, <1>6, Zenon DEF Good, SameTimes
<1> QED
  BY <1>3, <1>4, <1>7, Zenon

\* The nice value of the attached entity, as sched_set_task_nice changes it.
LEMMA CurrentNiceFacts ==
    ASSUME NEW s, Good(s), NEW e \in Tasks, s.curr = e, NEW n \in Nices,
           NEW v \in Nat
    PROVE  LET d == [s EXCEPT !.vruntime[e] = v,
                              !.account_start[e] = now,
                              !.nice[e] = n,
                              !.load_weight = Less(@, Weight(s, e)) + WeightOf[n]]
               r == SetDeadline(d, e)
           IN  Good(r) /\ r.tree = s.tree /\ r.curr = s.curr
<1> DEFINE f == [s.nice EXCEPT ![e] = n]
           vr == [s.vruntime EXCEPT ![e] = v]
           ac == [s.account_start EXCEPT ![e] = now]
           w == Less(s.load_weight, Weight(s, e)) + WeightOf[n]
           d == [s EXCEPT !.vruntime = vr, !.account_start = ac, !.nice = f,
                          !.load_weight = w]
           r == SetDeadline(d, e)
<1>1. /\ s \in Runqueues /\ s.nice \in [Tasks -> Nices] /\ now \in Nat
      /\ s.tree \in SUBSET Tasks /\ e # Idle /\ e \notin s.tree
  BY IdleIsNoTask, Zenon DEF Good, Runqueues
<1>2. /\ f \in [Tasks -> Nices] /\ f[e] = n
      /\ \A x \in Tasks \ {e} : f[x] = s.nice[x]
  BY <1>1, Zenon
<1>3. /\ vr \in PerTask /\ ac \in PerTask /\ \A x \in Tasks : ac[x] <= now
  BY <1>1 DEF Runqueues, PerTask, Good
<1>4. /\ Weight(s, e) = WeightOf[s.nice[e]] /\ Weight(s, e) \in Nat
      /\ WeightOf[n] \in Nat /\ s.load_weight \in Nat /\ w \in Nat
  <2>1. Weight(s, e) = WeightOf[s.nice[e]] /\ Weight(s, e) \in Nat
    BY <1>1, SliceFacts, Zenon DEF Weight
  <2>2. WeightOf[n] \in Nat /\ s.load_weight \in Nat
    BY <1>1, ConstantsAssumption, Zenon DEF Runqueues
  <2> QED
    BY <2>1, <2>2 DEF Less
<1>5. [s EXCEPT !.vruntime[e] = v, !.account_start[e] = now, !.nice[e] = n,
                !.load_weight = Less(@, Weight(s, e)) + WeightOf[n]] = d
  BY <1>1, Zenon DEF Runqueues
<1>6. /\ d \in Runqueues /\ d.tree = s.tree /\ d.curr = s.curr
      /\ d.nr_queued = s.nr_queued /\ d.nr_running = s.nr_running
      /\ d.load_weight = w /\ d.nice = f
      /\ d.exec_start = s.exec_start /\ d.account_start = ac
  <2> HIDE DEF f, vr, ac, w
  <2> QED
    BY <1>1, <1>2, <1>3, <1>4, Zenon DEF Runqueues
<1> HIDE DEF d, f, ac
<1>7. /\ r \in Runqueues /\ SameQueue(r, d) /\ SameTimes(r, d)
      /\ r.slice[e] \in MIN_GRANULARITY .. MAX_GRANULARITY
  BY <1>6, SetDeadlineFacts, Zenon
<1> HIDE DEF r
<1>8. /\ r.tree = s.tree /\ r.curr = e /\ r.nice = f
      /\ r.nr_queued = s.nr_queued /\ r.nr_running = s.nr_running
      /\ r.load_weight = w /\ On(r) = On(s)
  BY <1>6, <1>7, Zenon DEF SameQueue, On
<1>9. On(s) \in SUBSET Tasks /\ e \in On(s)
  BY <1>1, IdleIsNoTask, Zenon DEF On
<1>10. w = Total(f, On(s))
  <2>1. Less(s.load_weight, Weight(s, e)) = Total(s.nice, On(s) \ {e})
    BY <1>1, <1>4, <1>9, CountFacts DEF Good
  <2>2. Total(f, On(s)) = WeightOf[f[e]] + Total(f, On(s) \ {e})
    BY <1>2, <1>9, TotalFacts, Zenon
  <2>3. Total(f, On(s) \ {e}) = Total(s.nice, On(s) \ {e})
    <3>1. On(s) \ {e} \in SUBSET Tasks
      BY <1>9, Zenon
    <3>2. \A x \in On(s) \ {e} : f[x] = s.nice[x]
      BY <1>2, <1>9, Zenon
    <3> QED
      BY <1>1, <1>2, <3>1, <3>2, TotalSame, Zenon
  <2>4. Total(s.nice, On(s) \ {e}) \in Nat
    <3>1. On(s) \ {e} \in SUBSET Tasks
      BY <1>9, Zenon
    <3> QED
      BY <1>1, <3>1, TotalFacts, Zenon
  <2> QED
    BY <1>2, <1>4, <2>1, <2>2, <2>3, <2>4
<1>11. Good(r)
  BY <1>3, <1>6, <1>7, <1>8, <1>10, Zenon DEF Good, SameTimes
<1> QED
  BY <1>5, <1>8, <1>11, Zenon DEF r

\* sched_account_runtime_until stamps the attached entity.
LEMMA StampFacts ==
    ASSUME NEW s, Good(s), NEW e \in Tasks, s.curr = e, NEW a \in Nat, a <= now
    PROVE  LET r == SetDeadline([s EXCEPT !.account_start[e] = a], e)
           IN  Good(r) /\ r.tree = s.tree /\ r.curr = s.curr
<1> DEFINE ac == [s.account_start EXCEPT ![e] = a]
           d == [s EXCEPT !.account_start = ac]
           r == SetDeadline(d, e)
<1>1. s \in Runqueues /\ now \in Nat /\ e # Idle /\ e \notin s.tree
  BY IdleIsNoTask, Zenon DEF Good
<1>2. ac \in PerTask /\ \A x \in Tasks : ac[x] <= now
  BY <1>1, Zenon DEF Runqueues, PerTask, Good
<1>3. [s EXCEPT !.account_start[e] = a] = d
  BY Zenon
<1> HIDE DEF ac
<1>4. /\ d \in Runqueues /\ SameQueue(d, s) /\ d.exec_start = s.exec_start
      /\ d.account_start = ac
  BY <1>1, <1>2, Zenon DEF Runqueues, SameQueue
<1> HIDE DEF d
<1>5. /\ r \in Runqueues /\ SameQueue(r, d) /\ SameTimes(r, d)
      /\ r.slice[e] \in MIN_GRANULARITY .. MAX_GRANULARITY
  BY <1>4, SetDeadlineFacts, Zenon
<1> HIDE DEF r
<1>6. SameQueue(r, s) /\ On(r) = On(s)
  BY <1>4, <1>5, Zenon DEF SameQueue, On
<1>7. Good(r)
  BY <1>2, <1>4, <1>5, <1>6, Zenon DEF Good, SameTimes, SameQueue
<1> QED
  BY <1>3, <1>6, <1>7, Zenon DEF r, SameQueue

-----------------------------------------------------------------------------
(* The invariant.                                                          *)

Typed ==
    /\ state \in [Tasks -> {"ready", "blocking", "died"}]
    /\ running \in Tasks \cup {Idle}
    /\ phase \in {"run", "remove", "sleep", "dying", "account", "check", "pick"}
    /\ call \in [at : Nat, must : BOOLEAN, yield : BOOLEAN]
    /\ now \in Nat /\ now <= MaxTime /\ call.at <= now

\* Where the running task is in schedule() and what its entity is then.
Placed ==
    /\ rq.curr \in {Idle, running}
    /\ phase = "remove" => running # Idle /\ state[running] = "blocking"
    /\ phase \in {"sleep", "dying"} => running # Idle /\ rq.curr = Idle
    /\ phase \in {"run", "dying"} => Ready(running)
    /\ ~Ready(running) => phase = "remove" \/ rq.curr = Idle

RqInv == Good(rq) /\ Typed /\ Placed

\* The invariant gives the property that the run checks.
LEMMA InvImpliesCounters == RqInv => CountersMatch
<1>1. Total(rq.nice, On(rq)) = MapThenSumSet(LAMBDA e : Weight(rq, e), On(rq))
  BY Zenon DEF Total, Weight
<1>2. On(rq) = rq.tree \cup Attached
  BY Zenon DEF On, Attached
<1> QED
  BY <1>1, <1>2, Zenon DEF RqInv, Good, Typed, CountersMatch, TypeOK

\* An empty runqueue is right.
LEMMA InvInit == Init => RqInv
<1> SUFFICES ASSUME Init PROVE RqInv
  BY Zenon
<1> DEFINE n0 == CHOOSE n \in Nices : WeightOf[n] = NICE_0_LOAD
<1>1. n0 \in Nices
  BY ConstantsAssumption, Zenon
<1> HIDE DEF n0
<1>2. rq = [tree |-> {}, curr |-> Idle, min_vruntime |-> 0, load_weight |-> 0,
             nr_queued |-> 0, nr_running |-> 0, cleanup |-> FALSE,
             nice |-> [e \in Tasks |-> n0],
             vruntime |-> [e \in Tasks |-> 0], deadline |-> [e \in Tasks |-> 0],
             slice |-> [e \in Tasks |-> 0], exec_start |-> [e \in Tasks |-> 0],
             account_start |-> [e \in Tasks |-> 0]]
  BY Zenon DEF Init, n0
<1>3. rq \in Runqueues
  BY <1>1, <1>2, Zenon DEF Runqueues, PerTask
<1>4. /\ rq.tree = {} /\ rq.curr = Idle /\ On(rq) = {} /\ rq.load_weight = 0
      /\ rq.nr_queued = 0 /\ rq.nr_running = 0
      /\ \A e \in Tasks : rq.exec_start[e] = 0 /\ rq.account_start[e] = 0
  BY <1>2, Zenon DEF On
<1>5. Cardinality({}) = 0 /\ Total(rq.nice, {}) = 0
  <2>1. rq.nice \in [Tasks -> Nices]
    BY <1>3, Zenon DEF Runqueues
  <2> QED
    BY <2>1, FS_EmptySet, TotalFacts, Zenon
<1>6. now = 1 /\ running = Idle /\ phase = "run" /\ call = NoCall
  BY Zenon DEF Init
<1>7. Good(rq)
  BY <1>3, <1>4, <1>5, <1>6 DEF Good
<1>8. Typed
  BY <1>6, ConstantsAssumption DEF Typed, Init, NoCall
<1>9. Placed
  BY <1>4, <1>6, Zenon DEF Placed, Ready
<1> QED
  BY <1>7, <1>8, <1>9, Zenon DEF RqInv

\* A runqueue that is right stays right when it is written to rq.
LEMMA GoodNext ==
    ASSUME NEW s, Good(s), rq' = s, now' = now
    PROVE  Good(rq)'
  BY Zenon DEF Good, On

\* The greater of two naturals.
LEMMA MaxOfTwo ==
    ASSUME NEW a \in Nat, NEW b \in Nat
    PROVE  /\ Max({a, b}) \in Nat /\ Max({a, b}) \in {a, b}
           /\ a <= Max({a, b}) /\ b <= Max({a, b})
<1>1. \E x \in {a, b} : \A y \in {a, b} : x >= y
  <2>1. CASE a >= b
    BY <2>1
  <2>2. CASE b >= a
    BY <2>2
  <2> QED
    BY <2>1, <2>2
<1>2. Max({a, b}) \in {a, b} /\ \A y \in {a, b} : Max({a, b}) >= y
  BY <1>1, Zenon DEF Max
<1> QED
  BY <1>2, Zenon

-----------------------------------------------------------------------------
(* The steps: each keeps the invariant and is a step of the promise.       *)

\* An entity joins the runqueue.
LEMMA AddEntityStep ==
    ASSUME RqInv, NEW e \in Tasks, NEW wakeup \in BOOLEAN, AddEntity(e, wakeup)
    PROVE  RqInv' /\ Abstract!Add(e)
<1> DEFINE place == IF wakeup THEN Less(rq.min_vruntime, WAKEUP_GRANULARITY)
                    ELSE rq.min_vruntime
           v == Max({rq.vruntime[e], place})
           a == [rq EXCEPT !.vruntime[e] = v]
           b == Enqueue(a, e)
<1>1. /\ rq' = UpdateMin(b) /\ e \notin rq.tree /\ rq.curr # e
      /\ UNCHANGED <<state, running, phase, call, now>>
  BY Zenon DEF AddEntity, OnRq
<1>2. Good(rq) /\ rq \in Runqueues
  BY Zenon DEF RqInv, Good
<1>3. v \in Nat
  <2>1. rq.vruntime[e] \in Nat /\ rq.min_vruntime \in Nat
    BY <1>2, Zenon DEF Runqueues, PerTask
  <2>2. place \in Nat
    BY <2>1, ConstantsAssumption DEF Less
  <2> QED
    BY <2>1, <2>2, MaxOfTwo, Zenon
<1> HIDE DEF v
<1>4. Good(a) /\ a.tree = rq.tree /\ a.curr = rq.curr
  BY <1>2, <1>3, VruntimeFacts DEF SameQueue
<1> HIDE DEF a
<1>5. Good(b) /\ b.tree = rq.tree \cup {e} /\ b.curr = rq.curr
  BY <1>1, <1>4, EnqueueFacts
<1> HIDE DEF b
<1>6. Good(UpdateMin(b)) /\ rq'.tree = rq.tree \cup {e} /\ rq'.curr = rq.curr
  BY <1>1, <1>5, GoodUpdateMin, Zenon DEF SameQueue
<1>7. Good(rq)'
  BY <1>1, <1>6, GoodNext, Zenon
<1>8. Typed' /\ Placed'
  BY <1>1, <1>6, Zenon DEF RqInv, Typed, Placed, Ready
<1> QED
  BY <1>1, <1>6, <1>7, <1>8, Zenon DEF RqInv, Abstract!Add

\* A change of the nice value moves no entity.
LEMMA SetNiceStep ==
    ASSUME RqInv, NEW e \in Tasks, NEW n \in Nices, SetNice(e, n)
    PROVE  RqInv' /\ UNCHANGED Abstract!vars
<1> DEFINE v == rq.vruntime[e] + DeltaFair(rq, e, now - rq.account_start[e])
           a == Enqueue([UpdateMin(Dequeue(rq, e)) EXCEPT !.nice[e] = n], e)
           b == SetDeadline(
                  [rq EXCEPT !.vruntime[e] = v,
                             !.account_start[e] = now,
                             !.nice[e] = n,
                             !.load_weight = Less(@, Weight(rq, e)) + WeightOf[n]], e)
           c == [rq EXCEPT !.nice[e] = n]
           x == IF e \in rq.tree THEN a ELSE IF IsCurrent(rq, e) THEN b ELSE c
<1>1. rq' = UpdateMin(x) /\ UNCHANGED <<state, running, phase, call, now>>
  BY Zenon DEF SetNice
<1>2. Good(rq) /\ rq \in Runqueues
  BY Zenon DEF RqInv, Good
<1>3. ASSUME e \in rq.tree
      PROVE  Good(a) /\ a.tree = rq.tree /\ a.curr = rq.curr
  <2> DEFINE d == UpdateMin(Dequeue(rq, e))
  <2>1. Good(d) /\ d.tree = rq.tree \ {e} /\ d.curr = rq.curr
    BY <1>2, <1>3, DequeueFacts, GoodUpdateMin DEF SameQueue
  <2> HIDE DEF d
  <2> DEFINE f == [d EXCEPT !.nice[e] = n]
  <2>2. e # rq.curr /\ e \notin On(d)
    BY <1>2, <1>3, <2>1, Zenon DEF On, Good
  <2>3. Good(f) /\ f.tree = rq.tree \ {e} /\ f.curr = rq.curr
    BY <2>1, <2>2, NiceFacts
  <2> HIDE DEF f
  <2>4. /\ Good(Enqueue(f, e)) /\ Enqueue(f, e).tree = (rq.tree \ {e}) \cup {e}
        /\ Enqueue(f, e).curr = rq.curr
    BY <2>2, <2>3, EnqueueFacts
  <2>5. (rq.tree \ {e}) \cup {e} = rq.tree
    BY <1>3, Zenon
  <2> QED
    BY <2>4, <2>5, Zenon DEF f, d
<1>4. ASSUME e \notin rq.tree, IsCurrent(rq, e)
      PROVE  Good(b) /\ b.tree = rq.tree /\ b.curr = rq.curr
  <2>1. rq.curr = e
    BY <1>4, Zenon DEF IsCurrent
  <2>2. v \in Nat
    <3>1. now \in Nat /\ rq.account_start[e] \in Nat /\ rq.account_start[e] <= now
      BY <1>2, Zenon DEF Good, Runqueues, PerTask
    <3>2. now - rq.account_start[e] \in Nat
      BY <3>1
    <3>3. DeltaFair(rq, e, now - rq.account_start[e]) \in Nat
      BY <1>2, <3>2, SliceFacts, Zenon
    <3>4. rq.vruntime[e] \in Nat
      BY <1>2, Zenon DEF Runqueues, PerTask
    <3> QED
      BY <3>3, <3>4
  <2> HIDE DEF v
  <2> QED
    BY <1>2, <2>1, <2>2, CurrentNiceFacts, ZenonT(40)
<1>5. ASSUME e \notin rq.tree, ~IsCurrent(rq, e)
      PROVE  Good(c) /\ c.tree = rq.tree /\ c.curr = rq.curr
  <2>1. e \notin On(rq)
    BY <1>5, Zenon DEF On, IsCurrent
  <2> QED
    BY <1>2, <2>1, NiceFacts, Zenon
<1>6. Good(x) /\ x.tree = rq.tree /\ x.curr = rq.curr
  <2> HIDE DEF a, b, c
  <2> QED
    BY <1>3, <1>4, <1>5, Zenon
<1> HIDE DEF x
<1>7. Good(UpdateMin(x)) /\ rq'.tree = rq.tree /\ rq'.curr = rq.curr
  BY <1>1, <1>6, GoodUpdateMin, Zenon DEF SameQueue
<1>8. Good(rq)'
  BY <1>1, <1>7, GoodNext, Zenon
<1>9. Typed' /\ Placed'
  BY <1>1, <1>7, Zenon DEF RqInv, Typed, Placed, Ready
<1> QED
  BY <1>1, <1>7, <1>8, <1>9, Zenon DEF RqInv, Abstract!vars

\* remove_sched_entity takes the running task off, wherever it is.
LEMMA RemoveFacts ==
    ASSUME RqInv, running # Idle
    PROVE  LET r == RemoveEntity(rq, running) IN
           /\ Good(r) /\ r.tree = rq.tree \ {running} /\ r.curr = Idle
<1>1. Good(rq) /\ rq.curr \in {Idle, running} /\ running \in Tasks
  BY Zenon DEF RqInv, Placed, Typed
<1>2. CASE running \in rq.tree
  <2>1. rq.curr = Idle
    BY <1>1, <1>2, Zenon DEF Good
  <2>2. /\ Good(Dequeue(rq, running)) /\ Dequeue(rq, running).curr = Idle
        /\ Dequeue(rq, running).tree = rq.tree \ {running}
    BY <1>1, <1>2, <2>1, DequeueFacts, Zenon
  <2> QED
    BY <1>2, <2>2, GoodUpdateMin, Zenon DEF RemoveEntity, SameQueue
<1>3. CASE running \notin rq.tree /\ rq.curr = running
  <2>1. /\ Good(Detach(rq, running)) /\ Detach(rq, running).curr = Idle
        /\ Detach(rq, running).tree = rq.tree
    BY <1>1, <1>3, DetachFacts, Zenon
  <2> QED
    BY <1>3, <2>1, Zenon DEF RemoveEntity, IsCurrent
<1>4. CASE running \notin rq.tree /\ rq.curr # running
  BY <1>1, <1>4, Zenon DEF RemoveEntity, IsCurrent
<1> QED
  BY <1>2, <1>3, <1>4, Zenon

\* task_block and the exit path take the running task off.
LEMMA RemoveStep ==
    ASSUME RqInv, BlockRemove \/ ExitRemove
    PROVE  RqInv' /\ Abstract!Remove
<1>1. /\ rq' = RemoveEntity(rq, running)
      /\ phase' \in {"sleep", "dying"}
      /\ phase' = "dying" => phase = "run"
      /\ UNCHANGED <<state, running, call, now>>
      /\ running # Idle
  BY Zenon DEF BlockRemove, ExitRemove, RqInv, Placed
<1> DEFINE r == RemoveEntity(rq, running)
<1>2. Good(r) /\ r.tree = rq.tree \ {running} /\ r.curr = Idle
  BY <1>1, RemoveFacts, Zenon
<1> HIDE DEF r
<1>3. rq' = r
  BY <1>1, Zenon DEF r
<1>4. Good(rq)'
  BY <1>1, <1>2, <1>3, GoodNext, Zenon
<1>5. Typed'
  BY <1>1, Zenon DEF RqInv, Typed
<1>6. Placed'
  BY <1>1, <1>2, <1>3, Zenon DEF RqInv, Placed, Ready
<1>7. rq.curr \in {Idle, running}
  BY Zenon DEF RqInv, Placed
<1> QED
  BY <1>1, <1>2, <1>3, <1>4, <1>5, <1>6, <1>7, Zenon DEF RqInv, Abstract!Remove

\* schedule() and the interrupt drop nothing but entities that are not READY.
LEMMA DropStep ==
    ASSUME RqInv, DoIrq \/ Check
    PROVE  RqInv' /\ Abstract!Drop
<1> DEFINE c == PreemptCleans(rq, running)
<1>1. /\ rq' = c \/ rq' = rq
      /\ UNCHANGED <<state, running, now>>
      /\ phase \in {"run", "sleep", "check"} /\ phase' \in {"account", "pick", "run"}
      /\ phase' = "run" => Ready(running)
      /\ call' \in [at : Nat, must : BOOLEAN, yield : BOOLEAN] /\ call'.at <= now
  <2>1. CASE DoIrq
    BY <2>1 DEF DoIrq, RqInv, Typed
  <2>2. CASE Check
    <3>1. /\ phase = "check" /\ UNCHANGED <<state, running, now>>
          /\ rq' = c \/ rq' = rq
          /\ \/ phase' = "pick" /\ call' = call
             \/ phase' = "run" /\ call' = NoCall /\ Ready(running)
      <4> HIDE DEF c
      <4> QED
        BY <2>2, Zenon DEF Check, c
    <3>2. /\ call \in [at : Nat, must : BOOLEAN, yield : BOOLEAN]
          /\ call.at <= now /\ now \in Nat
          /\ NoCall \in [at : Nat, must : BOOLEAN, yield : BOOLEAN] /\ NoCall.at <= now
      <4>1. /\ call \in [at : Nat, must : BOOLEAN, yield : BOOLEAN]
            /\ call.at <= now /\ now \in Nat
        BY Zenon DEF RqInv, Typed
      <4> QED
        BY <4>1 DEF NoCall
    <3> HIDE DEF c
    <3> QED
      BY <3>1, <3>2, Zenon
  <2> QED
    BY <2>1, <2>2, Zenon
<1>2. Good(rq) /\ Cleaned(rq, rq)
  BY Zenon DEF RqInv, Cleaned
<1>3. Good(c) /\ Cleaned(c, rq)
  BY <1>2, PreemptCleansFacts, Zenon
<1> HIDE DEF c
<1>4. Cleaned(rq', rq) /\ Good(rq)'
  BY <1>1, <1>2, <1>3, GoodNext, Zenon
<1>5. Typed'
  BY <1>1, Zenon DEF RqInv, Typed
<1>6. Placed'
  BY <1>1, <1>4, Zenon DEF RqInv, Placed, Ready, Cleaned
<1>7. /\ rq'.tree \subseteq rq.tree /\ rq'.curr = rq.curr
      /\ \A e \in rq.tree \ rq'.tree : ~Abstract!Ready(e)
  BY <1>4, Zenon DEF Cleaned, Ready, Abstract!Ready
<1> QED
  BY <1>1, <1>4, <1>5, <1>6, <1>7, Zenon DEF RqInv, Abstract!Drop

\* Steps that leave the runqueue alone.
LEMMA QuietStep ==
    ASSUME RqInv, Tick \/ \E y \in BOOLEAN : Schedule(y)
    PROVE  RqInv' /\ UNCHANGED Abstract!vars
<1>1. CASE Tick
  <2>1. now \in Nat /\ now' = now + 1 /\ now' <= MaxTime
        /\ UNCHANGED <<rq, state, running, phase, call>>
    BY <1>1, ConstantsAssumption DEF Tick, RqInv, Typed
  <2>2. Good(rq)'
    <3>1. ASSUME NEW e \in Tasks
          PROVE  rq.exec_start[e] <= now + 1 /\ rq.account_start[e] <= now + 1
      <4>1. /\ rq.exec_start[e] \in Nat /\ rq.account_start[e] \in Nat
            /\ rq.exec_start[e] <= now /\ rq.account_start[e] <= now
        BY Zenon DEF RqInv, Good, Runqueues, PerTask
      <4> QED
        BY <2>1, <4>1
    <3> QED
      BY <2>1, <3>1 DEF RqInv, Good, On
  <2>3. Typed'
    BY <2>1 DEF RqInv, Typed
  <2>4. Placed'
    BY <2>1, Zenon DEF RqInv, Placed, Ready
  <2> QED
    BY <2>1, <2>2, <2>3, <2>4, Zenon DEF RqInv, Abstract!vars
<1>2. ASSUME NEW y \in BOOLEAN, Schedule(y) PROVE RqInv' /\ UNCHANGED Abstract!vars
  <2>1. /\ UNCHANGED <<rq, state, running, now>> /\ phase' = "account"
        /\ phase \in {"run", "sleep"}
        /\ call' = [at |-> now, must |-> y, yield |-> y]
    BY <1>2, Zenon DEF Schedule
  <2>2. Good(rq)'
    BY <2>1, GoodNext, Zenon DEF RqInv
  <2>3. Typed'
    BY <2>1 DEF RqInv, Typed
  <2>4. Placed'
    BY <2>1, Zenon DEF RqInv, Placed, Ready
  <2> QED
    BY <2>1, <2>2, <2>3, <2>4, Zenon DEF RqInv, Abstract!vars
<1> QED
  BY <1>1, <1>2, Zenon

\* Steps that change the state of one task.
LEMMA StateStep ==
    ASSUME RqInv, Block \/ ExitDied \/ \E e \in Tasks : Wake(e)
    PROVE  RqInv' /\ Abstract!Next
<1>1. CASE Block
  <2>1. /\ phase = "run" /\ running # Idle /\ phase' = "remove"
        /\ state' = [state EXCEPT ![running] = "blocking"]
        /\ UNCHANGED <<rq, running, call, now>>
        /\ running \in Tasks /\ state[running] = "ready"
    BY <1>1, Zenon DEF Block, RqInv, Typed, Placed, Ready
  <2>2. Good(rq)'
    BY <2>1, GoodNext, Zenon DEF RqInv
  <2>3. Typed'
    BY <2>1, Zenon DEF RqInv, Typed
  <2>4. Placed'
    BY <2>1, Zenon DEF RqInv, Typed, Placed, Ready
  <2> QED
    BY <2>1, <2>2, <2>3, <2>4, Zenon DEF RqInv, Abstract!Next, Abstract!SetState
<1>2. CASE ExitDied
  <2>1. /\ phase = "dying" /\ running # Idle /\ phase' = "account"
        /\ state' = [state EXCEPT ![running] = "died"]
        /\ call' = [at |-> now, must |-> FALSE, yield |-> FALSE]
        /\ UNCHANGED <<rq, running, now>>
        /\ running \in Tasks /\ state[running] = "ready"
    BY <1>2, Zenon DEF ExitDied, RqInv, Typed, Placed, Ready
  <2>2. Good(rq)'
    BY <2>1, GoodNext, Zenon DEF RqInv
  <2>3. Typed'
    BY <2>1 DEF RqInv, Typed
  <2>4. Placed'
    BY <2>1, Zenon DEF RqInv, Typed, Placed, Ready
  <2> QED
    BY <2>1, <2>2, <2>3, <2>4, Zenon DEF RqInv, Abstract!Next, Abstract!SetState
<1>3. ASSUME NEW e \in Tasks, Wake(e) PROVE RqInv' /\ Abstract!Next
  <2>1. /\ ~(e = running /\ phase = "remove") /\ state[e] = "blocking"
        /\ state' = [state EXCEPT ![e] = "ready"]
        /\ UNCHANGED <<rq, running, phase, call, now>>
    BY <1>3, Zenon DEF Wake
  <2>2. Good(rq)'
    BY <2>1, GoodNext, Zenon DEF RqInv
  <2>3. Typed'
    BY <2>1, Zenon DEF RqInv, Typed
  <2>4. Placed'
    BY <2>1, Zenon DEF RqInv, Typed, Placed, Ready
  <2> QED
    BY <2>1, <2>2, <2>3, <2>4, Zenon DEF RqInv, Abstract!Next, Abstract!SetState
<1> QED
  BY <1>1, <1>2, <1>3, Zenon

\* Charging the running task moves no entity.
LEMMA AccountStep ==
    ASSUME RqInv, Account
    PROVE  RqInv' /\ UNCHANGED Abstract!vars
<1>1. /\ phase = "account" /\ phase' = "check"
      /\ UNCHANGED <<state, running, call, now>>
      /\ Good(rq) /\ rq \in Runqueues
  BY Zenon DEF Account, RqInv, Good
<1>2. ASSUME NEW s, Good(s), s.tree = rq.tree, s.curr = rq.curr, rq' = UpdateMin(s)
      PROVE  RqInv' /\ UNCHANGED Abstract!vars
  <2>1. Good(UpdateMin(s)) /\ rq'.tree = rq.tree /\ rq'.curr = rq.curr
    BY <1>2, GoodUpdateMin, Zenon DEF SameQueue
  <2>2. Good(rq)'
    BY <1>1, <1>2, <2>1, GoodNext, Zenon
  <2>3. Typed' /\ Placed'
    BY <1>1, <2>1, Zenon DEF RqInv, Typed, Placed, Ready
  <2> QED
    BY <1>1, <2>1, <2>2, <2>3, Zenon DEF RqInv, Abstract!vars
<1>3. CASE running = Idle
  <2>1. rq' = UpdateMin(rq)
    BY <1>3, Zenon DEF Account
  <2> QED
    BY <1>1, <1>2, <2>1, Zenon
<1>4. CASE running # Idle
  <2> DEFINE e == running
             out == IF e \in rq.tree THEN UpdateMin(Dequeue(rq, e)) ELSE rq
             delta == IF rq.account_start[e] = 0 THEN 0
                      ELSE Less(call.at, rq.account_start[e])
             v == out.vruntime[e] + DeltaFair(rq, e, delta)
             ran == [out EXCEPT !.vruntime[e] = v]
             st == [ran EXCEPT !.account_start[e] = call.at]
             x == IF e \in rq.tree THEN Enqueue(ran, e)
                  ELSE IF IsCurrent(ran, e) THEN SetDeadline(st, e)
                  ELSE ran
  <2>1. e \in Tasks /\ call.at \in Nat /\ call.at <= now
    BY <1>4, Zenon DEF RqInv, Typed
  <2>2. /\ Good(out) /\ out.tree = rq.tree \ {e} /\ out.curr = rq.curr
    <3>1. CASE e \in rq.tree
      BY <1>1, <3>1, DequeueFacts, GoodUpdateMin DEF SameQueue
    <3>2. CASE e \notin rq.tree
      BY <1>1, <3>2, Zenon
    <3> QED
      BY <3>1, <3>2, Zenon
  <2>3. v \in Nat
    <3>1. rq.account_start[e] \in Nat
      BY <1>1, <2>1, Zenon DEF Runqueues, PerTask
    <3>2. delta \in Nat
      BY <2>1, <3>1 DEF Less
    <3>3. DeltaFair(rq, e, delta) \in Nat
      <4> HIDE DEF delta, e
      <4> QED
        BY <1>1, <2>1, <3>2, SliceFacts, Zenon
    <3>4. out.vruntime[e] \in Nat
      <4> HIDE DEF out
      <4> QED
        BY <2>1, <2>2, Zenon DEF Good, Runqueues, PerTask
    <3> QED
      BY <3>3, <3>4
  <2>4. rq' = UpdateMin(x)
    <3>1. ran = [out EXCEPT !.vruntime[e] = @ + DeltaFair(rq, e, delta)]
      <4> HIDE DEF out, delta
      <4> QED
        BY <2>1, <2>2, Zenon DEF Good, Runqueues
    <3> QED
      BY <1>4, <3>1, Zenon DEF Account
  <2> HIDE DEF v, out
  <2>5. Good(ran) /\ ran.tree = rq.tree \ {e} /\ ran.curr = rq.curr
    BY <2>1, <2>2, <2>3, VruntimeFacts DEF SameQueue
  <2> HIDE DEF ran, e
  <2>6. CASE e \in rq.tree
    <3>1. e # rq.curr /\ (rq.tree \ {e}) \cup {e} = rq.tree
      BY <1>1, <2>6, Zenon DEF Good
    <3>2. Good(x) /\ x.tree = (rq.tree \ {e}) \cup {e} /\ x.curr = rq.curr
      BY <2>1, <2>5, <2>6, <3>1, EnqueueFacts
    <3> HIDE DEF x
    <3> QED
      BY <1>2, <2>4, <3>1, <3>2, Zenon
  <2>7. CASE e \notin rq.tree /\ IsCurrent(ran, e)
    <3>1. rq.tree \ {e} = rq.tree /\ ran.curr = e
      BY <2>7, Zenon DEF IsCurrent
    <3>2. x = SetDeadline(st, e)
      BY <2>7, Zenon
    <3>3. /\ Good(SetDeadline(st, e)) /\ SetDeadline(st, e).tree = ran.tree
          /\ SetDeadline(st, e).curr = ran.curr
      BY <2>1, <2>5, <3>1, StampFacts
    <3> HIDE DEF x, st
    <3> QED
      BY <1>2, <2>4, <2>5, <3>1, <3>2, <3>3, Zenon
  <2>8. CASE e \notin rq.tree /\ ~IsCurrent(ran, e)
    <3>1. rq.tree \ {e} = rq.tree /\ x = ran
      BY <2>8, Zenon
    <3> HIDE DEF x
    <3> QED
      BY <1>2, <2>4, <2>5, <3>1, Zenon
  <2> QED
    BY <2>6, <2>7, <2>8, Zenon
<1> QED
  BY <1>3, <1>4, Zenon

\* The previous task goes back, into the tree unless it yields.
LEMMA RequeuedFacts ==
    ASSUME NEW s, Good(s), NEW e \in Tasks, s.curr = e, NEW yield \in BOOLEAN
    PROVE  LET r == Requeued(s, e, yield) IN
           /\ Good(r) /\ r.curr = Idle
           /\ r.tree = IF yield THEN s.tree ELSE s.tree \cup {e}
<1> DEFINE out == Detach(s, e)
           m == Max({out.vruntime[e], out.min_vruntime})
           v == m + IF yield /\ out.nr_queued # 0 THEN 1 ELSE 0
           placed == [out EXCEPT !.vruntime[e] = v]
<1>1. Requeued(s, e, yield) = IF yield THEN placed ELSE Enqueue(placed, e)
  BY Zenon DEF Requeued
<1>2. Good(out) /\ out.tree = s.tree /\ out.curr = Idle
  BY DetachFacts, Zenon
<1>3. e \notin s.tree /\ e # Idle
  BY IdleIsNoTask, Zenon DEF Good
<1> HIDE DEF out
<1>4. v \in Nat
  <2>1. out.vruntime[e] \in Nat /\ out.min_vruntime \in Nat
    BY <1>2, Zenon DEF Good, Runqueues, PerTask
  <2>2. m \in Nat
    BY <2>1, MaxOfTwo, Zenon
  <2> HIDE DEF m
  <2> QED
    BY <2>2
<1> HIDE DEF v
<1>5. Good(placed) /\ placed.tree = s.tree /\ placed.curr = Idle
  BY <1>2, <1>4, VruntimeFacts DEF SameQueue
<1> HIDE DEF placed
<1>6. /\ Good(Enqueue(placed, e)) /\ Enqueue(placed, e).tree = s.tree \cup {e}
      /\ Enqueue(placed, e).curr = Idle
  BY <1>3, <1>5, EnqueueFacts
<1> QED
  BY <1>1, <1>5, <1>6, Zenon

\* The picked entity leaves the tree and is attached.
LEMMA TakeFacts ==
    ASSUME NEW s, Good(s), s.curr = Idle, NEW e \in s.tree
    PROVE  /\ Good(Take(s, e)) /\ e \in Tasks
           /\ Take(s, e).tree = s.tree \ {e} /\ Take(s, e).curr = e
<1> DEFINE d == UpdateMin(Dequeue(s, e))
<1>1. Good(d) /\ d.tree = s.tree \ {e} /\ d.curr = Idle /\ e \in Tasks
  BY DequeueFacts, GoodUpdateMin DEF SameQueue
<1> HIDE DEF d
<1>2. Good(Attach(d, e)) /\ Attach(d, e).tree = d.tree /\ Attach(d, e).curr = e
  BY <1>1, AttachFacts, Zenon
<1> QED
  BY <1>1, <1>2, Zenon DEF Take, d

\* What the pick does to the queue: with everything that was queued, and the
\* running task when it goes back, it takes a READY one or finds none.
LEMMA PickEffect ==
    ASSUME RqInv, Pick
    PROVE  LET back == IF Ready(running) /\ rq.curr = running
                       THEN {rq.curr} \ {Idle} ELSE {}
               all == rq.tree \cup back
               ready == {e \in all : Ready(e)}
           IN  /\ Good(rq') /\ rq'.curr = running'
               /\ running' \in Tasks \cup {Idle}
               /\ IF ready = {} THEN running' = Idle ELSE running' \in ready
               /\ rq'.tree \subseteq all \ {running'}
               /\ ready \ {running'} \subseteq rq'.tree
<1> DEFINE clean == CleanIf(rq, rq.cleanup)
           prev == Ready(running) /\ running # Idle /\ IsCurrent(clean, running)
           back == IF prev THEN Requeued(clean, running, call.yield) ELSE clean
           s == AfterPick(back, Idle)
           next == PickEevdf(s, Idle)
           defer == prev /\ call.yield
           alone == defer /\ clean.nr_queued = 0
<1>1. /\ phase = "pick" /\ UNCHANGED <<state, now>>
      /\ IF alone THEN rq' = UpdateMin(clean) /\ running' = running
         ELSE IF next # Idle
         THEN /\ rq' = UpdateMin(IF defer THEN Enqueue(Take(s, next), running)
                                 ELSE Take(s, next))
              /\ running' = next
         ELSE IF defer
         THEN rq' = UpdateMin(Attach(s, running)) /\ running' = running
         ELSE rq' = UpdateMin([s EXCEPT !.curr = Idle]) /\ running' = Idle
  BY Zenon DEF Pick
<1>2. /\ Good(rq) /\ rq.curr \in {Idle, running} /\ running \in Tasks \cup {Idle}
      /\ ~Ready(running) => rq.curr = Idle
      /\ call.yield \in BOOLEAN /\ rq.curr \notin rq.tree
  BY <1>1, Zenon DEF RqInv, Placed, Typed, Good
<1>3. Good(clean) /\ Cleaned(clean, rq)
  BY <1>2, CleanFacts, Zenon
<1> HIDE DEF clean
<1>4. prev <=> Ready(running) /\ running # Idle /\ rq.curr = running
  BY <1>2, <1>3, Zenon DEF Cleaned, IsCurrent
<1>5. prev => clean.curr = running /\ running \in Tasks /\ running \notin clean.tree
  BY <1>2, <1>3, <1>4, Zenon DEF Cleaned
<1>6. ~prev => clean.curr = Idle
  BY <1>2, <1>3, <1>4, Zenon DEF Cleaned
<1> HIDE DEF prev
<1>7. /\ Good(back) /\ back.curr = Idle
      /\ back.tree = IF prev /\ ~call.yield THEN clean.tree \cup {running}
                     ELSE clean.tree
  <2>1. CASE prev
    BY <1>2, <1>3, <1>5, <2>1, RequeuedFacts
  <2>2. CASE ~prev
    BY <1>3, <1>6, <2>2, Zenon
  <2> QED
    BY <2>1, <2>2, Zenon
<1> HIDE DEF back
<1>8. Good(s) /\ Cleaned(s, back) /\ s.curr = Idle
  BY <1>7, CleanFacts, Zenon DEF AfterPick, Cleaned
<1> HIDE DEF s
<1>9. /\ IF \E e \in s.tree : Ready(e) THEN next \in s.tree /\ Ready(next)
         ELSE next = Idle
      /\ Idle \notin s.tree
  <2>1. s \in Runqueues /\ s.tree \subseteq Tasks /\ Idle \notin s.tree
    BY <1>8, IdleIsNoTask, Zenon DEF Good, Runqueues
  <2>2. LET ok == {e \in s.tree : Ready(e) /\ e # Idle} IN
        IF ok = {} THEN next = Idle ELSE next \in ok
    BY <2>1, PickFacts, Zenon
  <2> HIDE DEF next
  <2> QED
    BY <2>1, <2>2, Zenon
<1> HIDE DEF next
<1> DEFINE B == IF prev THEN {running} ELSE {}
           All == rq.tree \cup B
           R == {e \in All : Ready(e)}
<1>10. (IF Ready(running) /\ rq.curr = running THEN {rq.curr} \ {Idle} ELSE {}) = B
  BY <1>4, Zenon
<1>11. /\ s.tree \subseteq All
       /\ prev /\ call.yield => running \notin s.tree
       /\ \A e \in R : e \in s.tree \/ (prev /\ call.yield /\ e = running)
  BY <1>3, <1>5, <1>7, <1>8, Zenon DEF Cleaned
<1>12. CASE alone
  <2>1. prev /\ running \in Tasks /\ clean.curr = running /\ clean.tree = {}
    <3>1. clean.tree \in SUBSET Tasks /\ Cardinality(clean.tree) = 0
      BY <1>3, <1>12, Zenon DEF Good, Runqueues
    <3>2. clean.tree = {}
      BY <3>1, CountFacts, FS_EmptySet, Zenon
    <3> QED
      BY <1>5, <1>12, <3>2, Zenon
  <2>2. Good(UpdateMin(clean)) /\ rq'.tree = {} /\ rq'.curr = running
    BY <1>1, <1>3, <1>12, <2>1, GoodUpdateMin DEF SameQueue
  <2>3. running' = running /\ rq' = UpdateMin(clean)
    BY <1>1, <1>12, Zenon
  <2>4. R = {running}
    BY <1>3, <1>4, <2>1, Zenon DEF Cleaned
  <2> QED
    BY <1>10, <2>1, <2>2, <2>3, <2>4, Zenon
<1>13. CASE ~alone /\ next # Idle
  <2>1. next \in s.tree /\ Ready(next)
    BY <1>9, <1>13, Zenon
  <2> DEFINE t == Take(s, next)
             x == IF defer THEN Enqueue(t, running) ELSE t
  <2>2. Good(t) /\ t.tree = s.tree \ {next} /\ t.curr = next /\ next \in Tasks
    BY <1>8, <2>1, TakeFacts, Zenon
  <2> HIDE DEF t
  <2>3. /\ Good(x) /\ x.curr = next
        /\ x.tree = (s.tree \ {next}) \cup IF defer THEN {running} ELSE {}
    <3>1. CASE defer
      <4>1. running \in Tasks /\ running \notin s.tree /\ running # next
        BY <1>5, <1>11, <2>1, <3>1, Zenon
      <4> QED
        BY <2>2, <3>1, <4>1, EnqueueFacts
    <3>2. CASE ~defer
      BY <2>2, <3>2, Zenon
    <3> QED
      BY <3>1, <3>2, Zenon
  <2>4. rq' = UpdateMin(x) /\ running' = next
    BY <1>1, <1>13, Zenon DEF t
  <2> HIDE DEF x
  <2>5. /\ Good(rq') /\ rq'.curr = next
        /\ rq'.tree = (s.tree \ {next}) \cup IF defer THEN {running} ELSE {}
    BY <2>3, <2>4, GoodUpdateMin, Zenon DEF SameQueue
  <2>6. next \in R
    BY <1>11, <2>1, Zenon
  <2>7. rq'.tree \subseteq All \ {next} /\ R \ {next} \subseteq rq'.tree
    BY <1>11, <2>1, <2>5, Zenon
  <2> QED
    BY <1>10, <2>2, <2>4, <2>5, <2>6, <2>7, Zenon
<1>14. CASE ~alone /\ next = Idle /\ defer
  <2>1. running \in Tasks /\ running \notin s.tree /\ prev
    BY <1>5, <1>11, <1>14, Zenon
  <2>2. /\ Good(Attach(s, running)) /\ Attach(s, running).tree = s.tree
        /\ Attach(s, running).curr = running
    BY <1>8, <2>1, AttachFacts, Zenon
  <2>3. rq' = UpdateMin(Attach(s, running)) /\ running' = running
    BY <1>1, <1>14, Zenon
  <2>4. Good(rq') /\ rq'.tree = s.tree /\ rq'.curr = running
    BY <2>2, <2>3, GoodUpdateMin, Zenon DEF SameQueue
  <2>5. R = {running}
    BY <1>4, <1>9, <1>11, <1>14, <2>1, Zenon
  <2> QED
    BY <1>10, <1>11, <2>1, <2>3, <2>4, <2>5, Zenon
<1>15. CASE ~alone /\ next = Idle /\ ~defer
  <2>1. [s EXCEPT !.curr = Idle] = s
    BY <1>8, Zenon DEF Good, Runqueues
  <2>2. rq' = UpdateMin(s) /\ running' = Idle
    BY <1>1, <1>15, <2>1, Zenon
  <2>3. Good(rq') /\ rq'.tree = s.tree /\ rq'.curr = Idle
    BY <1>8, <2>2, GoodUpdateMin, Zenon DEF SameQueue
  <2>4. R = {}
    BY <1>9, <1>11, <1>15, Zenon
  <2> QED
    BY <1>9, <1>10, <1>11, <2>2, <2>3, <2>4, Zenon
<1> QED
  BY <1>12, <1>13, <1>14, <1>15, Zenon

\* The pick of schedule() is the promised pick.
LEMMA PickStep ==
    ASSUME RqInv, Pick
    PROVE  /\ RqInv' /\ Abstract!Pick
           /\ running' = Idle => \A e \in rq.tree \cup Attached : ~Ready(e)
<1> DEFINE B == IF Ready(running) /\ rq.curr = running THEN {rq.curr} \ {Idle} ELSE {}
           All == rq.tree \cup B
           R == {e \in All : Ready(e)}
<1>1. /\ Good(rq') /\ rq'.curr = running' /\ running' \in Tasks \cup {Idle}
      /\ IF R = {} THEN running' = Idle ELSE running' \in R
      /\ rq'.tree \subseteq All \ {running'}
      /\ R \ {running'} \subseteq rq'.tree
  BY PickEffect, Zenon
<1>2. /\ phase = "pick" /\ phase' = "run" /\ call' = NoCall /\ UNCHANGED <<state, now>>
  BY Zenon DEF Pick
<1>3. /\ rq.curr \in {Idle, running}
      /\ ~Ready(running) => rq.curr = Idle
      /\ rq.tree \subseteq Tasks
  BY <1>2, Zenon DEF RqInv, Placed, Good, Runqueues
<1>4. Ready(running)'
  BY <1>1, <1>2, Zenon DEF Ready
<1>5. Good(rq)'
  BY <1>1, <1>2, Zenon DEF Good, On
<1>6. Typed'
  BY <1>1, <1>2 DEF RqInv, Typed, NoCall
<1>7. Placed'
  BY <1>1, <1>2, <1>4, Zenon DEF Placed
<1>8. /\ R = {e \in All : Abstract!Ready(e)} /\ Abstract!Ready(running) = Ready(running)
  BY Zenon DEF Ready, Abstract!Ready
<1>9. Abstract!Pick
  <2> HIDE DEF R
  <2>1. B = IF Abstract!Ready(running) /\ rq.curr = running
            THEN {rq.curr} \ {Idle} ELSE {}
    BY <1>8, Zenon
  <2>2. Abstract!Ready(running) \/ rq.curr = Idle
    BY <1>3, Zenon DEF Ready, Abstract!Ready
  <2> HIDE DEF B
  <2> QED
    BY <1>1, <1>2, <1>8, <2>1, <2>2, Zenon DEF Abstract!Pick
<1>10. running' = Idle => \A e \in rq.tree \cup Attached : ~Ready(e)
  <2> SUFFICES ASSUME running' = Idle, NEW e \in rq.tree \cup Attached PROVE ~Ready(e)
    BY Zenon
  <2>1. Idle \notin R
    BY <1>3, IdleIsNoTask, Zenon
  <2>2. R = {}
    BY <1>1, <2>1, Zenon
  <2>3. ASSUME e \in Attached, Ready(e) PROVE e \in R
    <3>1. e = rq.curr /\ e # Idle /\ e = running
      BY <1>3, <2>3, Zenon DEF Attached
    <3>2. e \in B
      BY <2>3, <3>1, Zenon
    <3> QED
      BY <2>3, <3>2, Zenon
  <2>4. ASSUME e \in rq.tree, Ready(e) PROVE e \in R
    BY <2>4, Zenon
  <2> HIDE DEF R
  <2> QED
    BY <2>2, <2>3, <2>4, Zenon
<1> QED
  BY <1>5, <1>6, <1>7, <1>9, <1>10, Zenon DEF RqInv

-----------------------------------------------------------------------------
(* All steps.                                                              *)

\* Every step keeps the invariant, is a step of RunQueue or leaves it alone,
\* and goes idle only when nothing is READY.
LEMMA InvNext ==
    RqInv /\ [Next]_vars =>
        /\ RqInv' /\ [Abstract!Next]_(Abstract!vars)
        /\ phase = "pick" /\ phase' = "run" /\ running' = Idle =>
              \A e \in rq.tree \cup Attached : ~Ready(e)
<1> SUFFICES ASSUME RqInv, [Next]_vars
             PROVE  /\ RqInv' /\ [Abstract!Next]_(Abstract!vars)
                    /\ phase = "pick" /\ phase' = "run" /\ running' = Idle =>
                          \A e \in rq.tree \cup Attached : ~Ready(e)
  BY Zenon
<1> DEFINE Goal == /\ RqInv' /\ [Abstract!Next]_(Abstract!vars)
                   /\ phase = "pick" /\ phase' = "run" /\ running' = Idle =>
                         \A e \in rq.tree \cup Attached : ~Ready(e)
<1>1. ASSUME UNCHANGED vars PROVE Goal
  <2>1. Good(rq)' /\ Typed' /\ Placed'
    BY <1>1, Zenon DEF vars, RqInv, Good, On, Typed, Placed, Ready
  <2> QED
    BY <1>1, <2>1, Zenon DEF vars, RqInv, Abstract!vars
<1>2. ASSUME DoIrq \/ Check PROVE Goal
  <2>1. RqInv' /\ Abstract!Drop /\ phase # "pick"
    BY <1>2, DropStep, Zenon DEF DoIrq, Check
  <2> QED
    BY <2>1, Zenon DEF Abstract!Next
<1>3. ASSUME BlockRemove \/ ExitRemove PROVE Goal
  <2>1. RqInv' /\ Abstract!Remove /\ phase # "pick"
    BY <1>3, RemoveStep, Zenon DEF BlockRemove, ExitRemove
  <2> QED
    BY <2>1, Zenon DEF Abstract!Next
<1>4. ASSUME Block \/ ExitDied \/ \E e \in Tasks : Wake(e) PROVE Goal
  <2>1. RqInv' /\ Abstract!Next /\ ~(phase = "pick" /\ phase' = "run")
    BY <1>4, StateStep, Zenon DEF Block, ExitDied, Wake
  <2> QED
    BY <2>1, Zenon
<1>5. ASSUME Tick \/ \E y \in BOOLEAN : Schedule(y) PROVE Goal
  <2>1. /\ RqInv' /\ UNCHANGED Abstract!vars
        /\ ~(phase = "pick" /\ phase' = "run")
    BY <1>5, QuietStep, Zenon DEF Tick, Schedule
  <2> QED
    BY <2>1, Zenon
<1>6. ASSUME Account PROVE Goal
  <2>1. RqInv' /\ UNCHANGED Abstract!vars /\ phase # "pick"
    BY <1>6, AccountStep, Zenon DEF Account
  <2> QED
    BY <2>1, Zenon
<1>7. ASSUME Pick PROVE Goal
  <2>1. /\ RqInv' /\ Abstract!Pick
        /\ running' = Idle => \A e \in rq.tree \cup Attached : ~Ready(e)
    BY <1>7, PickStep, Zenon
  <2> QED
    BY <2>1, Zenon DEF Abstract!Next
<1>8. ASSUME NEW e \in Tasks, NEW w \in BOOLEAN, AddEntity(e, w) PROVE Goal
  <2>1. /\ RqInv' /\ Abstract!Add(e) /\ ~(phase = "pick" /\ phase' = "run")
    BY <1>8, AddEntityStep, Zenon DEF AddEntity
  <2> QED
    BY <2>1, Zenon DEF Abstract!Next
<1>9. ASSUME \E e \in Tasks, n \in Nices : SetNice(e, n) PROVE Goal
  <2>1. /\ RqInv' /\ UNCHANGED Abstract!vars
        /\ ~(phase = "pick" /\ phase' = "run")
    BY <1>9, SetNiceStep, Zenon DEF SetNice
  <2> QED
    BY <2>1, Zenon
<1>10. Goal
  <2> HIDE DEF Goal
  <2> QED
    BY <1>1, <1>2, <1>3, <1>4, <1>5, <1>6, <1>7, <1>8, <1>9, Zenon DEF Next
<1> QED
  BY <1>10, Zenon

\* The invariant holds in every reachable state.
LEMMA Invariance == Spec => []RqInv
<1>1. RqInv /\ [Next]_vars => RqInv'
  BY InvNext, Zenon
<1> QED
  BY <1>1, InvInit, PTL DEF Spec

\* The timer of a running task is armed for a time at which the interrupt
\* preempts it, when another READY task waits.
LEMMA InvImpliesTimer == RqInv => TimerPreempts
<1> SUFFICES ASSUME RqInv, phase = "run", running # Idle,
                    NEW e \in rq.tree \ {running}, Ready(e)
             PROVE  LET d == NextPreemptDeadline(rq, running, now) IN
                    d <= MaxTime + MAX_GRANULARITY /\ ShouldPreempt(rq, running, d)
  BY Zenon DEF TimerPreempts
<1>1. /\ running \in Tasks /\ Ready(running) /\ now \in Nat /\ now <= MaxTime
      /\ Good(rq) /\ rq \in Runqueues
  BY Zenon DEF RqInv, Typed, Placed, Good
<1>2. rq.nr_queued # 0
  <2>1. rq.tree \in SUBSET Tasks /\ rq.nr_queued = Cardinality(rq.tree)
    BY <1>1, Zenon DEF Good, Runqueues
  <2> QED
    BY <2>1, CountFacts, FS_EmptySet, Zenon
<1>3. CASE ~IsCurrent(rq, running)
  BY <1>1, <1>2, <1>3, ConstantsAssumption DEF NextPreemptDeadline, ShouldPreempt
<1>4. CASE IsCurrent(rq, running)
  <2> DEFINE x == rq.exec_start[running]
             y == rq.slice[running]
             d == Max({now, x + y})
             c == PreemptCleans(rq, running)
  <2>1. rq.curr = running
    BY <1>4, Zenon DEF IsCurrent
  <2>2. /\ x \in Nat /\ y \in Nat /\ x <= now /\ y # 0 /\ y <= MAX_GRANULARITY
        /\ MAX_GRANULARITY \in Nat /\ MaxTime \in Nat
    BY <1>1, <2>1, ConstantsAssumption DEF Good, Runqueues, PerTask
  <2>3. SliceOf(rq, running) = y
    BY <2>2, Zenon DEF SliceOf
  <2>4. NextPreemptDeadline(rq, running, now) = d
    BY <1>1, <1>2, <1>4, <2>3, Zenon DEF NextPreemptDeadline
  <2>5. Good(c) /\ Cleaned(c, rq)
    BY <1>1, PreemptCleansFacts, Zenon
  <2> HIDE DEF c
  <2>6. SliceOf(c, running) = y /\ c.exec_start[running] = x /\ e \in c.tree
    BY <2>1, <2>2, <2>5, Zenon DEF Cleaned, SliceOf
  <2> HIDE DEF x, y
  <2>7. d \in Nat /\ x + y <= d /\ d <= MaxTime + MAX_GRANULARITY
    <3>1. x + y \in Nat
      BY <2>2
    <3>2. d \in Nat /\ d \in {now, x + y} /\ x + y <= d
      BY <1>1, <3>1, MaxOfTwo, Zenon
    <3> HIDE DEF d
    <3> QED
      BY <1>1, <2>2, <3>2
  <2> HIDE DEF d
  <2>8. PickEevdf(c, running) # Idle
    <3>1. c \in Runqueues /\ Idle \notin c.tree
      BY <2>5, IdleIsNoTask, Zenon DEF Good, Runqueues
    <3>2. LET ok == {f \in c.tree : Ready(f) /\ f # running} IN
          IF ok = {} THEN PickEevdf(c, running) = Idle
          ELSE PickEevdf(c, running) \in ok
      BY <3>1, PickFacts, Zenon
    <3> QED
      BY <2>6, <3>1, <3>2, Zenon
  <2>9. d - c.exec_start[running] >= SliceOf(c, running)
    BY <2>2, <2>6, <2>7
  <2>10. ShouldPreempt(rq, running, d)
    BY <1>1, <1>2, <1>4, <2>8, <2>9, Zenon DEF ShouldPreempt, c
  <2> QED
    BY <2>4, <2>7, <2>10, Zenon
<1> QED
  BY <1>3, <1>4, Zenon

\* nr_queued, nr_running and load_weight describe the tree and curr in every
\* reachable state: no clamped decrement of sched.c ever hits its clamp.
THEOREM CountersAreExact == Spec => []CountersMatch
  BY Invariance, InvImpliesCounters, PTL

\* sched_next_preempt_deadline names a time at which sched_should_preempt
\* holds, whenever another READY task is queued.
THEOREM TheTimerPreempts == Spec => []TimerPreempts
  BY Invariance, InvImpliesTimer, PTL

\* sched_pick_next_task_internal returns the idle task only when no queued and
\* no attached entity is READY.
THEOREM ReadyTasksKeepTheCpuBusy == Spec => NeverIdleWithReady
<1>1. RqInv /\ [Next]_vars =>
        [phase = "pick" /\ phase' = "run" /\ running' = Idle =>
            \A e \in rq.tree \cup Attached : ~Ready(e)]_vars
  BY InvNext, Zenon
<1> QED
  BY <1>1, Invariance, PTL DEF Spec, NeverIdleWithReady

\* The detailed runqueue implements the abstract one: no operation drops a READY
\* entity, and the pick attaches one whenever there is one.
THEOREM RunQueueIsImplemented == Spec => ImplementsRunQueue
<1>1. Init => Abstract!Init
  BY DEF Init, Abstract!Init
<1>2. RqInv /\ [Next]_vars => [Abstract!Next]_(Abstract!vars)
  BY InvNext, Zenon
<1> QED
  BY <1>1, <1>2, Invariance, PTL DEF Spec, ImplementsRunQueue, Abstract!Spec

=============================================================================
