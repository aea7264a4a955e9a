------------------------------ MODULE RunQueue ------------------------------
(***************************************************************************)
(* What a runqueue promises, without the order in which it picks: the      *)
(* queue and the attached entity as the sleep/wake protocol (TaskBlock)    *)
(* sees them.  SchedRq implements it.                                      *)
(***************************************************************************)
CONSTANTS Tasks, Idle

VARIABLES
    queued,     \* the tasks in the tree
    curr,       \* the attached task, or Idle
    state,
    running

vars == <<queued, curr, state, running>>

Ready(e) == e = Idle \/ state[e] = "ready"

Init ==
    /\ queued = {} /\ curr = Idle /\ running = Idle
    /\ state = [e \in Tasks |-> "ready"]

Add(e) ==
    /\ e \notin queued /\ e # curr
    /\ queued' = queued \cup {e}
    /\ UNCHANGED <<curr, state, running>>

\* The running task leaves the runqueue, wherever its entity is.
Remove ==
    /\ queued' = queued \ {running}
    /\ curr' = IF curr = running THEN Idle ELSE curr
    /\ UNCHANGED <<state, running>>

SetState(e, from, to) ==
    /\ state[e] = from
    /\ state' = [state EXCEPT ![e] = to]
    /\ UNCHANGED <<queued, curr, running>>

\* Entities that are not READY may be dropped, READY ones never.
Drop ==
    /\ queued' \subseteq queued
    /\ \A e \in queued \ queued' : ~Ready(e)
    /\ UNCHANGED <<curr, state, running>>

\* The attached task, when READY, is queued again; then a READY task is taken
\* from the queue and attached.  The CPU idles only when there is none.  A
\* task that is not READY has been removed before.
Pick ==
    LET back == IF Ready(running) /\ curr = running THEN {curr} \ {Idle} ELSE {}
        all == queued \cup back
        ready == {e \in all : Ready(e)}
    IN  /\ Ready(running) \/ curr = Idle
        /\ IF ready = {} THEN running' = Idle ELSE running' \in ready
        /\ curr' = running'
        /\ queued' \subseteq all \ {running'}
        /\ ready \ {running'} \subseteq queued'
        /\ UNCHANGED state

Next ==
    \/ Remove \/ Drop \/ Pick
    \/ \E e \in Tasks :
          \/ Add(e)
          \/ SetState(e, "ready", "blocking") \/ SetState(e, "blocking", "ready")
          \/ SetState(e, "ready", "died")

Spec == Init /\ [][Next]_vars
=============================================================================
