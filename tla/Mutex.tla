------------------------------- MODULE Mutex -------------------------------
(***************************************************************************)
(* What a mutex promises its callers: one holder at a time, and a caller   *)
(* gets it when it is free.  Which one is not promised.                    *)
(***************************************************************************)
CONSTANTS Tasks, Nobody

VARIABLES holder,   \* the task that holds the mutex
          waiting   \* tasks that have called lock and do not hold it yet

vars == <<holder, waiting>>

Init == holder = Nobody /\ waiting = {}

Call(t) ==
    /\ t \notin waiting /\ holder # t
    /\ waiting' = waiting \cup {t}
    /\ UNCHANGED holder

Acquire(t) ==
    /\ t \in waiting /\ holder = Nobody
    /\ holder' = t
    /\ waiting' = waiting \ {t}

Release(t) ==
    /\ holder = t
    /\ holder' = Nobody
    /\ UNCHANGED waiting

Next == \E t \in Tasks : Call(t) \/ Acquire(t) \/ Release(t)

Safety == Init /\ [][Next]_vars
Spec == Safety /\ WF_vars(\E t \in Tasks : Acquire(t))

=============================================================================
