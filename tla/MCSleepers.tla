----------------------------- MODULE MCSleepers -----------------------------
(***************************************************************************)
(* The sleeping mutex and the softirq worker for TLC, side by side: "part" *)
(* says which of them moves.                                               *)
(***************************************************************************)
EXTENDS WaitMutex, Softirq

VARIABLE part

sleeperVars == <<part, vars, softirqVars>>

SleepersInit == Init /\ SoftirqInit /\ part \in {"mutex", "softirq"}

InMutex(A)   == part = "mutex" /\ A /\ UNCHANGED <<part, softirqVars>>
InSoftirq(A) == part = "softirq" /\ A /\ UNCHANGED <<part, vars>>

SleepersNext == InMutex(Next) \/ InSoftirq(SoftirqNext)

\* Fairness and SoftirqFairness.
SleepersFairness ==
    /\ \A t \in Tasks : WF_sleeperVars(InMutex(TaskStep(t)))
    /\ WF_sleeperVars(InSoftirq(Daemon))
    /\ \A r \in Raisers : WF_sleeperVars(InSoftirq(RaiserStep(r)))

SleepersSpec == SleepersInit /\ [][SleepersNext]_sleeperVars /\ SleepersFairness

=============================================================================
