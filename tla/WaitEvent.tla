----------------------------- MODULE WaitEvent -----------------------------
(***************************************************************************)
(* Waiting for a condition on a wait queue, as tty_input_wait,             *)
(* pcache_wait_unlocked, pci_wait_for_probes, the virtio and USB drivers   *)
(* and the poll tables do it: prepare, add, test, block, remove, cancel.   *)
(* Wakers make conditions true and then call wait_queue_wake_all.          *)
(***************************************************************************)
EXTENDS WaitQueue, FiniteSets

CONSTANT MaxWakes   \* bound on the number of wake calls

ASSUME EventAssumption == MaxWakes \in Nat

VARIABLES pc,    \* where a waiter is in its loop
          cond   \* tasks whose condition holds

eventVars == <<queueVars, pc, cond>>

EventTypeOK ==
    /\ QueueTypeOK
    /\ pc \in [Tasks -> {"run", "add", "check", "block", "wait", "remove", "cancel"}]
    /\ cond \in SUBSET Tasks

EventInit == QueueInit /\ pc = [t \in Tasks |-> "run"] /\ cond = {}

Goto(t, from, to) == pc[t] = from /\ pc' = [pc EXCEPT ![t] = to]

Prepare(t) ==
    /\ Goto(t, "run", "add") /\ task_prepare_block(t)
    /\ UNCHANGED <<entries, entry_seq, wake_seq, qlock, call, cond>>

Add(t) ==
    /\ Goto(t, "add", "check") /\ wait_queue_add(t)
    /\ UNCHANGED <<sleep, wake_seq, qlock, call, cond>>

Check(t) ==
    /\ Goto(t, "check", IF t \in cond THEN "remove" ELSE "block")
    /\ cond' = cond \ {t}
    /\ UNCHANGED queueVars

Block(t) ==
    /\ Goto(t, "block", "wait") /\ task_block(t)
    /\ UNCHANGED <<entries, entry_seq, wake_seq, qlock, call, cond>>

\* task_block returns once a waker has made the task READY.
Return(t) ==
    /\ Goto(t, "wait", "remove") /\ sleep[t] = "awake"
    /\ UNCHANGED <<queueVars, cond>>

Remove(t) ==
    /\ Goto(t, "remove", "cancel") /\ wait_queue_remove(t)
    /\ UNCHANGED <<sleep, wake_seq, qlock, call, cond>>

Cancel(t) ==
    /\ Goto(t, "cancel", "run") /\ task_cancel_block_prepare(t)
    /\ UNCHANGED <<entries, entry_seq, wake_seq, qlock, call, cond>>

WaitStep(t) ==
    \/ Prepare(t) \/ Add(t) \/ Check(t) \/ Block(t)
    \/ Return(t) \/ Remove(t) \/ Cancel(t)

\* A waker makes the condition of some tasks true, then wakes their queue.
Signal(k, match) ==
    /\ wake_seq + Cardinality({j \in Wakers : call[j].at = "seq"}) < MaxWakes
    /\ wait_queue_wake(k, match, 0)
    /\ cond' = cond \cup match
    /\ UNCHANGED pc

EventNext ==
    \/ \E t \in Tasks : WaitStep(t)
    \/ \E k \in Wakers :
          \/ \E match \in SUBSET Tasks \ {{}} : Signal(k, match)
          \/ WakeStep(k) /\ UNCHANGED <<pc, cond>>

EventSpec == EventInit /\ [][EventNext]_eventVars

-----------------------------------------------------------------------------
\* A wake call that still is going to look at the entry of t.
WillReach(k, t) ==
    /\ t \in call[k].match
    /\ \/ call[k].at \in {"seq", "lock"}
       \/ call[k].at = "scan" /\ \E i \in call[k].pos .. Len(entries) : entries[i] = t

\* No lost wakeup: a task does not stay asleep in task_block with its
\* condition true unless a wait_queue_wake_all call has yet to reach its
\* entry, whatever the batches and the sequence numbers of concurrent calls.
NoLostWakeup ==
    \A t \in Tasks :
        t \in cond /\ sleep[t] = "asleep" => \E k \in Wakers : WillReach(k, t)

\* An entry is on its waiter's stack: it is in the list, once, exactly from
\* wait_queue_add to wait_queue_remove, and never after the waiter has left.
EntriesOnStack ==
    /\ \A t \in Tasks : t \in Entries <=> pc[t] \in {"check", "block", "wait", "remove"}
    /\ \A i, j \in DOMAIN entries : entries[i] = entries[j] => i = j

=============================================================================
