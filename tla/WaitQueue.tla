----------------------------- MODULE WaitQueue -----------------------------
(***************************************************************************)
(* Wait queues (kernel/src/task/wait.c): the list of waiting entries, its  *)
(* lock, and wait_queue_wake with its sequence number, its limit nr and    *)
(* its batches of unblock tokens.  This module has the state and the       *)
(* operations; WaitEvent and WaitMutex have specifications that use them.  *)
(*                                                                         *)
(* The sleep of a task is the abstraction of TaskBlock that its callers    *)
(* rely on: "prepared" after task_prepare_block, "pending" once a wake was *)
(* accepted in that state, "asleep" after task_block committed, "awake"    *)
(* otherwise.  A step that takes the queue lock needs it to be free; the   *)
(* scan of the list holds it over several steps, because the tasks it      *)
(* looks at are not stopped by it.                                         *)
(***************************************************************************)
EXTENDS Naturals, Sequences

CONSTANTS Tasks,   \* the tasks that wait
          Wakers,  \* the contexts that call wait_queue_wake
          Batch,   \* length of wake_tokens[] (64)
          Nobody   \* holder of a free queue lock

ASSUME QueueAssumption ==
    /\ Batch \in Nat \ {0}
    /\ Nobody \notin Wakers

VARIABLES
    sleep,      \* block_preparing, wake_pending and state of a task
    entries,    \* queue->entries
    entry_seq,  \* entry->wake_seq of a task's entry
    wake_seq,   \* queue->wake_seq
    qlock,      \* the waker that scans under queue->lock, or Nobody
    call        \* the wait_queue_wake call of a waker

queueVars == <<sleep, entries, entry_seq, wake_seq, qlock, call>>

Sleeps  == {"awake", "prepared", "pending", "asleep"}
Entries == {entries[i] : i \in DOMAIN entries}

\* The locals of wait_queue_wake: events (as the set of tasks whose entry
\* they match), nr (0 is no limit), wake_seq, the scan position, the number
\* of accepted wakes (kept when there is a limit) and of tokens to finish.
Calls == [at : {"none", "seq", "scan", "lock"}, match : SUBSET Tasks,
          nr : Nat, seq : Nat, pos : Nat \ {0}, woke : Nat, tokens : Nat]
NoCall == [at |-> "none", match |-> {}, nr |-> 0, seq |-> 0, pos |-> 1,
           woke |-> 0, tokens |-> 0]

QueueTypeOK ==
    /\ sleep \in [Tasks -> Sleeps]
    /\ entries \in Seq(Tasks)
    /\ entry_seq \in [Tasks -> Nat]
    /\ wake_seq \in Nat
    /\ qlock \in Wakers \cup {Nobody}
    /\ call \in [Wakers -> Calls]

QueueInit ==
    /\ sleep = [t \in Tasks |-> "awake"]
    /\ entries = <<>>
    /\ entry_seq = [t \in Tasks |-> 0]
    /\ wake_seq = 0
    /\ qlock = Nobody
    /\ call = [k \in Wakers |-> NoCall]

-----------------------------------------------------------------------------
(* The waiting side.                                                       *)

task_prepare_block(t) == sleep' = [sleep EXCEPT ![t] = "prepared"]
task_cancel_block_prepare(t) == sleep' = [sleep EXCEPT ![t] = "awake"]

\* task_block: a recorded wake ends it at once.
task_block(t) ==
    sleep' = [sleep EXCEPT ![t] = IF @ = "pending" THEN "awake" ELSE "asleep"]

wait_queue_add(t) ==
    /\ qlock = Nobody
    /\ entries' = IF t \in Entries THEN entries ELSE Append(entries, t)
    /\ UNCHANGED entry_seq

\* Mutant: the entry stays in the list.
RemoveNothing(t) == qlock = Nobody /\ UNCHANGED <<entries, entry_seq>>

\* The sequence without its i-th element.
DropAt(s, i) == [j \in 1 .. Len(s) - 1 |-> IF j < i THEN s[j] ELSE s[j + 1]]

\* The entry leaves the list, and its storage the stack: the next round
\* starts with wait_queue_entry_init.
wait_queue_remove(t) ==
    /\ qlock = Nobody
    /\ entries' = IF t \in Entries
                  THEN DropAt(entries, CHOOSE i \in DOMAIN entries : entries[i] = t)
                  ELSE entries
    /\ entry_seq' = [entry_seq EXCEPT ![t] = 0]

-----------------------------------------------------------------------------
(* wait_queue_wake.                                                        *)

wait_queue_wake(k, match, nr) ==
    /\ call[k].at = "none"
    /\ call' = [call EXCEPT ![k] = [NoCall EXCEPT !.at = "seq", !.match = match,
                                                  !.nr = nr]]
    /\ UNCHANGED <<sleep, entries, entry_seq, wake_seq, qlock>>

\* The call takes its sequence number.
TakeSeq(k) ==
    /\ call[k].at = "seq" /\ qlock = Nobody
    /\ wake_seq' = wake_seq + 1
    /\ call' = [call EXCEPT ![k].at = "lock", ![k].seq = wake_seq + 1]
    /\ UNCHANGED <<sleep, entries, entry_seq, qlock>>

\* A round of the outer loop: take the lock, start at the head.
ScanStart(k) ==
    /\ call[k].at = "lock" /\ qlock = Nobody
    /\ qlock' = k
    /\ call' = [call EXCEPT ![k].at = "scan", ![k].pos = 1, ![k].tokens = 0]
    /\ UNCHANGED <<sleep, entries, entry_seq, wake_seq>>

\* The inner loop goes on until the limit or the batch is reached.
ScanGoesOn(k) ==
    /\ call[k].at = "scan"
    /\ call[k].pos <= Len(entries)
    /\ call[k].nr = 0 \/ call[k].woke < call[k].nr
    /\ call[k].tokens < Batch

\* task_unblock_prepare: is the wake accepted, is there a token to finish?
Accepts(t)  == sleep[t] # "awake"
Prepared(t) == sleep[t] = "asleep"

\* One entry: an entry that does not match, that a call at least as recent
\* has woken, or whose task does not accept the wake is passed over.
ScanEntry(k) ==
    LET t == entries[call[k].pos]
        accepted == t \in call[k].match /\ entry_seq[t] < call[k].seq /\ Accepts(t)
    IN
    /\ ScanGoesOn(k)
    /\ IF accepted
       THEN /\ sleep' = [sleep EXCEPT ![t] = IF Prepared(t) THEN "awake" ELSE "pending"]
            /\ entry_seq' = [entry_seq EXCEPT ![t] = call[k].seq]
            /\ call' = [call EXCEPT ![k].pos = @ + 1,
                                    ![k].woke = IF call[k].nr = 0 THEN @ ELSE @ + 1,
                                    ![k].tokens = IF Prepared(t) THEN @ + 1 ELSE @]
       ELSE /\ call' = [call EXCEPT ![k].pos = @ + 1]
            /\ UNCHANGED <<sleep, entry_seq>>
    /\ UNCHANGED <<entries, wake_seq, qlock>>

\* Mutant: a full batch ends the call.
NextRoundNever(k) == FALSE

\* After the tokens of a full batch are finished there is another round.
NextRound(k) ==
    /\ call[k].tokens >= Batch
    /\ call[k].nr = 0 \/ call[k].woke < call[k].nr

ScanEnd(k) ==
    /\ call[k].at = "scan" /\ ~ScanGoesOn(k)
    /\ qlock' = Nobody
    /\ call' = [call EXCEPT ![k] = IF NextRound(k) THEN [@ EXCEPT !.at = "lock"]
                                                   ELSE NoCall]
    /\ UNCHANGED <<sleep, entries, entry_seq, wake_seq>>

WakeStep(k) == TakeSeq(k) \/ ScanStart(k) \/ ScanEntry(k) \/ ScanEnd(k)

=============================================================================
