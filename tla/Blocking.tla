------------------------------ MODULE Blocking ------------------------------
(***************************************************************************)
(* What the modules about files share: the tasks, the place each of them   *)
(* has reached in its system call, and its sleep.  The sleep is the        *)
(* abstraction of TaskBlock that WaitQueue uses as well: "prepared" after  *)
(* task_prepare_block, "pending" once a wake was accepted in that state,   *)
(* "asleep" after task_block committed, "awake" otherwise.                 *)
(***************************************************************************)

CONSTANT Tasks

VARIABLES at,     \* where a task is
          sleep   \* block_preparing, wake_pending and state of a task

Sleeps == {"awake", "prepared", "pending", "asleep"}

BlockingInit ==
    /\ at = [t \in Tasks |-> "user"]
    /\ sleep = [t \in Tasks |-> "awake"]

Goto(t, from, to) == at[t] = from /\ at' = [at EXCEPT ![t] = to]

task_prepare_block(t) == sleep' = [sleep EXCEPT ![t] = "prepared"]
task_cancel_block_prepare(t) == sleep' = [sleep EXCEPT ![t] = "awake"]

\* task_block: a recorded wake ends it at once.
task_block(t) ==
    sleep' = [sleep EXCEPT ![t] = IF @ = "pending" THEN "awake" ELSE "asleep"]

\* task_unblock, for the tasks of a set.
Woken(s) == CASE s = "asleep"   -> "awake"
              [] s = "prepared" -> "pending"
              [] OTHER          -> s
task_unblock(S) == sleep' = [t \in Tasks |-> IF t \in S THEN Woken(sleep[t])
                                                         ELSE sleep[t]]

=============================================================================
