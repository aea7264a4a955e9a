------------------------------ MODULE MCFutex ------------------------------
(* An instance of Futex: two words of different buckets, and a lock.       *)
EXTENDS Futex, TLC

CONSTANTS t1, t2, t3, e1, w1, l1

MCBucket == (e1 :> 1) @@ (w1 :> 2) @@ (l1 :> 1)
MCOps == (t1 :> {"timed", "timedpi", "wakeop"})
      @@ (t2 :> {"wait", "lockpi", "unlockpi", "requeue"})
      @@ (t3 :> {"store", "wake", "cmprequeue", "exit"})
=============================================================================
