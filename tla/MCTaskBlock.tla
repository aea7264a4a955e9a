---------------------------- MODULE MCTaskBlock ----------------------------
(* An instance of TaskBlock: one task on one CPU.                          *)
EXTENDS TaskBlock, TLC

CONSTANTS t1, c1

OneTask == t1 :> c1
=============================================================================
