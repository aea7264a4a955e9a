---------------------------- MODULE MCStructures ----------------------------
(***************************************************************************)
(* Wait queues, the red-black tree and the allocators for TLC.  The first  *)
(* state chooses the part that moves, so the state spaces add up.  The     *)
(* allocators move in four settings: who allocates what, on which CPUs.    *)
(***************************************************************************)
EXTENDS WaitEvent, RbTree, Slub

CONSTANTS Lead,    \* the first waker
          Main     \* the caller that allocates blocks of frames

VARIABLE part

structureVars == <<eventVars, rbVars, memoryVars, part>>

\* refs: one caller allocates frames, the other shares one of them at a time.
\* cpus: single frames on two CPUs.  slab: up to three objects each.  large:
\* one caller has objects, the other large blocks.
Settings == {"refs", "cpus", "slab", "large"}

StructuresInit ==
    /\ EventInit /\ RbInit /\ MemoryInit
    /\ part \in {"wait", "tree"} \cup Settings

\* What a caller may begin in each setting.
Begins(c) ==
    LET begun == job'[c].then IN
    CASE part = "refs"  -> /\ job'[c].cpu \in {0, 1}
                           /\ c # Main => /\ where'[c] \notin {"pop", "zone"}
                                          /\ Cardinality(owns'[c]) <= 1
      [] part = "cpus"  -> /\ job'[c].order = 0 /\ (c # Main => job'[c].cpu \in {0, 2})
                           /\ where'[c] # "claim" /\ \A p \in Managed : mem'.refs[p] <= 1
      [] part = "slab"  -> /\ begun # "large" /\ job'[c].cpu \in {0, 1}
                           /\ where'[c] = "cache" => Cardinality(has[c]) < 3
      [] part = "large" -> /\ begun = "none" \/ (begun = "large") = (c = Main)
                           /\ job'[c].cpu \in {0, 1}

MemoryMoves ==
    \E c \in Callers :
        \/ (BuddyAlloc(c) \/ BuddyFree(c)) /\ UNCHANGED <<framesVars, slubVars>>
        \/ part \in {"refs", "cpus"} /\ FramesStep(c) /\ UNCHANGED slubVars
              /\ (where[c] = "user" => Begins(c))
        \/ part \in {"slab", "large"} /\ SlubStep(c) /\ (where[c] = "user" => Begins(c))

\* The first waker always wakes all; the second begins while it is busy.
LeadWakesAll ==
    /\ call'[Lead].match \in {{}, Tasks}
    /\ \A k \in Wakers \ {Lead} :
           call[k].at = "none" /\ call'[k].at # "none" => call[Lead].at # "none"

StructuresNext ==
    \/ part = "wait" /\ EventNext /\ LeadWakesAll /\ UNCHANGED <<rbVars, memoryVars, part>>
    \/ part = "tree" /\ RbNext /\ UNCHANGED <<eventVars, memoryVars, part>>
    \/ part \in Settings /\ MemoryMoves /\ UNCHANGED <<eventVars, rbVars, part>>

StructuresSpec == StructuresInit /\ [][StructuresNext]_structureVars

=============================================================================
