------------------------------ MODULE Frames -------------------------------
(***************************************************************************)
(* Page frames with reference counts: alloc_frames, free_frames and        *)
(* address_ref / address_release (kernel/src/mm/buddy.c, page.c).  A       *)
(* caller owns one reference to each of the pages in owns[c]; whoever has  *)
(* a page may let another caller take a reference of its own.              *)
(*                                                                         *)
(* free_frames releases a block whose every page has one reference left.   *)
(* If it meets a page with more it puts back what it took and returns, and *)
(* its caller, which does not look at the page again, leaves a reference   *)
(* behind: stray counts those, and free_frames is not called any more once *)
(* MaxStray pages have some.                                               *)
(***************************************************************************)
EXTENDS Buddy

CONSTANT MaxStray

VARIABLES owns, stray

framesVars == <<owns, stray>>

FramesInit == owns = [c \in Callers |-> {}] /\ stray = [p \in Managed |-> 0]

JobPages(c) == BlockPages(job[c].page, job[c].order)

-----------------------------------------------------------------------------
alloc_frames(c, cpu, o) ==
    /\ Move(c, "user", AllocStart(o),
            [NoBuddyJob EXCEPT !.cpu = cpu, !.order = o, !.then = "frames"])
    /\ UNCHANGED <<mem, pcp, framesVars>>

\* Each page gets its first reference, and the head the order.
FramesGot(c) ==
    /\ job[c].then = "frames"
    /\ Move(c, "got", "user", NoBuddyJob)
    /\ mem' = [MarkPages(mem, JobPages(c), "none", 0) EXCEPT
                  !.order[job[c].page] = job[c].order,
                  !.refs = [p \in Pfns |-> IF p \in JobPages(c) THEN 1 ELSE @[p]]]
    /\ owns' = [owns EXCEPT ![c] = @ \cup JobPages(c)]
    /\ UNCHANGED <<pcp, stray>>

\* Up to three attempts; the third failure is an assertion.
FramesAgain(c) ==
    /\ job[c].then = "frames"
    /\ \/ /\ job[c].tries < 2
          /\ Move(c, "nomem", AllocStart(job[c].order), [job[c] EXCEPT !.tries = @ + 1])
       \/ job[c].tries = 2 /\ Move(c, "nomem", "panic", NoBuddyJob)
    /\ UNCHANGED <<mem, pcp, framesVars>>

-----------------------------------------------------------------------------
\* page_try_ref: no reference is added to a page that has none.
address_ref(c, p) ==
    /\ where[c] = "user"
    /\ p \notin owns[c] /\ \E d \in Callers : p \in owns[d]
    /\ mem.refs[p] > 0
    /\ mem' = [mem EXCEPT !.refs[p] = @ + 1]
    /\ owns' = [owns EXCEPT ![c] = @ \cup {p}]
    /\ UNCHANGED <<pcp, where, job, stray>>

\* The caller that drops the last reference frees the page.
address_release(c, cpu, p) ==
    /\ p \in owns[c]
    /\ IF mem.refs[p] = 1
       THEN Move(c, "user", "released",
                 [NoBuddyJob EXCEPT !.cpu = cpu, !.page = p, !.then = "frames"])
       ELSE Move(c, "user", "user", NoBuddyJob)
    /\ mem' = [mem EXCEPT !.refs[p] = @ - 1]
    /\ owns' = [owns EXCEPT ![c] = @ \ {p}]
    /\ UNCHANGED <<pcp, stray>>

\* free_frames_released: the tests of free_frames_common.
FramesReleased(c) ==
    /\ Move(c, "released", IF mem.flag[job[c].page] = "none" /\ mem.refs[job[c].page] = 0
                           THEN "free" ELSE "user", job[c])
    /\ UNCHANGED <<mem, pcp, framesVars>>

\* A caller frees what it got from alloc_frames as a whole.
free_frames(c, cpu, p, o) ==
    /\ BlockPages(p, o) \subseteq owns[c]
    /\ Cardinality({q \in Managed : stray[q] > 0}) < MaxStray
    /\ p % 2 ^ o = 0 /\ mem.order[p] = o /\ mem.flag[p] = "none"
    /\ Move(c, "user", "claim",
            [NoBuddyJob EXCEPT !.cpu = cpu, !.page = p, !.order = o, !.then = "frames"])
    /\ UNCHANGED <<mem, pcp, framesVars>>

\* claim_last_page_refs, one page at a time; lo .. hi - 1 are claimed.
ClaimPage(c) ==
    LET p == job[c].page + job[c].hi IN
    /\ p \in JobPages(c)
    /\ IF mem.refs[p] = 1
       THEN /\ Move(c, "claim", "claim", [job[c] EXCEPT !.hi = @ + 1])
            /\ mem' = [mem EXCEPT !.refs[p] = 0]
       ELSE Move(c, "claim", "rollback", job[c]) /\ UNCHANGED mem
    /\ UNCHANGED <<pcp, framesVars>>

ClaimDone(c) ==
    /\ job[c].page + job[c].hi \notin JobPages(c)
    /\ Move(c, "claim", "free", job[c])
    /\ owns' = [owns EXCEPT ![c] = @ \ JobPages(c)]
    /\ UNCHANGED <<mem, pcp, stray>>

\* Mutant: the rollback forgets the first page.
RollbackFromSecond(c) ==
    LET p == job[c].page + job[c].lo IN
    /\ job[c].lo < job[c].hi
    /\ Move(c, "rollback", "rollback", [job[c] EXCEPT !.lo = @ + 1])
    /\ mem' = IF job[c].lo = 0 THEN mem ELSE [mem EXCEPT !.refs[p] = @ + 1]
    /\ UNCHANGED <<pcp, framesVars>>

RollbackPage(c) ==
    LET p == job[c].page + job[c].lo IN
    /\ job[c].lo < job[c].hi
    /\ Move(c, "rollback", "rollback", [job[c] EXCEPT !.lo = @ + 1])
    /\ mem' = [mem EXCEPT !.refs[p] = @ + 1]
    /\ UNCHANGED <<pcp, framesVars>>

\* free_frames returns without a word.
RollbackDone(c) ==
    /\ job[c].lo = job[c].hi
    /\ Move(c, "rollback", "user", NoBuddyJob)
    /\ owns' = [owns EXCEPT ![c] = @ \ JobPages(c)]
    /\ stray' = [p \in Managed |-> IF p \in JobPages(c) THEN stray[p] + 1 ELSE stray[p]]
    /\ UNCHANGED <<mem, pcp>>

FramesFreed(c) ==
    /\ job[c].then = "frames"
    /\ Move(c, "freed", "user", NoBuddyJob)
    /\ UNCHANGED <<mem, pcp, framesVars>>

FramesStep(c) ==
    \/ \E cpu \in CPUs, o \in Orders : alloc_frames(c, cpu, o)
    \/ FramesGot(c) \/ FramesAgain(c)
    \/ \E p \in Managed : address_ref(c, p) \/ \E cpu \in CPUs : address_release(c, cpu, p)
    \/ FramesReleased(c)
    \/ \E cpu \in CPUs, p \in Managed, o \in Orders : free_frames(c, cpu, p, o)
    \/ ClaimPage(c) \/ ClaimDone(c) \/ RollbackPage(c) \/ RollbackDone(c) \/ FramesFreed(c)

-----------------------------------------------------------------------------
\* The pages whose last reference c has claimed and not yet put back.
Claimed(c) == IF where[c] \in {"claim", "rollback"}
              THEN job[c].page + job[c].lo .. job[c].page + job[c].hi - 1 ELSE {}

\* A page's reference count is the number of references its users have, less
\* the ones claimed for the moment, plus the ones left behind, however
\* claims, rollbacks, address_ref and address_release interleave.  So a page
\* is not freed while someone uses it.
RefsExact ==
    \A p \in Managed :
        mem.refs[p] = stray[p] + Cardinality({c \in Callers : p \in owns[c] \ Claimed(c)})

=============================================================================
