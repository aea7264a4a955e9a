------------------------------- MODULE Buddy -------------------------------
(***************************************************************************)
(* The buddy allocator of the one zone and its per-CPU lists of single     *)
(* pages (kernel/src/mm/buddy.c).  The zone holds the frames 0 to          *)
(* NPages - 1, of which frame 0 is never handed out.                       *)
(*                                                                         *)
(* A caller works on the per-CPU list under its lock and on the free areas *)
(* under the lock of the zone, one after the other: what it does under one *)
(* lock is a step, and in between the pages it moves are in neither.       *)
(* Frames and Slub call the operations of this module; "then" says who.    *)
(***************************************************************************)
EXTENDS Integers, Sequences, FiniteSets, FiniteSetsExt

LOCAL INSTANCE SequencesExt

CONSTANTS Callers, CPUs, NPages, MAX_ORDER, PCP_HIGH, PCP_BATCH

ASSUME BuddyAssumption ==
    /\ NPages \in Nat \ {0} /\ MAX_ORDER \in Nat \ {0}
    /\ PCP_HIGH \in Nat /\ PCP_BATCH \in Nat \ {0}

VARIABLES
    mem,    \* the free areas, and flags, order and refcount of each page_t
    pcp,    \* pcp_pages, head first
    where,  \* the place a caller has reached
    job     \* its arguments and locals

buddyVars == <<mem, pcp, where, job>>

Pfns    == 0 .. NPages - 1
Managed == 1 .. NPages - 1
Orders  == 0 .. MAX_ORDER - 1

Flags   == {"none", "buddy", "pcp", "slab", "large", "freeing"}

\* page, order: the block; batch: pages between two locks; lo, hi: the part
\* of the block whose references are claimed; tries: attempts that failed;
\* want: the order of the allocation that is tried again.
BuddyJobs == [cpu : CPUs \cup {0}, order : Orders, page : Pfns, batch : Seq(Managed),
              then : {"none", "frames", "slab", "large"}, want : Orders,
              lo : Nat, hi : Nat, tries : 0 .. 2]
NoBuddyJob == [cpu |-> 0, order |-> 0, page |-> 0, batch |-> <<>>, then |-> "none",
               want |-> 0, lo |-> 0, hi |-> 0, tries |-> 0]

\* Leave for a place with some of the locals changed.
Move(c, from, to, new) ==
    /\ where[c] = from
    /\ where' = [where EXCEPT ![c] = to]
    /\ job' = [job EXCEPT ![c] = new]

-----------------------------------------------------------------------------
(* Blocks and free areas.                                                  *)

BlockPages(p, o) == p .. p + 2 ^ o - 1
BlockStart(p, o) == (p \div 2 ^ o) * 2 ^ o
BuddyOf(p, o)    == IF (p \div 2 ^ o) % 2 = 0 THEN p + 2 ^ o ELSE p - 2 ^ o

\* page_mark_free, page_mark_allocated and page_mark_pcp.
MarkPages(m, P, flag, o) ==
    [m EXCEPT !.flag  = [p \in Pfns |-> IF p \in P THEN flag ELSE @[p]],
              !.order = [p \in Pfns |-> IF p \in P THEN o ELSE @[p]],
              !.refs  = [p \in Pfns |-> IF p \in P THEN 0 ELSE @[p]]]

free_area_add(m, o, p) == [MarkPages(m, {p}, "buddy", o) EXCEPT !.area[o] = <<p>> \o @]
free_area_del(m, o, p) ==
    [MarkPages(m, {p}, "none", o) EXCEPT !.area[o] = SelectSeq(@, LAMBDA q : q # p)]

page_is_buddy(m, p, o) == m.flag[p] = "buddy" /\ m.order[p] = o

\* The parts of a block of order "from" that are not needed become free.
Split(m, p, from, to) ==
    FoldSet(LAMBDA o, n : free_area_add(n, o, p + 2 ^ o), m, to .. from - 1)

\* The first block of the lowest order that has one, or 0.
buddy_alloc_order_locked(m, o) ==
    LET usable == {k \in o .. MAX_ORDER - 1 : m.area[k] # <<>>}
        k == Min(usable)
        p == Head(m.area[k])
    IN  IF usable = {} THEN [m |-> m, page |-> 0]
        ELSE [m |-> MarkPages(Split(free_area_del(m, k, p), p, k, o), {p}, "none", o),
              page |-> p]

\* Mutant: the last block of the zone has no buddy.
MergeableInside(m, p, o) ==
    LET b == BuddyOf(BlockStart(p, o), o) IN b + 2 ^ o < NPages /\ page_is_buddy(m, b, o)

\* The buddy of the block that p belongs to at order o is free as a whole.
Mergeable(m, p, o) ==
    LET b == BuddyOf(BlockStart(p, o), o) IN b + 2 ^ o <= NPages /\ page_is_buddy(m, b, o)

\* A block takes in its buddies as long as they are free.
buddy_free_order_locked(m, p, o) ==
    LET k == Max({i \in o .. MAX_ORDER - 1 : \A j \in o .. i - 1 : Mergeable(m, p, j)})
        rest == FoldSet(LAMBDA j, n : free_area_del(n, j, BuddyOf(BlockStart(p, j), j)), m,
                        o .. k - 1)
    IN  free_area_add(rest, k, BlockStart(p, k))

\* The frames from p on as blocks: as large as the alignment and the end allow.
RegionBlocks[p \in 1 .. NPages] ==
    LET o == Max({i \in Orders : p % 2 ^ i = 0 /\ p + 2 ^ i <= NPages}) IN
    IF p = NPages THEN <<>> ELSE <<<<p, o>>>> \o RegionBlocks[p + 2 ^ o]

\* init_zone, and add_memory_region for all frames but the first.
add_memory_region ==
    FoldLeft(LAMBDA m, b : buddy_free_order_locked(m, b[1], b[2]),
             [area |-> [o \in Orders |-> <<>>], order |-> [p \in Pfns |-> 0],
              refs |-> [p \in Pfns |-> 0], flag |-> [p \in Pfns |-> "none"]],
             RegionBlocks[1])

BuddyInit ==
    /\ mem = add_memory_region
    /\ pcp = [u \in CPUs |-> <<>>]
    /\ where = [c \in Callers |-> "user"]
    /\ job = [c \in Callers |-> NoBuddyJob]

-----------------------------------------------------------------------------
(* buddy_alloc_zone_pages and pcp_alloc_order0.                            *)

\* Where an allocation of order o begins.
AllocStart(o) == IF o = 0 THEN "pop" ELSE "zone"

PcpPop(c) ==
    LET list == pcp[job[c].cpu] IN
    /\ where[c] = "pop"
    /\ \/ /\ list = <<>>
          /\ Move(c, "pop", "refill", job[c])
          /\ UNCHANGED <<mem, pcp>>
       \/ /\ list # <<>>
          /\ Move(c, "pop", "got", [job[c] EXCEPT !.page = Head(list)])
          /\ mem' = MarkPages(mem, {Head(list)}, "none", 0)
          /\ pcp' = [pcp EXCEPT ![job[c].cpu] = Tail(list)]

\* Up to n single pages out of the free areas.
TakeBatch(m, n) ==
    FoldLeft(LAMBDA r, i : LET a == buddy_alloc_order_locked(r.m, 0) IN
                           IF a.page = 0 THEN r
                           ELSE [m |-> a.m, batch |-> Append(r.batch, a.page)],
             [m |-> m, batch |-> <<>>], [i \in 1 .. n |-> i])

\* A batch of pages leaves the free areas; one is for the caller.
PcpRefill(c) ==
    LET r == TakeBatch(mem, PCP_BATCH) IN
    /\ where[c] = "refill"
    /\ IF r.batch = <<>> THEN Move(c, "refill", "zone", job[c])
       ELSE Move(c, "refill", "push", [job[c] EXCEPT !.page = Last(r.batch),
                                                     !.batch = Front(r.batch)])
    /\ mem' = r.m
    /\ UNCHANGED pcp

\* The other pages of the batch go into the list.
PcpPush(c) ==
    LET b == job[c].batch IN
    /\ Move(c, "push", "got", [job[c] EXCEPT !.batch = <<>>])
    /\ pcp' = [pcp EXCEPT ![job[c].cpu] = b \o @]
    /\ mem' = MarkPages(MarkPages(mem, ToSet(b), "pcp", 0), {job[c].page}, "none", 0)

ZoneAlloc(c) ==
    LET r == buddy_alloc_order_locked(mem, job[c].order) IN
    /\ Move(c, "zone", IF r.page = 0 THEN "nomem" ELSE "got", [job[c] EXCEPT !.page = r.page])
    /\ mem' = r.m
    /\ UNCHANGED pcp

BuddyAlloc(c) == PcpPop(c) \/ PcpRefill(c) \/ PcpPush(c) \/ ZoneAlloc(c)

-----------------------------------------------------------------------------
(* The end of free_frames_common and buddy_free_zone: pcp_free_order0, or  *)
(* the free areas; and buddy_free_zone_claimed.                            *)

pcp_page_eligible(p) == mem.order[p] = 0 /\ mem.refs[p] = 0 /\ mem.flag[p] = "none"

\* A list that has grown too long gives a batch back.
PcpFree(c) ==
    LET list == <<job[c].page>> \o pcp[job[c].cpu]
        n == IF Len(list) > PCP_HIGH THEN Min({PCP_BATCH, Len(list)}) ELSE 0
        drain == SubSeq(list, 1, n)
    IN
    /\ job[c].order = 0 /\ pcp_page_eligible(job[c].page)
    /\ Move(c, "free", IF n = 0 THEN "freed" ELSE "drain", [job[c] EXCEPT !.batch = drain])
    /\ pcp' = [pcp EXCEPT ![job[c].cpu] = SubSeq(list, n + 1, Len(list))]
    /\ mem' = MarkPages(MarkPages(mem, {job[c].page}, "pcp", 0), ToSet(drain), "none", 0)

PcpDrain(c) ==
    /\ Move(c, "drain", "freed", [job[c] EXCEPT !.batch = <<>>])
    /\ mem' = FoldLeft(LAMBDA m, p : buddy_free_order_locked(m, p, 0), mem, job[c].batch)
    /\ UNCHANGED pcp

ZoneFree(c) ==
    /\ ~(job[c].order = 0 /\ pcp_page_eligible(job[c].page))
    /\ Move(c, "free", "freed", job[c])
    /\ mem' = buddy_free_order_locked(mem, job[c].page, job[c].order)
    /\ UNCHANGED pcp

\* A claimed head that was merged into a lower block loses its flag.
ZoneFreeClaimed(c) ==
    LET p == job[c].page
        m == buddy_free_order_locked(mem, p, job[c].order)
    IN
    /\ Move(c, "claimed", "freed", job[c])
    /\ mem' = IF m.flag[p] = "freeing" THEN MarkPages(m, {p}, "none", 0) ELSE m
    /\ UNCHANGED pcp

\* Some block of the same or a higher order that contains the block is free.
block_already_free(p, o) ==
    \E k \in o .. MAX_ORDER - 1 : page_is_buddy(mem, BlockStart(p, k), k)

\* The tests of buddy_free_zone against a second release.
FreeCheck(c) ==
    /\ Move(c, "check", IF \/ mem.flag[job[c].page] # "none"
                           \/ block_already_free(job[c].page, job[c].order)
                        THEN "freed" ELSE "free", job[c])
    /\ UNCHANGED <<mem, pcp>>

BuddyFree(c) == PcpFree(c) \/ PcpDrain(c) \/ ZoneFree(c) \/ ZoneFreeClaimed(c) \/ FreeCheck(c)

-----------------------------------------------------------------------------
\* The page_t of a page says "buddy" with an order exactly if that order's
\* free area has it, and "pcp" exactly if a per-CPU list has it: merging and
\* the tests against a second release look at nothing else.
MetadataExact ==
    \A p \in Managed :
        /\ \A o \in Orders : page_is_buddy(mem, p, o) <=> p \in ToSet(mem.area[o])
        /\ mem.flag[p] = "pcp" <=> \E u \in CPUs : p \in ToSet(pcp[u])

\* Free memory does not fall apart: two free buddies never stay apart, in
\* whatever order single pages, batches and blocks come back.
BuddiesMerged ==
    \A o \in 0 .. MAX_ORDER - 2 : \A p \in ToSet(mem.area[o]) :
        /\ p % 2 ^ o = 0
        /\ BuddyOf(p, o) \notin ToSet(mem.area[o])

=============================================================================
