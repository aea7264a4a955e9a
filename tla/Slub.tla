-------------------------------- MODULE Slub --------------------------------
(***************************************************************************)
(* malloc and free (kernel/src/mm/slub.c): one kmalloc cache, whose slabs  *)
(* are blocks of order SlabOrder with Objects objects each, and the large  *)
(* blocks that go to the buddy allocator directly.                         *)
(*                                                                         *)
(* A cache is worked on under its lock, which stays held while the cache   *)
(* grows; an empty slab is given back after the lock is released.          *)
(***************************************************************************)
EXTENDS Frames

LOCAL INSTANCE SequencesExt

CONSTANTS SlabOrder, Objects

ASSUME SlubAssumption == SlabOrder \in Orders /\ Objects \in Nat \ {0}

VARIABLES
    cache,  \* the holder of the lock, partial_head_pfn's list, empty_slab_pfn
    inuse,  \* the objects of a slab whose bit is set
    has,    \* the objects a caller got from malloc
    big     \* and its large blocks

slubVars == <<cache, inuse, has, big>>
memoryVars == <<buddyVars, framesVars, slubVars>>

None == "none"

SlubInit ==
    /\ cache = [lock |-> None, partial |-> <<>>, empty |-> 0]
    /\ inuse = [p \in Managed |-> {}]
    /\ has = [c \in Callers |-> {}]
    /\ big = [c \in Callers |-> {}]

Unlocked == cache.lock = None
Without(list, s) == SelectSeq(list, LAMBDA q : q # s)

-----------------------------------------------------------------------------
(* cache_alloc and cache_grow.                                             *)

malloc(c, cpu) ==
    /\ Move(c, "user", "cache", [NoBuddyJob EXCEPT !.cpu = cpu, !.order = SlabOrder,
                                                   !.want = SlabOrder, !.then = "slab"])
    /\ UNCHANGED <<mem, pcp, framesVars, slubVars>>

\* Mutant: a slab that is used again stays the one to be given back.
TakeObjectStale(c, list, s) ==
    \E x \in 1 .. Objects \ inuse[s] :
        /\ inuse' = [inuse EXCEPT ![s] = @ \cup {x}]
        /\ has' = [has EXCEPT ![c] = @ \cup {<<s, x>>}]
        /\ cache' = [lock |-> None, empty |-> cache.empty,
                     partial |-> IF Cardinality(inuse[s]) + 1 = Objects
                                 THEN Without(list, s) ELSE list]

\* An object of slab s; a slab without another one leaves the list.
TakeObject(c, list, s) ==
    \E x \in 1 .. Objects \ inuse[s] :
        /\ inuse' = [inuse EXCEPT ![s] = @ \cup {x}]
        /\ has' = [has EXCEPT ![c] = @ \cup {<<s, x>>}]
        /\ cache' = [lock |-> None, empty |-> IF cache.empty = s THEN 0 ELSE cache.empty,
                     partial |-> IF Cardinality(inuse[s]) + 1 = Objects
                                 THEN Without(list, s) ELSE list]

CacheAlloc(c) ==
    /\ Unlocked /\ cache.partial # <<>>
    /\ Move(c, "cache", "user", NoBuddyJob)
    /\ TakeObject(c, cache.partial, Head(cache.partial))
    /\ UNCHANGED <<mem, pcp, framesVars, big>>

CacheGrow(c) ==
    /\ Unlocked /\ cache.partial = <<>>
    /\ Move(c, "cache", AllocStart(SlabOrder), job[c])
    /\ cache' = [cache EXCEPT !.lock = c]
    /\ UNCHANGED <<mem, pcp, framesVars, inuse, has, big>>

SlabGot(c) ==
    /\ job[c].then = "slab"
    /\ Move(c, "got", "user", NoBuddyJob)
    /\ mem' = MarkPages(mem, JobPages(c), "slab", SlabOrder)
    /\ TakeObject(c, <<job[c].page>> \o cache.partial, job[c].page)
    /\ UNCHANGED <<pcp, framesVars, big>>

\* The first failure gives the empty slab back, the second returns NULL.
SlabNoMem(c) ==
    /\ job[c].then = "slab"
    /\ \/ job[c].tries = 0 /\ Move(c, "nomem", "trim", job[c])
       \/ job[c].tries = 1 /\ Move(c, "nomem", "user", NoBuddyJob)
    /\ cache' = [cache EXCEPT !.lock = None]
    /\ UNCHANGED <<mem, pcp, framesVars, inuse, has, big>>

-----------------------------------------------------------------------------
(* cache_free, release_slab and malloc_trim.                               *)

\* The cache keeps one empty slab; a second one leaves the list and goes.
cache_free(c, cpu, s, x) ==
    LET full == Cardinality(inuse[s]) = Objects
        last == inuse[s] = {x}
        give == last /\ cache.empty # 0
    IN
    /\ Unlocked /\ <<s, x>> \in has[c]
    /\ Move(c, "user", IF give THEN "release" ELSE "user",
            IF give THEN [NoBuddyJob EXCEPT !.cpu = cpu, !.page = s, !.order = SlabOrder,
                                            !.then = "slab", !.tries = 2]
                    ELSE NoBuddyJob)
    /\ inuse' = [inuse EXCEPT ![s] = @ \ {x}]
    /\ has' = [has EXCEPT ![c] = @ \ {<<s, x>>}]
    /\ cache' = [cache EXCEPT !.empty = IF last /\ ~give THEN s ELSE @,
                              !.partial = IF give THEN Without(@, s)
                                          ELSE IF full THEN <<s>> \o @ ELSE @]
    /\ UNCHANGED <<mem, pcp, framesVars, big>>

\* clear_slab_pages leaves the orders; then buddy_free_zone.
release_slab(c) ==
    /\ Move(c, "release", "check", job[c])
    /\ mem' = [mem EXCEPT !.flag = [p \in Pfns |-> IF p \in JobPages(c) THEN "none" ELSE @[p]],
                          !.refs = [p \in Pfns |-> IF p \in JobPages(c) THEN 0 ELSE @[p]]]
    /\ UNCHANGED <<pcp, framesVars, slubVars>>

\* malloc_trim(0), on behalf of an allocation that failed.
Retry(j) == [j EXCEPT !.tries = 1, !.page = 0, !.order = j.want]
RetryAt(j) == IF j.then = "slab" THEN "cache" ELSE AllocStart(j.want)

malloc_trim(c) ==
    /\ Unlocked
    /\ IF cache.empty = 0
       THEN /\ Move(c, "trim", RetryAt(job[c]), Retry(job[c]))
            /\ UNCHANGED cache
       ELSE /\ Move(c, "trim", "release",
                    [job[c] EXCEPT !.page = cache.empty, !.order = SlabOrder, !.tries = 1])
            /\ cache' = [cache EXCEPT !.empty = 0, !.partial = Without(@, cache.empty)]
    /\ UNCHANGED <<mem, pcp, framesVars, inuse, has, big>>

\* The slab or the large block is back; an allocation that waits goes on.
SlubFreed(c) ==
    /\ job[c].then \in {"slab", "large"}
    /\ \/ job[c].tries = 1 /\ Move(c, "freed", RetryAt(job[c]), Retry(job[c]))
       \/ job[c].tries # 1 /\ Move(c, "freed", "user", NoBuddyJob)
    /\ UNCHANGED <<mem, pcp, framesVars, slubVars>>

-----------------------------------------------------------------------------
(* Large blocks.                                                           *)

large_alloc_aligned(c, cpu, o) ==
    /\ Move(c, "user", AllocStart(o), [NoBuddyJob EXCEPT !.cpu = cpu, !.order = o,
                                                         !.want = o, !.then = "large"])
    /\ UNCHANGED <<mem, pcp, framesVars, slubVars>>

mark_large_pages(c) ==
    /\ job[c].then = "large"
    /\ Move(c, "got", "user", NoBuddyJob)
    /\ mem' = MarkPages(mem, JobPages(c), "large", job[c].order)
    /\ big' = [big EXCEPT ![c] = @ \cup {job[c].page}]
    /\ UNCHANGED <<pcp, framesVars, cache, inuse, has>>

LargeNoMem(c) ==
    /\ job[c].then = "large"
    /\ \/ job[c].tries = 0 /\ Move(c, "nomem", "trim", job[c])
       \/ job[c].tries = 1 /\ Move(c, "nomem", "user", NoBuddyJob)
    /\ UNCHANGED <<mem, pcp, framesVars, slubVars>>

\* The head is claimed by its flag; a second release would be an assertion.
large_free(c, p) ==
    /\ p \in big[c] /\ mem.flag[p] = "large"
    /\ Move(c, "user", "clear", [NoBuddyJob EXCEPT !.page = p, !.order = mem.order[p],
                                                   !.then = "large"])
    /\ mem' = [mem EXCEPT !.flag[p] = "freeing"]
    /\ big' = [big EXCEPT ![c] = @ \ {p}]
    /\ UNCHANGED <<pcp, framesVars, cache, inuse, has>>

clear_claimed_large_pages(c) ==
    /\ Move(c, "clear", "claimed", job[c])
    /\ mem' = [mem EXCEPT
          !.flag = [p \in Pfns |-> IF p \in JobPages(c) \ {job[c].page} THEN "none" ELSE @[p]],
          !.refs = [p \in Pfns |-> IF p \in JobPages(c) THEN 0 ELSE @[p]]]
    /\ UNCHANGED <<pcp, framesVars, slubVars>>

SlubStep(c) ==
    \/ \E cpu \in CPUs : malloc(c, cpu)
    \/ CacheAlloc(c) \/ CacheGrow(c) \/ SlabGot(c) \/ SlabNoMem(c)
    \/ \E cpu \in CPUs, s \in Managed, x \in 1 .. Objects : cache_free(c, cpu, s, x)
    \/ release_slab(c) \/ malloc_trim(c) \/ SlubFreed(c)
    \/ \E cpu \in CPUs, o \in Orders : large_alloc_aligned(c, cpu, o)
    \/ mark_large_pages(c) \/ LargeNoMem(c) \/ clear_claimed_large_pages(c)
    \/ \E p \in Managed : large_free(c, p)

-----------------------------------------------------------------------------
MemoryInit == BuddyInit /\ FramesInit /\ SlubInit

MemoryNext ==
    \E c \in Callers :
        \/ (BuddyAlloc(c) \/ BuddyFree(c)) /\ UNCHANGED <<framesVars, slubVars>>
        \/ FramesStep(c) /\ UNCHANGED slubVars
        \/ SlubStep(c)

MemorySpec == MemoryInit /\ [][MemoryNext]_memoryVars

\* Every variable stays in its domain; a per-CPU list is never longer than
\* its limit and a batch for each caller that refills it; and the lock of the
\* cache is held by a caller inside cache_grow and by nobody else.
MemoryTypeOK ==
    /\ \A o \in Orders : mem.area[o] \in Seq(Managed)
    /\ mem.order \in [Pfns -> Orders] /\ mem.flag \in [Pfns -> Flags]
    /\ mem.refs \in [Pfns -> 0 .. 2 * Cardinality(Callers)]
    /\ \A u \in CPUs : /\ pcp[u] \in Seq(Managed)
                       /\ Len(pcp[u]) <= PCP_HIGH + Cardinality(Callers) * (PCP_BATCH - 1)
    /\ job \in [Callers -> BuddyJobs]
    /\ \A c \in Callers :
           cache.lock = c <=> /\ job[c].then = "slab"
                              /\ where[c] \in {"pop", "refill", "push", "zone", "got", "nomem"}

\* Pages a caller moves are in its hands alone: between two locks, or before
\* they are marked as used, or on their way back.
InHand(c) ==
    IF where[c] \in {"push", "got", "released", "release", "check", "clear", "claimed", "free"}
    THEN JobPages(c) ELSE {}

SlabHeads == ToSet(cache.partial) \cup {p \in Managed : inuse[p] # {}}

\* Every page is in exactly one place (the places cover all pages, and their
\* sizes add up to no more): in one block of one free area, in one
\* per-CPU list, in the hands of one caller that moves it, in use with its
\* references, in one slab, or in one large block.  No interleaving of
\* refills, drains, claims, trims and releases loses a page or hands one out
\* twice.
PagesExact ==
    LET area  == UNION {BlockPages(p, o) : <<o, p>> \in {<<o, p>> \in Orders \X Managed :
                                                          p \in ToSet(mem.area[o])}}
        used  == {p \in Managed : mem.refs[p] > 0} \cup UNION {owns[c] : c \in Callers}
        slabs == UNION {BlockPages(s, SlabOrder) : s \in SlabHeads}
        large == [c \in Callers |-> UNION {BlockPages(p, mem.order[p]) : p \in big[c]}]
    IN
    /\ area \cup used \cup slabs
            \cup UNION {ToSet(pcp[u]) : u \in CPUs}
            \cup UNION {ToSet(job[c].batch) \cup InHand(c) \cup large[c] : c \in Callers}
       = Managed
    /\ MapThenSumSet(LAMBDA o : Len(mem.area[o]) * 2 ^ o, Orders)
          + Cardinality(used) + Cardinality(SlabHeads) * 2 ^ SlabOrder
          + MapThenSumSet(LAMBDA u : Len(pcp[u]), CPUs)
          + MapThenSumSet(LAMBDA c : Len(job[c].batch) + Cardinality(InHand(c)), Callers)
          + MapThenSumSet(LAMBDA c : MapThenSumSet(LAMBDA p : 2 ^ mem.order[p], big[c]), Callers)
       = NPages - 1

\* An object belongs to one caller, its bit is set, and its slab has not been
\* given back; no bit is set for an object nobody has.
ObjectsExact ==
    /\ \A s \in Managed : inuse[s] = {x \in 1 .. Objects : \E c \in Callers : <<s, x>> \in has[c]}
    /\ \A c, d \in Callers : c # d => has[c] \cap has[d] = {}
    /\ \A s \in SlabHeads : \A p \in BlockPages(s, SlabOrder) :
           mem.flag[p] = "slab" /\ mem.order[p] = SlabOrder

\* The list of the cache has each slab with a free object once and no other;
\* at most one of them is empty, and it is the one malloc_trim will find.
PartialExact ==
    /\ \A i, j \in DOMAIN cache.partial : cache.partial[i] = cache.partial[j] => i = j
    /\ \A s \in SlabHeads : s \in ToSet(cache.partial) <=> Cardinality(inuse[s]) < Objects
    /\ \A s \in ToSet(cache.partial) : inuse[s] = {} <=> cache.empty = s
    /\ cache.empty # 0 => cache.empty \in ToSet(cache.partial)

\* Pages, their reference counts and their page_t agree at every step of
\* every caller.
MemoryExact == MemoryTypeOK /\ PagesExact /\ RefsExact /\ MetadataExact

\* The objects, the bitmaps and the list of the cache agree.
SlabsExact == ObjectsExact /\ PartialExact

=============================================================================
