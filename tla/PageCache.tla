------------------------------ MODULE PageCache ------------------------------
(***************************************************************************)
(* The page cache of one file (mm/cache.c): page_cache_read, _write,       *)
(* _writeback_range, _invalidate_range, _truncate, _map_fault and the      *)
(* unmapping of shared ranges, and page_cache_reclaim.                     *)
(*                                                                         *)
(* An element of Pages is a page_cache_page_t with its frame.  What a page *)
(* and a block of the disk hold is a version number; version 0 is what the *)
(* file held at first.  Each step is what the code does under              *)
(* mapping->lock, or between two points at which it takes or releases it.  *)
(* mapping->lock and pcache_lru_lock are variables, because invalidation   *)
(* holds the first one, and reclaim the second, over several steps.        *)
(*                                                                         *)
(* The counters that are only shown in statistics and the readahead window *)
(* are left out: a read takes one page and reads ahead the ones behind it. *)
(* The file keeps its size; what truncation cuts is beyond it for a while. *)
(* Callers with preemption disabled spin where the model sleeps.           *)
(***************************************************************************)
EXTENDS Blocking, Integers, Sequences, FiniteSets, SequencesExt

CONSTANTS
    Cachers,          \* the tasks that use the file
    Pages,            \* the memory for cached pages
    MaxPages,         \* bound on the size of the file
    PcOps,            \* the operations of the instance
    MaxPcCalls,       \* bound on the number of calls
    DIRTY_LIMIT,      \* PAGE_CACHE_DIRTY_MAPPING_LIMIT
    WRITEBACK_BATCH,  \* PAGE_CACHE_WRITEBACK_BATCH
    NoPage, Unlocked

ASSUME PcAssumption ==
    /\ Cachers \subseteq Tasks /\ NoPage \notin Pages /\ Unlocked \notin Tasks
    /\ {DIRTY_LIMIT, MaxPcCalls} \subseteq Nat /\ {MaxPages, WRITEBACK_BATCH} \subseteq Nat \ {0}

VARIABLES
    size,     \* of the file, in pages
    page,     \* the pages
    lru,      \* pcache_lru
    maplock,  \* holder of mapping->lock
    lrulock,  \* holder of pcache_lru_lock
    ndirty,   \* mapping->dirty_pages
    active,   \* pcache_writeback_active and pcache_reclaim_active
    pte,      \* the page that is mapped for an index in the address space
    disk,     \* what the file system has stored
    act,      \* arguments and locals of a call
    version,  \* the last version that was made
    latest,   \* the version of the last finished write or recorded store
    excused,  \* indexes of which a page was cut while busy or dirty, or was
              \* stored to while nothing recorded that
    pcalls

pcLocks   == <<maplock, lrulock>>
ghostVars == <<version, latest, excused>>
pageVars  == <<size, page, lru, pcLocks, ndirty, active, pte, disk, act, ghostVars, pcalls>>

Indexes == 0 .. MaxPages - 1
InFile  == 0 .. size - 1

\* cut: invalidation has detached the page.
PageRecords ==
    [life : {"free", "live", "reclaiming"}, index : Indexes, attached : BOOLEAN,
     ref : Nat, mmap : Nat, frame : Nat, uptodate : BOOLEAN, loading : BOOLEAN,
     dirty : BOOLEAN, writeback : BOOLEAN, referenced : BOOLEAN, data : Nat,
     waiting : SUBSET Cachers, cut : BOOLEAN]
Unused ==
    [life |-> "free", index |-> 0, attached |-> FALSE, ref |-> 0, mmap |-> 0,
     frame |-> 0, uptodate |-> FALSE, loading |-> FALSE, dirty |-> FALSE,
     writeback |-> FALSE, referenced |-> FALSE, data |-> 0, waiting |-> {}, cut |-> FALSE]

\* i: the index the call has come to; n: pages written, or left to scan;
\* ref: the count as loaded; zapped: indexes that were unmapped; back: where
\* a wait or a wake returns to.
Idle == [op |-> "none", i |-> 0, p |-> NoPage, n |-> 0, ref |-> 0, ok |-> TRUE,
         zapped |-> {}, back |-> "user"]

PageTypeOK ==
    /\ size \in 1 .. MaxPages /\ page \in [Pages -> PageRecords]
    /\ lru \in Seq(Pages) /\ Len(lru) = Cardinality(ToSet(lru))
    /\ {maplock, lrulock} \subseteq Cachers \cup {Unlocked}
    /\ ndirty \in Nat /\ active \subseteq {"writeback", "reclaim"}
    /\ pte \in [Indexes -> Pages \cup {NoPage}]
    /\ {disk, latest} \subseteq [Indexes -> 0 .. version] /\ excused \subseteq Indexes

PageStart ==
    /\ size \in 1 .. MaxPages
    /\ page = [p \in Pages |-> Unused] /\ lru = <<>>
    /\ maplock = Unlocked /\ lrulock = Unlocked
    /\ ndirty = 0 /\ active = {}
    /\ pte = [i \in Indexes |-> NoPage] /\ disk = [i \in Indexes |-> 0]
    /\ act = [t \in Cachers |-> Idle]
    /\ version = 0 /\ latest = [i \in Indexes |-> 0] /\ excused = {}
    /\ pcalls \in 0 .. MaxPcCalls   \* a bound

PageInit == BlockingInit /\ PageStart

Of(t) == IF act[t].p = NoPage THEN Unused ELSE page[act[t].p]
Set(p, r) == page' = [page EXCEPT ![p] = r]
Go(t, from, to, a) == Goto(t, from, to) /\ act' = [act EXCEPT ![t] = a]
Fail(t, from) == Go(t, from, "put", [act[t] EXCEPT !.ok = FALSE])

\* pcache_lookup_locked: no page or one.
At(i) == {p \in Pages : page[p].attached /\ page[p].index = i}
LowestOf(S) == {p \in S : \A q \in S : page[p].index <= page[q].index}
BusyPage(r) == r.attached /\ (r.loading \/ r.writeback)

Flushes == {"sync", "dontneed", "flush"}
Reads(t) == act[t].op # "write"
UsePlace(op) == CASE op \in {"write", "update"} -> "begin"
                  [] op = "fault"               -> "map"
                  [] OTHER                      -> "put"

-----------------------------------------------------------------------------
\* write: a whole page; update: a part of one; sync: fsync or msync; dontneed:
\* the range is written back and dropped; truncate: it is dropped; fault and
\* munmap: of a shared writable mapping.
FirstPlace(op) ==
    CASE op \in {"read", "write", "update", "fault"} -> "lookup"
      [] op \in {"sync", "dontneed"}                 -> "flush"
      [] op \in {"truncate", "munmap"}               -> "zap"
      [] op = "reclaim"                              -> "reclaim"

PcCall(t) ==
    /\ pcalls < MaxPcCalls
    /\ \E op \in PcOps \ {"store"}, i \in InFile :
          /\ op \in {"sync", "dontneed", "reclaim"} => i = 0
          /\ Go(t, "user", FirstPlace(op), [Idle EXCEPT !.op = op, !.i = i])
    /\ pcalls' = pcalls + 1
    /\ UNCHANGED <<sleep, page, lru, pcLocks, ndirty, active, pte, disk, ghostVars>>

\* A store through the mapping.  Only page_cache_map_fault marks the page
\* dirty: once it has been written back, nothing records further stores.
Store(t) ==
    /\ "store" \in PcOps /\ pcalls < MaxPcCalls /\ at[t] = "user"
    /\ \E i \in Indexes :
          LET r == page[pte[i]] IN
          /\ pte[i] # NoPage
          /\ Set(pte[i], [r EXCEPT !.data = version + 1])
          /\ IF r.attached /\ r.dirty /\ ~r.writeback
             THEN latest' = [latest EXCEPT ![i] = version + 1] /\ UNCHANGED excused
             ELSE excused' = excused \cup {i} /\ UNCHANGED latest
    /\ version' = version + 1 /\ pcalls' = pcalls + 1
    /\ UNCHANGED <<at, sleep, lru, pcLocks, ndirty, active, pte, disk, act>>

-----------------------------------------------------------------------------
\* page_cache_get_page: the page is looked up, and once more after a new one
\* was allocated without the lock.
Touched(p) == [page[p] EXCEPT !.ref = @ + 1, !.referenced = TRUE]

Lookup(t) ==
    LET hit == At(act[t].i) IN
    /\ at[t] = "lookup" /\ maplock = Unlocked
    /\ \/ \E p \in hit : Go(t, "lookup", "got", [act[t] EXCEPT !.p = p]) /\ Set(p, Touched(p))
       \/ hit = {} /\ Go(t, "lookup", "calloc", act[t]) /\ UNCHANGED page
    /\ UNCHANGED <<sleep, lru, pcLocks, ndirty, active, pte, disk, ghostVars, pcalls>>

\* The frame of a page that was freed may still be mapped.
Allocate(t) ==
    LET spare == {p \in Pages : page[p].life = "free" /\ page[p].frame = 0} IN
    /\ at[t] = "calloc"
    /\ \/ \E p \in spare :
             /\ Go(t, "calloc", "insert", [act[t] EXCEPT !.p = p])
             /\ Set(p, [Unused EXCEPT !.life = "live", !.index = act[t].i, !.ref = 1, !.frame = 1])
       \/ spare = {} /\ Go(t, "calloc", "user", Idle) /\ UNCHANGED page
    /\ UNCHANGED <<sleep, lru, pcLocks, ndirty, active, pte, disk, ghostVars, pcalls>>

Insert(t) ==
    LET hit == At(act[t].i) IN
    /\ at[t] = "insert" /\ maplock = Unlocked
    /\ \/ \E p \in hit : /\ Go(t, "insert", "got", [act[t] EXCEPT !.p = p])
                         /\ page' = [page EXCEPT ![p] = Touched(p), ![act[t].p] = Unused]
       \/ /\ hit = {} /\ Go(t, "insert", "lruadd", act[t])
          /\ Set(act[t].p, [Of(t) EXCEPT !.attached = TRUE])
    /\ UNCHANGED <<sleep, lru, pcLocks, ndirty, active, pte, disk, ghostVars, pcalls>>

pcache_lru_add_tail(t) ==
    /\ lrulock = Unlocked /\ Go(t, "lruadd", "got", act[t])
    /\ lru' = Append(lru, act[t].p)
    /\ UNCHANGED <<sleep, page, pcLocks, ndirty, active, pte, disk, ghostVars, pcalls>>

\* uptodate is read without the lock.
Got(t) ==
    /\ Go(t, "got", IF Reads(t) /\ ~Of(t).uptodate THEN "load" ELSE UsePlace(act[t].op), act[t])
    /\ UNCHANGED <<sleep, page, lru, pcLocks, ndirty, active, pte, disk, ghostVars, pcalls>>

\* pcache_load_page, up to the call of readpage.
LoadBegin(t) ==
    LET r == Of(t)  a == act[t] IN
    /\ maplock = Unlocked
    /\ \/ ~r.attached /\ Fail(t, "load") /\ UNCHANGED page
       \/ r.attached /\ r.uptodate /\ Go(t, "load", UsePlace(a.op), a) /\ UNCHANGED page
       \/ /\ r.attached /\ ~r.uptodate /\ r.loading
          /\ Go(t, "load", "busy", [a EXCEPT !.back = "waited"]) /\ UNCHANGED page
       \/ /\ r.attached /\ ~r.uptodate /\ ~r.loading
          /\ Go(t, "load", "readpage", a) /\ Set(a.p, [r EXCEPT !.loading = TRUE])
    /\ UNCHANGED <<sleep, lru, pcLocks, ndirty, active, pte, disk, ghostVars, pcalls>>

\* The task that loaded the page may have failed.
LoadWaited(t) ==
    /\ \/ Of(t).uptodate /\ Go(t, "waited", UsePlace(act[t].op), act[t])
       \/ ~Of(t).uptodate /\ Fail(t, "waited")
    /\ UNCHANGED <<sleep, page, lru, pcLocks, ndirty, active, pte, disk, ghostVars, pcalls>>

\* a_ops->readpage of the file system.
readpage(t) ==
    /\ \E ok \in BOOLEAN :
          /\ Go(t, "readpage", "loaded", [act[t] EXCEPT !.ok = ok])
          /\ Set(act[t].p, IF ok THEN [Of(t) EXCEPT !.data = disk[Of(t).index]] ELSE Of(t))
    /\ UNCHANGED <<sleep, lru, pcLocks, ndirty, active, pte, disk, ghostVars, pcalls>>

\* Mutant: the tasks that wait for the load are not woken.
LoadEndSilent(t) ==
    LET r == Of(t)  a == act[t] IN
    /\ maplock = Unlocked
    /\ \/ /\ r.attached
          /\ Go(t, "loaded", IF a.ok THEN UsePlace(a.op) ELSE "put", a)
          /\ Set(a.p, [r EXCEPT !.uptodate = @ \/ a.ok, !.loading = FALSE])
       \/ ~r.attached /\ Fail(t, "loaded") /\ UNCHANGED page
    /\ UNCHANGED <<sleep, lru, pcLocks, ndirty, active, pte, disk, ghostVars, pcalls>>

LoadEnd(t) ==
    LET r == Of(t)  a == act[t] IN
    /\ maplock = Unlocked
    /\ \/ /\ r.attached
          /\ Go(t, "loaded", "wake", [a EXCEPT !.back = IF a.ok THEN UsePlace(a.op) ELSE "put"])
          /\ Set(a.p, [r EXCEPT !.uptodate = @ \/ a.ok, !.loading = FALSE])
       \/ ~r.attached /\ Fail(t, "loaded") /\ UNCHANGED page
    /\ UNCHANGED <<sleep, lru, pcLocks, ndirty, active, pte, disk, ghostVars, pcalls>>

pcache_wake_waiters(t) ==
    /\ Go(t, "wake", act[t].back, act[t])
    /\ task_unblock(Of(t).waiting)
    /\ UNCHANGED <<page, lru, pcLocks, ndirty, active, pte, disk, ghostVars, pcalls>>

-----------------------------------------------------------------------------
\* pcache_wait_unlocked, whose first test of the mapping is not repeated.
BusyEnter(t) ==
    /\ at[t] \in {"busy", "busyagain"}
    /\ IF at[t] = "busy" /\ ~Of(t).attached
       THEN Go(t, at[t], act[t].back, act[t]) /\ UNCHANGED <<sleep, page>>
       ELSE /\ Go(t, at[t], "busycheck", act[t])
            /\ task_prepare_block(t)
            /\ Set(act[t].p, [Of(t) EXCEPT !.waiting = @ \cup {t}])
    /\ UNCHANGED <<lru, pcLocks, ndirty, active, pte, disk, ghostVars, pcalls>>

BusyCheck(t) ==
    /\ maplock = Unlocked
    /\ Go(t, "busycheck", IF BusyPage(Of(t)) THEN "busyblock" ELSE "busyleave", act[t])
    /\ UNCHANGED <<sleep, page, lru, pcLocks, ndirty, active, pte, disk, ghostVars, pcalls>>

BusyBlock(t) ==
    /\ Go(t, "busyblock", "busysleep", act[t])
    /\ task_block(t)
    /\ UNCHANGED <<page, lru, pcLocks, ndirty, active, pte, disk, ghostVars, pcalls>>

\* The entry leaves the queue of the page, after the sleep or without one.
BusyLeave(t) ==
    /\ \/ sleep[t] = "awake" /\ Go(t, "busysleep", "busyagain", act[t])
       \/ Go(t, "busyleave", act[t].back, act[t])
    /\ task_cancel_block_prepare(t)
    /\ Set(act[t].p, [Of(t) EXCEPT !.waiting = @ \ {t}])
    /\ UNCHANGED <<lru, pcLocks, ndirty, active, pte, disk, ghostVars, pcalls>>

-----------------------------------------------------------------------------
\* Mutant: a page that is being written back is changed all the same.
BeginUpdateUnderWriteback(t) ==
    LET r == Of(t)  a == act[t] IN
    /\ maplock = Unlocked
    /\ \/ ~r.attached /\ Fail(t, "begin") /\ UNCHANGED page
       \/ /\ r.attached /\ r.loading
          /\ Go(t, "begin", "busy", [a EXCEPT !.back = "begin"]) /\ UNCHANGED page
       \/ /\ r.attached /\ ~r.loading
          /\ Go(t, "begin", "copy", a) /\ Set(a.p, [r EXCEPT !.loading = TRUE])
    /\ UNCHANGED <<sleep, lru, pcLocks, ndirty, active, pte, disk, ghostVars, pcalls>>

\* pcache_begin_update: loading keeps loads, writes and writeback away while
\* the caller's data is copied.
pcache_begin_update(t) ==
    LET r == Of(t)  a == act[t] IN
    /\ maplock = Unlocked
    /\ \/ ~r.attached /\ Fail(t, "begin") /\ UNCHANGED page
       \/ BusyPage(r) /\ Go(t, "begin", "busy", [a EXCEPT !.back = "begin"]) /\ UNCHANGED page
       \/ /\ r.attached /\ ~BusyPage(r)
          /\ Go(t, "begin", "copy", a) /\ Set(a.p, [r EXCEPT !.loading = TRUE])
    /\ UNCHANGED <<sleep, lru, pcLocks, ndirty, active, pte, disk, ghostVars, pcalls>>

\* A copy that fails may have changed a part of the page, which is not marked
\* dirty.
pcache_copy_from(t) ==
    /\ \/ /\ Go(t, "copy", "finish", act[t])
          /\ Set(act[t].p, [Of(t) EXCEPT !.data = version + 1])
          /\ version' = version + 1 /\ UNCHANGED excused
       \/ /\ Go(t, "copy", "finish", [act[t] EXCEPT !.ok = FALSE])
          /\ Set(act[t].p, [Of(t) EXCEPT !.data = version + 1])
          /\ version' = version + 1 /\ excused' = excused \cup {act[t].i}
       \/ /\ Go(t, "copy", "finish", [act[t] EXCEPT !.ok = FALSE])
          /\ UNCHANGED <<page, version, excused>>
    /\ UNCHANGED <<sleep, lru, pcLocks, ndirty, active, pte, disk, latest, pcalls>>

pcache_finish_update(t) ==
    LET r == Of(t)  a == act[t] IN
    /\ maplock = Unlocked
    /\ \/ /\ r.attached /\ Go(t, "finish", "wake", [a EXCEPT !.back = "put"])
          /\ Set(a.p, [r EXCEPT !.uptodate = @ \/ a.ok, !.dirty = @ \/ a.ok, !.loading = FALSE])
          /\ ndirty' = IF a.ok /\ ~r.dirty THEN ndirty + 1 ELSE ndirty
          /\ latest' = IF a.ok THEN [latest EXCEPT ![a.i] = r.data] ELSE latest
       \/ ~r.attached /\ Go(t, "finish", "put", a) /\ UNCHANGED <<page, ndirty, latest>>
    /\ UNCHANGED <<sleep, lru, pcLocks, active, pte, disk, version, excused, pcalls>>

\* After a write: too many dirty pages are written back, by one task at a time.
DirtyLimit(t) ==
    /\ \/ /\ ndirty > DIRTY_LIMIT /\ "writeback" \notin active
          /\ Go(t, "limit", "flush", [Idle EXCEPT !.op = "flush"])
          /\ active' = active \cup {"writeback"}
       \/ /\ ndirty <= DIRTY_LIMIT \/ "writeback" \in active
          /\ Go(t, "limit", "user", Idle) /\ UNCHANGED active
    /\ UNCHANGED <<sleep, page, lru, pcLocks, ndirty, pte, disk, ghostVars, pcalls>>

-----------------------------------------------------------------------------
\* pcache_writeback_range_limit takes the dirty pages in the order of their
\* indexes; the lock is released for each.
FlushNext(t) ==
    LET a == act[t]
        todo == {p \in Pages : page[p].attached /\ page[p].dirty /\ page[p].index >= a.i}
    IN
    /\ at[t] = "flush" /\ maplock = Unlocked
    /\ \/ \E p \in LowestOf(todo) :
             /\ Go(t, "flush", "writebegin", [a EXCEPT !.p = p, !.i = page[p].index])
             /\ Set(p, [page[p] EXCEPT !.ref = @ + 1])
             /\ UNCHANGED active
       \/ /\ todo = {} /\ UNCHANGED page
          /\ \/ a.op = "dontneed" /\ Go(t, "flush", "cut", [a EXCEPT !.i = 0]) /\ UNCHANGED active
             \/ /\ a.op # "dontneed" /\ Go(t, "flush", "user", Idle)
                /\ active' = IF a.op = "flush" THEN active \ {"writeback"} ELSE active
    /\ UNCHANGED <<sleep, lru, pcLocks, ndirty, pte, disk, ghostVars, pcalls>>

\* pcache_write_page, up to the call of writepage.
WriteBegin(t) ==
    LET r == Of(t)  a == act[t] IN
    /\ maplock = Unlocked
    /\ \/ ~(r.attached /\ r.dirty) /\ Go(t, "writebegin", "put", a) /\ UNCHANGED page
       \/ /\ r.dirty /\ BusyPage(r) /\ UNCHANGED page
          /\ Go(t, "writebegin", "busy", [a EXCEPT !.back = "writebegin"])
       \/ /\ r.attached /\ r.dirty /\ ~BusyPage(r)
          /\ Go(t, "writebegin", "writepage", a) /\ Set(a.p, [r EXCEPT !.writeback = TRUE])
    /\ UNCHANGED <<sleep, lru, pcLocks, ndirty, active, pte, disk, ghostVars, pcalls>>

\* a_ops->writepage of the file system.
writepage(t) ==
    /\ \E ok \in BOOLEAN :
          /\ Go(t, "writepage", "written", [act[t] EXCEPT !.ok = ok])
          /\ disk' = IF ok THEN [disk EXCEPT ![Of(t).index] = Of(t).data] ELSE disk
    /\ UNCHANGED <<sleep, page, lru, pcLocks, ndirty, active, pte, ghostVars, pcalls>>

WriteEnd(t) ==
    LET r == Of(t)  a == act[t]  clean == a.ok /\ r.attached /\ r.dirty IN
    /\ maplock = Unlocked
    /\ Go(t, "written", IF r.writeback THEN "wake" ELSE "put", [a EXCEPT !.back = "put"])
    /\ Set(a.p, [r EXCEPT !.writeback = FALSE, !.dirty = @ /\ ~clean])
    /\ ndirty' = IF clean /\ ndirty > 0 THEN ndirty - 1 ELSE ndirty
    /\ UNCHANGED <<sleep, lru, pcLocks, active, pte, disk, ghostVars, pcalls>>

-----------------------------------------------------------------------------
\* What follows pcache_drop_ref in each call: the next page that is read
\* ahead, the dirty limit, the next dirty page, or the end.
AfterPut(t) ==
    LET a == act[t]
        more == a.op # "flush" \/ a.n + 1 < WRITEBACK_BATCH
    IN
    CASE a.op \in {"read", "ahead"} /\ a.ok /\ a.i + 1 \in InFile ->
             <<"lookup", [Idle EXCEPT !.op = "ahead", !.i = a.i + 1]>>
      [] a.op \in {"write", "update"} /\ a.ok -> <<"limit", a>>
      [] a.op \in Flushes /\ a.ok /\ more ->
             <<"flush", [Idle EXCEPT !.op = a.op, !.i = a.i + 1,
                                     !.n = IF a.op = "flush" THEN a.n + 1 ELSE 0]>>
      [] OTHER -> <<"user", Idle>>
Returned(t, from) ==
    /\ Go(t, from, AfterPut(t)[1], AfterPut(t)[2])
    /\ active' = IF act[t].op = "flush" /\ AfterPut(t)[1] = "user"
                 THEN active \ {"writeback"} ELSE active

\* pcache_drop_ref takes the lock only if it finds the page attached.
PutBegin(t) ==
    /\ Go(t, "put", IF Of(t).attached THEN "putlock" ELSE "putload", act[t])
    /\ UNCHANGED <<sleep, page, lru, pcLocks, ndirty, active, pte, disk, ghostVars, pcalls>>

\* Nobody changes the count of an attached page without the lock, so one
\* step does; the page may have been detached before the lock was there.
PutLock(t) ==
    /\ maplock = Unlocked
    /\ \/ /\ Of(t).attached /\ Returned(t, "putlock")
          /\ Set(act[t].p, [Of(t) EXCEPT !.ref = IF @ > 0 THEN @ - 1 ELSE 0])
          /\ UNCHANGED maplock
       \/ /\ ~Of(t).attached /\ Go(t, "putlock", "putload", act[t])
          /\ maplock' = t /\ UNCHANGED <<page, active>>
    /\ UNCHANGED <<sleep, lru, lrulock, ndirty, pte, disk, ghostVars, pcalls>>

\* ref_count-- is a load and a store.
PutLoad(t) ==
    /\ Go(t, "putload", "putstore", [act[t] EXCEPT !.ref = Of(t).ref])
    /\ UNCHANGED <<sleep, page, lru, pcLocks, ndirty, active, pte, disk, ghostVars, pcalls>>

PutStore(t) ==
    LET ref == IF act[t].ref > 0 THEN act[t].ref - 1 ELSE 0
        free == ref = 0 /\ ~Of(t).attached /\ Of(t).life # "reclaiming"
    IN
    /\ at[t] = "putstore"
    /\ \/ free /\ Go(t, "putstore", "freeing", act[t]) /\ UNCHANGED active
       \/ ~free /\ Returned(t, "putstore")
    /\ Set(act[t].p, [Of(t) EXCEPT !.ref = ref])
    /\ maplock' = IF maplock = t THEN Unlocked ELSE maplock
    /\ UNCHANGED <<sleep, lru, lrulock, ndirty, pte, disk, ghostVars, pcalls>>

\* pcache_free: a mapping may keep the frame.
Freed(p) == [Unused EXCEPT !.frame = page[p].frame - 1, !.data = page[p].data,
                           !.cut = page[p].cut]
pcache_free(t) ==
    /\ lrulock = Unlocked
    /\ Returned(t, "freeing")
    /\ Set(act[t].p, Freed(act[t].p)) /\ lru' = Remove(lru, act[t].p)
    /\ UNCHANGED <<sleep, pcLocks, ndirty, pte, disk, ghostVars, pcalls>>

-----------------------------------------------------------------------------
\* pcache_remove_locked_lru: the page is detached, its flags are cleared and
\* whoever waits for it is woken.
Detached(p) ==
    [page[p] EXCEPT !.attached = FALSE, !.loading = FALSE, !.dirty = FALSE,
                    !.writeback = FALSE, !.mmap = 0]
Undirtied(p) == IF page[p].dirty /\ ndirty > 0 THEN ndirty - 1 ELSE ndirty

\* page_cache_invalidate_range keeps the lock from page to page, except while
\* it frees one; pages with mmap_count > 0 stay.
CutNext(t) ==
    LET a == act[t]
        todo == {p \in Pages : /\ page[p].attached /\ page[p].index >= a.i
                               /\ page[p].mmap = 0}
    IN
    /\ at[t] = "cut" /\ maplock \in {Unlocked, t}
    /\ \/ \E p \in LowestOf(todo) :
             /\ lrulock = Unlocked
             /\ Go(t, "cut", "cutcheck", [a EXCEPT !.p = p, !.i = page[p].index])
             /\ Set(p, [Detached(p) EXCEPT !.cut = TRUE])
             /\ ndirty' = Undirtied(p) /\ lru' = Remove(lru, p)
             /\ task_unblock(page[p].waiting)
             /\ excused' = IF page[p].dirty \/ BusyPage(page[p])
                           THEN excused \cup {page[p].index} ELSE excused
             /\ maplock' = t
       \/ /\ todo = {} /\ Go(t, "cut", "user", Idle) /\ maplock' = Unlocked
          /\ UNCHANGED <<sleep, page, lru, ndirty, excused>>
    /\ UNCHANGED <<lrulock, active, pte, disk, version, latest, pcalls>>

CutCheck(t) ==
    LET a == act[t] IN
    /\ \/ /\ Of(t).ref = 0 /\ Of(t).life # "reclaiming"
          /\ Go(t, "cutcheck", "cutfree", a) /\ maplock' = Unlocked
       \/ /\ Of(t).ref > 0 \/ Of(t).life = "reclaiming"
          /\ Go(t, "cutcheck", "cut", [a EXCEPT !.p = NoPage, !.i = @ + 1]) /\ UNCHANGED maplock
    /\ UNCHANGED <<sleep, page, lru, lrulock, ndirty, active, pte, disk, ghostVars, pcalls>>

CutFree(t) ==
    /\ lrulock = Unlocked
    /\ Go(t, "cutfree", "cut", [act[t] EXCEPT !.p = NoPage, !.i = @ + 1])
    /\ Set(act[t].p, Freed(act[t].p)) /\ lru' = Remove(lru, act[t].p)
    /\ UNCHANGED <<sleep, pcLocks, ndirty, active, pte, disk, ghostVars, pcalls>>

-----------------------------------------------------------------------------
\* page_cache_unmap_shared_range of one page, or
\* page_cache_zap_inode_shared_mappings for the rest of the file: the entries
\* are cleared and the frames released, then mmap_count is lowered, index by
\* index, of whatever page is there now.
Zap(t) ==
    LET a == act[t]
        gone == {i \in Indexes : /\ pte[i] # NoPage
                                 /\ IF a.op = "munmap" THEN i = a.i ELSE i >= a.i}
    IN
    /\ Go(t, "zap", "zapdec", [a EXCEPT !.zapped = gone])
    /\ pte' = [i \in Indexes |-> IF i \in gone THEN NoPage ELSE pte[i]]
    /\ page' = [p \in Pages |-> IF \E i \in gone : pte[i] = p
                                THEN [page[p] EXCEPT !.frame = @ - 1] ELSE page[p]]
    /\ UNCHANGED <<sleep, lru, pcLocks, ndirty, active, disk, ghostVars, pcalls>>

page_cache_mmap_dec_page(t) ==
    LET a == act[t] IN
    /\ maplock = Unlocked
    /\ \/ \E i \in a.zapped :
             /\ Go(t, "zapdec", "zapdec", [a EXCEPT !.zapped = @ \ {i}])
             /\ page' = [p \in Pages |-> IF p \in At(i) /\ page[p].mmap > 0
                                         THEN [page[p] EXCEPT !.mmap = @ - 1] ELSE page[p]]
       \/ /\ a.zapped = {} /\ UNCHANGED page
          /\ IF a.op = "munmap" THEN Go(t, "zapdec", "user", Idle) ELSE Go(t, "zapdec", "cut", a)
    /\ UNCHANGED <<sleep, lru, pcLocks, ndirty, active, pte, disk, ghostVars, pcalls>>

\* page_cache_map_fault under mm->lock: another thread may have mapped the
\* page, and the page tables may lack memory.
MapPage(t) ==
    LET a == act[t] IN
    /\ \/ /\ Go(t, "map", "mapinc", a) /\ pte[a.i] = NoPage
          /\ pte' = [pte EXCEPT ![a.i] = a.p]
          /\ Set(a.p, [Of(t) EXCEPT !.frame = @ + 1])
       \/ Go(t, "map", "put", a) /\ UNCHANGED <<page, pte>>
    /\ UNCHANGED <<sleep, lru, pcLocks, ndirty, active, disk, ghostVars, pcalls>>

page_cache_mmap_inc_page(t) ==
    /\ maplock = Unlocked /\ Go(t, "mapinc", "dirty", act[t])
    /\ page' = [p \in Pages |-> IF p \in At(act[t].i) THEN [page[p] EXCEPT !.mmap = @ + 1]
                                                      ELSE page[p]]
    /\ UNCHANGED <<sleep, lru, pcLocks, ndirty, active, pte, disk, ghostVars, pcalls>>

\* page_cache_mark_dirty looks at the mapping before it has the lock.
MarkBegin(t) ==
    /\ Go(t, "dirty", IF Of(t).attached THEN "dirtying" ELSE "put", act[t])
    /\ UNCHANGED <<sleep, page, lru, pcLocks, ndirty, active, pte, disk, ghostVars, pcalls>>

MarkDirty(t) ==
    /\ maplock = Unlocked /\ Go(t, "dirtying", "put", act[t])
    /\ Set(act[t].p, [Of(t) EXCEPT !.dirty = TRUE])
    /\ ndirty' = IF Of(t).dirty THEN ndirty ELSE ndirty + 1
    /\ UNCHANGED <<sleep, lru, pcLocks, active, pte, disk, ghostVars, pcalls>>

-----------------------------------------------------------------------------
\* page_cache_reclaim: one task at a time, and no more pages than the list
\* has at the start.
ReclaimBegin(t) ==
    /\ \/ /\ "reclaim" \in active /\ Go(t, "reclaim", "user", Idle) /\ UNCHANGED active
       \/ /\ "reclaim" \notin active /\ active' = active \cup {"reclaim"}
          /\ Go(t, "reclaim", "pass", [act[t] EXCEPT !.n = Len(lru)])
    /\ UNCHANGED <<sleep, page, lru, pcLocks, ndirty, pte, disk, ghostVars, pcalls>>

\* A pass that scanned nothing is the last one.
PassBegin(t) ==
    LET a == act[t] IN
    /\ \/ /\ a.n > 0 /\ a.ok /\ lrulock = Unlocked /\ lrulock' = t
          /\ Go(t, "pass", "scanlru", [a EXCEPT !.i = 1, !.ok = FALSE]) /\ UNCHANGED active
       \/ /\ a.n = 0 \/ ~a.ok
          /\ Go(t, "pass", "user", Idle)
          /\ active' = active \ {"reclaim"} /\ UNCHANGED lrulock
    /\ UNCHANGED <<sleep, page, lru, maplock, ndirty, pte, disk, ghostVars, pcalls>>

\* Mutant: the references of the readers are not looked at.
ReclaimableInUse(r) ==
    r.mmap = 0 /\ r.frame = 1 /\ ~r.loading /\ ~r.writeback /\ ~r.dirty

Reclaimable(r) ==
    /\ r.mmap = 0 /\ r.ref = 0 /\ r.frame = 1
    /\ ~r.loading /\ ~r.writeback /\ ~r.dirty

\* pcache_lru_reclaim_oldest, one candidate: it goes to the end of the list
\* if it was referenced, if its mapping is locked or if it is in use.
ScanLru(t) ==
    LET a == act[t]
        p == lru[a.i]
        r == page[p]
        counted == [a EXCEPT !.n = @ - 1, !.ok = TRUE]
        on == [counted EXCEPT !.i = IF @ = Len(lru) THEN @ + 1 ELSE @]
        take == ~r.referenced /\ maplock = Unlocked /\ Reclaimable(r)
    IN
    /\ at[t] = "scanlru"
    /\ \/ /\ a.i > Len(lru) \/ a.n = 0
          /\ Go(t, "scanlru", "pass", a) /\ lrulock' = Unlocked /\ UNCHANGED <<page, lru>>
       \/ /\ a.i <= Len(lru) /\ a.n > 0 /\ ~r.attached
          /\ Go(t, "scanlru", "scanlru", [a EXCEPT !.i = @ + 1])
          /\ UNCHANGED <<page, lru, lrulock>>
       \/ /\ a.i <= Len(lru) /\ a.n > 0 /\ r.attached /\ ~take
          /\ Go(t, "scanlru", "scanlru", on)
          /\ Set(p, [r EXCEPT !.referenced = FALSE]) /\ lru' = Append(Remove(lru, p), p)
          /\ UNCHANGED lrulock
       \/ /\ a.i <= Len(lru) /\ a.n > 0 /\ r.attached /\ take
          /\ Go(t, "scanlru", "reap", [counted EXCEPT !.p = p])
          /\ Set(p, [Detached(p) EXCEPT !.life = "reclaiming"])
          /\ lru' = Remove(lru, p) /\ lrulock' = Unlocked
    /\ UNCHANGED <<sleep, maplock, ndirty, active, pte, disk, ghostVars, pcalls>>

FreeReclaimed(t) ==
    /\ lrulock = Unlocked /\ Go(t, "reap", "pass", [act[t] EXCEPT !.p = NoPage])
    /\ Set(act[t].p, Freed(act[t].p))
    /\ UNCHANGED <<sleep, lru, pcLocks, ndirty, active, pte, disk, ghostVars, pcalls>>

-----------------------------------------------------------------------------
\* A page is freed once, and only while nobody else is about to: slub.c says
\* ASSERT(!"double free or invalid slab free").
FreePlaces == {"freeing", "cutfree", "reap"}
FreedOnce ==
    \A t, u \in Cachers : at[t] \in FreePlaces =>
        /\ Of(t).life # "free"
        /\ t # u /\ at[u] \in FreePlaces => act[t].p # act[u].p

PageStep(t) ==
    \/ PcCall(t) \/ Store(t) \/ Lookup(t) \/ Allocate(t) \/ Insert(t)
    \/ pcache_lru_add_tail(t) \/ Got(t) \/ LoadBegin(t) \/ LoadWaited(t) \/ readpage(t)
    \/ LoadEnd(t) \/ pcache_wake_waiters(t)
    \/ BusyEnter(t) \/ BusyCheck(t) \/ BusyBlock(t) \/ BusyLeave(t)
    \/ pcache_begin_update(t) \/ pcache_copy_from(t) \/ pcache_finish_update(t)
    \/ DirtyLimit(t) \/ FlushNext(t) \/ WriteBegin(t) \/ writepage(t) \/ WriteEnd(t)
    \/ PutBegin(t) \/ PutLock(t) \/ PutLoad(t) \/ PutStore(t) \/ pcache_free(t)
    \/ CutNext(t) \/ CutCheck(t) \/ CutFree(t) \/ Zap(t) \/ page_cache_mmap_dec_page(t)
    \/ MapPage(t) \/ page_cache_mmap_inc_page(t) \/ MarkBegin(t) \/ MarkDirty(t)
    \/ ReclaimBegin(t) \/ PassBegin(t) \/ ScanLru(t) \/ FreeReclaimed(t)

\* What follows a second free is not modelled.
PageNext == FreedOnce /\ (\E t \in Cachers : PageStep(t)) /\ UNCHANGED size

PageSpec == PageInit /\ [][PageNext]_<<at, sleep, pageVars>>

-----------------------------------------------------------------------------
\* What was written is in the cache or on the disk, whatever reads, loads,
\* writes, faults, writeback and reclaim are under way: a page that is not
\* being changed has the last data and, when clean, so has the disk; without
\* a page the disk has it.  A page that invalidation took while it was busy
\* or dirty, and a store that nothing recorded, are excused.
WritesSurvive ==
    \A i \in Indexes \ excused :
        /\ Cardinality(At(i)) <= 1
        /\ At(i) = {} => disk[i] = latest[i]
        /\ \A p \in At(i) :
              LET r == page[p] IN
              ~r.loading => /\ r.uptodate => r.data = latest[i]
                            /\ ~r.dirty => disk[i] = latest[i]

\* A task does not sleep for a page that nobody is busy with: there is a
\* task that will clear loading or writeback and wake, or that wakes already.
NoPageStall ==
    /\ \A t \in Cachers :
          at[t] = "busysleep" /\ sleep[t] = "asleep" =>
              \/ BusyPage(Of(t))
              \/ \E u \in Cachers : at[u] = "wake" /\ act[u].p = act[t].p
    /\ \A p \in Pages :
          LET In(places) == {u \in Cachers : at[u] \in places /\ act[u].p = p} IN
          /\ page[p].loading => Cardinality(In({"readpage", "loaded", "copy", "finish"})) = 1
          /\ page[p].writeback => Cardinality(In({"writepage", "written"})) = 1

\* No page is freed under a task that has a reference to it, in the list of
\* reclaim or with its frame mapped, unless invalidation has detached it.
HoldPlaces ==
    {"lruadd", "got", "load", "waited", "readpage", "loaded", "wake", "busy", "busyagain",
     "busycheck", "busyblock", "busysleep", "busyleave", "begin", "copy", "finish",
     "writebegin", "writepage", "written", "put", "putlock", "map", "mapinc", "dirty",
     "dirtying"}
PagesKept ==
    /\ PageTypeOK
    /\ \A t \in Cachers : at[t] \in HoldPlaces => Of(t).life = "live" \/ Of(t).cut
    /\ \A p \in ToSet(lru) : page[p].life = "live"
    /\ \A i \in Indexes : pte[i] # NoPage => page[pte[i]].frame > 0

=============================================================================
