-------------------------- MODULE WaitEventProofs --------------------------
(***************************************************************************)
(* No wakeup is lost, for any number of waiters, wakers and calls and any  *)
(* batch size.  NoLostWakeup speaks of sleepers; the argument needs the    *)
(* waiters that have tested their condition and are about to sleep as      *)
(* well, and the reason why a call may skip an entry that a more recent    *)
(* call has marked: the mark is younger than the last task_prepare_block.  *)
(***************************************************************************)
EXTENDS WaitEvent, TLAPS

\* A waiter that will not look at its condition before it sleeps.
Committed(t) == sleep[t] = "asleep" \/ (pc[t] = "block" /\ sleep[t] = "prepared")

\* A task sleeps in task_block only, and a mark on an entry means that the
\* wake was accepted in this round.
RoundOK ==
    \A t \in Tasks :
        /\ sleep[t] = "asleep" => pc[t] = "wait"
        /\ pc[t] \in {"add", "check", "block"} => sleep[t] \in {"prepared", "pending"}
        /\ pc[t] = "wait" => sleep[t] \in {"asleep", "awake"}
        /\ entry_seq[t] # 0 =>
              /\ pc[t] \in {"check", "block", "wait", "remove"}
              /\ pc[t] # "remove" => sleep[t] \in {"pending", "awake"}

\* Only the holder of the queue lock scans, and a scan has a number.
ScanOK ==
    \A k \in Wakers :
        /\ call[k].at = "scan" => qlock = k
        /\ call[k].nr = 0
        /\ call[k].at \in {"lock", "scan"} => call[k].seq # 0

CommittedReached ==
    \A t \in Tasks : t \in cond /\ Committed(t) => \E k \in Wakers : WillReach(k, t)

EventInv == EventTypeOK /\ EntriesOnStack /\ RoundOK /\ ScanOK /\ CommittedReached

-----------------------------------------------------------------------------
(* Sequences.                                                              *)

LEMMA DropAtType ==
    ASSUME NEW S, NEW s \in Seq(S), NEW i \in 1 .. Len(s)
    PROVE  /\ DropAt(s, i) \in Seq(S)
           /\ Len(DropAt(s, i)) = Len(s) - 1
           /\ \A j \in 1 .. Len(s) - 1 : DropAt(s, i)[j] = IF j < i THEN s[j] ELSE s[j + 1]
<1>1. Len(s) \in Nat /\ Len(s) - 1 \in Nat /\ \A j \in 1 .. Len(s) : s[j] \in S
  OBVIOUS
<1>2. DropAt(s, i) \in [1 .. Len(s) - 1 -> S]
  BY <1>1 DEF DropAt
<1>3. DropAt(s, i) \in Seq(S)
  BY <1>1, <1>2
<1>4. Len(DropAt(s, i)) = Len(s) - 1
  BY <1>1, <1>2, <1>3
<1> QED
  BY <1>3, <1>4 DEF DropAt

LEMMA DropAtMembers ==
    ASSUME NEW S, NEW s \in Seq(S), NEW i \in 1 .. Len(s),
           \A a, b \in 1 .. Len(s) : s[a] = s[b] => a = b
    PROVE  /\ \A x \in S : (\E j \in 1 .. Len(DropAt(s, i)) : DropAt(s, i)[j] = x)
                           <=> x # s[i] /\ \E j \in 1 .. Len(s) : s[j] = x
           /\ \A a, b \in 1 .. Len(DropAt(s, i)) : DropAt(s, i)[a] = DropAt(s, i)[b] => a = b
<1> DEFINE d == DropAt(s, i)
<1>1. /\ Len(d) = Len(s) - 1
      /\ \A j \in 1 .. Len(s) - 1 : d[j] = IF j < i THEN s[j] ELSE s[j + 1]
      /\ Len(s) \in Nat
  BY DropAtType
<1> HIDE DEF d
<1>2. ASSUME NEW x \in S, NEW j \in 1 .. Len(d), d[j] = x
      PROVE  x # s[i] /\ \E m \in 1 .. Len(s) : s[m] = x
  <2>1. CASE j < i
    BY <1>1, <1>2, <2>1
  <2>2. CASE ~(j < i)
    <3>1. d[j] = s[j + 1] /\ j + 1 \in 1 .. Len(s) /\ j + 1 # i
      BY <1>1, <2>2
    <3> QED
      BY <1>2, <3>1
  <2> QED
    BY <2>1, <2>2
<1>3. ASSUME NEW x \in S, NEW m \in 1 .. Len(s), s[m] = x, x # s[i]
      PROVE  \E j \in 1 .. Len(d) : d[j] = x
  <2>1. CASE m < i
    <3>1. m \in 1 .. Len(d) /\ d[m] = x
      BY <1>1, <1>3, <2>1
    <3> QED
      BY <3>1
  <2>2. CASE m > i
    <3>1. m - 1 \in 1 .. Len(d) /\ ~(m - 1 < i) /\ (m - 1) + 1 = m
      BY <1>1, <2>2
    <3>2. d[m - 1] = x
      BY <1>1, <1>3, <3>1
    <3> QED
      BY <3>1, <3>2
  <2> QED
    BY <1>3, <2>1, <2>2
<1>4. ASSUME NEW a \in 1 .. Len(d), NEW b \in 1 .. Len(d), d[a] = d[b] PROVE a = b
  <2>1. PICK p \in 1 .. Len(s) : d[a] = s[p] /\ p = IF a < i THEN a ELSE a + 1
    BY <1>1
  <2>2. PICK q \in 1 .. Len(s) : d[b] = s[q] /\ q = IF b < i THEN b ELSE b + 1
    BY <1>1
  <2>3. p = q
    BY <1>4, <2>1, <2>2
  <2> QED
    BY <1>1, <2>1, <2>2, <2>3
<1>5. \A x \in S : (\E j \in 1 .. Len(d) : d[j] = x)
                   <=> x # s[i] /\ \E j \in 1 .. Len(s) : s[j] = x
  BY <1>2, <1>3
<1>6. \A a, b \in 1 .. Len(d) : d[a] = d[b] => a = b
  BY <1>4
<1> QED
  BY <1>5, <1>6 DEF d

-----------------------------------------------------------------------------
(* The waiting side.                                                       *)

LEMMA EventInvInit == EventInit => EventInv
<1> SUFFICES ASSUME EventInit PROVE EventInv
  OBVIOUS
<1> USE QueueAssumption DEF EventInit, QueueInit
<1>1. EventTypeOK
  BY DEF EventTypeOK, QueueTypeOK, Sleeps, Calls, NoCall
<1>2. EntriesOnStack
  BY DEF EntriesOnStack, Entries
<1>3. RoundOK /\ ScanOK /\ CommittedReached
  BY DEF RoundOK, ScanOK, NoCall, CommittedReached
<1> QED
  BY <1>1, <1>2, <1>3 DEF EventInv

\* What a list holds, as a formula.
LEMMA InEntries ==
    /\ \A u : u \in Entries <=> \E j \in DOMAIN entries : entries[j] = u
    /\ \A u : u \in Entries' <=> \E j \in DOMAIN entries' : entries'[j] = u
BY DEF Entries

\* The steps of a waiter that leave the list, the marks and the calls alone.
LEMMA LocalStep ==
    ASSUME EventInv, NEW t \in Tasks,
           Prepare(t) \/ Check(t) \/ Block(t) \/ Return(t) \/ Cancel(t)
    PROVE  EventInv'
<1>0. UNCHANGED <<entries, entry_seq, wake_seq, qlock, call>>
  BY DEF Prepare, Check, Block, Return, Cancel, queueVars
<1>1. EventTypeOK /\ EntriesOnStack /\ RoundOK /\ ScanOK /\ CommittedReached
  BY DEF EventInv
<1> USE DEF EventTypeOK, QueueTypeOK, Sleeps
<1>2. /\ EventTypeOK' /\ EntriesOnStack' /\ RoundOK'
      /\ \A u \in Tasks : (u \in cond /\ Committed(u))' => u \in cond /\ Committed(u)
  <2> USE <1>0, <1>1 DEF EntriesOnStack, Entries, RoundOK, Committed, Goto
  <2>1. CASE Prepare(t)
    BY <2>1 DEF Prepare, task_prepare_block
  <2>2. CASE Check(t)
    BY <2>2 DEF Check, queueVars
  <2>3. CASE Block(t)
    <3>1. /\ pc[t] = "block" /\ pc' = [pc EXCEPT ![t] = "wait"] /\ cond' = cond
          /\ sleep' = [sleep EXCEPT ![t] = IF sleep[t] = "pending" THEN "awake" ELSE "asleep"]
      BY <2>3 DEF Block, task_block
    <3>2. EventTypeOK' /\ EntriesOnStack'
      BY <3>1
    <3>3. RoundOK'
      BY <3>1
    <3>4. ASSUME Committed(t)' PROVE Committed(t)
      BY <3>1, <3>4
    <3>5. \A u \in Tasks : (u \in cond /\ Committed(u))' => u \in cond /\ Committed(u)
      BY <3>1, <3>4
    <3> QED
      BY <3>2, <3>3, <3>5
  <2>4. CASE Return(t)
    BY <2>4 DEF Return, queueVars
  <2>5. CASE Cancel(t)
    <3>1. /\ pc[t] = "cancel" /\ pc' = [pc EXCEPT ![t] = "run"]
          /\ sleep' = [sleep EXCEPT ![t] = "awake"] /\ cond' = cond
      BY <2>5 DEF Cancel, task_cancel_block_prepare
    <3>2. EventTypeOK' /\ EntriesOnStack'
      BY <3>1
    <3>3. RoundOK'
      BY <3>1
    <3>4. \A u \in Tasks : (u \in cond /\ Committed(u))' => u \in cond /\ Committed(u)
      BY <3>1
    <3> QED
      BY <3>2, <3>3, <3>4
  <2> QED
    BY <2>1, <2>2, <2>3, <2>4, <2>5
<1>3. ScanOK'
  BY <1>0, <1>1 DEF ScanOK
<1>4. \A k \in Wakers, u \in Tasks : WillReach(k, u) => WillReach(k, u)'
  BY <1>0 DEF WillReach
<1>5. CommittedReached'
  BY <1>1, <1>2, <1>4 DEF CommittedReached
<1> QED
  BY <1>2, <1>3, <1>5 DEF EventInv

\* The list and the places of the waiters change together.
LEMMA AddKeepsList ==
    ASSUME EventTypeOK, EntriesOnStack, NEW t \in Tasks, Add(t)
    PROVE  entries' \in Seq(Tasks) /\ EntriesOnStack'
<1>1. t \notin Entries /\ entries \in Seq(Tasks)
  BY DEF Add, Goto, EntriesOnStack, EventTypeOK, QueueTypeOK
<1>2. entries' = Append(entries, t)
  BY <1>1 DEF Add, wait_queue_add
<1>3. /\ entries' \in Seq(Tasks)
      /\ Len(entries) \in Nat
      /\ \A i \in 1 .. Len(entries) : entries'[i] = entries[i]
      /\ entries'[Len(entries) + 1] = t
      /\ DOMAIN entries = 1 .. Len(entries)
      /\ DOMAIN entries' = 1 .. Len(entries) + 1
  BY <1>1, <1>2
<1>4. \A u : u \in Entries' <=> u \in Entries \/ u = t
  BY <1>3, InEntries
<1>5. \A i, j \in DOMAIN entries : entries[i] = entries[j] => i = j
  BY DEF EntriesOnStack
<1>6. \A i \in DOMAIN entries : entries[i] # t
  BY <1>1, InEntries
<1>7. \A i, j \in DOMAIN entries' : entries'[i] = entries'[j] => i = j
  BY <1>3, <1>5, <1>6
<1>8. \A u \in Tasks : u \in Entries' <=> pc'[u] \in {"check", "block", "wait", "remove"}
  BY <1>4 DEF Add, Goto, EntriesOnStack, EventTypeOK
<1> QED
  BY <1>3, <1>7, <1>8 DEF EntriesOnStack

LEMMA RemoveKeepsList ==
    ASSUME EventTypeOK, EntriesOnStack, NEW t \in Tasks, Remove(t)
    PROVE  entries' \in Seq(Tasks) /\ EntriesOnStack'
<1>1. t \in Entries /\ entries \in Seq(Tasks) /\ DOMAIN entries = 1 .. Len(entries)
  BY DEF Remove, Goto, EntriesOnStack, EventTypeOK, QueueTypeOK
<1> DEFINE i == CHOOSE i \in DOMAIN entries : entries[i] = t
           d == DropAt(entries, i)
<1>2. entries' = d
  BY <1>1 DEF Remove, wait_queue_remove
<1>3. i \in 1 .. Len(entries) /\ entries[i] = t
  BY <1>1, InEntries
<1>4. \A a, b \in 1 .. Len(entries) : entries[a] = entries[b] => a = b
  BY <1>1 DEF EntriesOnStack
<1> HIDE DEF i
<1>5. d \in Seq(Tasks)
  BY <1>1, <1>3, DropAtType
<1>6. /\ \A x \in Tasks : (\E j \in 1 .. Len(d) : d[j] = x)
                          <=> x # entries[i] /\ \E j \in 1 .. Len(entries) : entries[j] = x
      /\ \A a, b \in 1 .. Len(d) : d[a] = d[b] => a = b
  BY <1>1, <1>3, <1>4, DropAtMembers, ZenonT(60)
<1> HIDE DEF d
<1>7. DOMAIN entries' = 1 .. Len(d)
  BY <1>2, <1>5
<1>8. \A u \in Tasks : u \in Entries' <=> u # t /\ u \in Entries
  BY <1>1, <1>2, <1>3, <1>6, <1>7, InEntries
<1>9. \A u \in Tasks : u \in Entries' <=> pc'[u] \in {"check", "block", "wait", "remove"}
  BY <1>8 DEF Remove, Goto, EntriesOnStack, EventTypeOK
<1>10. \A a, b \in DOMAIN entries' : entries'[a] = entries'[b] => a = b
  BY <1>2, <1>6, <1>7
<1> QED
  BY <1>2, <1>5, <1>9, <1>10 DEF EntriesOnStack

\* While the queue lock is free no call scans, so a change of the list moves
\* no scan position.
LEMMA ListStep ==
    ASSUME EventInv, NEW t \in Tasks, Add(t) \/ Remove(t)
    PROVE  EventInv'
<1>0. qlock = Nobody /\ UNCHANGED <<sleep, wake_seq, qlock, call, cond>>
  BY DEF Add, Remove, wait_queue_add, wait_queue_remove
<1>1. EventTypeOK /\ EntriesOnStack /\ RoundOK /\ ScanOK /\ CommittedReached
  BY DEF EventInv
<1>2. entries' \in Seq(Tasks) /\ EntriesOnStack'
  BY <1>1, AddKeepsList, RemoveKeepsList
<1>3. entry_seq' \in [Tasks -> Nat] /\ RoundOK'
  <2> USE <1>0, <1>1 DEF EventTypeOK, QueueTypeOK, RoundOK, Goto
  <2>1. CASE Add(t)
    BY <2>1 DEF Add, wait_queue_add
  <2>2. CASE Remove(t)
    <3>1. /\ pc[t] = "remove" /\ pc' = [pc EXCEPT ![t] = "cancel"]
          /\ entry_seq' = [entry_seq EXCEPT ![t] = 0]
      BY <2>2 DEF Remove, wait_queue_remove
    <3> QED
      BY <3>1
  <2> QED
    BY <2>1, <2>2
<1>4. pc' \in [Tasks -> {"run", "add", "check", "block", "wait", "remove", "cancel"}]
  BY <1>1 DEF Add, Remove, Goto, EventTypeOK
<1>5. EventTypeOK'
  BY <1>0, <1>1, <1>2, <1>3, <1>4 DEF EventTypeOK, QueueTypeOK
<1>6. ScanOK'
  BY <1>0, <1>1 DEF ScanOK
<1>7. \A u \in Tasks : (u \in cond /\ Committed(u))' => u \in cond /\ Committed(u)
  BY <1>0, <1>1 DEF Add, Remove, Goto, Committed, EventTypeOK
<1>8. \A k \in Wakers, u \in Tasks : WillReach(k, u) => WillReach(k, u)'
  BY <1>0, <1>1, QueueAssumption DEF WillReach, ScanOK
<1>9. CommittedReached'
  BY <1>1, <1>7, <1>8 DEF CommittedReached
<1> QED
  BY <1>2, <1>3, <1>5, <1>6, <1>9 DEF EventInv

-----------------------------------------------------------------------------
(* The waking side.                                                        *)

\* The updates of a call's locals.
LEMMA NoCallType == NoCall \in Calls /\ NoCall.at = "none" /\ NoCall.nr = 0
BY DEF NoCall, Calls

LEMMA CallStarted ==
    \A match \in SUBSET Tasks :
        LET c == [NoCall EXCEPT !.at = "seq", !.match = match, !.nr = 0]
        IN  c \in Calls /\ c.at = "seq" /\ c.match = match /\ c.nr = 0
<1> TAKE match \in SUBSET Tasks
<1> DEFINE e == [NoCall EXCEPT !.at = "seq", !.match = match]
           c == [NoCall EXCEPT !.at = "seq", !.match = match, !.nr = 0]
<1>1. e \in Calls /\ e.at = "seq" /\ e.match = match
  BY NoCallType DEF Calls
<1>2. c = [e EXCEPT !.nr = 0]
  OBVIOUS
<1> HIDE DEF e
<1>3. c \in Calls /\ c.at = "seq" /\ c.match = match /\ c.nr = 0
  BY <1>1, <1>2 DEF Calls
<1> QED
  BY <1>3, SMTT(30)

LEMMA CallScans ==
    ASSUME NEW c \in Calls, NEW d,
           d = [c EXCEPT !.at = "scan", !.pos = 1, !.tokens = 0]
    PROVE  /\ d \in Calls /\ d.at = "scan" /\ d.pos = 1
           /\ d.match = c.match /\ d.nr = c.nr /\ d.seq = c.seq
<1> DEFINE e == [c EXCEPT !.at = "scan", !.pos = 1]
<1>1. /\ e \in Calls /\ e.at = "scan" /\ e.pos = 1
      /\ e.match = c.match /\ e.nr = c.nr /\ e.seq = c.seq
  <2>1. e \in Calls
    <3>1. [c EXCEPT !.at = "scan"] \in Calls /\ 1 \in Nat \ {0}
      BY DEF Calls
    <3>2. e = [[c EXCEPT !.at = "scan"] EXCEPT !.pos = 1]
      OBVIOUS
    <3> QED
      BY <3>1, <3>2 DEF Calls
  <2>2. e.at = "scan" /\ e.pos = 1
    BY DEF Calls
  <2>3. e.match = c.match /\ e.nr = c.nr /\ e.seq = c.seq
    BY DEF Calls
  <2> QED
    BY <2>1, <2>2, <2>3
<1>2. d = [e EXCEPT !.tokens = 0]
  OBVIOUS
<1> HIDE DEF e
<1> QED
  BY <1>1, <1>2 DEF Calls

LEMMA CallMoves ==
    \A c \in Calls, w \in Nat, n \in Nat :
        LET d == [c EXCEPT !.pos = c.pos + 1, !.woke = w, !.tokens = n]
        IN  /\ d \in Calls /\ d.at = c.at /\ d.match = c.match
            /\ d.nr = c.nr /\ d.seq = c.seq /\ d.pos = c.pos + 1
<1> TAKE c \in Calls, w \in Nat, n \in Nat
<1> DEFINE e == [c EXCEPT !.pos = c.pos + 1]
           f == [e EXCEPT !.woke = w]
           d == [c EXCEPT !.pos = c.pos + 1, !.woke = w, !.tokens = n]
<1>1. /\ e \in Calls /\ e.at = c.at /\ e.match = c.match
      /\ e.nr = c.nr /\ e.seq = c.seq /\ e.pos = c.pos + 1
  BY DEF Calls
<1>2. d = [f EXCEPT !.tokens = n]
  OBVIOUS
<1> HIDE DEF e
<1>3. /\ f \in Calls /\ f.at = e.at /\ f.match = e.match
      /\ f.nr = e.nr /\ f.seq = e.seq /\ f.pos = e.pos
  BY <1>1 DEF Calls
<1> HIDE DEF f
<1>4. /\ d \in Calls /\ d.at = f.at /\ d.match = f.match
      /\ d.nr = f.nr /\ d.seq = f.seq /\ d.pos = f.pos
  BY <1>2, <1>3 DEF Calls
<1> QED
  BY <1>1, <1>3, <1>4

\* What the steps of a call keep when they touch neither list nor sleepers.
LEMMA CallStep ==
    ASSUME EventInv, NEW k \in Wakers,
           \/ \E match \in SUBSET Tasks \ {{}} : Signal(k, match)
           \/ (TakeSeq(k) \/ ScanStart(k) \/ ScanEnd(k)) /\ UNCHANGED <<pc, cond>>
    PROVE  EventInv'
<1>0. UNCHANGED <<sleep, entries, entry_seq, pc>>
  BY DEF Signal, wait_queue_wake, TakeSeq, ScanStart, ScanEnd
<1>1. EventTypeOK /\ EntriesOnStack /\ RoundOK /\ ScanOK /\ CommittedReached
  BY DEF EventInv
<1>2. EntriesOnStack' /\ RoundOK'
  BY <1>0, <1>1 DEF EntriesOnStack, Entries, RoundOK
<1>3. /\ call \in [Wakers -> Calls] /\ wake_seq \in Nat /\ qlock \in Wakers \cup {Nobody}
      /\ cond \in SUBSET Tasks /\ entries \in Seq(Tasks) /\ Len(entries) \in Nat
  BY <1>1 DEF EventTypeOK, QueueTypeOK
<1>4. \A u \in Tasks : Committed(u)' => Committed(u) /\ u \in Entries
  BY <1>0, <1>1, SMTT(30) DEF Committed, RoundOK, EntriesOnStack
<1>5. \A j \in Wakers \ {k}, u \in Tasks : call'[j] = call[j] /\ WillReach(j, u) => WillReach(j, u)'
  BY <1>0 DEF WillReach
<1> DEFINE Keeps == /\ call' \in [Wakers -> Calls] /\ wake_seq' \in Nat
                    /\ qlock' \in Wakers \cup {Nobody} /\ cond' \in SUBSET Tasks
                    /\ ScanOK' /\ CommittedReached'
<1>6. ASSUME NEW match \in SUBSET Tasks \ {{}}, Signal(k, match) PROVE Keeps
  <2>1. /\ call' = [call EXCEPT ![k] = [NoCall EXCEPT !.at = "seq", !.match = match, !.nr = 0]]
        /\ call[k].at = "none" /\ cond' = cond \cup match
        /\ UNCHANGED <<wake_seq, qlock>>
    BY <1>6, ZenonT(60) DEF Signal, wait_queue_wake
  <2> DEFINE c == [NoCall EXCEPT !.at = "seq", !.match = match, !.nr = 0]
  <2>2. c \in Calls /\ c.at = "seq" /\ c.match = match /\ c.nr = 0
    BY CallStarted
  <2> HIDE DEF c
  <2>3. /\ call' \in [Wakers -> Calls] /\ \A j \in Wakers \ {k} : call'[j] = call[j]
        /\ call'[k].at = "seq" /\ call'[k].match = match /\ call'[k].nr = 0
    BY <1>3, <2>1, <2>2 DEF c
  <2>4. ScanOK'
    BY <1>1, <2>1, <2>3 DEF ScanOK
  <2>5. CommittedReached'
    <3>1. \A u \in match : WillReach(k, u)'
      BY <2>3 DEF WillReach
    <3>2. \A u \in Tasks : ~WillReach(k, u)
      BY <2>1 DEF WillReach
    <3> QED
      BY <1>1, <1>4, <1>5, <2>1, <2>3, <3>1, <3>2 DEF CommittedReached
  <2> QED
    BY <1>3, <2>1, <2>3, <2>4, <2>5, SMTT(30)
<1>7. ASSUME TakeSeq(k), UNCHANGED <<pc, cond>> PROVE Keeps
  <2>1. /\ call' = [call EXCEPT ![k].at = "lock", ![k].seq = wake_seq + 1]
        /\ wake_seq' = wake_seq + 1 /\ UNCHANGED <<qlock, cond>>
        /\ call[k].at = "seq"
    BY <1>7 DEF TakeSeq
  <2>2. /\ call' \in [Wakers -> Calls] /\ \A j \in Wakers \ {k} : call'[j] = call[j]
        /\ call'[k].at = "lock" /\ call'[k].match = call[k].match
        /\ call'[k].nr = call[k].nr /\ call'[k].seq = wake_seq + 1
    <3> DEFINE c == [call[k] EXCEPT !.at = "lock", !.seq = wake_seq + 1]
    <3>1. call' = [call EXCEPT ![k] = c]
      BY <1>3, <2>1
    <3>2. call[k] \in Calls /\ wake_seq + 1 \in Nat
      BY <1>3
    <3>3. /\ c \in Calls /\ c.at = "lock" /\ c.match = call[k].match
          /\ c.nr = call[k].nr /\ c.seq = wake_seq + 1
      BY <3>2 DEF Calls
    <3> QED
      BY <1>3, <3>1, <3>3
  <2>3. ScanOK'
    BY <1>1, <1>3, <2>1, <2>2 DEF ScanOK
  <2>4. \A u \in Tasks : WillReach(k, u) => WillReach(k, u)'
    BY <2>2 DEF WillReach
  <2>5. CommittedReached'
    BY <1>1, <1>4, <1>5, <2>1, <2>2, <2>4 DEF CommittedReached
  <2> QED
    BY <1>3, <2>1, <2>2, <2>3, <2>5
<1>8. ASSUME ScanStart(k), UNCHANGED <<pc, cond>> PROVE Keeps
  <2>1. /\ call' = [call EXCEPT ![k].at = "scan", ![k].pos = 1, ![k].tokens = 0]
        /\ qlock = Nobody /\ qlock' = k /\ UNCHANGED <<wake_seq, cond>>
        /\ call[k].at = "lock"
    BY <1>8 DEF ScanStart
  <2>2. /\ call' \in [Wakers -> Calls] /\ \A j \in Wakers \ {k} : call'[j] = call[j]
        /\ call'[k].at = "scan" /\ call'[k].match = call[k].match /\ call'[k].pos = 1
        /\ call'[k].nr = call[k].nr /\ call'[k].seq = call[k].seq
    <3> DEFINE c == [call[k] EXCEPT !.at = "scan", !.pos = 1, !.tokens = 0]
    <3>1. call' = [call EXCEPT ![k] = c]
      BY <1>3, <2>1
    <3>2. call[k] \in Calls
      BY <1>3
    <3>3. /\ c \in Calls /\ c.at = "scan" /\ c.match = call[k].match /\ c.pos = 1
          /\ c.nr = call[k].nr /\ c.seq = call[k].seq
      BY <3>2, CallScans
    <3> QED
      BY <1>3, <3>1, <3>3
  <2>3. ScanOK'
    BY <1>1, <2>1, <2>2, QueueAssumption DEF ScanOK
  <2>4. \A u \in Tasks : u \in Entries /\ WillReach(k, u) => WillReach(k, u)'
    BY <1>0, <1>3, <2>2, InEntries DEF WillReach
  <2>5. CommittedReached'
    BY <1>1, <1>4, <1>5, <2>1, <2>2, <2>4 DEF CommittedReached
  <2> QED
    BY <1>3, <2>1, <2>2, <2>3, <2>5
<1>9. ASSUME ScanEnd(k), UNCHANGED <<pc, cond>> PROVE Keeps
  <2>1. /\ call' = [call EXCEPT ![k] = IF NextRound(k) THEN [@ EXCEPT !.at = "lock"] ELSE NoCall]
        /\ qlock' = Nobody /\ UNCHANGED <<wake_seq, cond>>
        /\ call[k].at = "scan" /\ ~ScanGoesOn(k)
    BY <1>9 DEF ScanEnd
  <2>2. /\ call[k].nr = 0 /\ call[k].seq # 0 /\ qlock = k
        /\ call[k].pos \in Nat /\ call[k].tokens \in Nat
    BY <1>1, <1>3, <2>1 DEF ScanOK, Calls
  <2>3. CASE NextRound(k)
    <3>1. /\ call' \in [Wakers -> Calls] /\ \A j \in Wakers \ {k} : call'[j] = call[j]
          /\ call'[k].at = "lock" /\ call'[k].match = call[k].match
          /\ call'[k].nr = call[k].nr /\ call'[k].seq = call[k].seq
      BY <1>3, <2>1, <2>3, ZenonT(60) DEF Calls
    <3>2. ScanOK'
      BY <1>1, <2>1, <2>2, <3>1 DEF ScanOK
    <3>3. \A u \in Tasks : WillReach(k, u) => WillReach(k, u)'
      BY <3>1 DEF WillReach
    <3>4. CommittedReached'
      BY <1>1, <1>4, <1>5, <2>1, <3>1, <3>3 DEF CommittedReached
    <3> QED
      BY <1>3, <2>1, <3>1, <3>2, <3>4
  <2>4. CASE ~NextRound(k)
    <3>1. /\ call' \in [Wakers -> Calls] /\ \A j \in Wakers \ {k} : call'[j] = call[j]
          /\ call'[k].at = "none" /\ call'[k].nr = 0
      BY <1>3, <2>1, <2>4 DEF Calls, NoCall
    <3>2. ScanOK'
      BY <1>1, <2>1, <2>2, <3>1 DEF ScanOK
    <3>3. ~(call[k].pos <= Len(entries))
      BY <2>1, <2>2, <2>4, QueueAssumption DEF NextRound, ScanGoesOn
    <3>4. \A u \in Tasks : ~WillReach(k, u)
      BY <1>3, <2>1, <2>2, <3>3 DEF WillReach
    <3>5. CommittedReached'
      BY <1>1, <1>4, <1>5, <2>1, <3>1, <3>4 DEF CommittedReached
    <3> QED
      BY <1>3, <2>1, <3>1, <3>2, <3>5
  <2> QED
    BY <2>3, <2>4
<1>10. Keeps
  BY <1>6, <1>7, <1>8, <1>9
<1>11. EventTypeOK'
  BY <1>0, <1>1, <1>10 DEF EventTypeOK, QueueTypeOK
<1> QED
  BY <1>2, <1>10, <1>11 DEF EventInv

\* The heart of the argument: an entry that a scan passes over belongs to a
\* task that is not committed, or that does not match.  In particular the
\* mark of a more recent call is never on the entry of a committed task.
LEMMA EntryStep ==
    ASSUME EventInv, NEW k \in Wakers, ScanEntry(k), UNCHANGED <<pc, cond>>
    PROVE  EventInv'
<1>1. EventTypeOK /\ EntriesOnStack /\ RoundOK /\ ScanOK /\ CommittedReached
  BY DEF EventInv
<1> DEFINE p == call[k].pos
           t == entries[p]
           accepted == t \in call[k].match /\ entry_seq[t] < call[k].seq /\ Accepts(t)
<1>2. /\ call \in [Wakers -> Calls] /\ sleep \in [Tasks -> Sleeps]
      /\ entry_seq \in [Tasks -> Nat] /\ entries \in Seq(Tasks) /\ Len(entries) \in Nat
      /\ DOMAIN entries = 1 .. Len(entries)
  BY <1>1 DEF EventTypeOK, QueueTypeOK
<1>3. call[k] \in Calls
  BY <1>2
<1>4. /\ call[k].at = "scan" /\ p \in 1 .. Len(entries)
      /\ call[k].seq \in Nat /\ call[k].seq # 0
      /\ UNCHANGED <<entries, wake_seq, qlock>>
  BY <1>1, <1>2, <1>3, SMTT(30) DEF ScanEntry, ScanGoesOn, Calls, ScanOK
<1>5. t \in Tasks /\ pc[t] \in {"check", "block", "wait", "remove"}
  BY <1>1, <1>2, <1>4, InEntries DEF EntriesOnStack
<1>6. /\ call' \in [Wakers -> Calls] /\ \A j \in Wakers \ {k} : call'[j] = call[j]
      /\ call'[k].at = "scan" /\ call'[k].match = call[k].match /\ call'[k].nr = call[k].nr
      /\ call'[k].seq = call[k].seq /\ call'[k].pos = p + 1
  <2>1. CASE accepted
    <3> DEFINE w == IF call[k].nr = 0 THEN call[k].woke ELSE call[k].woke + 1
               n == IF Prepared(t) THEN call[k].tokens + 1 ELSE call[k].tokens
               c == [call[k] EXCEPT !.pos = p + 1, !.woke = w, !.tokens = n]
    <3>1. call' = [call EXCEPT ![k].pos = p + 1, ![k].woke = w, ![k].tokens = n]
      BY <1>2, <2>1 DEF ScanEntry
    <3>2. w \in Nat /\ n \in Nat
      BY <1>3 DEF Calls
    <3> HIDE DEF p, t, w, n
    <3>3. call' = [call EXCEPT ![k] = c]
      BY <1>2, <3>1
    <3>4. /\ c \in Calls /\ c.at = call[k].at /\ c.match = call[k].match
          /\ c.nr = call[k].nr /\ c.seq = call[k].seq /\ c.pos = p + 1
      BY <1>3, <3>2, CallMoves DEF p
    <3> HIDE DEF c
    <3> QED
      BY <1>2, <1>4, <3>3, <3>4
  <2>2. CASE ~accepted
    <3> DEFINE c == [call[k] EXCEPT !.pos = p + 1]
    <3>1. call' = [call EXCEPT ![k] = c]
      BY <1>2, <2>2 DEF ScanEntry
    <3>2. /\ c \in Calls /\ c.at = call[k].at /\ c.match = call[k].match
          /\ c.nr = call[k].nr /\ c.seq = call[k].seq /\ c.pos = p + 1
      BY <1>3, SMTT(30) DEF Calls
    <3> HIDE DEF c
    <3> QED
      BY <1>2, <1>4, <3>1, <3>2
  <2> QED
    BY <2>1, <2>2
<1>7. sleep' \in [Tasks -> Sleeps] /\ entry_seq' \in [Tasks -> Nat] /\ RoundOK'
  <2>1. CASE accepted
    <3>1. /\ sleep' = [sleep EXCEPT ![t] = IF sleep[t] = "asleep" THEN "awake" ELSE "pending"]
          /\ entry_seq' = [entry_seq EXCEPT ![t] = call[k].seq]
      BY <2>1 DEF ScanEntry, Prepared
    <3>2. sleep[t] # "awake"
      BY <2>1 DEF Accepts
    <3> HIDE DEF t, p
    <3>3. sleep' \in [Tasks -> Sleeps] /\ entry_seq' \in [Tasks -> Nat]
      BY <1>2, <1>4, <1>5, <3>1 DEF Sleeps
    <3>4. RoundOK'
      BY <1>1, <1>2, <1>4, <1>5, <3>1, <3>2 DEF RoundOK, Sleeps
    <3> QED
      BY <3>3, <3>4, SMTT(30)
  <2>2. CASE ~accepted
    <3>1. UNCHANGED <<sleep, entry_seq>>
      BY <2>2 DEF ScanEntry
    <3> QED
      BY <1>1, <1>2, <3>1 DEF RoundOK
  <2> QED
    BY <2>1, <2>2
<1>8. EntriesOnStack' /\ ScanOK'
  BY <1>1, <1>4, <1>6 DEF EntriesOnStack, Entries, ScanOK
<1>9. EventTypeOK'
  BY <1>1, <1>4, <1>6, <1>7, SMTT(30) DEF EventTypeOK, QueueTypeOK
<1>10. \A u \in Tasks : (u \in cond /\ Committed(u))' => u \in cond /\ Committed(u)
  <2>1. CASE accepted
    <3>1. sleep' = [sleep EXCEPT ![t] = IF sleep[t] = "asleep" THEN "awake" ELSE "pending"]
      BY <2>1 DEF ScanEntry, Prepared
    <3> HIDE DEF t
    <3> QED
      BY <1>2, <1>5, <3>1, SMTT(30) DEF Committed, Sleeps
  <2>2. CASE ~accepted
    BY <2>2 DEF ScanEntry, Committed
  <2> QED
    BY <2>1, <2>2
<1>11. \A u \in Tasks : u = t /\ u \in call[k].match => ~Committed(u)'
  <2> SUFFICES ASSUME NEW u \in Tasks, u = t, u \in call[k].match PROVE ~Committed(u)'
    OBVIOUS
  <2>1. CASE accepted
    <3>1. sleep' = [sleep EXCEPT ![t] = IF sleep[t] = "asleep" THEN "awake" ELSE "pending"]
      BY <2>1 DEF ScanEntry, Prepared
    <3>2. sleep' = [sleep EXCEPT ![u] = IF sleep[u] = "asleep" THEN "awake" ELSE "pending"]
      BY <3>1, SMTT(30)
    <3> HIDE DEF t
    <3> QED
      BY <1>2, <3>2, SMTT(30) DEF Committed
  <2>2. CASE ~accepted
    <3>1. UNCHANGED <<sleep, entry_seq>> /\ (~(entry_seq[u] < call[k].seq) \/ sleep[u] = "awake")
      BY <2>2 DEF ScanEntry, Accepts
    <3>2. CASE sleep[u] = "awake"
      BY <3>1, <3>2 DEF Committed
    <3>3. CASE ~(entry_seq[u] < call[k].seq)
      <4>1. entry_seq[u] # 0
        BY <1>2, <1>4, <1>5, <3>3, SMTT(30)
      <4>2. sleep[u] \in {"pending", "awake"} \/ pc[u] = "remove"
        BY <1>1, <1>5, <4>1 DEF RoundOK
      <4>3. sleep[u] = "asleep" => pc[u] = "wait"
        BY <1>1, <1>5 DEF RoundOK
      <4> QED
        BY <3>1, <4>2, <4>3, SMTT(30) DEF Committed
    <3> QED
      BY <3>1, <3>2, <3>3, SMTT(30)
  <2> QED
    BY <2>1, <2>2
<1>12. \A j \in Wakers, u \in Tasks :
          WillReach(j, u) /\ ~(j = k /\ u = t) => WillReach(j, u)'
  <2> SUFFICES ASSUME NEW j \in Wakers, NEW u \in Tasks, WillReach(j, u), j # k \/ u # t
               PROVE  WillReach(j, u)'
    OBVIOUS
  <2>1. CASE j # k
    BY <1>4, <1>6, <2>1 DEF WillReach
  <2>2. CASE j = k
    <3>1. PICK i \in p .. Len(entries) : entries[i] = u
      BY <1>4, <2>2, SMTT(30) DEF WillReach
    <3>2. i # p
      BY <2>2, <3>1
    <3>3. i \in p + 1 .. Len(entries)
      BY <1>2, <1>4, <3>1, <3>2
    <3> QED
      BY <1>4, <1>6, <2>2, <3>1, <3>3, SMTT(30) DEF WillReach
  <2> QED
    BY <2>1, <2>2
<1>13. CommittedReached'
  <2> SUFFICES ASSUME NEW u \in Tasks, (u \in cond /\ Committed(u))'
               PROVE  \E j \in Wakers : WillReach(j, u)'
    BY DEF CommittedReached
  <2>1. PICK j \in Wakers : WillReach(j, u)
    BY <1>1, <1>10 DEF CommittedReached
  <2>2. ~(j = k /\ u = t)
    BY <1>11, <2>1 DEF WillReach
  <2> QED
    BY <1>12, <2>1, <2>2
<1> QED
  BY <1>7, <1>8, <1>9, <1>13 DEF EventInv

-----------------------------------------------------------------------------
LEMMA EventInvStep == EventInv /\ [EventNext]_eventVars => EventInv'
<1> SUFFICES ASSUME EventInv, [EventNext]_eventVars PROVE EventInv'
  OBVIOUS
<1>1. ASSUME NEW t \in Tasks, WaitStep(t) PROVE EventInv'
  BY <1>1, LocalStep, ListStep DEF WaitStep
<1>2. ASSUME NEW k \in Wakers,
             \/ \E match \in SUBSET Tasks \ {{}} : Signal(k, match)
             \/ WakeStep(k) /\ UNCHANGED <<pc, cond>>
      PROVE  EventInv'
  BY <1>2, CallStep, EntryStep, SMTT(30) DEF WakeStep
<1>3. CASE UNCHANGED eventVars
  BY <1>3 DEF eventVars, queueVars, EventInv, EventTypeOK, QueueTypeOK, EntriesOnStack,
              Entries, RoundOK, ScanOK, CommittedReached, Committed, WillReach
<1> QED
  BY <1>1, <1>2, <1>3 DEF EventNext

LEMMA EventInvariance == EventSpec => []EventInv
BY EventInvInit, EventInvStep, PTL DEF EventSpec

\* Prepare, add, test, block against wait_queue_wake_all loses no wakeup, for
\* any number of waiters and wakers and any length of wake_tokens[].
THEOREM NoWakeupIsLost == EventSpec => []NoLostWakeup
<1>1. EventInv => NoLostWakeup
  BY DEF EventInv, CommittedReached, Committed, NoLostWakeup
<1> QED
  BY <1>1, EventInvariance, PTL

\* The list of a wait queue never holds the entry of a waiter that has left
\* its round, nor one entry twice.
THEOREM EntriesStayOnStack == EventSpec => []EntriesOnStack
<1>1. EventInv => EntriesOnStack
  BY DEF EventInv
<1> QED
  BY <1>1, EventInvariance, PTL

=============================================================================
