-------------------------- MODULE TlFreelistProofs --------------------------
(***************************************************************************)
(* Theorems about ThreadLocalFreelistAllocator and about its statistics    *)
(* and debug checks, for any number of threads, allocators and blocks and  *)
(* any batch sizes.  The work is done in ThreadCacheProofs.                *)
(***************************************************************************)
EXTENDS AllocStats, ThreadCacheProofs

USE OneCachePerThread

\* A step of the program keeps the invariant, and is one that BlockPool allows.
LEMMA NextKeeps ==
  ASSUME IInv, [Next]_vars
  PROVE  IInv' /\ [Contract!Next]_owned
<1>1. ASSUME NEW t \in Threads, NEW p \in Pools, Alloc(t, <<p>>)
      PROVE  IInv' /\ [Contract!Next]_owned
  <2>1. <<p>> \in Seq(Pools) /\ <<p>> # <<>>
    OBVIOUS
  <2> QED BY <1>1, <2>1, AllocSteps, StepsKeep
<1>2. ASSUME NEW t \in Threads, NEW b \in Blocks, Dealloc(t, b, source[b])
      PROVE  IInv' /\ [Contract!Next]_owned
  <2>1. source[b] \in Pools
    BY <1>2 DEF Dealloc, IInv, SourceKnown
  <2> QED BY <1>2, <2>1, DeallocKeeps
<1>3. ASSUME NEW t \in Threads, Step(t) \/ Client(t)
      PROVE  IInv' /\ [Contract!Next]_owned
  BY <1>3, StepSteps, StepsKeep, ClientKeeps
<1>4. ASSUME NEW p \in Pools, Destroy({p})
      PROVE  IInv' /\ [Contract!Next]_owned
  BY <1>4, DestroyKeeps
<1>5. ASSUME UNCHANGED vars
      PROVE  IInv' /\ [Contract!Next]_owned
  BY <1>5, StutterKeeps
<1> QED BY <1>1, <1>2, <1>3, <1>4, <1>5 DEF Next, Call, Ended

\* The inductive invariant of the caches holds whatever the threads do with
\* the allocators.
THEOREM Invariance == Spec => []IInv
<1>1. Init => IInv
  BY InitIInv
<1>2. IInv /\ [Next]_vars => IInv'
  BY NextKeeps
<1> QED BY <1>1, <1>2, PTL DEF Spec

\* Every variable keeps its type; above all local_size, which is unsigned in
\* the code, never goes below zero in alloc and flush.
THEOREM TypeCorrect == Spec => []TypeOK
<1>1. IInv => TypeOK
  BY Promises
<1> QED BY <1>1, Invariance, PTL

\* local_size is the length of local_head's list before and after every alloc,
\* dealloc, refill and flush.
THEOREM SizesExact == Spec => []SizeExact
<1>1. IInv => SizeExact
  BY Promises
<1> QED BY <1>1, Invariance, PTL

\* No block is duplicated or dropped by refills, flushes and hand-overs, even
\* between allocators that share a thread's cache.
THEOREM Conservation == Spec => []BlocksConserved
<1>1. IInv => BlocksConserved
  BY Promises
<1> QED BY <1>1, Invariance, PTL

\* alloc and dealloc behave as a pool of blocks: what alloc returns was held by
\* nobody.
THEOREM Refinement == Spec => ImplementsBlockPool
<1>1. Init => Contract!Init
  BY InitIInv
<1>2. IInv /\ [Next]_vars => [Contract!Next]_owned
  BY NextKeeps
<1> QED BY <1>1, <1>2, Invariance, PTL DEF Spec, ImplementsBlockPool, Contract!Spec

-----------------------------------------------------------------------------
(* A program with one allocator                                            *)

OneAllocator == \A p, q \in Pools : p = q

\* Its lists hold the blocks of its region, whatever the program does.
LEMMA HomedAlways ==
  ASSUME OneAllocator
  PROVE  Spec => [](IInv /\ Homed)
<1>1. OwnSlots
  BY DEF OwnSlots, OneAllocator
<1>2. Init => IInv /\ Homed
  BY InitIInv, InitHomed
<1>3. IInv /\ Homed /\ [Next]_vars => (IInv /\ Homed)'
  <2> SUFFICES ASSUME IInv, Homed, [Next]_vars PROVE IInv' /\ Homed'
    OBVIOUS
  <2>1. ASSUME NEW t \in Threads, NEW p \in Pools, Alloc(t, <<p>>) PROVE Homed'
    <3>1. <<p>> \in Seq(Pools) /\ <<p>> # <<>>
      OBVIOUS
    <3> QED BY <1>1, <2>1, <3>1, AllocSteps, StepsHomed
  <2>2. ASSUME NEW t \in Threads, NEW b \in Blocks, Dealloc(t, b, source[b]) PROVE Homed'
    <3>1. source[b] \in Pools /\ Home[b] = source[b]
      BY <2>2 DEF Dealloc, IInv, SourceKnown, Homed
    <3> QED BY <1>1, <2>2, <3>1, DeallocHomed
  <2>3. ASSUME NEW t \in Threads, Step(t) PROVE Homed'
    BY <1>1, <2>3, StepSteps, StepsHomed
  <2>4. ASSUME (\E t \in Threads : Client(t)) \/ (\E ps : Destroy(ps)) \/ UNCHANGED vars
        PROVE  Homed'
    BY <2>4, ClientHomed
  <2>5. Homed'
    <3>1. CASE Next
      BY <2>1, <2>2, <2>3, <2>4, <3>1 DEF Next, Call, Ended
    <3> QED BY <2>4, <3>1
  <2> QED BY <2>5, NextKeeps
<1> QED BY <1>2, <1>3, PTL DEF Spec

\* alloc refuses a thread whose cache is empty only if the other threads'
\* caches and bulk operations withhold no more than a high watermark and one
\* block each: refill and flush never let a cache grow beyond that.
THEOREM FailuresLimited ==
  ASSUME OneAllocator, IsFiniteSet(Threads)
  PROVE  Spec => []FailureBound
<1>1. IInv /\ Homed => FailureBound
  BY FailuresBounded DEF OwnSlots, OneAllocator
<1> QED BY <1>1, HomedAlways, PTL

\* A program with one allocator gets from alloc only blocks of the region that
\* it made.  (With two allocators this fails: they share a thread's cache.)
THEOREM OneAllocatorServesItself ==
  ASSUME OneAllocator
  PROVE  Spec => []ServedFromOwnRegion
<1>1. IInv /\ Homed => ServedFromOwnRegion
  BY DEF Homed, ServedFromOwnRegion
<1> QED BY <1>1, HomedAlways, PTL

-----------------------------------------------------------------------------
(* The statistics and the debug checks                                     *)

Stats == [allocs : Nat, deallocs : Nat, refills : Nat, flushes : Nat,
          refill_blocks : Nat, flush_blocks : Nat]

StatsTypeOK ==
  /\ stats \in [Threads -> Stats]
  /\ live \in [Threads -> SUBSET Blocks]
  /\ count \in [Threads -> Nat]

\* Only a call that is flushing has blocks still to be counted.
CountSettled ==
  \A t \in Threads :
    frame[t].pc \notin {"flush", "push_bulk", "push_unlock"} => count[t] = 0

\* The inductive invariant of the books.
SIInv == IInv /\ StatsTypeOK /\ CountSettled /\ StatsBalance

\* Every step of the instrumented program is one of the program.
LEMMA StepsAreSteps ==
  ASSUME [SNext]_<<vars, svars>>
  PROVE  [Next]_vars
BY DEF SNext, SAlloc, SRefillUnlock, SFlushUnlock, SDealloc, SHandoff, SExit, Silent,
       Next, Call, Step, Client

\* All the pools share a thread's one slot.
LEMMA SlotsAlike == \A r, s \in Slots : r = s
BY DEF Slots

\* The books of one thread.
Balanced(c, st, n) ==
  c.size + st.allocs + st.flush_blocks + n = st.refill_blocks + st.deallocs

\* A step of thread t, seen by the books: its slot s, statistics st and count n.
BookStep(t, s, st, n) ==
  /\ st \in Stats /\ n \in Nat
  /\ stats' = [stats EXCEPT ![t] = st]
  /\ count' = [count EXCEPT ![t] = n]
  /\ live' \in [Threads -> SUBSET Blocks]
  /\ frame'[t].pc \notin {"flush", "push_bulk", "push_unlock"} => n = 0
  /\ s \in Slots /\ Balanced(cache'[t][s], st, n)
  /\ \A u \in Threads \ {t} :
       cache'[u] = cache[u] /\ (frame'[u] = frame[u] \/ frame'[u].pc = frame[u].pc)

\* Such a step keeps the books.
LEMMA BookStepKeeps ==
  ASSUME SIInv, NEW t \in Threads, NEW s, NEW st, NEW n, BookStep(t, s, st, n)
  PROVE  StatsTypeOK' /\ CountSettled' /\ StatsBalance'
<1>1. StatsTypeOK'
  BY DEF SIInv, StatsTypeOK, BookStep
<1>2. /\ stats'[t] = st /\ count'[t] = n
      /\ \A u \in Threads \ {t} : stats'[u] = stats[u] /\ count'[u] = count[u]
  BY DEF SIInv, StatsTypeOK, BookStep
<1>3. CountSettled'
  <2> SUFFICES ASSUME NEW u \in Threads,
                      frame'[u].pc \notin {"flush", "push_bulk", "push_unlock"}
               PROVE  count'[u] = 0
    BY DEF CountSettled
  <2>1. CASE u = t
    BY <1>2, <2>1 DEF BookStep
  <2>2. CASE u # t
    <3>1. frame'[u].pc = frame[u].pc
      BY <2>2 DEF BookStep
    <3> QED BY <1>2, <2>2, <3>1 DEF SIInv, CountSettled
  <2> QED BY <2>1, <2>2
<1>4. StatsBalance'
  <2> SUFFICES ASSUME NEW u \in Threads, NEW r \in Slots
               PROVE  Balanced(cache'[u][r], stats'[u], count'[u])
    BY DEF StatsBalance, Balanced
  <2>1. CASE u = t
    <3>1. r = s
      BY SlotsAlike DEF BookStep
    <3> QED BY <1>2, <2>1, <3>1 DEF BookStep
  <2>2. CASE u # t
    <3>1. cache'[u] = cache[u]
      BY <2>2 DEF BookStep
    <3> QED BY <1>2, <2>2, <3>1 DEF SIInv, StatsBalance, Balanced
  <2> QED BY <2>1, <2>2
<1> QED BY <1>1, <1>3, <1>4

\* What the counters are after a refill and after a flush of n blocks.
LEMMA StatsUpdate ==
  ASSUME NEW st \in Stats, NEW n \in Nat
  PROVE  /\ LET r == [st EXCEPT !.refills = @ + 1, !.refill_blocks = @ + n]
            IN  /\ r \in Stats /\ r.allocs = st.allocs /\ r.deallocs = st.deallocs
                /\ r.flush_blocks = st.flush_blocks
                /\ r.refill_blocks = st.refill_blocks + n
         /\ LET f == [st EXCEPT !.flushes = @ + 1, !.flush_blocks = @ + n]
            IN  /\ f \in Stats /\ f.allocs = st.allocs /\ f.deallocs = st.deallocs
                /\ f.flush_blocks = st.flush_blocks + n
                /\ f.refill_blocks = st.refill_blocks
<1>1. /\ st.allocs \in Nat /\ st.deallocs \in Nat /\ st.refills \in Nat
      /\ st.flushes \in Nat /\ st.refill_blocks \in Nat /\ st.flush_blocks \in Nat
  BY DEF Stats
<1> DEFINE x == st.refills + 1
           y == st.refill_blocks + n
           v == st.flushes + 1
           w == st.flush_blocks + n
           r == [st EXCEPT !.refills = x, !.refill_blocks = y]
           f == [st EXCEPT !.flushes = v, !.flush_blocks = w]
<1>2. x \in Nat /\ y \in Nat /\ v \in Nat /\ w \in Nat
  BY <1>1
<1> HIDE DEF x, y, v, w
<1>3. /\ r \in Stats /\ r.allocs = st.allocs /\ r.deallocs = st.deallocs
      /\ r.flush_blocks = st.flush_blocks /\ r.refill_blocks = y
  BY <1>2 DEF Stats
<1>4. /\ f \in Stats /\ f.allocs = st.allocs /\ f.deallocs = st.deallocs
      /\ f.refill_blocks = st.refill_blocks /\ f.flush_blocks = w
  BY <1>2 DEF Stats
<1> QED BY <1>3, <1>4 DEF x, y, v, w

\* What a thread's books are before a step.
LEMMA BooksBefore ==
  ASSUME SIInv, NEW t \in Threads, NEW s \in Slots
  PROVE  /\ stats[t] \in Stats /\ count[t] \in Nat /\ cache[t][s].size \in Nat
         /\ live[t] \in SUBSET Blocks
         /\ Balanced(cache[t][s], stats[t], count[t])
         /\ frame[t].pc \notin {"flush", "push_bulk", "push_unlock"} => count[t] = 0
<1>1. cache[t][s] \in Cache
  BY DEF SIInv, IInv, TypeOK
<1> QED BY <1>1 DEF SIInv, StatsTypeOK, CountSettled, StatsBalance, Balanced, Cache

\* alloc, with the counters st at that moment and n blocks in the cache.
LEMMA OnAllocKeeps ==
  ASSUME SIInv, NEW t \in Threads, NEW s \in Slots, NEW st \in Stats, NEW n \in Nat,
         IInv', HandsOut(t, s, n), OnAlloc(t, st), count[t] = 0,
         n + st.allocs + st.flush_blocks = st.refill_blocks + st.deallocs
  PROVE  StatsTypeOK' /\ CountSettled' /\ StatsBalance'
<1> DEFINE given == owned'[t] \ owned[t]
           k     == Cardinality(given)
           st2   == [st EXCEPT !.allocs = st.allocs + k]
<1>1. k \in Nat /\ cache'[t][s].size + k = n /\ given \subseteq Blocks
  BY DEF HandsOut
<1>2. stats' = [stats EXCEPT ![t] = st2] /\ live' = [live EXCEPT ![t] = @ \cup given]
      /\ count' = count
  BY DEF OnAlloc
<1> HIDE DEF given, k
<1>3. /\ st2 \in Stats /\ st2.allocs = st.allocs + k /\ st2.flush_blocks = st.flush_blocks
      /\ st2.refill_blocks = st.refill_blocks /\ st2.deallocs = st.deallocs
  BY <1>1 DEF Stats
<1> HIDE DEF st2
<1>4. live' \in [Threads -> SUBSET Blocks] /\ count' = [count EXCEPT ![t] = 0]
  BY <1>1, <1>2 DEF SIInv, StatsTypeOK
<1>5. cache'[t][s].size \in Int
  <2>1. cache'[t][s] \in Cache
    BY DEF IInv, TypeOK
  <2> QED BY <2>1 DEF Cache
<1>6. Balanced(cache'[t][s], st2, 0)
  BY <1>1, <1>3, <1>5 DEF Balanced, Stats
<1>7. BookStep(t, s, st2, 0)
  BY <1>2, <1>3, <1>4, <1>6 DEF BookStep, HandsOut
<1> QED BY <1>7, BookStepKeeps

\* A step of the instrumented program keeps the books balanced.
LEMMA SNextKeeps ==
  ASSUME SIInv, [SNext]_<<vars, svars>>
  PROVE  SIInv'
<1>1. IInv /\ IInv'
  BY StepsAreSteps, NextKeeps DEF SIInv
<1>2. ASSUME NEW t \in Threads, NEW p \in Pools, SAlloc(t, p)
      PROVE  StatsTypeOK' /\ CountSettled' /\ StatsBalance'
  <2> DEFINE s == Slot[p]
             n == cache[t][s].size
  <2>1. s \in Slots /\ <<p>> \in Seq(Pools) /\ <<p>> # <<>> /\ <<p>>[1] = p
    BY DEF Slots
  <2>2. frame[t].pc = "idle" /\ Attempt(t, <<p>>) /\ OnAlloc(t, stats[t])
    BY <1>2 DEF SAlloc, Alloc
  <2>3. HandsOut(t, s, n)
    BY <1>1, <2>1, <2>2, AttemptHandsOut
  <2>4. /\ stats[t] \in Stats /\ n \in Nat /\ count[t] = 0
        /\ Balanced(cache[t][s], stats[t], count[t])
    BY <2>1, <2>2, BooksBefore
  <2>5. n + stats[t].allocs + stats[t].flush_blocks
          = stats[t].refill_blocks + stats[t].deallocs
    BY <2>4 DEF Balanced, Stats
  <2> HIDE DEF s, n
  <2> QED BY <1>1, <2>1, <2>2, <2>3, <2>4, <2>5, OnAllocKeeps
<1>3. ASSUME NEW t \in Threads, SRefillUnlock(t)
      PROVE  StatsTypeOK' /\ CountSettled' /\ StatsBalance'
  <2> DEFINE s  == Slot[frame[t].pool]
             q  == frame[t].batch
             m  == Len(q)
             n  == cache[t][s].size + m
             st == AfterRefill(t)
  <2>1. RefillUnlock(t) /\ frame[t].pc = "pop_unlock" /\ OnAlloc(t, st)
    BY <1>3 DEF SRefillUnlock, RefillUnlock
  <2>2. s \in Slots /\ q \in Seq(Blocks)
    <3>1. s \in Slots
      BY <1>1, <2>1, CallFacts
    <3>2. frame[t] \in Frame
      BY <1>1 DEF IInv, TypeOK
    <3> QED BY <3>1, <3>2 DEF Frame
  <2>3. HandsOut(t, s, n)
    <3> DEFINE ps == <<frame[t].pool>> \o frame[t].rest
               c  == Refilled(Current(t), frame[t].batch)
    <3>1. TakesFrom(t, ps, c) /\ ps[1] = frame[t].pool /\ c.size = n
      BY <1>1, <2>1, RefillUnlockTakes DEF Current
    <3> HIDE DEF ps, c
    <3>2. HandsOut(t, Slot[ps[1]], c.size)
      BY <1>1, <3>1, TakeHandsOut
    <3> QED BY <3>1, <3>2
  <2>4. /\ stats[t] \in Stats /\ cache[t][s].size \in Nat /\ count[t] = 0
        /\ Balanced(cache[t][s], stats[t], count[t])
    BY <2>1, <2>2, BooksBefore
  <2>5. Len(q) \in Nat /\ (q = <<>> => Len(q) = 0)
    BY <2>2
  <2> HIDE DEF s, q, n
  <2>6. /\ st \in Stats /\ st.allocs = stats[t].allocs
        /\ st.flush_blocks = stats[t].flush_blocks /\ st.deallocs = stats[t].deallocs
        /\ st.refill_blocks = stats[t].refill_blocks + Len(q)
    <3>1. CASE q = <<>>
      BY <2>4, <2>5, <3>1 DEF AfterRefill, Stats, q
    <3>2. CASE q # <<>>
      <4>1. st = [stats[t] EXCEPT !.refills = @ + 1, !.refill_blocks = @ + Len(q)]
        BY <3>2 DEF AfterRefill, q
      <4> HIDE DEF st
      <4> QED BY <2>4, <2>5, <4>1, StatsUpdate
    <3> QED BY <3>1, <3>2
  <2> HIDE DEF m
  <2>7. n \in Nat /\ n + st.allocs + st.flush_blocks = st.refill_blocks + st.deallocs
    <3> HIDE DEF st
    <3>1. /\ stats[t].allocs \in Nat /\ stats[t].flush_blocks \in Nat
          /\ stats[t].deallocs \in Nat /\ stats[t].refill_blocks \in Nat
      BY <2>4 DEF Stats
    <3>2. cache[t][s].size + stats[t].allocs + stats[t].flush_blocks
            = stats[t].refill_blocks + stats[t].deallocs
      BY <2>4, <3>1 DEF Balanced
    <3>3. /\ m \in Nat /\ st.refill_blocks = stats[t].refill_blocks + m
          /\ st.allocs = stats[t].allocs /\ st.flush_blocks = stats[t].flush_blocks
          /\ st.deallocs = stats[t].deallocs
      BY <2>5, <2>6 DEF m
    <3>4. n = cache[t][s].size + m /\ cache[t][s].size \in Nat
      BY <2>4 DEF n
    <3> QED BY <3>1, <3>2, <3>3, <3>4
  <2> HIDE DEF st
  <2> QED BY <1>1, <2>1, <2>2, <2>3, <2>4, <2>6, <2>7, OnAllocKeeps
<1>4. ASSUME NEW t \in Threads, SFlushUnlock(t)
      PROVE  StatsTypeOK' /\ CountSettled' /\ StatsBalance'
  <2> DEFINE s  == Slot[frame[t].pool]
             st == AfterFlush(t)
  <2>1. /\ frame[t].pc = "push_unlock" /\ cache' = cache
        /\ frame' = [frame EXCEPT ![t] = Idle]
        /\ stats' = [stats EXCEPT ![t] = st] /\ count' = [count EXCEPT ![t] = 0]
        /\ live' = live
    BY <1>4 DEF SFlushUnlock, FlushUnlock
  <2>2. s \in Slots
    BY <1>1, <2>1, CallFacts
  <2>3. /\ stats[t] \in Stats /\ cache[t][s].size \in Nat /\ count[t] \in Nat
        /\ Balanced(cache[t][s], stats[t], count[t])
    BY <2>2, BooksBefore
  <2>4. /\ st \in Stats /\ st.allocs = stats[t].allocs
        /\ st.flush_blocks = stats[t].flush_blocks + count[t]
        /\ st.refill_blocks = stats[t].refill_blocks /\ st.deallocs = stats[t].deallocs
    <3>1. st = [stats[t] EXCEPT !.flushes = @ + 1, !.flush_blocks = @ + count[t]]
      BY DEF AfterFlush
    <3> HIDE DEF st
    <3> QED BY <2>3, <3>1, StatsUpdate
  <2> HIDE DEF s, st
  <2>5. Balanced(cache'[t][s], st, 0)
    BY <2>1, <2>3, <2>4 DEF Balanced, Stats
  <2>6. /\ frame'[t] = Idle /\ live' \in [Threads -> SUBSET Blocks]
        /\ \A u \in Threads \ {t} : cache'[u] = cache[u] /\ frame'[u] = frame[u]
    BY <1>1, <2>1 DEF IInv, TypeOK, SIInv, StatsTypeOK
  <2>7. BookStep(t, s, st, 0)
    BY <2>1, <2>2, <2>4, <2>5, <2>6 DEF BookStep
  <2> QED BY <2>7, BookStepKeeps
<1>5. ASSUME NEW t \in Threads, NEW b \in Blocks, SDealloc(t, b)
      PROVE  StatsTypeOK' /\ CountSettled' /\ StatsBalance'
  <2> DEFINE p  == source[b]
             s  == Slot[p]
             st == [stats[t] EXCEPT !.deallocs = @ + 1]
             n  == Len(frame'[t].batch)
  <2>1. Dealloc(t, b, p) /\ frame[t].pc = "idle" /\ b \in owned[t]
    BY <1>5 DEF SDealloc, Dealloc
  <2>2. p \in Pools /\ s \in Slots
    BY <1>1, <2>1 DEF IInv, SourceKnown, Slots
  <2>3. cache'[t][s].size + n = cache[t][s].size + 1
    BY <1>1, <2>1, <2>2, DeallocSteps
  <2>4. /\ stats[t] \in Stats /\ cache[t][s].size \in Nat /\ count[t] = 0
        /\ live[t] \in SUBSET Blocks
        /\ Balanced(cache[t][s], stats[t], count[t])
    BY <2>1, <2>2, BooksBefore
  <2>5. stats' = [stats EXCEPT ![t] = st] /\ count' = [count EXCEPT ![t] = n]
    BY <1>5 DEF SDealloc, SIInv, StatsTypeOK
  <2>6. live' \in [Threads -> SUBSET Blocks]
    BY <1>5, <2>4 DEF SDealloc, Erased, SIInv, StatsTypeOK
  <2>7. /\ n \in Nat /\ cache'[t][s].size \in Nat
        /\ frame'[t].pc \notin {"flush", "push_bulk", "push_unlock"} => n = 0
    <3>1. frame'[t] \in Frame /\ cache'[t][s] \in Cache
      BY <1>1, <2>2 DEF IInv, TypeOK
    <3>2. frame'[t].pc \in {"idle", "flush"}
      BY <1>1, <2>1, <2>2, DeallocSteps
    <3>3. frame'[t].pc = "idle" => frame'[t].batch = <<>>
      BY <1>1 DEF IInv, FrameOK
    <3>4. frame'[t].batch \in Seq(Blocks) /\ cache'[t][s].size \in Nat
      BY <3>1 DEF Frame, Cache
    <3>5. n \in Nat /\ (frame'[t].batch = <<>> => n = 0)
      BY <3>4
    <3> QED BY <3>2, <3>3, <3>4, <3>5
  <2>8. /\ st \in Stats /\ st.allocs = stats[t].allocs
        /\ st.flush_blocks = stats[t].flush_blocks
        /\ st.refill_blocks = stats[t].refill_blocks /\ st.deallocs = stats[t].deallocs + 1
    BY <2>4 DEF Stats
  <2>9. \A u \in Threads \ {t} : cache'[u] = cache[u] /\ frame'[u] = frame[u]
    BY <1>1, <2>1 DEF Dealloc, IInv, TypeOK
  <2> HIDE DEF p, s, st, n
  <2>10. Balanced(cache'[t][s], st, n)
    <3>1. /\ stats[t].allocs \in Nat /\ stats[t].flush_blocks \in Nat
          /\ stats[t].deallocs \in Nat /\ stats[t].refill_blocks \in Nat
      BY <2>4 DEF Stats
    <3>2. cache[t][s].size + stats[t].allocs + stats[t].flush_blocks
            = stats[t].refill_blocks + stats[t].deallocs
      BY <2>4, <3>1 DEF Balanced
    <3> QED BY <2>3, <2>4, <2>7, <2>8, <3>1, <3>2 DEF Balanced
  <2>11. BookStep(t, s, st, n)
    BY <2>2, <2>5, <2>6, <2>7, <2>8, <2>9, <2>10 DEF BookStep
  <2> QED BY <2>11, BookStepKeeps
<1>6. ASSUME NEW t \in Threads, SExit(t)
      PROVE  StatsTypeOK' /\ CountSettled' /\ StatsBalance'
  <2>1. /\ frame[t].pc = "idle" /\ frame' = frame
        /\ cache' = [cache EXCEPT ![t] = [s \in Slots |-> NoCache]]
        /\ stats' = [stats EXCEPT ![t] = Zero] /\ live' = [live EXCEPT ![t] = {}]
        /\ count' = count
    BY <1>6 DEF SExit, Exit
  <2>2. PICK s \in Slots : TRUE
    BY <1>6 DEF SExit, Exit
  <2>3. count[t] = 0
    BY <2>1, <2>2, BooksBefore
  <2>4. /\ cache'[t][s] = NoCache /\ \A u \in Threads \ {t} : cache'[u] = cache[u]
        /\ count' = [count EXCEPT ![t] = 0] /\ live' \in [Threads -> SUBSET Blocks]
    BY <1>1, <2>1, <2>2, <2>3 DEF IInv, TypeOK, SIInv, StatsTypeOK
  <2>5. Zero \in Stats /\ Balanced(NoCache, Zero, 0)
    BY DEF Zero, Stats, Balanced, NoCache
  <2>6. BookStep(t, s, Zero, 0)
    BY <2>1, <2>2, <2>4, <2>5 DEF BookStep
  <2> QED BY <2>6, BookStepKeeps
<1>7. ASSUME UNCHANGED <<stats, count, cache, live>>,
             \A t \in Threads : \/ frame'[t].pc = frame[t].pc
                                \/ frame[t].pc \in {"refill", "pop_bulk", "pop_unlock"}
                                \/ frame'[t].pc \in {"flush", "push_bulk", "push_unlock"}
      PROVE  StatsTypeOK' /\ CountSettled' /\ StatsBalance'
  BY <1>7 DEF SIInv, StatsTypeOK, CountSettled, StatsBalance
<1>8. ASSUME NEW t \in Threads, NEW u \in Threads, NEW b \in Blocks, SHandoff(t, u, b)
      PROVE  StatsTypeOK' /\ CountSettled' /\ StatsBalance'
  BY <1>7, <1>8 DEF SHandoff, Handoff, svars
<1>9. ASSUME Silent \/ UNCHANGED <<vars, svars>>
      PROVE  StatsTypeOK' /\ CountSettled' /\ StatsBalance'
  <2>1. UNCHANGED <<stats, count, live>>
    BY <1>9 DEF Silent, svars
  <2>2. cache' = cache
    BY <1>9 DEF Silent, RefillLock, RefillPop, RefillEmpty, FlushLock, FlushPush,
                Destroy, Ended, vars
  <2>3. ASSUME NEW t \in Threads
        PROVE  \/ frame'[t].pc = frame[t].pc
               \/ frame[t].pc \in {"refill", "pop_bulk", "pop_unlock"}
               \/ frame'[t].pc \in {"flush", "push_bulk", "push_unlock"}
    <3>1. frame \in [Threads -> Frame]
      BY <1>1 DEF IInv, TypeOK
    <3>2. ASSUME NEW v \in Threads, RefillLock(v) \/ RefillPop(v) \/ RefillEmpty(v)
          PROVE  frame'[t] = frame[t] \/ frame[t].pc \in {"refill", "pop_bulk", "pop_unlock"}
      BY <3>1, <3>2 DEF RefillLock, RefillPop, RefillEmpty
    <3>3. ASSUME NEW v \in Threads, FlushLock(v) \/ FlushPush(v)
          PROVE  frame'[t] = frame[t] \/ frame'[t].pc \in {"flush", "push_bulk", "push_unlock"}
      BY <3>1, <3>3 DEF FlushLock, FlushPush, Frame
    <3>4. CASE \E v \in Threads : \/ RefillLock(v) \/ RefillPop(v) \/ RefillEmpty(v)
                                  \/ FlushLock(v) \/ FlushPush(v)
      BY <3>2, <3>3, <3>4
    <3>5. CASE frame' = frame
      BY <3>5
    <3> QED BY <1>9, <3>4, <3>5 DEF Silent, Destroy, Ended, vars
  <2> QED BY <1>7, <2>1, <2>2, <2>3
<1>10. StatsTypeOK' /\ CountSettled' /\ StatsBalance'
  BY <1>2, <1>3, <1>4, <1>5, <1>6, <1>8, <1>9 DEF SNext
<1> QED BY <1>1, <1>10 DEF SIInv

\* The books balance in every thread at every moment, whatever the allocators
\* that share its cache.
THEOREM BooksBalance == SSpec => []StatsBalance
<1>1. SInit => SIInv
  <2> SUFFICES ASSUME SInit PROVE SIInv
    OBVIOUS
  <2>1. IInv
    BY InitIInv DEF SInit
  <2>2. Zero \in Stats
    BY DEF Zero, Stats
  <2>3. StatsTypeOK
    BY <2>2 DEF SInit, StatsTypeOK
  <2>4. CountSettled
    BY DEF SInit, CountSettled
  <2>5. StatsBalance
    BY DEF SInit, Init, StatsBalance, Zero, NoCache
  <2> QED BY <2>1, <2>3, <2>4, <2>5 DEF SIInv
<1>2. SIInv /\ [SNext]_<<vars, svars>> => SIInv'
  BY SNextKeeps
<1>3. SIInv => StatsBalance
  BY DEF SIInv
<1> QED BY <1>1, <1>2, <1>3, PTL DEF SSpec

\* The sets that the detector's property speaks of have their types.
DetectorTypeOK ==
  live \in [Threads -> SUBSET Blocks] /\ issued \in [Threads -> SUBSET Blocks]

\* What alloc gave to a thread is with some thread until it is freed, and was
\* given to one thread only.
IssuedOnce ==
  /\ \A t \in Threads : issued[t] \subseteq UNION {owned[u] : u \in Threads}
  /\ \A t, u \in Threads : t # u => issued[t] \cap issued[u] = {}

\* The inductive invariant of the detector.
Detects == DetectorTypeOK /\ IssuedOnce /\ DetectorExact
DIInv   == IInv /\ Detects

\* A block that is handed out was with nobody.
LEMMA NewWasFree ==
  ASSUME owned \in [Threads -> SUBSET Blocks], [Contract!Next]_owned,
         NEW t \in Threads, NEW s, NEW n, HandsOut(t, s, n),
         NEW b \in owned'[t] \ owned[t], NEW u \in Threads
  PROVE  b \notin owned[u]
<1>1. /\ owned[t] \subseteq owned'[t]
      /\ \A v \in Threads \ {t} : owned'[v] = owned[v]
  BY DEF HandsOut
<1>2. ASSUME NEW v \in Threads, NEW x \in Blocks, Contract!Alloc(v, x) PROVE b \notin owned[u]
  BY <1>2 DEF Contract!Alloc, Contract!Free
<1>3. ASSUME NEW v \in Threads, NEW x \in Blocks, Contract!Dealloc(v, x) PROVE FALSE
  BY <1>1, <1>3 DEF Contract!Dealloc
<1>4. ASSUME NEW v \in Threads, NEW w \in Threads, NEW x \in Blocks, Contract!Handoff(v, w, x)
      PROVE  FALSE
  <2>1. x \in owned[v] /\ x \notin owned'[v]
    BY <1>4 DEF Contract!Handoff
  <2> QED BY <1>1, <2>1
<1> QED BY <1>2, <1>3, <1>4 DEF Contract!Next

\* The detector sees every block that is handed out.
LEMMA DetectorOnAlloc ==
  ASSUME DIInv, [Contract!Next]_owned,
         NEW t \in Threads, NEW s, NEW n, NEW st, HandsOut(t, s, n), OnAlloc(t, st)
  PROVE  Detects'
<1>1. PICK new : new = owned'[t] \ owned[t]
  OBVIOUS
<1>2. owned \in [Threads -> SUBSET Blocks]
  BY DEF DIInv, IInv, TypeOK
<1>3. /\ owned'[t] = owned[t] \cup new /\ new \subseteq Blocks
      /\ \A u \in Threads \ {t} : owned'[u] = owned[u]
  BY <1>1 DEF HandsOut
<1>4. \A b \in new, u \in Threads : b \notin owned[u]
  BY <1>1, <1>2, NewWasFree
<1>5. /\ live' = [live EXCEPT ![t] = @ \cup new]
      /\ issued' = [issued EXCEPT ![t] = @ \cup new]
      /\ UNCHANGED <<reported, strayed>>
  BY <1>1 DEF OnAlloc
<1>6. DetectorTypeOK'
  BY <1>3, <1>5 DEF DIInv, Detects, DetectorTypeOK
<1>7. \A u \in Threads : /\ live'[u] = IF u = t THEN live[u] \cup new ELSE live[u]
                         /\ issued'[u] = IF u = t THEN issued[u] \cup new ELSE issued[u]
  BY <1>5 DEF DIInv, Detects, DetectorTypeOK
<1>8. \A u \in Threads : \A b \in issued[u] : \E v \in Threads : b \in owned[v]
  BY DEF DIInv, Detects, IssuedOnce
<1>9. \A u \in Threads : issued'[u] \subseteq UNION {owned'[v] : v \in Threads}
  <2> SUFFICES ASSUME NEW u \in Threads, NEW b \in issued'[u]
               PROVE  \E v \in Threads : b \in owned'[v]
    OBVIOUS
  <2>1. b \in issued[u] \/ b \in new
    BY <1>7
  <2> QED BY <1>3, <1>8, <2>1
<1>10. \A u, v \in Threads : u # v => issued'[u] \cap issued'[v] = {}
  <2> SUFFICES ASSUME NEW u \in Threads, NEW v \in Threads, u # v,
                      NEW b \in issued'[u] \cap issued'[v]
               PROVE  FALSE
    OBVIOUS
  <2>1. issued[u] \cap issued[v] = {}
    BY DEF DIInv, Detects, IssuedOnce
  <2>2. b \in issued[u] \/ (u = t /\ b \in new)
    BY <1>7
  <2>3. b \in issued[v] \/ (v = t /\ b \in new)
    BY <1>7
  <2>4. b \in new => b \notin issued[u] /\ b \notin issued[v]
    BY <1>4, <1>8
  <2> QED BY <2>1, <2>2, <2>3, <2>4
<1>11. IssuedOnce'
  BY <1>9, <1>10 DEF IssuedOnce
<1>12. ASSUME NEW u \in Threads
       PROVE  issued'[u] \subseteq live'[u] /\ live'[u] \ issued'[u] \subseteq strayed'
  <2>1. issued[u] \subseteq live[u] /\ live[u] \ issued[u] \subseteq strayed
    BY DEF DIInv, Detects, DetectorExact
  <2>2. CASE u = t
    <3>1. live'[u] = live[u] \cup new /\ issued'[u] = issued[u] \cup new
      BY <1>7, <2>2
    <3> QED BY <1>5, <2>1, <3>1
  <2>3. CASE u # t
    <3>1. live'[u] = live[u] /\ issued'[u] = issued[u]
      BY <1>7, <2>3
    <3> QED BY <1>5, <2>1, <3>1
  <2> QED BY <2>2, <2>3
<1>13. DetectorExact'
  BY <1>5, <1>12 DEF DIInv, Detects, DetectorExact
<1> QED BY <1>6, <1>11, <1>13 DEF Detects

\* A block is freed: nobody's issued blocks have it any more.
LEMMA DetectorOnDealloc ==
  ASSUME DIInv, NEW t \in Threads, NEW b \in Blocks, SDealloc(t, b)
  PROVE  Detects'
<1>1. /\ owned' = [owned EXCEPT ![t] = @ \ {b}]
      /\ live' = [live EXCEPT ![t] = @ \ {b}]
      /\ issued' = [u \in Threads |-> issued[u] \ {b}]
      /\ reported' = IF b \in live[t] THEN reported ELSE reported \cup {b}
      /\ strayed' = IF b \in issued[t] THEN strayed ELSE strayed \cup {b}
  BY DEF SDealloc, Dealloc, Erased
<1>2. owned \in [Threads -> SUBSET Blocks] /\ DetectorTypeOK
  BY DEF DIInv, Detects, IInv, TypeOK
<1>3. \A u \in Threads : /\ live'[u] = IF u = t THEN live[u] \ {b} ELSE live[u]
                         /\ owned'[u] = IF u = t THEN owned[u] \ {b} ELSE owned[u]
                         /\ issued'[u] = issued[u] \ {b}
  BY <1>1, <1>2 DEF DetectorTypeOK
<1>4. DetectorTypeOK'
  BY <1>1, <1>2 DEF DetectorTypeOK
<1>5. IssuedOnce'
  <2>1. \A u \in Threads : \A x \in issued[u] : \E v \in Threads : x \in owned[v]
    BY DEF DIInv, Detects, IssuedOnce
  <2>2. ASSUME NEW u \in Threads, NEW x \in issued'[u]
        PROVE  \E v \in Threads : x \in owned'[v]
    BY <1>3, <2>1
  <2>3. \A u, v \in Threads : u # v => issued'[u] \cap issued'[v] = {}
    BY <1>3 DEF DIInv, Detects, IssuedOnce
  <2> QED BY <2>2, <2>3 DEF IssuedOnce
<1>6. ASSUME NEW u \in Threads
      PROVE  issued'[u] \subseteq live'[u] /\ live'[u] \ issued'[u] \subseteq strayed'
  <2>1. issued[u] \subseteq live[u] /\ live[u] \ issued[u] \subseteq strayed
    BY DEF DIInv, Detects, DetectorExact
  <2>2. u # t => issued[t] \cap issued[u] = {}
    BY DEF DIInv, Detects, IssuedOnce
  <2>3. issued'[u] = issued[u] \ {b} /\ strayed \subseteq strayed'
    BY <1>1, <1>3
  <2>4. CASE u = t
    <3>1. live'[u] = live[u] \ {b}
      BY <1>3, <2>4
    <3> QED BY <2>1, <2>3, <3>1
  <2>5. CASE u # t
    <3>1. live'[u] = live[u]
      BY <1>3, <2>5
    <3>2. b \in issued[u] => b \in strayed'
      BY <1>1, <2>2, <2>5
    <3> QED BY <2>1, <2>3, <3>1, <3>2
  <2> QED BY <2>4, <2>5
<1>7. reported' \subseteq strayed'
  <2>1. reported \subseteq strayed /\ issued[t] \subseteq live[t]
    BY DEF DIInv, Detects, DetectorExact
  <2> QED BY <1>1, <2>1
<1> QED BY <1>4, <1>5, <1>6, <1>7 DEF Detects, DetectorExact

\* Blocks that only change hands stay with the threads.
LEMMA DetectorOnHandoff ==
  ASSUME DIInv, NEW t \in Threads, NEW u \in Threads, NEW b \in Blocks, SHandoff(t, u, b)
  PROVE  Detects'
<1>1. /\ owned' = [owned EXCEPT ![t] = @ \ {b}, ![u] = @ \cup {b}] /\ t # u
      /\ UNCHANGED <<live, issued, reported, strayed>>
  BY DEF SHandoff, Handoff, svars
<1>2. owned \in [Threads -> SUBSET Blocks]
  BY DEF DIInv, IInv, TypeOK
<1>3. \A v \in Threads : owned'[v] = IF v = u THEN owned[v] \cup {b}
                                     ELSE IF v = t THEN owned[v] \ {b} ELSE owned[v]
  BY <1>1, <1>2
<1>4. ASSUME NEW v \in Threads, NEW x \in issued'[v] PROVE \E w \in Threads : x \in owned'[w]
  <2>1. PICK w \in Threads : x \in owned[w]
    BY <1>1 DEF DIInv, Detects, IssuedOnce
  <2> QED BY <1>3, <2>1
<1>5. IssuedOnce'
  <2>1. \A v \in Threads : issued'[v] \subseteq UNION {owned'[w] : w \in Threads}
    BY <1>4
  <2>2. \A v, w \in Threads : v # w => issued'[v] \cap issued'[w] = {}
    BY <1>1 DEF DIInv, Detects, IssuedOnce
  <2> QED BY <2>1, <2>2 DEF IssuedOnce
<1> QED BY <1>1, <1>5 DEF DIInv, Detects, DetectorTypeOK, DetectorExact

\* A thread ends with its set.
LEMMA DetectorOnExit ==
  ASSUME DIInv, NEW t \in Threads, SExit(t)
  PROVE  Detects'
<1>1. /\ owned' = owned /\ live' = [live EXCEPT ![t] = {}]
      /\ issued' = [issued EXCEPT ![t] = {}] /\ UNCHANGED <<reported, strayed>>
  BY DEF SExit, Exit
<1>2. DetectorTypeOK
  BY DEF DIInv, Detects
<1>3. \A u \in Threads : /\ live'[u] = IF u = t THEN {} ELSE live[u]
                         /\ issued'[u] = IF u = t THEN {} ELSE issued[u]
  BY <1>1, <1>2 DEF DetectorTypeOK
<1>4. DetectorTypeOK'
  BY <1>1, <1>2 DEF DetectorTypeOK
<1>5. IssuedOnce'
  BY <1>1, <1>3 DEF DIInv, Detects, IssuedOnce
<1>6. DetectorExact'
  BY <1>1, <1>3 DEF DIInv, Detects, DetectorExact
<1> QED BY <1>4, <1>5, <1>6 DEF Detects

\* Every step keeps the detector exact.
LEMMA DNextKeeps ==
  ASSUME DIInv, [SNext]_<<vars, svars>>
  PROVE  DIInv'
<1>1. IInv /\ IInv' /\ [Contract!Next]_owned
  BY StepsAreSteps, NextKeeps DEF DIInv
<1>2. ASSUME NEW t \in Threads, NEW p \in Pools, SAlloc(t, p) PROVE Detects'
  <2>1. <<p>> \in Seq(Pools) /\ <<p>> # <<>> /\ <<p>>[1] = p
    OBVIOUS
  <2>2. frame[t].pc = "idle" /\ Attempt(t, <<p>>) /\ OnAlloc(t, stats[t])
    BY <1>2 DEF SAlloc, Alloc
  <2>3. HandsOut(t, Slot[p], cache[t][Slot[p]].size)
    BY <1>1, <2>1, <2>2, AttemptHandsOut
  <2> QED BY <1>1, <2>2, <2>3, DetectorOnAlloc
<1>3. ASSUME NEW t \in Threads, SRefillUnlock(t) PROVE Detects'
  <2> DEFINE ps == <<frame[t].pool>> \o frame[t].rest
             c  == Refilled(Current(t), frame[t].batch)
  <2>1. TakesFrom(t, ps, c)
    BY <1>1, <1>3, RefillUnlockTakes DEF SRefillUnlock
  <2> HIDE DEF ps, c
  <2>2. HandsOut(t, Slot[ps[1]], c.size)
    BY <1>1, <2>1, TakeHandsOut
  <2> QED BY <1>1, <1>3, <2>2, DetectorOnAlloc DEF SRefillUnlock
<1>4. ASSUME UNCHANGED <<owned, live, issued, reported, strayed>> PROVE Detects'
  BY <1>4 DEF DIInv, Detects, DetectorTypeOK, IssuedOnce, DetectorExact
<1>5. ASSUME NEW t \in Threads, SFlushUnlock(t) PROVE Detects'
  BY <1>4, <1>5 DEF SFlushUnlock, FlushUnlock
<1>6. ASSUME Silent \/ UNCHANGED <<vars, svars>> PROVE Detects'
  <2>1. UNCHANGED <<live, issued, reported, strayed>>
    BY <1>6 DEF Silent, svars
  <2>2. owned' = owned
    BY <1>6 DEF Silent, RefillLock, RefillPop, RefillEmpty, FlushLock, FlushPush,
                Destroy, Ended, vars
  <2> QED BY <1>4, <2>1, <2>2
<1>7. Detects'
  BY <1>2, <1>3, <1>5, <1>6, DetectorOnDealloc, DetectorOnHandoff, DetectorOnExit DEF SNext
<1> QED BY <1>1, <1>7 DEF DIInv

\* The detector of double frees knows every block of its thread until it is
\* freed, so that no free by the thread that allocated it is reported; false
\* reports, and pointers left in a set, are of blocks freed by another thread.
THEOREM DetectorSound == SSpec => []DetectorExact
<1>1. SInit => DIInv
  <2> SUFFICES ASSUME SInit PROVE DIInv
    OBVIOUS
  <2>1. IInv
    BY InitIInv DEF SInit
  <2>2. Detects
    BY DEF SInit, Init, Detects, DetectorTypeOK, IssuedOnce, DetectorExact
  <2> QED BY <2>1, <2>2 DEF DIInv
<1>2. DIInv /\ [SNext]_<<vars, svars>> => DIInv'
  BY DNextKeeps
<1>3. DIInv => DetectorExact
  BY DEF DIInv, Detects
<1> QED BY <1>1, <1>2, <1>3, PTL DEF SSpec
=============================================================================
