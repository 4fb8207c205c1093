-------------------------- MODULE MultiSizeProofs ---------------------------
(***************************************************************************)
(* Theorems about MultiSizeAllocator, for any number of threads and        *)
(* blocks, any batch sizes and any sizes asked for.  The work on the       *)
(* caches, which all size classes share, is done in ThreadCacheProofs.     *)
(***************************************************************************)
EXTENDS MultiSize, ThreadCacheProofs

\* A request that is not refused goes to a class that is large enough.
LEMMA ClassIndex ==
  ASSUME NEW n, class_index(n) # NUM_CLASSES
  PROVE  class_index(n) \in Pools /\ n <= SIZE_CLASSES[class_index(n) + 1]
<1> DEFINE fits == {i \in Classes : n <= SIZE_CLASSES[i + 1]}
           F(i) == i \in fits /\ \A j \in fits : i <= j
<1>1. class_index(n) = IF fits = {} THEN NUM_CLASSES ELSE Min(fits)
  BY DEF class_index
<1>2. fits # {} /\ fits \subseteq {0, 1, 2, 3, 4}
  BY <1>1 DEF Classes, NUM_CLASSES
<1> HIDE DEF fits
<1>3. F(0) \/ F(1) \/ F(2) \/ F(3) \/ F(4)
  <2>1. ASSUME NEW i \in {0, 1, 2, 3, 4}, \A j \in {0, 1, 2, 3, 4} : j < i => j \notin fits,
               i \in fits
        PROVE  F(i)
    BY <1>2, <2>1
  <2>2. CASE 0 \in fits
    BY <2>1, <2>2
  <2>3. CASE 0 \notin fits /\ 1 \in fits
    BY <2>1, <2>3
  <2>4. CASE 0 \notin fits /\ 1 \notin fits /\ 2 \in fits
    BY <2>1, <2>4
  <2>5. CASE 0 \notin fits /\ 1 \notin fits /\ 2 \notin fits /\ 3 \in fits
    BY <2>1, <2>5
  <2>6. CASE 0 \notin fits /\ 1 \notin fits /\ 2 \notin fits /\ 3 \notin fits
    <3>1. 4 \in fits
      BY <1>2, <2>6
    <3> QED BY <2>1, <2>6, <3>1
  <2> QED BY <2>2, <2>3, <2>4, <2>5, <2>6
<1>4. \E i \in fits : \A j \in fits : i <= j
  BY <1>3
<1>5. Min(fits) \in fits
  BY <1>4 DEF Min
<1>6. class_index(n) \in {0, 1, 2, 3, 4}
  BY <1>1, <1>2, <1>5
<1>7. class_index(n) \in fits
  BY <1>1, <1>2, <1>5
<1>8. n <= SIZE_CLASSES[class_index(n) + 1]
  <2> DEFINE i == class_index(n)
  <2>1. i \in fits
    BY <1>7
  <2> HIDE DEF i
  <2> QED BY <2>1 DEF fits, i
<1> QED BY <1>6, <1>8, ClassesAssumption DEF Classes, NUM_CLASSES

\* The blocks of a class are at least as large as the class says.
LEMMA BlockHoldsClass ==
  ASSUME NEW i \in Classes
  PROVE  block_size(i) \in Int /\ SIZE_CLASSES[i + 1] \in Int
         /\ block_size(i) >= SIZE_CLASSES[i + 1]
<1> DEFINE x == SIZE_CLASSES[i + 1]
           m == Max({FreeBlock, x})
<1>1. i \in {0, 1, 2, 3, 4}
  BY DEF Classes, NUM_CLASSES
<1>2. x \in Nat
  BY <1>1 DEF SIZE_CLASSES
<1> HIDE DEF x
<1>3. m \in Nat /\ m >= x
  <2>1. \E y \in {64, x} : \A z \in {64, x} : y >= z
    BY <1>2
  <2>2. Max({64, x}) \in {64, x} /\ \A z \in {64, x} : Max({64, x}) >= z
    BY <2>1 DEF Max
  <2>3. m = Max({64, x})
    BY DEF FreeBlock
  <2> HIDE DEF m
  <2> QED BY <1>2, <2>2, <2>3
<1>4. block_size(i) = ((m + 64 - 1) \div 64) * 64
  BY DEF block_size, align_up, CACHE_LINE, x
<1> HIDE DEF m
<1>5. ((m + 64 - 1) \div 64) * 64 >= m /\ ((m + 64 - 1) \div 64) * 64 \in Int
  BY <1>3
<1> HIDE DEF block_size
<1>6. block_size(i) \in Int /\ block_size(i) >= x
  BY <1>2, <1>3, <1>4, <1>5
<1> QED BY <1>2, <1>6 DEF x

\* A step of the program keeps the invariant, and is one that BlockPool allows.
LEMMA NextKeeps ==
  ASSUME IInv, [Next]_vars
  PROVE  IInv' /\ [Contract!Next]_owned
<1>1. ASSUME NEW t \in Threads, NEW n \in Asks[t], MAlloc(t, n)
      PROVE  IInv' /\ [Contract!Next]_owned
  <2> DEFINE p == class_index(n)
  <2>1. Alloc(t, <<p>>) /\ p < NUM_CLASSES
    BY <1>1 DEF MAlloc
  <2>2. p # NUM_CLASSES
    BY <2>1 DEF NUM_CLASSES
  <2>3. p \in Pools
    BY <2>2, ClassIndex
  <2> HIDE DEF p
  <2>4. <<p>> \in Seq(Pools) /\ <<p>> # <<>>
    BY <2>3
  <2> QED BY <2>1, <2>4, AllocSteps, StepsKeep
<1>2. ASSUME NEW t \in Threads, NEW n \in Asks[t], NEW b \in Blocks, MDealloc(t, b, n)
      PROVE  IInv' /\ [Contract!Next]_owned
  <2> DEFINE p == class_index(n)
  <2>1. Dealloc(t, b, p) /\ p = source[b] /\ b \in owned[t]
    BY <1>2 DEF MDealloc, Dealloc
  <2>2. p \in Pools
    BY <2>1 DEF IInv, SourceKnown
  <2> HIDE DEF p
  <2> QED BY <2>1, <2>2, DeallocKeeps
<1>3. ASSUME NEW t \in Threads, Step(t) \/ Client(t)
      PROVE  IInv' /\ [Contract!Next]_owned
  BY <1>3, StepSteps, StepsKeep, ClientKeeps
<1>4. ASSUME MDestroy PROVE IInv' /\ [Contract!Next]_owned
  BY <1>4, DestroyKeeps DEF MDestroy
<1>5. ASSUME UNCHANGED vars PROVE IInv' /\ [Contract!Next]_owned
  BY <1>5, StutterKeeps
<1>6. CASE Next
  BY <1>1, <1>2, <1>3, <1>4, <1>5, <1>6 DEF Next, Ended
<1> QED BY <1>5, <1>6

\* The inductive invariant of the caches holds whatever sizes the threads ask
\* for.
THEOREM Invariance == Spec => []IInv
<1>1. Init => IInv
  BY InitIInv
<1>2. IInv /\ [Next]_vars => IInv'
  BY NextKeeps
<1> QED BY <1>1, <1>2, PTL DEF Spec

\* Blocks wander from the region of one size class into the cache and the
\* global list of another, but none is duplicated or dropped on the way.
THEOREM Conservation == Spec => []BlocksConserved
<1>1. IInv => BlocksConserved
  BY Promises
<1> QED BY <1>1, Invariance, PTL

\* alloc and dealloc behave as one pool of blocks over all size classes.
THEOREM Refinement == Spec => ImplementsBlockPool
<1>1. Init => Contract!Init
  BY InitIInv
<1>2. IInv /\ [Next]_vars => [Contract!Next]_owned
  BY NextKeeps
<1> QED BY <1>1, <1>2, Invariance, PTL DEF Spec, ImplementsBlockPool, Contract!Spec

-----------------------------------------------------------------------------
(* Programs whose threads each use blocks of one size                      *)

\* The blocks as large as those of class p.
Alike(p) == {b \in Blocks : block_size(Home[b]) = block_size(p)}

\* The classes whose blocks are as large as the ones that thread t asks for.
UsedBy(t) ==
  {p \in Pools : \E n \in Asks[t] : /\ class_index(n) \in Pools
                                    /\ block_size(p) = block_size(class_index(n))}

\* Every list has blocks of one size, and a thread's cache and call stay with
\* the size that the thread asks for; a client has a block as large as those of
\* the class it asked.
Sized ==
  /\ \A p \in Pools : ToSet(global[p]) \subseteq Alike(p)
  /\ \A t \in Threads, s \in Slots : cache[t][s].pool \in Pools =>
       cache[t][s].pool \in UsedBy(t) /\ ToSet(cache[t][s].list) \subseteq Alike(cache[t][s].pool)
  /\ \A t \in Threads : frame[t].pc # "idle" =>
       frame[t].pool \in UsedBy(t) /\ ToSet(frame[t].batch) \subseteq Alike(frame[t].pool)
  /\ \A t \in Threads : \A b \in owned[t] : b \in Alike(source[b])

\* All that a thread uses is of one size.
LEMMA OneSize ==
  ASSUME OneBlockSize, NEW t \in Threads, NEW p \in UsedBy(t), NEW q \in UsedBy(t)
  PROVE  Alike(p) = Alike(q)
<1>1. PICK m \in Asks[t] : class_index(m) \in Pools /\ block_size(p) = block_size(class_index(m))
  BY DEF UsedBy
<1>2. PICK n \in Asks[t] : class_index(n) \in Pools /\ block_size(q) = block_size(class_index(n))
  BY DEF UsedBy
<1>3. class_index(m) < NUM_CLASSES /\ class_index(n) < NUM_CLASSES
  BY <1>1, <1>2, ClassesAssumption DEF Classes, NUM_CLASSES
<1>4. block_size(p) = block_size(q)
  BY <1>1, <1>2, <1>3 DEF OneBlockSize
<1> QED BY <1>4 DEF Alike

\* A step on a class that the thread may use keeps the sizes apart, if what the
\* client returns in it is as large as the blocks of that class.
LEMMA LocalStepSized ==
  ASSUME IInv, OneBlockSize, Sized, NEW t \in Threads, NEW s \in Slots,
         NEW p \in UsedBy(t), p \in Pools,
         NEW g, NEW c, NEW f, NEW o, LocalStep(t, s, p, g, c, f, o),
         owned[t] \ o \subseteq Alike(p)
  PROVE  Sized'
<1>1. TypeOK
  BY DEF IInv
<1>2. /\ \A q \in Pools : global'[q] = IF q = p THEN g ELSE global[q]
      /\ \A u \in Threads, r \in Slots :
           cache'[u][r] = IF u = t /\ r = s THEN c ELSE cache[u][r]
      /\ \A u \in Threads : /\ frame'[u] = IF u = t THEN f ELSE frame[u]
                            /\ owned'[u] = IF u = t THEN o ELSE owned[u]
  BY <1>1 DEF LocalStep, TypeOK
<1>3. ToSet(frame[t].batch) \subseteq Alike(p)
  <2>1. CASE frame[t].pc = "idle"
    BY <2>1, EmptyList DEF IInv, FrameOK
  <2>2. CASE frame[t].pc # "idle"
    BY <2>2, OneSize DEF Sized
  <2> QED BY <2>1, <2>2
<1>4. ToSet(cache[t][s].list) \subseteq Alike(p)
  <2>1. cache[t][s].pool \in Pools \cup {Nil}
    BY <1>1 DEF TypeOK, Cache
  <2>2. CASE cache[t][s].pool = Nil
    BY <2>2, EmptyList DEF IInv, SlotsKept
  <2>3. CASE cache[t][s].pool \in Pools
    BY <2>3, OneSize DEF Sized
  <2> QED BY <2>1, <2>2, <2>3
<1>5. /\ ToSet(g) \subseteq Alike(p) /\ ToSet(c.list) \subseteq Alike(p)
      /\ ToSet(f.batch) \subseteq Alike(p)
      /\ \A b \in o : b \in owned[t] \/ b \in Alike(p)
  <2>1. /\ Apart(ToSet(g), ToSet(c.list), ToSet(f.batch), o)
        /\ ToSet(g) \cup ToSet(c.list) \cup ToSet(f.batch) \cup o
             = ToSet(global[p]) \cup ToSet(cache[t][s].list) \cup ToSet(frame[t].batch)
               \cup owned[t]
    BY DEF LocalStep
  <2>2. ToSet(global[p]) \subseteq Alike(p)
    BY DEF Sized
  <2> QED BY <1>3, <1>4, <2>1, <2>2 DEF Apart
<1>6. c.pool \in UsedBy(t) /\ ToSet(c.list) \subseteq Alike(c.pool)
  <2>1. c.pool \in Pools /\ c.pool \in {p, cache[t][s].pool}
    BY DEF LocalStep
  <2>2. c.pool \in UsedBy(t)
    BY <2>1 DEF Sized
  <2> QED BY <1>5, <2>2, OneSize
<1>7. ASSUME f.pc # "idle"
      PROVE  f.pool \in UsedBy(t) /\ ToSet(f.batch) \subseteq Alike(f.pool)
  <2>1. f.pool = p \/ (frame[t].pc # "idle" /\ f.pool = frame[t].pool)
    BY <1>7 DEF LocalStep
  <2>2. f.pool \in UsedBy(t)
    BY <2>1 DEF Sized
  <2> QED BY <1>5, <2>2, OneSize
<1>8. ASSUME NEW q \in Pools PROVE ToSet(global'[q]) \subseteq Alike(q)
  BY <1>2, <1>5 DEF Sized
<1>9. ASSUME NEW u \in Threads, NEW r \in Slots, cache'[u][r].pool \in Pools
      PROVE  /\ cache'[u][r].pool \in UsedBy(u)
             /\ ToSet(cache'[u][r].list) \subseteq Alike(cache'[u][r].pool)
  BY <1>2, <1>6, <1>9 DEF Sized
<1>10. ASSUME NEW u \in Threads, frame'[u].pc # "idle"
       PROVE  /\ frame'[u].pool \in UsedBy(u)
              /\ ToSet(frame'[u].batch) \subseteq Alike(frame'[u].pool)
  BY <1>2, <1>7, <1>10 DEF Sized
<1>11. ASSUME NEW u \in Threads, NEW b \in owned'[u]
       PROVE  b \in Alike(source'[b])
  <2>1. CASE u = t
    <3>1. b \in o /\ source'[b] = IF b \in owned[t] THEN source[b] ELSE p
      BY <1>2, <2>1 DEF LocalStep
    <3> QED BY <1>5, <3>1 DEF Sized
  <2>2. CASE u # t
    <3>1. b \in owned[u] /\ b \in Blocks
      BY <1>1, <1>2, <2>2 DEF TypeOK
    <3>2. b \notin owned[t] \cup o
      <4>1. IInv'
        BY LocalStepKeeps
      <4>2. ASSUME NEW A, Partition(A), A[WithClient(u)] # {}, b \in A[WithClient(u)]
            PROVE  b \notin A[WithClient(t)]
        BY <2>2, <3>1, <4>2, PlacesApart DEF Partition
      <4>3. b \notin owned[t]
        BY <3>1, <4>2, LocatedAt DEF IInv
      <4>4. b \notin owned'[t]
        <5>1. Partition(Located')
          BY <4>1 DEF IInv, Partition
        <5>2. Located'[WithClient(u)] = owned'[u] /\ Located'[WithClient(t)] = owned'[t]
          BY LocatedAtNext
        <5> QED BY <4>2, <5>1, <5>2
      <4> QED BY <1>2, <4>3, <4>4
    <3> QED BY <3>1, <3>2 DEF LocalStep, Sized
  <2> QED BY <2>1, <2>2
<1> QED BY <1>8, <1>9, <1>10, <1>11 DEF Sized

\* A step of a call on classes that the thread may use.
LEMMA StepsSized ==
  ASSUME IInv, OneBlockSize, Sized, NEW t \in Threads, NEW P \in SUBSET UsedBy(t),
         StepsOn(t, P)
  PROVE  Sized'
<1>1. PICK s \in Slots, p \in P \cap Pools : \E g, c, f, o :
        LocalStep(t, s, p, g, c, f, o) /\ owned[t] \subseteq o
  BY DEF StepsOn
<1>2. PICK g, c, f, o : LocalStep(t, s, p, g, c, f, o) /\ owned[t] \subseteq o
  BY <1>1
<1>3. owned[t] \ o \subseteq Alike(p) /\ p \in UsedBy(t) /\ p \in Pools
  BY <1>2
<1> QED BY <1>2, <1>3, LocalStepSized

\* The rest of the program moves no block between lists.
LEMMA ClientSized ==
  ASSUME IInv, Sized, (\E t \in Threads : Client(t)) \/ MDestroy \/ UNCHANGED vars
  PROVE  Sized'
<1>1. TypeOK
  BY DEF IInv
<1>2. ASSUME NEW t \in Threads, NEW u \in Threads, NEW b \in Blocks, Handoff(t, u, b)
      PROVE  Sized'
  <2>1. /\ b \in owned[t] /\ owned' = [owned EXCEPT ![t] = @ \ {b}, ![u] = @ \cup {b}]
        /\ UNCHANGED <<global, cache, frame, source>>
    BY <1>2 DEF Handoff
  <2>2. ASSUME NEW v \in Threads, NEW x \in owned'[v] PROVE x \in Alike(source'[x])
    <3>1. x = b \/ x \in owned[v]
      BY <1>1, <2>1 DEF TypeOK
    <3> QED BY <2>1, <3>1 DEF Sized
  <2> QED BY <2>1, <2>2 DEF Sized
<1>3. ASSUME NEW t \in Threads, Exit(t) PROVE Sized'
  <2>1. /\ cache' = [cache EXCEPT ![t] = [s \in Slots |-> NoCache]]
        /\ UNCHANGED <<global, frame, owned, source>>
    BY <1>3 DEF Exit
  <2>2. ASSUME NEW v \in Threads, NEW r \in Slots, cache'[v][r].pool \in Pools
        PROVE  /\ cache'[v][r].pool \in UsedBy(v)
               /\ ToSet(cache'[v][r].list) \subseteq Alike(cache'[v][r].pool)
    <3>1. cache'[v][r] = IF v = t THEN NoCache ELSE cache[v][r]
      BY <1>1, <2>1 DEF TypeOK
    <3>2. v # t
      BY <2>2, <3>1, PoolsAssumption DEF NoCache
    <3> QED BY <2>2, <3>1, <3>2 DEF Sized
  <2> QED BY <2>1, <2>2 DEF Sized
<1>4. ASSUME UNCHANGED <<global, cache, frame, owned, source>> PROVE Sized'
  BY <1>4 DEF Sized
<1> QED BY <1>2, <1>3, <1>4 DEF Client, MDestroy, Destroy, vars

\* The constructors put every block on the list of its class.
LEMMA InitSized ==
  ASSUME Init
  PROVE  Sized
<1>1. ASSUME NEW p \in Pools PROVE ToSet(global[p]) \subseteq Alike(p)
  BY InitHomed DEF Homed, Region, Alike
<1>2. ASSUME NEW t \in Threads, NEW s \in Slots PROVE cache[t][s].pool \notin Pools
  BY PoolsAssumption DEF Init, NoCache
<1> QED BY <1>1, <1>2 DEF Init, Sized, Idle

\* Every step keeps the sizes apart.
LEMMA NextSized ==
  ASSUME OneBlockSize, IInv, Sized, [Next]_vars
  PROVE  Sized'
<1>1. ASSUME NEW t \in Threads, NEW n \in Asks[t], MAlloc(t, n) PROVE Sized'
  <2> DEFINE p == class_index(n)
  <2>1. Alloc(t, <<p>>) /\ p < NUM_CLASSES
    BY <1>1 DEF MAlloc
  <2>2. p # NUM_CLASSES
    BY <2>1 DEF NUM_CLASSES
  <2>3. p \in Pools
    BY <2>2, ClassIndex
  <2>4. p \in UsedBy(t)
    BY <2>3 DEF UsedBy
  <2> HIDE DEF p
  <2>5. <<p>> \in Seq(Pools) /\ <<p>> # <<>> /\ <<p>>[1] = p
    BY <2>3
  <2>6. StepsOn(t, {p})
    BY <2>1, <2>5, AllocSteps
  <2> QED BY <2>4, <2>6, StepsSized
<1>2. ASSUME NEW t \in Threads, NEW n \in Asks[t], NEW b \in Blocks, MDealloc(t, b, n)
      PROVE  Sized'
  <2> DEFINE p == class_index(n)
  <2>1. Dealloc(t, b, p) /\ p = source[b] /\ b \in owned[t]
    BY <1>2 DEF MDealloc, Dealloc
  <2>2. p \in Pools
    BY <2>1 DEF IInv, SourceKnown
  <2>3. p \in UsedBy(t)
    BY <2>2 DEF UsedBy
  <2> HIDE DEF p
  <2>4. b \in Alike(p)
    BY <2>1 DEF Sized
  <2>5. PICK c, f : LocalStep(t, Slot[p], p, global[p], c, f, owned[t] \ {b})
    BY <2>1, <2>2, DeallocSteps
  <2>6. Slot[p] \in Slots /\ owned[t] \ (owned[t] \ {b}) \subseteq Alike(p)
    BY <2>2, <2>4 DEF Slots
  <2> QED BY <2>2, <2>3, <2>5, <2>6, LocalStepSized
<1>3. ASSUME NEW t \in Threads, Step(t) PROVE Sized'
  <2>1. frame[t].pc # "idle"
    BY <1>3 DEF Step, RefillLock, RefillPop, RefillEmpty, RefillUnlock,
                FlushLock, FlushPush, FlushUnlock
  <2>2. Current(t).pool \in Pools /\ Slot[frame[t].pool] \in Slots
    BY <2>1, CallFacts
  <2>3. {frame[t].pool, Current(t).pool} \subseteq UsedBy(t)
    BY <2>1, <2>2 DEF Sized, Current
  <2> QED BY <1>3, <2>3, StepSteps, StepsSized
<1>4. ASSUME (\E t \in Threads : Client(t)) \/ MDestroy \/ UNCHANGED vars PROVE Sized'
  BY <1>4, ClientSized
<1>5. CASE Next
  BY <1>1, <1>2, <1>3, <1>4, <1>5 DEF Next, Ended
<1> QED BY <1>4, <1>5

\* A program each of whose threads keeps to requests that are served with
\* blocks of one size gets blocks that are large enough, although all the
\* classes share the one ThreadCache of a thread and blocks wander between the
\* classes of that size: class_index, the binding of the cache to the class
\* first used, refill and flush never bring in a smaller block.
THEOREM RequestsFit ==
  ASSUME OneBlockSize
  PROVE  Spec => []LargeEnough
<1>1. Init => Sized
  BY InitSized
<1>2. IInv /\ Sized /\ [Next]_vars => Sized'
  BY NextSized
<1>3. IInv /\ Sized => LargeEnough
  <2> SUFFICES ASSUME IInv, Sized, NEW t \in Threads, NEW b \in owned[t], NEW n \in Sizes,
                      class_index(n) = source[b]
               PROVE  n <= block_size(Home[b])
    BY DEF LargeEnough
  <2>1. source[b] \in Pools /\ b \in Alike(source[b])
    BY DEF Sized, IInv, SourceKnown
  <2>2. class_index(n) \in Classes /\ class_index(n) # NUM_CLASSES
    BY <2>1, ClassesAssumption DEF Classes, NUM_CLASSES
  <2> DEFINE i == class_index(n)
             x == SIZE_CLASSES[i + 1]
  <2>3. n <= x
    BY <2>2, ClassIndex
  <2>4. block_size(i) \in Int /\ x \in Int /\ block_size(i) >= x
    BY <2>2, BlockHoldsClass
  <2>5. n \in Nat
    BY ClassesAssumption DEF Sizes
  <2>6. block_size(Home[b]) = block_size(i)
    BY <2>1 DEF Alike
  <2> HIDE DEF i, x, block_size
  <2> QED BY <2>3, <2>4, <2>5, <2>6
<1> QED BY <1>1, <1>2, <1>3, Invariance, PTL DEF Spec
=============================================================================
