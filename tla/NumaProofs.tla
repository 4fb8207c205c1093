----------------------------- MODULE NumaProofs -----------------------------
(***************************************************************************)
(* Theorems about NumaAllocator, for any number of threads, nodes, blocks  *)
(* and processors, any batch sizes and any placement of the regions.  The  *)
(* work on the caches is done in ThreadCacheProofs.                        *)
(***************************************************************************)
EXTENDS Numa, ThreadCacheProofs, WellFoundedInduction

USE NumaAssumption

-----------------------------------------------------------------------------
(* Nodes                                                                   *)

\* A set of naturals has a least element.
LEMMA LeastOfSet ==
  ASSUME NEW S, S \subseteq Nat, S # {}
  PROVE  Min(S) \in S /\ \A y \in S : Min(S) <= y
<1>1. PICK x \in S : \A y \in S : ~ (<<y, x>> \in OpToRel(<, Nat))
  BY NatLessThanWellFounded, WFMin
<1>2. \A y \in S : x <= y
  <2> SUFFICES ASSUME NEW y \in S PROVE x <= y
    OBVIOUS
  <2>1. x \in Nat /\ y \in Nat
    OBVIOUS
  <2>2. ~ (y < x)
    BY <1>1, <2>1 DEF OpToRel
  <2> QED BY <2>1, <2>2
<1>3. \E z \in S : \A y \in S : z <= y
  BY <1>2
<1> QED BY <1>3 DEF Min

\* There is a node 0 in every case.
LEMMA NodesFacts ==
  num_nodes \in Nat /\ num_nodes >= 1 /\ Nodes \subseteq Nat /\ 0 \in Nodes
<1>1. node_count \in Nat /\ node_count >= 1
  <2> DEFINE stops == {n \in 0..256 : n \notin NodeDirs \/ n = 256}
             m     == Min(stops)
  <2>1. m \in stops
    <3>1. stops \subseteq Nat /\ 256 \in stops
      OBVIOUS
    <3> HIDE DEF stops
    <3>2. stops # {}
      BY <3>1
    <3>3. Min(stops) \in stops
      BY <3>1, <3>2, LeastOfSet
    <3> QED BY <3>3
  <2>2. m \in Nat
    <3> HIDE DEF m
    <3> QED BY <2>1
  <2> HIDE DEF m
  <2>3. \E x \in {1, m} : \A y \in {1, m} : x >= y
    BY <2>2
  <2>4. Max({1, m}) \in {1, m} /\ Max({1, m}) >= 1
    BY <2>3 DEF Max
  <2>5. node_count = Max({1, m})
    BY DEF node_count, m
  <2> HIDE DEF node_count
  <2> QED BY <2>2, <2>4, <2>5
<1>2. num_nodes \in {node_count, MAX_NODES}
  <2>1. {node_count, MAX_NODES} \subseteq Nat /\ {node_count, MAX_NODES} # {}
    BY <1>1
  <2> QED BY <2>1, LeastOfSet DEF num_nodes
<1>3. num_nodes \in Nat /\ num_nodes >= 1
  BY <1>1, <1>2
<1> HIDE DEF num_nodes
<1> QED BY <1>3 DEF Nodes

\* alloc works on a node that has a pool.
LEMMA ClampType ==
  ASSUME NEW c \in Cpus, NEW n \in current_node(c)
  PROVE  Clamp(n) \in Nodes
<1>1. n \in Nat
  BY DEF current_node
<1> QED BY <1>1, NodesFacts DEF Clamp, Nodes

\* alloc tries every node of the allocator, the local one first.
LEMMA OrderFacts ==
  ASSUME NEW a \in Allocators, NEW n \in Nodes
  PROVE  /\ Order(a, n) \in Seq(Pools) /\ Len(Order(a, n)) = num_nodes
         /\ Order(a, n) # <<>> /\ Order(a, n)[1] = <<a, n>>
         /\ \A m \in Nodes : \E i \in 1..num_nodes : Order(a, n)[i] = <<a, m>>
<1> DEFINE N == num_nodes
<1>1. N \in Nat /\ N >= 1 /\ Nodes = 0..N - 1 /\ n \in Nat /\ n <= N - 1
  BY NodesFacts DEF Nodes
<1> HIDE DEF N
<1>2. \A i \in 1..N : Tried(n, i) \in Nodes
  BY <1>1 DEF Tried
<1>3. \A i \in 1..N : <<a, Tried(n, i)>> \in Pools
  BY <1>2
<1> DEFINE s == Order(a, n)
<1>4. s = [i \in 1..N |-> <<a, Tried(n, i)>>]
  BY DEF Order, N
<1>5. s \in Seq(Pools) /\ Len(s) = N
  <2> HIDE DEF s
  <2>1. s \in [1..N -> Pools]
    BY <1>3, <1>4
  <2> QED BY <1>1, <2>1
<1>6. s # <<>> /\ s[1] = <<a, n>>
  <2>1. s[1] = <<a, Tried(n, 1)>>
    BY <1>1, <1>4
  <2>2. Tried(n, 1) = n
    BY DEF Tried
  <2> HIDE DEF s
  <2> QED BY <1>1, <1>5, <2>1, <2>2
<1>7. ASSUME NEW m \in Nodes PROVE \E i \in 1..N : s[i] = <<a, m>>
  <2>1. \E i \in 1..N : Tried(n, i) = m
    <3>0. m \in Nat /\ m <= N - 1
      BY <1>1
    <3>1. CASE m = n
      <4>1. 1 \in 1..N /\ Tried(n, 1) = m
        BY <1>1, <3>1 DEF Tried
      <4> QED BY <4>1
    <3>2. CASE m < n
      <4>1. m + 2 \in 1..N /\ Tried(n, m + 2) = m
        BY <1>1, <3>0, <3>2 DEF Tried
      <4> QED BY <4>1
    <3>3. CASE m > n
      <4>1. m + 1 \in 1..N /\ Tried(n, m + 1) = m
        BY <1>1, <3>0, <3>3 DEF Tried
      <4> QED BY <4>1
    <3> QED BY <1>1, <3>0, <3>1, <3>2, <3>3
  <2> QED BY <1>4, <2>1
<1> QED BY <1>5, <1>6, <1>7 DEF N

\* dealloc finds the node of a block; it is the one whose region the block
\* lies in, if the block belongs to the allocator.
LEMMA OwnerNode ==
  ASSUME NEW a \in Allocators, NEW b \in Blocks
  PROVE  /\ <<a, owner_node(a, b)>> \in Pools
         /\ Home[b][1] = a => <<a, owner_node(a, b)>> = Home[b]
<1> DEFINE in == {n \in Nodes : InRegion(<<a, n>>, b)}
<1>1. in \subseteq Nat /\ 0 \in Nodes
  BY NodesFacts
<1>2. owner_node(a, b) = IF in = {} THEN 0 ELSE Min(in)
  BY DEF owner_node
<1>3. in # {} => Min(in) \in in
  <2> HIDE DEF in
  <2> QED BY <1>1, LeastOfSet
<1>4. owner_node(a, b) \in Nodes
  BY <1>1, <1>2, <1>3
<1>5. ASSUME Home[b][1] = a PROVE <<a, owner_node(a, b)>> = Home[b]
  <2>1. Home[b] \in Pools /\ InRegion(Home[b], b)
    BY DEF Mapped
  <2>2. Home[b] = <<a, Home[b][2]>> /\ Home[b][2] \in Nodes
    BY <1>5, <2>1
  <2>3. Home[b][2] \in in
    BY <2>1, <2>2
  <2>4. InRegion(<<a, owner_node(a, b)>>, b)
    BY <1>2, <1>3, <2>3
  <2> QED BY <1>4, <2>4
<1> QED BY <1>4, <1>5

-----------------------------------------------------------------------------
(* Any number of allocators                                                *)

\* A step of the program keeps the invariant, and is one that BlockPool allows.
LEMMA NextKeeps ==
  ASSUME IInv, [Next]_nvars
  PROVE  IInv' /\ [Contract!Next]_owned
<1>1. ASSUME NEW t \in Threads, NEW a \in Allocators, NEW c \in Cpus,
             NEW n \in current_node(c), NAlloc(t, a, c, n)
      PROVE  IInv' /\ [Contract!Next]_owned
  <2> DEFINE ps == Order(a, Clamp(n))
  <2>1. ps \in Seq(Pools) /\ ps # <<>> /\ Alloc(t, ps)
    BY <1>1, ClampType, OrderFacts DEF NAlloc
  <2> HIDE DEF ps
  <2> QED BY <2>1, AllocSteps, StepsKeep
<1>2. ASSUME NEW t \in Threads, Fallback(t) \/ Step(t)
      PROVE  IInv' /\ [Contract!Next]_owned
  BY <1>2, FallbackSteps, StepSteps, StepsKeep
<1>3. ASSUME NEW t \in Threads, NEW b \in Blocks, NDealloc(t, b)
      PROVE  IInv' /\ [Contract!Next]_owned
  <2> DEFINE a == source[b][1]
             p == <<a, owner_node(a, b)>>
  <2>1. b \in owned[t] /\ Dealloc(t, b, p)
    BY <1>3 DEF NDealloc
  <2>2. source[b] \in Pools
    BY <2>1 DEF IInv, SourceKnown
  <2>3. p \in Pools
    BY <2>2, OwnerNode
  <2> HIDE DEF p
  <2> QED BY <2>1, <2>3, DeallocKeeps
<1>4. ASSUME NEW t \in Threads, Client(t)
      PROVE  IInv' /\ [Contract!Next]_owned
  BY <1>4, ClientKeeps
<1>5. ASSUME NEW a \in Allocators, NDestroy(a)
      PROVE  IInv' /\ [Contract!Next]_owned
  BY <1>5, DestroyKeeps DEF NDestroy
<1>6. ASSUME UNCHANGED vars
      PROVE  IInv' /\ [Contract!Next]_owned
  BY <1>6, StutterKeeps
<1>7. CASE Next
  BY <1>1, <1>2, <1>3, <1>4, <1>5, <1>6, <1>7 DEF Next, NFallback, Ended
<1> QED BY <1>6, <1>7 DEF nvars

\* The inductive invariant of the caches holds whatever the threads do.
THEOREM Invariance == Spec => []IInv
<1>1. NInit => IInv
  BY InitIInv DEF NInit
<1>2. IInv /\ [Next]_nvars => IInv'
  BY NextKeeps
<1> QED BY <1>1, <1>2, PTL DEF Spec

\* No block is duplicated or dropped, whatever node a thread allocates on or
\* returns a block from, and even between NumaAllocator objects that share the
\* caches of a thread.
THEOREM Conservation == Spec => []BlocksConserved
<1>1. IInv => BlocksConserved
  BY Promises
<1> QED BY <1>1, Invariance, PTL

\* alloc and dealloc behave as one pool of blocks over all nodes.
THEOREM Refinement == Spec => ImplementsBlockPool
<1>1. NInit => Contract!Init
  BY InitIInv DEF NInit
<1>2. IInv /\ [Next]_nvars => [Contract!Next]_owned
  BY NextKeeps
<1> QED BY <1>1, <1>2, Invariance, PTL DEF Spec, ImplementsBlockPool, Contract!Spec

-----------------------------------------------------------------------------
(* One allocator                                                           *)

\* A program with one NumaAllocator never mixes the blocks of two nodes.
LEMMA NextHomed ==
  ASSUME NEW A, Allocators = {A}, IInv, Homed, [Next]_nvars
  PROVE  Homed'
<1>0. OwnSlots
  BY DEF OwnSlots, cache_key
<1>1. ASSUME NEW t \in Threads, NEW a \in Allocators, NEW c \in Cpus,
             NEW n \in current_node(c), NAlloc(t, a, c, n)
      PROVE  Homed'
  <2> DEFINE ps == Order(a, Clamp(n))
  <2>1. ps \in Seq(Pools) /\ ps # <<>> /\ Alloc(t, ps)
    BY <1>1, ClampType, OrderFacts DEF NAlloc
  <2> HIDE DEF ps
  <2> QED BY <1>0, <2>1, AllocSteps, StepsHomed
<1>2. ASSUME NEW t \in Threads, Fallback(t) \/ Step(t) PROVE Homed'
  BY <1>0, <1>2, FallbackSteps, StepSteps, StepsHomed
<1>3. ASSUME NEW t \in Threads, NEW b \in Blocks, NDealloc(t, b) PROVE Homed'
  <2> DEFINE a == source[b][1]
             p == <<a, owner_node(a, b)>>
  <2>1. b \in owned[t] /\ Dealloc(t, b, p)
    BY <1>3 DEF NDealloc
  <2>2. source[b] \in Pools /\ source[b] = Home[b]
    BY <2>1 DEF IInv, SourceKnown, Homed
  <2>3. p \in Pools /\ p = Home[b]
    BY <2>2, OwnerNode
  <2> HIDE DEF p
  <2> QED BY <1>0, <2>1, <2>3, DeallocHomed
<1>4. ASSUME (\E t \in Threads : Client(t)) \/ (\E ps : Destroy(ps)) \/ UNCHANGED vars
      PROVE  Homed'
  BY <1>4, ClientHomed
<1>5. CASE Next
  BY <1>1, <1>2, <1>3, <1>4, <1>5 DEF Next, NFallback, NDestroy, Ended
<1> QED BY <1>4, <1>5 DEF nvars

\* The lists of the nodes stay apart for good.
LEMMA HomedAlways ==
  ASSUME NEW A, Allocators = {A}
  PROVE  Spec => [](IInv /\ Homed)
<1>1. NInit => IInv /\ Homed
  BY InitIInv, InitHomed DEF NInit
<1>2. IInv /\ Homed /\ [Next]_nvars => (IInv /\ Homed)'
  BY NextKeeps, NextHomed
<1> QED BY <1>1, <1>2, PTL DEF Spec

\* With one NumaAllocator a block returns to the pool of the node it is from,
\* whatever threads hand it around: owner_node finds its region, and no cache
\* and no global list ever has a block of another node.
THEOREM AtHome ==
  ASSUME NEW A, Allocators = {A}
  PROVE  Spec => []BlocksAtHome
<1>1. IInv /\ Homed => BlocksAtHome
  <2> SUFFICES ASSUME IInv, Homed PROVE BlocksAtHome
    OBVIOUS
  <2>1. ASSUME NEW t \in Threads, NEW n \in Nodes, cache[t][n].pool # Nil
        PROVE  ToSet(cache[t][n].list) \subseteq Region(cache[t][n].pool)
    <3>1. <<A, n>> \in Pools /\ Slot[<<A, n>>] = n
      BY DEF cache_key
    <3>2. n \in Slots
      BY <3>1 DEF Slots
    <3>3. cache[t][n] \in Cache
      BY <3>2, ListFacts, <3>1
    <3>4. cache[t][n].pool \in Pools
      BY <2>1, <3>3 DEF Cache
    <3>5. Slot[cache[t][n].pool] = n
      BY <3>2, <3>4 DEF IInv, SlotsKept
    <3> QED BY <3>4, <3>5 DEF Homed
  <2> QED BY <2>1 DEF BlocksAtHome, Homed
<1> QED BY <1>1, HomedAlways, PTL

\* A node's pool refuses a thread only if the other threads' caches for that
\* node withhold no more than a high watermark and one block each.
THEOREM FailuresLimited ==
  ASSUME NEW A, Allocators = {A}, IsFiniteSet(Threads)
  PROVE  Spec => []FailureBound
<1>1. OwnSlots
  BY DEF OwnSlots, cache_key
<1>2. IInv /\ Homed => FailureBound
  BY <1>1, FailuresBounded
<1> QED BY <1>2, HomedAlways, PTL

-----------------------------------------------------------------------------
(* The order of the nodes                                                  *)

Calls == [cpu : Cpus \cup {Nil}, node : Nodes \cup {Nil}, dry : SUBSET Nodes]

\* What is known in a call of alloc with frame f, of which k is the record:
\* each node's list has been seen empty, or is the one being tried, or is still
\* to be tried; a node that has been given up has been seen empty.
Progress(f, k) ==
  f.pc \in {"refill", "pop_bulk", "pop_unlock", "fallback"} =>
    /\ k.node \in Nodes
    /\ k.node \in k.dry \/ k.node = f.pool[2]
    /\ \A m \in Nodes : \/ m \in k.dry \/ m = f.pool[2]
                        \/ \E i \in 1..Len(f.rest) : f.rest[i][2] = m
    /\ f.pc = "fallback" \/ (f.pc = "pop_unlock" /\ f.batch = <<>>) => f.pool[2] \in k.dry

\* The inductive invariant of the calls.
CallsOK ==
  /\ call \in [Threads -> Calls]
  /\ \A t \in Threads : Progress(frame[t], call[t])

\* Seeing more lists empty takes nothing away.
LEMMA ProgressGrows ==
  ASSUME NEW f, NEW k \in Calls, Progress(f, k)
  PROVE  LET w == [k EXCEPT !.dry = @ \cup Empty]
         IN  w \in Calls /\ w.node = k.node /\ Progress(f, w)
<1> DEFINE w == [k EXCEPT !.dry = @ \cup Empty]
<1>1. Empty \subseteq Nodes
  BY DEF Empty
<1>2. w \in Calls /\ w.node = k.node /\ w.dry = k.dry \cup Empty
  BY <1>1 DEF Calls
<1> HIDE DEF w
<1>3. Progress(f, w)
  BY <1>2 DEF Progress
<1> QED BY <1>2, <1>3 DEF w

\* A step of thread t keeps the records right, if it keeps that of t right.
LEMMA WatchKeeps ==
  ASSUME CallsOK, NEW t \in Threads, NEW cs \in [Threads -> Calls], Watch(cs),
         \A u \in Threads \ {t} : cs[u] = call[u] /\ frame'[u] = frame[u],
         Progress(frame'[t], [cs[t] EXCEPT !.dry = @ \cup Empty])
  PROVE  CallsOK'
<1>1. NoCall \in Calls
  BY DEF NoCall, Calls
<1>2. ASSUME NEW u \in Threads
      PROVE  /\ call'[u] = IF frame'[u].pc = "idle" \/ cs[u].node = Nil THEN NoCall
                           ELSE [cs[u] EXCEPT !.dry = @ \cup Empty]
             /\ [cs[u] EXCEPT !.dry = @ \cup Empty] \in Calls
             /\ [cs[u] EXCEPT !.dry = @ \cup Empty].node = cs[u].node
             /\ Progress(frame'[u], [cs[u] EXCEPT !.dry = @ \cup Empty])
  <2> DEFINE w == [cs[u] EXCEPT !.dry = @ \cup Empty]
  <2>1. call'[u] = IF frame'[u].pc = "idle" \/ cs[u].node = Nil THEN NoCall ELSE w
    BY DEF Watch
  <2>2. cs[u] \in Calls /\ Empty \subseteq Nodes
    BY DEF Empty
  <2>3. w \in Calls /\ w.node = cs[u].node
    BY <2>2 DEF Calls
  <2>4. Progress(frame'[u], w)
    <3>1. CASE u = t
      BY <3>1
    <3>2. CASE u # t
      <4>1. cs[u] = call[u] /\ frame'[u] = frame[u]
        BY <3>2
      <4>2. Progress(frame[u], cs[u])
        BY <4>1 DEF CallsOK
      <4> QED BY <2>2, <4>1, <4>2, ProgressGrows
    <3> QED BY <3>1, <3>2
  <2> QED BY <2>1, <2>3, <2>4
<1>3. ASSUME NEW u \in Threads PROVE call'[u] \in Calls /\ Progress(frame'[u], call'[u])
  <2> DEFINE w == [cs[u] EXCEPT !.dry = @ \cup Empty]
  <2>1. /\ call'[u] = IF frame'[u].pc = "idle" \/ cs[u].node = Nil THEN NoCall ELSE w
        /\ w \in Calls /\ w.node = cs[u].node /\ Progress(frame'[u], w)
    BY <1>2
  <2> HIDE DEF w
  <2>2. CASE call'[u] = w
    BY <2>1, <2>2
  <2>3. CASE frame'[u].pc = "idle"
    BY <1>1, <2>1, <2>3 DEF Progress
  <2>4. CASE cs[u].node = Nil
    BY <1>1, <2>1, <2>4 DEF Progress
  <2> QED BY <2>1, <2>2, <2>3, <2>4
<1>4. call' \in [Threads -> Calls]
  <2>1. call' = [u \in Threads |-> call'[u]]
    BY DEF Watch
  <2> QED BY <1>3, <2>1
<1> QED BY <1>3, <1>4 DEF CallsOK

\* A thread whose call is unchanged, or not one of alloc, needs no more.
LEMMA WatchSame ==
  ASSUME CallsOK, NEW t \in Threads, Watch(call),
         \A u \in Threads \ {t} : frame'[u] = frame[u],
         \/ frame'[t] = frame[t]
         \/ frame'[t].pc \notin {"refill", "pop_bulk", "pop_unlock", "fallback"}
  PROVE  CallsOK'
<1>1. call \in [Threads -> Calls] /\ call[t] \in Calls /\ Progress(frame[t], call[t])
  BY DEF CallsOK
<1> DEFINE w == [call[t] EXCEPT !.dry = @ \cup Empty]
<1>2. Progress(frame'[t], w)
  <2>1. CASE frame'[t] = frame[t]
    BY <1>1, <2>1, ProgressGrows
  <2>2. CASE frame'[t].pc \notin {"refill", "pop_bulk", "pop_unlock", "fallback"}
    BY <2>2 DEF Progress
  <2> QED BY <2>1, <2>2
<1> QED BY <1>1, <1>2, WatchKeeps

\* The pools ps are still to be tried, and the other nodes were seen empty.
Remain(ps, k) ==
  /\ k.node \in Nodes
  /\ k.node \in k.dry \/ k.node = ps[1][2]
  /\ \A m \in Nodes : m \in k.dry \/ \E i \in 1..Len(ps) : ps[i][2] = m

\* The first of them is tried.
LEMMA TryNext ==
  ASSUME NEW ps \in Seq(Pools), ps # <<>>, NEW k, Remain(ps, k)
  PROVE  Progress([Idle EXCEPT !.pc = "refill", !.pool = ps[1], !.rest = Tail(ps)], k)
<1> DEFINE f == [Idle EXCEPT !.pc = "refill", !.pool = ps[1], !.rest = Tail(ps)]
<1>1. f.pc = "refill" /\ f.pool = ps[1] /\ f.rest = Tail(ps)
  BY DEF Idle
<1>2. ASSUME NEW m \in Nodes
      PROVE  \/ m \in k.dry \/ m = f.pool[2] \/ \E i \in 1..Len(f.rest) : f.rest[i][2] = m
  <2>1. ASSUME NEW i \in 1..Len(ps), ps[i][2] = m, i # 1
        PROVE  \E j \in 1..Len(Tail(ps)) : Tail(ps)[j][2] = m
    <3>1. /\ Len(ps) \in Nat /\ Len(Tail(ps)) = Len(ps) - 1
          /\ \A j \in 1..Len(Tail(ps)) : Tail(ps)[j] = ps[j + 1]
      BY HeadTailProperties
    <3>2. i - 1 \in 1..Len(Tail(ps)) /\ (i - 1) + 1 = i
      BY <2>1, <3>1
    <3> QED BY <2>1, <3>1, <3>2
  <2> QED BY <1>1, <2>1 DEF Remain
<1> HIDE DEF f
<1>3. Progress(f, k)
  BY <1>1, <1>2 DEF Progress, Remain
<1> QED BY <1>3 DEF f

\* alloc begins with the local node.
LEMMA AllocCalls ==
  ASSUME IInv, CallsOK, NEW t \in Threads, NEW a \in Allocators, NEW c \in Cpus,
         NEW n \in current_node(c), NAlloc(t, a, c, n)
  PROVE  CallsOK'
<1> DEFINE N  == Clamp(n)
           ps == Order(a, N)
           k  == [cpu |-> c, node |-> N, dry |-> {}]
           cs == [call EXCEPT ![t] = k]
           w  == [cs[t] EXCEPT !.dry = @ \cup Empty]
<1>1. N \in Nodes
  BY ClampType
<1>2. /\ ps \in Seq(Pools) /\ Len(ps) = num_nodes /\ ps # <<>> /\ ps[1] = <<a, N>>
      /\ \A m \in Nodes : \E i \in 1..num_nodes : ps[i] = <<a, m>>
  BY <1>1, OrderFacts
<1>3. Attempt(t, ps) /\ frame[t].pc = "idle" /\ Watch(cs)
  BY DEF NAlloc, Alloc
<1> HIDE DEF N, ps
<1>4. k \in Calls /\ Empty \subseteq Nodes
  BY <1>1 DEF Calls, Empty
<1>5. cs \in [Threads -> Calls] /\ cs[t] = k /\ \A u \in Threads \ {t} : cs[u] = call[u]
  <2> HIDE DEF k
  <2> QED BY <1>4 DEF CallsOK
<1>6. w.node = N /\ w.dry = Empty
  BY <1>5
<1> HIDE DEF cs, k
<1> DEFINE f == [Idle EXCEPT !.pc = "refill", !.pool = ps[1], !.rest = Tail(ps)]
<1>7. /\ \A u \in Threads \ {t} : frame'[u] = frame[u]
      /\ frame'[t] = f \/ frame'[t] = Idle
  <2>1. frame' = [frame EXCEPT ![t] = f] \/ frame' = [frame EXCEPT ![t] = Idle]
    BY <1>2, <1>3, AttemptLeads
  <2> HIDE DEF f
  <2> QED BY <2>1 DEF IInv, TypeOK
<1>8. Progress(frame'[t], w)
  <2>2. CASE frame'[t] = Idle
    BY <2>2, IdleType DEF Progress
  <2>3. CASE frame'[t] = f
    <3> HIDE DEF w
    <3>1. \A m \in Nodes : m \in w.dry \/ \E i \in 1..Len(ps) : ps[i][2] = m
      BY <1>2
    <3>2. w.node \in Nodes /\ w.node = ps[1][2]
      BY <1>1, <1>2, <1>6
    <3>3. Remain(ps, w)
      BY <3>1, <3>2 DEF Remain
    <3>4. Progress(f, w)
      BY <1>2, <3>3, TryNext
    <3> HIDE DEF f
    <3> QED BY <2>3, <3>4
  <2> QED BY <1>7, <2>2, <2>3
<1> QED BY <1>3, <1>5, <1>7, <1>8, WatchKeeps

\* The next node is tried after one that was seen empty.
LEMMA FallbackCalls ==
  ASSUME IInv, CallsOK, NEW t \in Threads, NFallback(t)
  PROVE  CallsOK'
<1> DEFINE ps == frame[t].rest
           w  == [call[t] EXCEPT !.dry = @ \cup Empty]
<1>1. /\ ps \in Seq(Pools) /\ ps # <<>> /\ frame[t].pc = "fallback" /\ Attempt(t, ps)
      /\ Watch(call)
  BY DEF NFallback, Fallback, IInv, TypeOK, Frame, FrameOK
<1>2. call \in [Threads -> Calls] /\ call[t] \in Calls /\ Progress(frame[t], call[t])
  BY DEF CallsOK
<1>3. w \in Calls /\ w.node = call[t].node /\ Progress(frame[t], w)
  BY <1>2, ProgressGrows
<1> HIDE DEF ps, w
<1> DEFINE f == [Idle EXCEPT !.pc = "refill", !.pool = ps[1], !.rest = Tail(ps)]
<1>4. /\ \A u \in Threads \ {t} : frame'[u] = frame[u]
      /\ frame'[t] = f \/ frame'[t] = Idle
  <2>1. frame' = [frame EXCEPT ![t] = f] \/ frame' = [frame EXCEPT ![t] = Idle]
    BY <1>1, AttemptLeads
  <2> HIDE DEF f
  <2> QED BY <2>1 DEF IInv, TypeOK
<1>5. Progress(frame'[t], w)
  <2>2. CASE frame'[t] = Idle
    BY <2>2, IdleType DEF Progress
  <2>3. CASE frame'[t] = f
    <3>1. Remain(ps, w)
      BY <1>1, <1>3 DEF Progress, Remain, ps
    <3>2. Progress(f, w)
      BY <1>1, <3>1, TryNext
    <3> HIDE DEF f
    <3> QED BY <2>3, <3>2
  <2> QED BY <1>4, <2>2, <2>3
<1> QED BY <1>1, <1>2, <1>4, <1>5, WatchKeeps DEF w

\* The steps of a refill: a list that is found empty is seen empty.
LEMMA StepCalls ==
  ASSUME NEW A, Allocators = {A}, IInv, CallsOK, NEW t \in Threads, Step(t), Watch(call)
  PROVE  CallsOK'
<1> DEFINE w == [call[t] EXCEPT !.dry = @ \cup Empty]
<1>1. call \in [Threads -> Calls] /\ call[t] \in Calls /\ Progress(frame[t], call[t])
  BY DEF CallsOK
<1>2. /\ w \in Calls /\ w.node = call[t].node /\ Progress(frame[t], w)
      /\ w.dry = call[t].dry \cup Empty
  BY <1>1, ProgressGrows DEF Calls
<1>3. frame \in [Threads -> Frame] /\ frame[t] \in Frame
  BY DEF IInv, TypeOK
<1> HIDE DEF w
<1>4. ASSUME NEW f, frame' = [frame EXCEPT ![t] = f], Progress(f, w)
      PROVE  CallsOK'
  <2>1. frame'[t] = f /\ \A u \in Threads \ {t} : frame'[u] = frame[u]
    BY <1>3, <1>4
  <2> QED BY <1>1, <1>4, <2>1, WatchKeeps DEF w
<1>5. CASE RefillLock(t)
  <2> DEFINE f == [frame[t] EXCEPT !.pc = "pop_bulk"]
  <2>1. frame[t].pc = "refill" /\ frame' = [frame EXCEPT ![t] = f]
    BY <1>5 DEF RefillLock
  <2>2. f.pc = "pop_bulk" /\ f.pool = frame[t].pool /\ f.rest = frame[t].rest
    BY <1>3 DEF Frame
  <2> HIDE DEF f
  <2>3. Progress(f, w)
    BY <1>2, <2>1, <2>2 DEF Progress
  <2> QED BY <1>4, <2>1, <2>3
<1>6. CASE RefillPop(t)
  <2> DEFINE h == Head(global[Current(t).pool])
             q == Append(frame[t].batch, h)
             f == [frame[t] EXCEPT !.pc = IF WantsMore(t) THEN "pop_bulk" ELSE "pop_unlock",
                                   !.batch = q]
  <2>1. /\ frame[t].pc = "pop_bulk" /\ frame' = [frame EXCEPT ![t] = f]
        /\ global[Current(t).pool] # <<>>
    BY <1>3, <1>6 DEF RefillPop
  <2>2. frame[t].batch \in Seq(Blocks) /\ h \in Blocks
    <3>1. Current(t).pool \in Pools
      BY <2>1, CallFacts
    <3>2. global[Current(t).pool] \in Seq(Blocks)
      BY <3>1 DEF IInv, TypeOK
    <3>3. h \in Blocks
      BY <2>1, <3>2, ListHead
    <3>4. frame[t].batch \in Seq(Blocks)
      BY <1>3 DEF Frame
    <3> QED BY <3>3, <3>4
  <2> HIDE DEF h
  <2>3. q # <<>>
    BY <2>2, ListAppend
  <2> HIDE DEF q
  <2>4. /\ f.pc \in {"pop_bulk", "pop_unlock"} /\ f.pool = frame[t].pool
        /\ f.rest = frame[t].rest /\ f.batch = q
    BY <1>3 DEF Frame
  <2> HIDE DEF f
  <2>5. Progress(f, w)
    BY <1>2, <2>1, <2>3, <2>4 DEF Progress
  <2> QED BY <1>4, <2>1, <2>5
<1>7. CASE RefillEmpty(t)
  <2> DEFINE f == [frame[t] EXCEPT !.pc = "pop_unlock"]
             p == frame[t].pool
  <2>1. /\ frame[t].pc = "pop_bulk" /\ frame' = [frame EXCEPT ![t] = f]
        /\ global[Current(t).pool] = <<>>
    BY <1>7 DEF RefillEmpty
  <2>2. f.pc = "pop_unlock" /\ f.pool = p /\ f.rest = frame[t].rest
    BY <1>3 DEF Frame
  <2>3. Current(t).pool = p /\ p \in Pools
    <3>1. Current(t).pool \in Pools /\ p \in Pools /\ Slot[Current(t).pool] = Slot[p]
      BY <2>1, CallFacts
    <3>2. OwnSlots
      BY DEF OwnSlots, cache_key
    <3> QED BY <3>1, <3>2 DEF OwnSlots
  <2>4. p[2] \in Empty
    <3> HIDE DEF p
    <3>1. p[2] \in Nodes /\ p = <<A, p[2]>>
      BY <2>3
    <3>2. global[<<A, p[2]>>] = <<>>
      BY <2>1, <2>3, <3>1
    <3> QED BY <3>1, <3>2 DEF Empty
  <2> HIDE DEF f
  <2>5. Progress(f, w)
    BY <1>2, <2>1, <2>2, <2>4 DEF Progress
  <2> QED BY <1>4, <2>1, <2>5
<1>8. CASE RefillUnlock(t)
  <2> DEFINE g == [Idle EXCEPT !.pc = "fallback", !.pool = frame[t].pool,
                               !.rest = frame[t].rest]
  <2>1. frame[t].pc = "pop_unlock"
    BY <1>8 DEF RefillUnlock
  <2>2. \/ frame' = [frame EXCEPT ![t] = Idle]
        \/ frame[t].batch = <<>> /\ frame' = [frame EXCEPT ![t] = g]
    BY <1>8, UnlockLeads
  <2>3. CASE frame' = [frame EXCEPT ![t] = Idle]
    <3>1. Progress(Idle, w)
      BY IdleType DEF Progress
    <3> QED BY <1>4, <2>3, <3>1
  <2>4. CASE frame[t].batch = <<>> /\ frame' = [frame EXCEPT ![t] = g]
    <3>1. g.pc = "fallback" /\ g.pool = frame[t].pool /\ g.rest = frame[t].rest
      BY DEF Idle
    <3> HIDE DEF g
    <3>2. Progress(g, w)
      BY <1>2, <2>1, <2>4, <3>1 DEF Progress
    <3> QED BY <1>4, <2>4, <3>2
  <2> QED BY <2>2, <2>3, <2>4
<1>9. CASE FlushLock(t) \/ FlushPush(t) \/ FlushUnlock(t)
  <2>1. frame'[t].pc \in {"push_bulk", "push_unlock", "idle"}
    <3>1. CASE FlushLock(t)
      BY <1>3, <3>1 DEF FlushLock, Frame
    <3>2. CASE FlushPush(t)
      BY <1>3, <3>2 DEF FlushPush, Frame
    <3>3. CASE FlushUnlock(t)
      BY <1>3, <3>3, IdleType DEF FlushUnlock
    <3> QED BY <1>9, <3>1, <3>2, <3>3
  <2>2. \A u \in Threads \ {t} : frame'[u] = frame[u]
    BY <1>3, <1>9 DEF FlushLock, FlushPush, FlushUnlock
  <2> QED BY <2>1, <2>2, WatchSame
<1> QED BY <1>5, <1>6, <1>7, <1>8, <1>9 DEF Step

\* Every step keeps the records of the calls right.
LEMMA NextCalls ==
  ASSUME NEW A, Allocators = {A}, IInv, CallsOK, [Next]_nvars
  PROVE  CallsOK'
<1>1. ASSUME NEW t \in Threads, NEW b \in Blocks, NDealloc(t, b) PROVE CallsOK'
  <2> DEFINE a == source[b][1]
             p == <<a, owner_node(a, b)>>
  <2>1. b \in owned[t] /\ Dealloc(t, b, p) /\ Watch(call)
    BY <1>1 DEF NDealloc
  <2>2. source[b] \in Pools
    BY <2>1 DEF IInv, SourceKnown
  <2>3. p \in Pools
    BY <2>2, OwnerNode
  <2> HIDE DEF p
  <2>4. frame'[t].pc \in {"idle", "flush"}
    BY <2>1, <2>3, DeallocSteps
  <2>5. \A u \in Threads \ {t} : frame'[u] = frame[u]
    BY <2>1 DEF Dealloc, IInv, TypeOK
  <2> QED BY <2>1, <2>4, <2>5, WatchSame
<1>2. ASSUME Watch(call), frame' = frame PROVE CallsOK'
  <2>1. CASE \E t \in Threads : TRUE
    <3>1. PICK t \in Threads : TRUE
      BY <2>1
    <3> QED BY <1>2, WatchSame
  <2>2. CASE ~ \E t \in Threads : TRUE
    BY <1>2, <2>2 DEF CallsOK, Watch
  <2> QED BY <2>1, <2>2
<1>3. ASSUME Watch(call), \/ \E t \in Threads : Client(t)
                          \/ \E a \in Allocators : NDestroy(a)
                          \/ Ended
      PROVE  CallsOK'
  <2>1. frame' = frame
    BY <1>3 DEF Client, Handoff, Exit, NDestroy, Destroy, Ended, vars
  <2> QED BY <1>2, <1>3, <2>1
<1>4. ASSUME UNCHANGED nvars PROVE CallsOK'
  BY <1>4 DEF nvars, vars, CallsOK
<1>5. CASE Next
  BY <1>1, <1>3, <1>5, AllocCalls, FallbackCalls, StepCalls DEF Next
<1> QED BY <1>4, <1>5

\* The calls are right for good.
LEMMA CallsAlways ==
  ASSUME NEW A, Allocators = {A}
  PROVE  Spec => [](IInv /\ Homed /\ CallsOK)
<1>1. NInit => CallsOK
  <2> SUFFICES ASSUME NInit PROVE CallsOK
    OBVIOUS
  <2>1. call = [t \in Threads |-> NoCall] /\ frame = [t \in Threads |-> Idle]
    BY DEF NInit, Init
  <2>2. NoCall \in Calls
    BY DEF NoCall, Calls
  <2>3. Progress(Idle, NoCall)
    BY IdleType DEF Progress
  <2> QED BY <2>1, <2>2, <2>3 DEF CallsOK
<1>2. NInit => IInv /\ Homed
  BY InitIInv, InitHomed DEF NInit
<1>3. IInv /\ Homed /\ CallsOK /\ [Next]_nvars => (IInv /\ Homed /\ CallsOK)'
  BY NextKeeps, NextHomed, NextCalls
<1> QED BY <1>1, <1>2, <1>3, PTL DEF Spec

\* How thread t's call of alloc returns.
ReturnOK(t) ==
  Returns(t) =>
    IF Given(t) = {} THEN call[t].dry = Nodes
    ELSE \A b \in Given(t) : Home[b][2] # call[t].node => call[t].node \in call[t].dry

\* Only the end of a refill and the next attempt return from alloc.
LEMMA WhoReturns ==
  ASSUME IInv, NEW t \in Threads, [Next]_nvars, Returns(t)
  PROVE  RefillUnlock(t) \/ Fallback(t)
<1>1. frame[t].pc \in {"pop_unlock", "fallback"} /\ frame'[t].pc = "idle"
  BY DEF Returns
<1>2. frame \in [Threads -> Frame] /\ frame'[t] # frame[t]
  BY <1>1 DEF IInv, TypeOK
<1>3. ASSUME NEW u \in Threads, u # t, frame'[t] # frame[t],
             \/ \E ps : Alloc(u, ps)
             \/ Fallback(u) \/ Step(u) \/ \E b, p : Dealloc(u, b, p)
      PROVE  FALSE
  <2>1. \E f : frame' = [frame EXCEPT ![u] = f]
    <3>1. ASSUME NEW ps, Attempt(u, ps) PROVE \E f : frame' = [frame EXCEPT ![u] = f]
      BY <3>1 DEF Attempt, Take
    <3>2. CASE \E ps : Alloc(u, ps)
      BY <3>1, <3>2 DEF Alloc
    <3>3. CASE Fallback(u)
      BY <3>1, <3>3 DEF Fallback
    <3>4. CASE \E b, p : Dealloc(u, b, p)
      BY <3>4 DEF Dealloc
    <3>5. CASE RefillPop(u)
      BY <1>2, <3>5 DEF RefillPop
    <3>6. CASE RefillUnlock(u)
      BY <3>6 DEF RefillUnlock, Take
    <3>7. CASE RefillLock(u) \/ RefillEmpty(u) \/ FlushLock(u) \/ FlushPush(u)
               \/ FlushUnlock(u)
      BY <3>7 DEF RefillLock, RefillEmpty, FlushLock, FlushPush, FlushUnlock
    <3> QED BY <1>3, <3>2, <3>3, <3>4, <3>5, <3>6, <3>7 DEF Step
  <2> QED BY <1>2, <1>3, <2>1
<1>4. ASSUME \/ \E ps : Alloc(t, ps)
             \/ RefillLock(t) \/ RefillPop(t) \/ RefillEmpty(t)
             \/ FlushLock(t) \/ FlushPush(t) \/ FlushUnlock(t)
             \/ \E b, p : Dealloc(t, b, p)
      PROVE  FALSE
  BY <1>1, <1>4 DEF Alloc, RefillLock, RefillPop, RefillEmpty, FlushLock, FlushPush,
                    FlushUnlock, Dealloc
<1>5. ~ (frame' = frame)
  BY <1>2
<1>6. CASE \E u \in Threads : \/ \E ps : Alloc(u, ps)
                              \/ Fallback(u) \/ Step(u) \/ \E b, p : Dealloc(u, b, p)
  BY <1>2, <1>3, <1>4, <1>6 DEF Step
<1>7. CASE \/ \E u \in Threads : Client(u)
           \/ \E a \in Allocators : NDestroy(a)
           \/ UNCHANGED vars
  BY <1>5, <1>7 DEF Client, Handoff, Exit, NDestroy, Destroy, vars
<1>8. CASE Next
  <2>1. ASSUME NEW u \in Threads, NEW b \in Blocks, NDealloc(u, b)
        PROVE  \E p : Dealloc(u, b, p)
    BY <2>1 DEF NDealloc
  <2>2. ASSUME NEW u \in Threads, NEW a \in Allocators, NEW c \in Cpus,
               NEW n \in current_node(c), NAlloc(u, a, c, n)
        PROVE  \E ps : Alloc(u, ps)
    BY <2>2 DEF NAlloc
  <2> QED BY <1>6, <1>7, <1>8, <2>1, <2>2 DEF Next, NFallback, Ended
<1> QED BY <1>7, <1>8 DEF nvars

\* A call gets a block of another node only if the local list was empty at some
\* moment of it, and none only if all lists were.
LEMMA ReturnsJustified ==
  ASSUME NEW A, Allocators = {A}, IInv, Homed, CallsOK, [Next]_nvars, NEW t \in Threads
  PROVE  ReturnOK(t)
<1> SUFFICES ASSUME Returns(t)
             PROVE  IF Given(t) = {} THEN call[t].dry = Nodes
                    ELSE \A b \in Given(t) :
                           Home[b][2] # call[t].node => call[t].node \in call[t].dry
  BY DEF ReturnOK
<1> DEFINE k == call[t]
           f == frame[t]
<1>1. k \in Calls /\ Progress(f, k) /\ f \in Frame /\ k.dry \subseteq Nodes
  BY DEF CallsOK, Calls, IInv, TypeOK
<1>2. frame \in [Threads -> Frame] /\ frame'[t].pc = "idle" /\ owned \in [Threads -> SUBSET Blocks]
  BY DEF Returns, IInv, TypeOK
<1>3. CASE RefillUnlock(t)
  <2>1. f.pc = "pop_unlock"
    BY <1>3 DEF RefillUnlock
  <2>2. /\ k.node \in k.dry \/ k.node = f.pool[2]
        /\ \A m \in Nodes : \/ m \in k.dry \/ m = f.pool[2]
                            \/ \E i \in 1..Len(f.rest) : f.rest[i][2] = m
        /\ f.batch = <<>> => f.pool[2] \in k.dry
    BY <1>1, <2>1 DEF Progress
  <2>3. f.pool \in Pools /\ Slot[f.pool] \in Slots
    BY <2>1, CallFacts
  <2>4. CASE f.batch = <<>> /\ f.rest = <<>> /\ owned' = owned
    <3>1. Given(t) = {}
      BY <2>4 DEF Given
    <3>2. Len(f.rest) = 0
      BY <2>4
    <3>3. \A m \in Nodes : m \in k.dry
      BY <2>2, <2>4, <3>2
    <3>4. k.dry = Nodes
      <4> DEFINE d == k.dry
      <4> HIDE DEF d
      <4>1. d \subseteq Nodes /\ \A m \in Nodes : m \in d
        BY <1>1, <3>3 DEF d
      <4>2. d = Nodes
        BY <4>1
      <4> QED BY <4>2 DEF d
    <3> QED BY <3>1, <3>4
  <2>5. CASE \E b \in ToSet(cache[t][Slot[f.pool]].list) \cup ToSet(f.batch) :
               owned'[t] \ owned[t] = {b}
    <3>1. PICK b \in ToSet(cache[t][Slot[f.pool]].list) \cup ToSet(f.batch) : Given(t) = {b}
      BY <2>5 DEF Given
    <3>2. b \in Region(f.pool)
      BY <2>1, <2>3 DEF Homed
    <3>3. Home[b][2] = f.pool[2]
      BY <3>2 DEF Region
    <3> QED BY <2>2, <3>1, <3>3
  <2>6. ASSUME frame' = [frame EXCEPT ![t] = [Idle EXCEPT !.pc = "fallback",
                          !.pool = frame[t].pool, !.rest = frame[t].rest]]
        PROVE  FALSE
    <3>1. frame'[t].pc = "fallback"
      BY <1>2, <2>6 DEF Idle
    <3> QED BY <1>2, <3>1
  <2>7. \/ f.batch = <<>> /\ f.rest = <<>> /\ owned' = owned
        \/ \E b \in ToSet(cache[t][Slot[f.pool]].list) \cup ToSet(f.batch) :
             owned'[t] \ owned[t] = {b}
    BY <1>3, <2>6, UnlockLeads
  <2> QED BY <2>4, <2>5, <2>7
<1>4. CASE Fallback(t)
  <2> DEFINE ps == f.rest
  <2>1. f.pc = "fallback" /\ ps \in Seq(Pools) /\ ps # <<>> /\ Attempt(t, ps)
    BY <1>1, <1>4 DEF Fallback, IInv, FrameOK, Frame
  <2>2. k.node \in k.dry
    BY <1>1, <2>1 DEF Progress
  <2> HIDE DEF ps
  <2>3. ASSUME frame' = [frame EXCEPT ![t] = [Idle EXCEPT !.pc = "refill", !.pool = ps[1],
                                                          !.rest = Tail(ps)]]
        PROVE  FALSE
    <3>1. frame'[t].pc = "refill"
      BY <1>2, <2>3 DEF Idle
    <3> QED BY <1>2, <3>1
  <2>4. \E b \in ToSet(cache[t][Slot[ps[1]]].list) : owned'[t] \ owned[t] = {b}
    BY <2>1, <2>3, AttemptLeads
  <2>5. Given(t) # {}
    BY <2>4 DEF Given
  <2> QED BY <2>2, <2>5
<1> QED BY <1>3, <1>4, WhoReturns

\* With one NumaAllocator the order of the nodes is kept under all
\* interleavings: alloc leaves the node it was told it runs on only after that
\* node's list was empty during the call, and gives up only after every list
\* was.
THEOREM NodesInOrder ==
  ASSUME NEW A, Allocators = {A}
  PROVE  Spec => FallbackJustified
<1>1. IInv /\ Homed /\ CallsOK /\ [Next]_nvars => [\A t \in Threads : ReturnOK(t)]_nvars
  BY ReturnsJustified
<1>2. [\A t \in Threads : ReturnOK(t)]_nvars =>
        [\A t \in Threads : Returns(t) =>
           IF Given(t) = {} THEN call[t].dry = Nodes
           ELSE \A b \in Given(t) :
                  Home[b][2] # call[t].node => call[t].node \in call[t].dry]_nvars
  BY DEF ReturnOK
<1> QED BY <1>1, <1>2, CallsAlways, PTL DEF Spec, FallbackJustified
=============================================================================
