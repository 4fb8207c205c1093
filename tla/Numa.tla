-------------------------------- MODULE Numa --------------------------------
(***************************************************************************)
(* NumaAllocator (include/numa_allocator.hpp, src/numa_allocator.cpp) on   *)
(* the queries of namespace numa (src/numa_utils.cpp, the Linux branches): *)
(* a pool per memory node.  alloc tries the pool of the node it runs on,   *)
(* then the others; dealloc looks up the node whose region the block lies  *)
(* in.  The caches of a thread are keyed by the node alone, so they are    *)
(* shared by all NumaAllocator objects.                                    *)
(*                                                                         *)
(* A pool is a pair of an allocator and a node.  A block is its address, a *)
(* number; blocks have size 1.                                             *)
(***************************************************************************)
EXTENDS ThreadCache

CONSTANTS
  Allocators,     \* the NumaAllocator objects
  NodeDirs,       \* the n for which /sys/devices/system/node/node<n> exists
  MAX_NODES,      \* the size of the array of pools
  BlocksPerNode,  \* blocks_per_node
  Base,           \* Base[p]: the address of p's region, 0 if mmap failed
  Cpus,           \* the processors
  NodeOf,         \* NodeOf[c]: the memory node of processor c
  PackageOf       \* PackageOf[c]: its physical_package_id

\* The directories node0 to node255 are counted up to the first that is missing.
node_count ==
  LET stops == {n \in 0..256 : n \notin NodeDirs \/ n = 256}
  IN  Max({1, Min(stops)})

num_nodes == Min({node_count, MAX_NODES})
Nodes     == 0..num_nodes - 1

\* A region is block_size * blocks_per_node bytes from the address that
\* alloc_on_node returned.
InRegion(p, addr) == Base[p] <= addr /\ addr < Base[p] + BlocksPerNode

\* The pools for which alloc_on_node could map a region.
Mapped == {p \in Pools : Base[p] # 0}

\* get_cache keeps a thread's caches in an array indexed by the node.
cache_key(p) == p[2]

\* mmap returns regions that do not overlap, none of them so low that a pool
\* without a region would seem to have its addresses.
ASSUME NumaAssumption ==
  /\ Pools = Allocators \X Nodes
  /\ Slot = [p \in Pools |-> cache_key(p)]
  /\ MAX_NODES \in Nat \ {0} /\ BlocksPerNode \in Nat
  /\ Base \in [Pools -> Nat]
  /\ Blocks = UNION {Base[p]..Base[p] + BlocksPerNode - 1 : p \in Mapped}
  /\ \A b \in Blocks : Home[b] \in Mapped /\ InRegion(Home[b], b)
  /\ \A b \in Blocks, p \in Pools : InRegion(p, b) => p = Home[b]
  /\ PackageOf \in [Cpus -> Nat]
  /\ Nil \notin Nodes

VARIABLE
  call   \* auxiliary: call[t]: the processor on which thread t called alloc,
         \* the node that current_node told it, and the nodes whose global
         \* lists were empty at some moment of the call

nvars == <<vars, call>>

NoCall == [cpu |-> Nil, node |-> Nil, dry |-> {}]

NInit == Init /\ call = [t \in Threads |-> NoCall]

\* Mutant of owner_node: the address after a region counts as inside.
owner_node_closed(a, addr) ==
  LET in == {n \in Nodes : Base[<<a, n>>] <= addr /\ addr <= Base[<<a, n>>] + BlocksPerNode}
  IN  IF in = {} THEN 0 ELSE Min(in)

\* The first node whose region has the address, or node 0.
owner_node(a, addr) ==
  LET in == {n \in Nodes : InRegion(<<a, n>>, addr)}
  IN  IF in = {} THEN 0 ELSE Min(in)

\* What current_node may return on processor c: the package it finds in sysfs,
\* or 0 if a query fails.
current_node(c) == {PackageOf[c], 0}

\* alloc takes a number beyond the pools as node 0.
Clamp(n) == IF n >= num_nodes THEN 0 ELSE n

\* The node that alloc tries i-th: the local one, n, then the others by number.
Tried(n, i) == IF i = 1 THEN n ELSE IF i <= n + 1 THEN i - 2 ELSE i - 1

\* Mutant of Order: the last node is not tried.
OrderShort(a, n) == [i \in 1..num_nodes - 1 |-> <<a, Tried(n, i)>>]

\* The pools that alloc tries.
Order(a, n) == [i \in 1..num_nodes |-> <<a, Tried(n, i)>>]

\* The nodes of which no allocator has a block on its global list.
Empty == {n \in Nodes : \A a \in Allocators : global[<<a, n>>] = <<>>}

\* The calls cs that have not returned see what the lists are meanwhile.
Watch(cs) ==
  call' = [t \in Threads |->
    IF frame'[t].pc = "idle" \/ cs[t].node = Nil THEN NoCall
    ELSE [cs[t] EXCEPT !.dry = @ \cup Empty]]

NAlloc(t, a, c, n) ==
  /\ n \in current_node(c)
  /\ Alloc(t, Order(a, Clamp(n)))
  /\ Watch([call EXCEPT ![t] = [cpu |-> c, node |-> Clamp(n), dry |-> {}]])

NFallback(t) == Fallback(t) /\ Watch(call)

\* dealloc: a client returns a block to the allocator it got it from.
NDealloc(t, b) ==
  /\ b \in owned[t]
  /\ LET a == source[b][1] IN Dealloc(t, b, <<a, owner_node(a, b)>>)
  /\ Watch(call)

NDestroy(a) == Destroy({a} \X Nodes)

Next ==
  \/ \E t \in Threads, a \in Allocators, c \in Cpus :
       \E n \in current_node(c) : NAlloc(t, a, c, n)
  \/ \E t \in Threads : NFallback(t) \/ \E b \in Blocks : NDealloc(t, b)
  \/ /\ \/ \E t \in Threads : Step(t) \/ Client(t)
        \/ \E a \in Allocators : NDestroy(a)
        \/ Ended
     /\ Watch(call)

Spec == NInit /\ [][Next]_nvars

-----------------------------------------------------------------------------
(* Properties                                                              *)

\* A block returns to the pool that owns it: the global list and the caches
\* of a pool hold blocks of its own region only.
BlocksAtHome ==
  /\ \A p \in Pools : ToSet(global[p]) \subseteq Region(p)
  /\ \A t \in Threads, n \in Nodes :
       LET c == cache[t][n] IN c.pool # Nil => ToSet(c.list) \subseteq Region(c.pool)

\* The steps in which alloc returns after the local cache was found empty.
Returns(t) == frame[t].pc \in {"pop_unlock", "fallback"} /\ frame'[t].pc = "idle"
Given(t)   == owned'[t] \ owned[t]

\* A call gets a block of another node than the one it was told it runs on
\* only if that node's global list was empty at some moment of the call, and
\* it gets none only if every global list was.
FallbackJustified ==
  [][\A t \in Threads : Returns(t) =>
       IF Given(t) = {} THEN call[t].dry = Nodes
       ELSE \A b \in Given(t) : Home[b][2] # call[t].node => call[t].node \in call[t].dry]_nvars

\* The NUMA-local pool is tried first: a call gets a block of another node
\* than that of its processor only if that node's list was empty meanwhile.
LocalFirst ==
  [][\A t \in Threads : Returns(t) => LET local == NodeOf[call[t].cpu] IN
       \A b \in Given(t) : Home[b][2] # local => local \in call[t].dry]_nvars

\* Every memory node of the machine is counted: whoever calls alloc runs on a
\* node that has a pool.
NodeCounted ==
  \A t \in Threads, a \in Allocators :
    call[t].cpu # Nil => <<a, NodeOf[call[t].cpu]>> \in Pools
=============================================================================
