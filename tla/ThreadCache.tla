---------------------------- MODULE ThreadCache -----------------------------
(***************************************************************************)
(* ThreadCache (include/tl_freelist_allocator.hpp,                         *)
(* src/tl_freelist_allocator.cpp): a private list of blocks in front of a  *)
(* global freelist.  alloc and dealloc work on the cache; a cache at its   *)
(* low watermark is refilled with a batch from the global list, one above  *)
(* its high watermark is flushed.                                          *)
(*                                                                         *)
(* Three allocators are built from it: TlFreelist, MultiSize and Numa give *)
(* the calls.  A pool is one global list with its region.  The caches are  *)
(* thread_local variables: Slot[p] names the one through which a thread    *)
(* uses pool p, so pools with the same slot share a thread's cache, which  *)
(* stays bound to the pool it was first used for.                          *)
(*                                                                         *)
(* A push or pop on a global list is one step here, as LifoPool allows and *)
(* FreelistProofs shows; push_bulk and pop_bulk are sequences of such      *)
(* steps under bulk_lock.  A list of blocks is a sequence.                 *)
(***************************************************************************)
EXTENDS Integers, SequencesExt

CONSTANTS
  Threads,   \* the threads of the program
  Pools,     \* the global lists of all its allocators
  Blocks,    \* the blocks of all their regions
  Home,      \* Home[b]: the pool whose region block b lies in
  Batch,     \* Batch[p]: the batch size of the caches made for pool p
  Slot,      \* Slot[p]: the thread_local cache that get_cache finds for p
  Nil        \* nullptr, no pool, no thread

ASSUME PoolsAssumption ==
  /\ Home \in [Blocks -> Pools] /\ Batch \in [Pools -> Nat]
  /\ DOMAIN Slot = Pools /\ IsFiniteSet(Blocks)
  /\ Nil \notin Blocks \cup Pools \cup Threads

VARIABLES
  global,     \* global[p]: the global freelist of p, head first
  bulk_lock,  \* bulk_lock[p]: the thread that holds the mutex of global[p]
  cache,      \* cache[t][s]: the ThreadCache of thread t in slot s
  frame,      \* frame[t]: where thread t is, and its local variables
  owned,      \* owned[t]: the blocks that t's client code holds
  source,     \* source[b]: the pool whose alloc gave b to a client
  alive,      \* the pools that are not destroyed
  leaked      \* auxiliary: the blocks that died with the cache of a thread

vars == <<global, bulk_lock, cache, frame, owned, source, alive, leaked>>

Slots == {Slot[p] : p \in Pools}

Cache == [pool : Pools \cup {Nil}, list : Seq(Blocks), size : Nat]
NoCache == [pool |-> Nil, list |-> <<>>, size |-> 0]

\* The batch in transit, the pool called, the pools to call if it has no block.
PCs   == {"idle", "refill", "pop_bulk", "pop_unlock", "fallback",
          "flush", "push_bulk", "push_unlock"}
Frame == [pc : PCs, batch : Seq(Blocks), pool : Pools \cup {Nil}, rest : Seq(Pools)]
Idle  == [pc |-> "idle", batch |-> <<>>, pool |-> Nil, rest |-> <<>>]

Region(p) == {b \in Blocks : Home[b] = p}

\* The constructors have pushed every block of their regions, in some order.
Init ==
  /\ global = [p \in Pools |-> SetToSeq(Region(p))]
  /\ bulk_lock = [p \in Pools |-> Nil]
  /\ cache = [t \in Threads |-> [s \in Slots |-> NoCache]]
  /\ frame = [t \in Threads |-> Idle]
  /\ owned = [t \in Threads |-> {}]
  /\ source = [b \in Blocks |-> Nil]
  /\ alive = Pools
  /\ leaked = {}

\* get_cache: the first call in a thread constructs the cache of the slot.
get_cache(t, p) ==
  IF cache[t][Slot[p]].pool = Nil THEN [NoCache EXCEPT !.pool = p]
                                  ELSE cache[t][Slot[p]]

\* The cache that thread t's call works on.
Current(t) == cache[t][Slot[frame[t].pool]]

batch_size(c)     == Batch[c.pool]
low_watermark(c)  == batch_size(c) \div 2
high_watermark(c) == batch_size(c) * 2

-----------------------------------------------------------------------------
(* alloc                                                                   *)

\* Mutant of Take: the block handed out stays on the list.
TakeKeepsHead(t, ps, c) ==
  /\ frame' = [frame EXCEPT ![t] = Idle]
  /\ cache' = [cache EXCEPT ![t][Slot[ps[1]]] = c]
  /\ IF c.list = <<>>
     THEN UNCHANGED <<owned, source>>
     ELSE /\ owned' = [owned EXCEPT ![t] = @ \cup {c.list[1]}]
          /\ source' = [source EXCEPT ![c.list[1]] = ps[1]]

\* A cache without its first block.
Popped(c) == [c EXCEPT !.list = Tail(@), !.size = @ - 1]

\* The end of alloc on pool ps[1]: the first cached block, if there is one.
Take(t, ps, c) ==
  LET s == Slot[ps[1]] IN
  IF c.list = <<>>
  THEN /\ cache' = [cache EXCEPT ![t][s] = c]
       /\ frame' = [frame EXCEPT ![t] =
            IF Len(ps) = 1 THEN Idle
            ELSE [Idle EXCEPT !.pc = "fallback", !.pool = ps[1], !.rest = Tail(ps)]]
       /\ UNCHANGED <<owned, source>>
  ELSE /\ cache' = [cache EXCEPT ![t][s] = Popped(c)]
       /\ frame' = [frame EXCEPT ![t] = Idle]
       /\ owned' = [owned EXCEPT ![t] = @ \cup {c.list[1]}]
       /\ source' = [source EXCEPT ![c.list[1]] = ps[1]]

\* alloc on pool ps[1]; the others are tried in turn if it has no block.
Attempt(t, ps) ==
  LET c == get_cache(t, ps[1]) IN
  /\ IF c.size <= low_watermark(c)
     THEN /\ cache' = [cache EXCEPT ![t][Slot[ps[1]]] = c]
          /\ frame' = [frame EXCEPT ![t] =
               [Idle EXCEPT !.pc = "refill", !.pool = ps[1], !.rest = Tail(ps)]]
          /\ UNCHANGED <<owned, source>>
     ELSE Take(t, ps, c)
  /\ UNCHANGED <<global, bulk_lock, alive, leaked>>

Alloc(t, ps) ==
  /\ frame[t].pc = "idle"
  /\ ps[1] \in alive
  /\ Attempt(t, ps)

\* The next pool is tried; only allocators with several pools do that.
Fallback(t) ==
  /\ frame[t].pc = "fallback"
  /\ Attempt(t, frame[t].rest)

\* refill: pop_bulk(batch_size) locks the mutex, ...
RefillLock(t) ==
  LET p == Current(t).pool IN
  /\ frame[t].pc = "refill"
  /\ bulk_lock[p] = Nil
  /\ bulk_lock' = [bulk_lock EXCEPT ![p] = t]
  /\ frame' = [frame EXCEPT ![t] = [@ EXCEPT !.pc = "pop_bulk"]]
  /\ UNCHANGED <<global, cache, owned, source, alive, leaked>>

\* pop_bulk asks for another block after this one.
WantsMore(t) == Len(frame[t].batch) + 1 < batch_size(Current(t))

\* ... pops blocks until it has enough, ...
RefillPop(t) ==
  LET p == Current(t).pool IN
  /\ frame[t].pc = "pop_bulk"
  /\ global[p] # <<>>
  /\ global' = [global EXCEPT ![p] = Tail(@)]
  /\ frame' = [frame EXCEPT ![t].pc = IF WantsMore(t) THEN "pop_bulk" ELSE "pop_unlock",
                            ![t].batch = Append(@, Head(global[p]))]
  /\ UNCHANGED <<bulk_lock, cache, owned, source, alive, leaked>>

\* ... or the list is empty, ...
RefillEmpty(t) ==
  /\ frame[t].pc = "pop_bulk"
  /\ global[Current(t).pool] = <<>>
  /\ frame' = [frame EXCEPT ![t] = [@ EXCEPT !.pc = "pop_unlock"]]
  /\ UNCHANGED <<global, bulk_lock, cache, owned, source, alive, leaked>>

\* Mutant of Refilled: the new blocks replace the old ones.
RefilledOver(c, s) == IF s = <<>> THEN c ELSE [c EXCEPT !.list = s, !.size = Len(s)]

\* The batch goes in front of what the cache still had; its length is counted
\* by walking it.
Refilled(c, s) == [c EXCEPT !.list = s \o @, !.size = @ + Len(s)]

\* ... and unlocks it; alloc then goes on.
RefillUnlock(t) ==
  LET p == Current(t).pool IN
  /\ frame[t].pc = "pop_unlock"
  /\ bulk_lock' = [bulk_lock EXCEPT ![p] = Nil]
  /\ Take(t, <<frame[t].pool>> \o frame[t].rest, Refilled(Current(t), frame[t].batch))
  /\ UNCHANGED <<global, alive, leaked>>

-----------------------------------------------------------------------------
(* dealloc                                                                 *)

\* flush cuts the first excess blocks off the list, as far as they go; the
\* size decreases by the number of blocks walked.
Lesser(x, y) == IF x < y THEN x ELSE y
Cut(c, excess) == Lesser(excess, Len(c.list))

\* Mutant of Kept: the size decreases by one too many.
KeptMiscounted(c, k) ==
  [c EXCEPT !.list = SubSeq(@, k + 1, Len(@)), !.size = IF k = 0 THEN @ ELSE @ - k - 1]

\* What flush leaves in the cache.
Kept(c, k) == [c EXCEPT !.list = SubSeq(@, k + 1, Len(@)), !.size = @ - k]

\* Mutant of Excess: only what exceeds the watermark is flushed, and only once
\* the cache is one block further.
ExcessLate(c) == IF c.size > high_watermark(c) + 1 THEN 1 ELSE 0

\* What dealloc asks flush to return to the global list.
Excess(c) == IF c.size > high_watermark(c) THEN c.size - batch_size(c) ELSE 0

\* dealloc through the cache that the thread has for pool p.
Dealloc(t, b, p) ==
  LET old == get_cache(t, p)
      c   == [old EXCEPT !.list = <<b>> \o @, !.size = @ + 1]
      k   == Cut(c, Excess(c))
  IN
  /\ frame[t].pc = "idle"
  /\ b \in owned[t]
  /\ owned' = [owned EXCEPT ![t] = @ \ {b}]
  /\ source' = [source EXCEPT ![b] = Nil]
  /\ cache' = [cache EXCEPT ![t][Slot[p]] = Kept(c, k)]
  /\ frame' = [frame EXCEPT ![t] =
       IF k = 0 THEN Idle
       ELSE [Idle EXCEPT !.pc = "flush", !.pool = p, !.batch = SubSeq(c.list, 1, k)]]
  /\ UNCHANGED <<global, bulk_lock, alive, leaked>>

\* push_bulk locks the mutex, ...
FlushLock(t) ==
  LET p == Current(t).pool IN
  /\ frame[t].pc = "flush"
  /\ bulk_lock[p] = Nil
  /\ bulk_lock' = [bulk_lock EXCEPT ![p] = t]
  /\ frame' = [frame EXCEPT ![t] = [@ EXCEPT !.pc = "push_bulk"]]
  /\ UNCHANGED <<global, cache, owned, source, alive, leaked>>

\* ... pushes the blocks one by one, ...
FlushPush(t) ==
  LET p == Current(t).pool
      s == frame[t].batch
  IN
  /\ frame[t].pc = "push_bulk"
  /\ global' = [global EXCEPT ![p] = <<s[1]>> \o @]
  /\ frame' = [frame EXCEPT ![t] =
       [@ EXCEPT !.pc = IF Len(s) > 1 THEN "push_bulk" ELSE "push_unlock",
                 !.batch = Tail(s)]]
  /\ UNCHANGED <<bulk_lock, cache, owned, source, alive, leaked>>

\* ... and unlocks it.
FlushUnlock(t) ==
  LET p == Current(t).pool IN
  /\ frame[t].pc = "push_unlock"
  /\ bulk_lock' = [bulk_lock EXCEPT ![p] = Nil]
  /\ frame' = [frame EXCEPT ![t] = Idle]
  /\ UNCHANGED <<global, cache, owned, source, alive, leaked>>

-----------------------------------------------------------------------------
(* The rest of the program                                                 *)

\* A producer passes a block to a consumer through a queue of its own.
Handoff(t, u, b) ==
  /\ frame[t].pc = "idle" /\ frame[u].pc = "idle" /\ t # u
  /\ b \in owned[t]
  /\ owned' = [owned EXCEPT ![t] = @ \ {b}, ![u] = @ \cup {b}]
  /\ UNCHANGED <<global, bulk_lock, cache, frame, source, alive, leaked>>

\* What the caches of thread t hold.
Cached(t) == UNION {ToSet(cache[t][s].list) : s \in Slots}

\* A thread ends, and a new one takes its place.  ThreadCache's destructor is
\* the default one: what the caches held is on no list any more.
Exit(t) ==
  /\ frame[t].pc = "idle"
  /\ \E s \in Slots : cache[t][s].pool # Nil
  /\ owned[t] = {}
  /\ leaked' = leaked \cup Cached(t)
  /\ cache' = [cache EXCEPT ![t] = [s \in Slots |-> NoCache]]
  /\ UNCHANGED <<global, bulk_lock, frame, owned, source, alive>>

\* The destructor of the allocator with the pools ps frees their regions.  Its
\* clients have stopped calling it and hold none of the blocks it gave them;
\* the caches of the threads stay as they are.
Destroy(ps) ==
  /\ ps \subseteq alive
  /\ \A t \in Threads : frame[t].pool \notin ps
  /\ \A b \in Blocks : source[b] \notin ps
  /\ alive' = alive \ ps
  /\ UNCHANGED <<global, bulk_lock, cache, frame, owned, source, leaked>>

\* The program has destroyed its allocators and all calls have returned.
Ended ==
  /\ alive = {}
  /\ \A t \in Threads : frame[t].pc = "idle"
  /\ UNCHANGED vars

-----------------------------------------------------------------------------
\* What a thread does by itself once it is inside a call of a pool.
Step(t) ==
  \/ RefillLock(t) \/ RefillPop(t) \/ RefillEmpty(t) \/ RefillUnlock(t)
  \/ FlushLock(t) \/ FlushPush(t) \/ FlushUnlock(t)

\* What the threads do besides calling the allocator.
Client(t) ==
  \/ \E u \in Threads, b \in Blocks : Handoff(t, u, b)
  \/ Exit(t)

-----------------------------------------------------------------------------
(* Properties                                                              *)

\* Every variable has its type; local_size never wraps below zero.
TypeOK ==
  /\ global \in [Pools -> Seq(Blocks)]
  /\ bulk_lock \in [Pools -> Threads \cup {Nil}]
  /\ cache \in [Threads -> [Slots -> Cache]]
  /\ frame \in [Threads -> Frame]
  /\ owned \in [Threads -> SUBSET Blocks]
  /\ source \in [Blocks -> Pools \cup {Nil}]
  /\ alive \in SUBSET Pools
  /\ leaked \in SUBSET Blocks

\* local_size, on which both watermark decisions rest, is the length of the
\* list it stands for.
SizeExact ==
  \A t \in Threads, s \in Slots : cache[t][s].size = Len(cache[t][s].list)

\* Where a block can be, and what is there.
Places == {<<"global", p>> : p \in Pools} \cup {<<"lost">>}
          \cup {<<"cache", t, s>> : t \in Threads, s \in Slots}
          \cup {<<x, t>> : x \in {"batch", "client"}, t \in Threads}

At(x) == CASE x[1] = "global" -> ToSet(global[x[2]])
           [] x[1] = "cache"  -> ToSet(cache[x[2]][x[3]].list)
           [] x[1] = "batch"  -> ToSet(frame[x[2]].batch)
           [] x[1] = "client" -> owned[x[2]]
           [] x[1] = "lost"   -> leaked

\* No block is handed out twice and none disappears, whatever refills and
\* flushes are under way: it is in exactly one place, a global list, a cache,
\* a batch in transit, a client, or lost with a thread that ended; and no list
\* has it twice.
BlocksConserved ==
  /\ \A b \in Blocks : \E x \in Places : {y \in Places : b \in At(y)} = {x}
  /\ \A p \in Pools : IsInjective(global[p])
  /\ \A t \in Threads : /\ IsInjective(frame[t].batch)
                        /\ \A s \in Slots : IsInjective(cache[t][s].list)

\* alloc fails although other caches hold free blocks, but only so many: where
\* no two pools share a slot, a thread with nothing in its cache is refused
\* only if at most 2 * batch_size + 1 blocks of the pool per other thread are
\* neither with clients nor lost with ended threads.
FailureBound ==
  \A t \in Threads :
    /\ frame[t].pc = "pop_bulk" /\ frame[t].batch = <<>>
    /\ Current(t).list = <<>> /\ global[Current(t).pool] = <<>>
    => Cardinality(Region(Current(t).pool) \ (leaked \cup UNION {owned[u] : u \in Threads}))
         <= (Cardinality(Threads) - 1) * (high_watermark(Current(t)) + 1)

\* The caches hand out and take back blocks as their clients expect.
Contract == INSTANCE BlockPool WITH Threads <- Threads, Blocks <- Blocks, owned <- owned
ImplementsBlockPool == Contract!Spec

\* A block is handed out by the pool in whose region it lies.
ServedFromOwnRegion ==
  \A t \in Threads : \A b \in owned[t] : Home[b] = source[b]

\* A destroyed allocator is not used any more: no call works on one of its
\* global lists, and no block of its freed regions is handed out.
LiveMemoryOnly ==
  \A t \in Threads :
    /\ \A b \in owned[t] : Home[b] \in alive
    /\ frame[t].pc # "idle" => Current(t).pool \in alive
=============================================================================
