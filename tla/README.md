# A TLA+ verification of pool-memalloc

pool-memalloc is a C++ library of fixed-size block allocators: a lock-free
freelist, a bitmap, and allocators built from them (per-thread caches, size
classes, NUMA pools). This directory holds TLA+ models of the allocators, the
TLC configurations that check them on small instances, and TLAPS proofs for
every number of threads and blocks.

## Inventory

| Component | State | Operations | What makes it correct |
|---|---|---|---|
| `FreelistAllocator` | `head` (pointer and tag, one 16-byte atomic), the `next` word in each free block, `bulk_lock` | `push`, `pop` (lock-free loops), `push_bulk`, `pop_bulk` (loops of these under the mutex) | the list is never cut, cyclic or joined to a held block; no block is lost or handed out twice; no ABA; batches are terminated chains |
| `BitmapAllocator` | array of atomic words, atomic `m_hint` | `alloc` (scan, compare-and-swap, undo), `dealloc` | a bit is set exactly while its block is held; spare bits do not leak; failure is justified |
| `ThreadCache`, `ThreadLocalFreelistAllocator` | per thread: list, size, watermarks, pointer to a global list | `alloc`, `dealloc`, `refill`, `flush`, `get_cache` | size matches the list; blocks are conserved; hoarding is bounded; caches of different pools are separate |
| `ThreadLocalBitmapAllocator` | regions (bitmap, plain `hint`), thread counter, process-wide `t_region_index` | `assign_region`, `alloc`, `dealloc` | as the bitmap, per region; the index is valid for the instance |
| `MultiSizeAllocator` | five thread-cached pools | `class_index`, `alloc(size)`, `dealloc(ptr, size)` | a request gets a block at least as large |
| `NumaAllocator`, `numa` | pools per node, caches per thread and node | `node_count`, `current_node`, `alloc` with fallback, `dealloc`, `owner_node` | a block returns to the pool that owns it; other nodes are used only when the local one is empty, and all of them are |
| `alloc_stats.hpp` | per-thread counters, per-thread set of live pointers | macros on alloc and dealloc | double frees are reported, correct frees are not |
| benchmarks | a queue with a mutex and a `done` flag; argument parsing | producer, consumer, loops | the benchmark ends; no block is freed twice; which blocks may stay unfreed |

The components call each other downwards only: size classes and NUMA pools
call caches, caches call a global freelist's bulk operations. There are no
callbacks. Threads meet in the atomics, in `bulk_lock`, and in what clients
do with blocks: a block may be freed by another thread than the one that
allocated it. The hard behaviours are therefore interleavings of single
accesses (ABA, racing reads, snapshots used after they went stale), state
that is kept in `thread_local` variables although it belongs to an object,
and exhaustion. PROJECT.json lists each such hazard at its line.

## Modules

| Module | Models |
|---|---|
| `BlockPool` | abstract: what every allocator promises its clients |
| `LifoPool` | abstract: the global freelist as an atomic stack |
| `Freelist` | `FreelistAllocator`, one action per access to shared state |
| `Bitmap` | `BitmapAllocator`, one action per access to bitmap or hint |
| `ThreadCache` | `ThreadCache` over atomic stacks: the part shared by the next three |
| `TlFreelist` | `ThreadLocalFreelistAllocator` |
| `MultiSize` | `MultiSizeAllocator` |
| `Numa` | `NumaAllocator` and namespace `numa` |
| `TlBitmap` | `ThreadLocalBitmapAllocator`, its regions instances of `Bitmap` |
| `AllocStats` | counters and debug checks around `TlFreelist` |
| `ProducerConsumer` | the benchmark of that name over `BlockPool` |
| `FreelistProofs` | the proofs about `Freelist` |
| `BitmapProofs` | the proofs about `Bitmap`, stated so that they serve every region of `TlBitmap` |
| `ThreadCacheProofs` | lemmas about `ThreadCache` for the next three |
| `TlFreelistProofs` | the proofs about `TlFreelist` and `AllocStats` |
| `MultiSizeProofs` | the proofs about `MultiSize` |
| `NumaProofs` | the proofs about `Numa` |
| `TlBitmapProofs` | the proofs about `TlBitmap` |
| `ProducerConsumerProofs` | the proofs about `ProducerConsumer` |
| `MC...` | instances for TLC |

The layers fit together by refinement and composition. `Freelist` implements
`LifoPool` (checked and proved), so `ThreadCache` takes a push or a pop of a
global list as one step. `TlFreelist`, `MultiSize` and `Numa` extend
`ThreadCache` with their calls, and `AllocStats` extends `TlFreelist`.
`TlBitmap` instantiates `Bitmap` once per region. `Bitmap`, `TlFreelist` and
`TlBitmap` implement `BlockPool` (checked and proved), `Freelist`, `MultiSize`
and `Numa` too (proved), and `ProducerConsumer` uses the allocator as
`BlockPool` demands (checked and proved).

### Freelist

`head`, `next` and `bulk_lock` are the fields of the class. `frame[t]` holds a
thread's program point and locals; `owned[t]` is the set of blocks that the
thread has, as a client or in the middle of an operation. `stack` is auxiliary:
the free blocks in the order the list should have, updated at the successful
compare-and-swaps. It exists only to state that the linked list is that
sequence (`FreeListIntact`) and as the refinement mapping to `LifoPool`.

- `PushLoad`, `PushCas`, `PushCasFail` are the loop of `push`; `PopLoad`,
  `PopEmpty`, `PopNext`, `PopCas`, `PopCasFail` that of `pop`. A weak
  compare-and-swap may fail at any time, so the two `...Fail` actions have no
  guard on the head.
- `PopNext` is the read of `old_head.ptr->next`. If some thread holds that
  block, the read races with its writes, and any value (`Wild` included: no
  address of a block) may come out.
- `push_bulk` and `pop_bulk` run the same push and pop actions while the
  thread holds `bulk_lock`; `AfterPush` and `ExtendBatch` are what they do
  between two calls. Reads and writes of the caller's own blocks are folded
  into the neighbouring shared access.
- The clients (`CallPush`, ..., `Handoff`) push only blocks they hold and hand
  `push_bulk` a chain of such blocks, as `ThreadCache::flush` does.

A `FreelistAllocator` does not know how large its blocks are. `Overlap` names,
for each block, the blocks whose `next` words share bytes with it, and `Stored`
is the assignment `b->next = v`: it leaves garbage in those words. The run and
the proofs assume `BlocksApart` (no such blocks), because that is what the
callers of `push_bulk` and `pop_bulk` guarantee: blocks of the caches are at
least `sizeof(FreeBlock)` bytes, 64 (tl_freelist_allocator.cpp:131-138,
numa_allocator.cpp:14). The repository's README notes that the "freelist
bulk-transfer implementation still needs correctness work under  tiny
allocation sizes ( <=4)" (src/README.md:285). Read as sizes of blocks, such
blocks cannot reach the bulk operations, but they reach `push` and `pop`: the
freelist benchmarks cut the pool into blocks of `--size` bytes without a
minimum (producer_consumer.cpp:51-55), and below the size of a pointer the
second push already damages the list (`MCFreelist_tiny`, under Further
observations). Read as short lists and batches, the note is not confirmed:
`BatchSound` holds in the run for batches of 0, 1 and 2 blocks, with lists that
run out in the middle of a batch, and `BatchesSound` proves it for every
number of blocks and every batch.

Interleaving of atomic steps is adequate for the memory orders in the code:
links are written before a release compare-and-swap on `head` and read after
an acquire load of `head`; every later modification of `head` is a
read-modify-write and so continues the release sequence. The tag is an
unbounded number in the model; wrap-around of the 64-bit tag within one
compare-and-swap loop is taken as impossible.

### Bitmap

A word is the set of its set bits. `AllocLoad`, `AllocCas`, `AllocCasFail`,
`Undo`, `AllocHint` follow the two nested loops of `alloc`; `Dealloc` is the
`fetch_and`, `DeallocHint` the store after it. A pointer is represented by its
block index; `GlobalIndex`, `WordIndex` and `BitIndex` keep the code's
arithmetic. `spent` is auxiliary: the words that had no free block at some
moment of a thread's scan.

With a partial last word `alloc` returns `nullptr` as soon as it claims a bit
beyond the last block (bitmap_allocator.cpp:102), although words that it has
not probed may have free blocks. `FailureJustified` states exactly what is
left: the last word was exhausted. The hint does not move on failure, so the
following calls start at the same word. The README's thread-local bitmap
example uses 125'000 blocks, which is not a multiple of 64.

### ThreadCache and TlFreelist

`global[p]` is the global list of pool `p` (an atomic stack). The caches are
`thread_local` variables, and what matters about such a variable is which
pools share it: `Slot[p]` names it, and `cache[t][Slot[p]]` is the cache that
`get_cache` finds when thread `t` uses pool `p`, bound to the pool of its
first use. `Alloc` and `Dealloc` are the local parts; `RefillLock`,
`RefillPop`, `RefillEmpty`, `RefillUnlock` are `refill` with `pop_bulk` inside
it, `FlushLock`, `FlushPush`, `FlushUnlock` are `flush` with `push_bulk`.
`Exit` is the end of a thread: `~ThreadCache` is defaulted, so the cached
blocks are lost (`leaked`). `Destroy` is the destructor of an allocator: its
pools leave `alive`, the caches stay. A client returns a block to the
allocator it got it from (`source`) and destroys an allocator only when it
holds none of its blocks and no call is in progress.

In `TlFreelist` all pools have the same slot, because `get_cache` declares the
cache in a member function.

### MultiSize

Five pools with one slot. Sizes are the code's numbers: `class_index`,
`align_up` and the minimum of `sizeof(FreeBlock)` (64, by its alignment)
decide how large the blocks of a class are. `LargeEnough` compares the request
with the block that came out. `Asks[t]` are the sizes that thread `t` asks for
and returns. A cache mixes the blocks of all classes that its thread uses, and
returns them to the list of the class it is bound to, where other threads find
them; so `LargeEnough` depends on what the threads ask for. It holds if each
thread keeps to sizes that are served with blocks of one size
(`OneBlockSize`): the classes of 16, 32 and 64 bytes all have blocks of 64
bytes, those of 128 and 256 have their own. A thread that asks for 64 and for
65 bytes may get too small a block, see Findings.

### Numa

A pool is a pair of an allocator and a node, its slot the node
(`cache_key`). `node_count` (which looks at the numbers 0 to 255 and stops at
the first without a directory) and `current_node` follow the Linux branches: the
directories in sysfs, the processors with their node and package, and the
addresses that mmap returned (0: none) are constants; that a query of
`current_node` fails is a choice. `NAlloc` gives `ThreadCache` the pools in
the order in which `alloc` tries them (`Order`; `Tried(n, i)` is the i-th
node when `n` is the local one), and `NFallback` goes on to
the next. Other threads run between two attempts, so "every node was empty"
means: each at some moment of the call, which the auxiliary `call[t].dry`
records. A block is an address, so that `owner_node` has something to search.

### TlBitmap

A region is a pair of an allocator and an index. `region_index[t]` is the
static `thread_local` `t_region_index`, `thread_counter[a]` the allocator's
counter. The scan is that of `Bitmap`, whose operators are used through the
instance `W`; `Reg(r)` sees region `r` as a `Bitmap`, so that its invariants
can be stated of every region. The hint is a plain variable: a read while
another thread is about to write it may give the index of any word. An index
that is no region of the allocator leads to the state `"undefined"`.

`AllocStart` takes the `fetch_add` of `assign_region` and the read of the hint
as one step. Nothing is lost by that: the counter is used by nothing but
`assign_region` and the index by its own thread alone, so what other threads do
between the two accesses is the same if the assignment comes just before the
read; and a scan is right from any word.

### AllocStats

With both macros defined. Each action of `TlFreelist` that the macros are in
gets its effect on the counters and on the thread's set of live pointers.
`issued[t]` and `strayed` are auxiliary: the blocks that `alloc` gave to thread
`t` and nobody has freed since, whoever holds them, and the blocks that were
ever freed by another thread than the one `alloc` gave them to. `DetectorExact`
says that the detector knows `issued[t]`, so that a thread's own frees are
never reported, and that everything it gets wrong (reports of correct frees,
pointers left in a set) is about `strayed` blocks. The warning for `dealloc(nullptr)`
(alloc_stats.hpp:80) cannot appear, since `ThreadCache::dealloc` returns
before it (tl_freelist_allocator.cpp:105).

### ProducerConsumer

The two threads, the queue (its operations are critical sections) and the flag
`done`. The allocator is `BlockPool` and may refuse a request although blocks
are free: they may be in the consumer's cache, or in words or regions that the
bitmap allocators did not look at. `late` is auxiliary: what was queued since the consumer's last look at
the queue.

## Runs

| Run | Instance | Properties |
|---|---|---|
| `freelist` | 2 threads, 2 blocks no smaller than a pointer | `TypeOK`, `FreeListIntact`, `BlocksPartitioned`, `TagNamesHead`, `CommitsFreshLink`, `BatchSound`, `ImplementsLifoPool`, `CallsReturn` |
| `bitmap_ragged` | 3 threads, 3 blocks in 2 words of 2 bits (one spare bit) | `TypeOK`, `BitsMatchOwners`, `SpareBitsReturned`, `FailureJustified`, `ImplementsBlockPool` |
| `bitmap_exact` | 2 threads, 4 blocks in 2 full words | `FailureJustified` without its exception, `CallsReturn` |
| `tl_freelist_caches` | 2 threads, 6 blocks, batch 2 | `TypeOK`, `SizeExact`, `BlocksConserved`, `FailureBound`, `ImplementsBlockPool` |
| `multi_size_classes` | 2 threads, a block per class, batch 1, one thread with requests of 0, 16, 17 and 64 bytes, the other with 65, 128 and 257 | `LargeEnough`, `BlocksConserved` |
| `multi_size_large` | the same, with 64, 65 and 257 bytes from both threads | `LargeEnough` is violated, see Findings |
| `numa_fallback` | 2 threads, 3 nodes (one without memory) of 2 blocks, batch 0 | `BlocksAtHome`, `BlocksConserved`, `FailureBound`, `FallbackJustified` |
| `numa_destroyed` | 2 allocators, 2 nodes | `LiveMemoryOnly` is violated, see Findings |
| `tl_bitmap_shared_region` | 2 threads, 1 region of 3 blocks in 2 words | `TypeOK`, `RegionsSound`, `FailureJustified` |
| `tl_bitmap_regions` | 3 threads, 2 adjacent regions of 1 block and a spare bit, at most 6 indexes assigned before the last thread may end | `RegionsSound`, `EvenSharing`, `ImplementsBlockPool` |
| `alloc_stats_books` | 2 threads, 3 blocks, batch 1 | `StatsBalance`, `DetectorExact` |
| `producer_consumer` | 3 blocks, 4 operations | `LeftoversLate`, `Terminates`, `KeepsContract` |

Bounds. `MaxTag` stops new calls of the freelist once the tag has reached it.
The shortest ABA pattern needs two blocks and five operations (push, push,
pop, pop, push against a pending pop); the bound 6 exceeds it. `MaxBatch` 2
gives batches with an inner link. Longer lists are covered by the proofs.
`MaxAssigned` (a thread ends only while fewer threads have had an index) lets
the counter of `TlBitmap` wrap around several times, `MaxCount` (the allocs and deallocs
that a thread counts) lets every thread refill, flush and free a block of
another one; `Ops` exceeds the number of blocks, so that the pool runs empty.
The other models need no bound. Six blocks with batch 2 exceed the hoarding
bound of two threads (five), and two blocks per node with batch 0 exceed it
(one), so `FailureBound` is not satisfied by lack of blocks. In
`numa_fallback` a region begins where that of a node with a smaller number
ends, as do the regions in `tl_bitmap_regions`, so that a wrong border sends
a block to the wrong node. With batch 0 the caches of `numa_fallback` stay
empty between calls; cached blocks of several nodes are in `MCNuma_destroyed`
and, for every batch, in the proofs. In `multi_size_classes` the sizes are
the borders of the classes (class 0, 1 and 2; class 3; none), and the thread
with small requests may be bound to any of three classes. The nodes are numbered 0, 1, 2 and 4, so that one
lies behind a gap. Symmetry is used with invariants and with properties of
single steps that treat all threads and blocks alike, never with liveness.

Fairness. A thread inside an operation is assumed to run on (weak fairness of
`Step(t)` in `Freelist` and `Bitmap`, of `Producer` and `Consumer` in
`ProducerConsumer`). For compare-and-swaps, that weak failures are sporadic:
in `Freelist` strong fairness of the two successful swaps (the loop leaves the
program point of the swap on failure), in `Bitmap` weak fairness of
`AllocCas(t)`. The mutex is not assumed fair: a thread that waits for
`bulk_lock` may wait as long as others keep locking it, and `CallsReturn` does
not claim otherwise. In `Freelist` the contention is finite by `MaxTag`; in
`Bitmap` the property says so itself (if the bitmap eventually stops changing,
every call returns), which is lock-freedom. `Terminates` needs only that
both threads run on, since the producer counts failed attempts too.

## Findings

- `multi_size_large`: a thread that asks a `MultiSizeAllocator` for 64 bytes,
  frees them and asks for 65 bytes gets the block of 64 bytes. The cache in
  `get_cache` is one per thread (tl_freelist_allocator.cpp:179), so the
  classes share it.
- `numa_destroyed`: the caches of a thread are keyed by node and outlive the
  allocator (numa_allocator.cpp:83). A thread allocates from one
  `NumaAllocator` and frees the block, which stays in its cache; the allocator
  is destroyed; the thread's next `alloc`, of another `NumaAllocator`, returns
  the cached block of the unmapped region.

### Further observations

Each is a property that is stated in the modules and violated in the
configuration named with it.

| Configuration | Property | Observation |
|---|---|---|
| `MCFreelist_tiny` | `FreeListIntact` | With blocks smaller than a pointer the link that `push` writes into a block overwrites that of the block below it (freelist_allocator.cpp:21); the freelist benchmarks accept such sizes (producer_consumer.cpp:54). |
| `MCTlFreelist_two_pools` | `ServedFromOwnRegion` | A thread that uses two `ThreadLocalFreelistAllocator` objects gets blocks of the first one from the second (tl_freelist_allocator.cpp:179). |
| `MCNuma_two_allocators` | `BlocksAtHome` | With two `NumaAllocator` objects, dealloc does not "Return to the pool that owns this block" (numa_allocator.cpp:121). |
| `MCNuma_packages` | `LocalFirst` | `current_node` returns the package of the processor (numa_utils.cpp:67): where a package has several nodes, alloc does not "Try NUMA-local pool first" (numa_allocator.cpp:99). |
| `MCNuma_node_gap` | `NodeCounted` | `node_count` stops at the first number without a directory (numa_utils.cpp:41); a node beyond it has no pool. |
| `MCTlBitmap_thread_churn` | `RegionPerThread` | The counter of threads never goes down (tl_bitmap_allocator.cpp:68): a thread that replaces an ended one may share the region of a running one while another region is unused. |
| `MCTlBitmap_out_of_range` | `RegionInRange` | The index of a thread, assigned by an allocator with more regions, is past the end of `m_regions` in one with fewer (tl_bitmap_allocator.cpp:106). |
| `MCAllocStats_cross_thread` | `ReportsGenuine` | A correct dealloc by another thread than the allocating one is reported as a double free (alloc_stats.hpp:83); the tl_freelist producer/consumer benchmark does this with every block. |

## Proofs

Every theorem holds for all values of the constants that satisfy the named
assumptions, which TLC evaluates on every run. They say no more than the code
or its construction does: nil values are no blocks, pools or threads; a pool
has finitely many blocks (`PoolsAssumption`); sizes and counts are natural
numbers and a region has at least one block (`SizesAssumption`,
`RegionsAssumption`); the threads of `TlBitmap` are finitely many
(`ThreadsAssumption`); the regions that `aligned_alloc` and `mmap` returned do
not overlap, and none lies so low that a node without memory, whose base is
null, seems to own its addresses (`RegionsAssumption`, `NumaAssumption`);
caches have the slots that `get_cache` gives them.

| Module | Theorem | Statement |
|---|---|---|
| `FreelistProofs` | `TypeCorrect`, `ListIntact`, `Partition`, `NoABA`, `TagsUnique`, `BatchesSound` | `[]TypeOK`, `[]FreeListIntact`, `[]BlocksPartitioned`, `[]CommitsFreshLink`, `[]TagNamesHead`, `[]BatchSound`, if `BlocksApart` |
| | `Refinement`, `KeepsContract` | `ImplementsLifoPool`; the specification of `BlockPool`; if `BlocksApart` |
| `BitmapProofs` | `TypeCorrect`, `NoSharedBlock`, `SpareBits`, `FailuresJustified` | `[]TypeOK`, `[]BitsMatchOwners`, `[]SpareBitsReturned`, `[]FailureJustified` |
| | `Refinement` | `ImplementsBlockPool` |
| `TlFreelistProofs` | `TypeCorrect`, `SizesExact`, `Conservation` | `[]TypeOK`, `[]SizeExact`, `[]BlocksConserved` |
| | `Refinement` | `ImplementsBlockPool` |
| | `FailuresLimited` | `[]FailureBound`, for one allocator and finitely many threads |
| | `OneAllocatorServesItself` | `[]ServedFromOwnRegion`, for one allocator |
| | `BooksBalance`, `DetectorSound` | `[]StatsBalance`, `[]DetectorExact` of `AllocStats` |
| `NumaProofs` | `Conservation`, `Refinement` | `[]BlocksConserved`, `ImplementsBlockPool` |
| | `AtHome`, `FailuresLimited`, `NodesInOrder` | `[]BlocksAtHome`, `[]FailureBound` (finitely many threads) and the action property `FallbackJustified`, for one allocator |
| `MultiSizeProofs` | `Conservation`, `Refinement` | `[]BlocksConserved`, `ImplementsBlockPool` |
| | `RequestsFit` | `[]LargeEnough`, if each thread's requests are served with blocks of one size |
| `TlBitmapProofs` | `TypeCorrect`, `NoSharedBlock`, `FailuresJustified` | `[]TypeOK`, `[]RegionsSound`, `[]FailureJustified` |
| | `Refinement` | `ImplementsBlockPool` |
| | `SharedEvenly` | `[]EvenSharing` (which speaks of the only allocator of a program) |
| `ProducerConsumerProofs` | `LeftoversBounded`, `Refinement` | `[]LeftoversLate`, `KeepsContract` |

The hypotheses of some theorems (`BlocksApart`, one allocator, `OneBlockSize`)
are not there for the provers: without them the statements are false. For
`FreeListIntact`, `LargeEnough`, `ServedFromOwnRegion` and `BlocksAtHome` the
configurations under Findings show it. `FallbackJustified` is violated in the
instance of `MCNuma_two_allocators` too, since a cache may be bound to the
other allocator's list. `FailureBound` fails when a thread whose cache belongs
to one allocator frees the blocks of another: they end on a list that the
other never looks at. That the threads are finitely many is needed because
`FailureBound` counts them.

### Freelist

None of the properties is inductive alone: that a swap commits the right link
needs that the head block is held by nobody, which needs that the list is
intact, which needs that swaps commit the right link. `IInv` is the
conjunction of the shared facts (types, `FreeListIntact`, `BlocksPartitioned`)
and, per thread, `ThreadOK`: what the thread relies on at its program point.
`ThreadOK` takes the shared state as arguments, so one lemma (`OtherThread`)
shows that a thread's facts survive any step of another thread that (1) moves
the head only to a larger tag, (2) writes no block of the thread, nor the head
block while it stays the head, and (3) does not touch the thread's hold on the
lock. Three lemmas put this to use, one per shape of step: `FrameStep` (local
steps), `OwnWriteStep` (writes to own blocks and the lock), `HeadStep`
(successful swaps); then there is one lemma per action. The refinement follows
from `IInv`: when `PopCas` fires, the block it returns is the head of `stack`.

### Bitmap and TlBitmap

The invariant `Sound(words, fr, ow, sp)` speaks of values (the words, the
frames, the blocks held, the words seen exhausted), not of the variables.
Beside `BitsMatchOwners` it says that no two threads are about to clear the
same spare bit (without this one `Undo` could clear what another one still
claims), that every set spare bit has such a thread, and `ThreadOK`: a scan
knows every word that is exhausted now and every word it has passed, a thread
at `cas` has seen a word with a clear bit, a thread at `undo` has a spare bit
that is set. There is one lemma per effect (`StartStep`, `ScanStep`,
`ClaimStep`, `GiveUpStep`, `ReturnStep`, `PassOnStep`). That only the last
word has spare bits, and that a block and its bit determine each other, is
arithmetic on `div` and `mod` (`BlockBit`, `BitBlock`, `WordCountFits`).

`TlBitmapProofs` uses these lemmas through the instance `WP`. Its invariant
says that every region is `Sound` with the frames of the threads that are in a
call on it (all other threads count as idle there), and that a thread inside a
call has a region. The new facts are that a pointer belongs to one region and
one block of it (`OnePlace`), that `dealloc` finds that region (`FindFinds`),
and that a step touches only the region of its call (`StepInRegion`,
`OtherRegion`). The racing read of the hint does no harm since `StartStep`
holds for any word. `EvenSharing` is inductive: an assignment adds one thread
to an index and one turn of the round-robin to the same index (`TurnsGrow`),
and the end of a thread only lowers the number of sharers.

### ThreadCache and what is built from it

`IInv` of `ThreadCacheProofs` partitions the blocks among places
(`Partition`), says that no list repeats a block, that sizes are exact, in
which program points a batch is in transit (`FrameOK`), and that each cache
with its batch stays within the watermarks (`Marks`), which `FailureBound`
rests on. Every step of a thread is shown to be a `LocalStep`: it moves blocks
among the global list, the thread's cache, its batch and its client, and
nothing else. This is where `alloc`, `refill`, `dealloc` and `flush` are
followed list by list. All of it holds whatever pools share a slot.

`TlFreelist`, `MultiSize` and `Numa` show that their calls are `Alloc` and
`Dealloc` of `ThreadCache`. Where pools do not share a slot, `Homed` (lists,
caches and batches have only blocks of their pool) is invariant as well;
`AtHome` and the bound on failures follow. `NodesInOrder` needs, in addition,
what a call that has gone on to its i-th node knows: the nodes tried before
were found empty (`CallsOK`), which in turn needs that `Order` lists every
node once (`Tried`). The books of `AllocStats` balance because each step
changes cache, counters and the number of blocks in a flush together
(`BookStep`). For the detector, the invariant adds that issued blocks are with
some thread and were given to one thread only (`IssuedOnce`), which rests on
the contract: a block that is handed out was with nobody (`NewWasFree`).

`RequestsFit` needs an invariant of its own, `Sized`: every global list has
blocks of one size, a thread's cache and the batch of its call have blocks of
the size that its requests are served with, and a block that a client holds
(it may come from another thread) is as large as those of the class it was
asked for.

### ProducerConsumer

`IInv`: a block is in one place and once in the queue (`InOnePlace`), a thread
has a block just where the code uses it, and `Signalled`: `done` is set
exactly when the producer has ended, and a consumer that has found the queue
empty has since then missed only what is in `late`.

### Only model-checked

- Liveness, which is out of the prover's reach: `CallsReturn` of `Freelist`
  and of `Bitmap`, `Terminates` of `ProducerConsumer`.
- The counterexamples: `LargeEnough` for mixed sizes, `LiveMemoryOnly`,
  and the table of observations. `LocalFirst`, `NodeCounted`,
  `RegionPerThread`, `RegionInRange` and `ReportsGenuine` are stated only to be violated.

## Not modelled

- The benchmarks other than producer/consumer: loops around alloc and dealloc,
  argument parsing, timing and printing. The `malloc` and `mimalloc` variants
  exercise third-party code.
- The destructors of `BitmapAllocator` and `ThreadLocalBitmapAllocator`: they
  release memory and nothing refers to them afterwards, except
  `t_region_index`, which `TlBitmap` keeps when an allocator is not used any
  more.
- Constructors that run out of memory: an exception leaves no object;
  the thread-local bitmap allocator does not check, and what it does without
  memory is undefined.
- The Windows branches of `numa_utils.cpp`, and `mbind`, whose failure is
  ignored.
- `alloc_stats_dump`, which prints.
- Weak memory: interleavings of atomic accesses, for the reason given under
  Freelist. In the bitmaps every word is its own atomic and all changes are
  read-modify-writes; the hint needs no order.

## Plan

All safety properties that the runs check are proved. What is left:

- a theorem that relates the layers of the thread-cached allocators: a
  `ThreadCache` whose global lists are `Freelist`s rather than atomic stacks
  (its steps on `global` are `LifoPool`'s);
- what holds of two allocators in one program, stated positively: which
  blocks a thread's shared cache may mix, and that no list of a living
  allocator is damaged by it.
