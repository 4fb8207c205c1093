----------------------------- MODULE MultiSize ------------------------------
(***************************************************************************)
(* MultiSizeAllocator (include/multi_size_allocator.hpp,                   *)
(* src/multi_size_allocator.cpp): a ThreadLocalFreelistAllocator per size  *)
(* class.  A request goes to the smallest class that is large enough; all  *)
(* the classes share a thread's one ThreadCache.  A pool is the index of a *)
(* class; sizes are bytes, as in the code.                                 *)
(***************************************************************************)
EXTENDS ThreadCache

CONSTANT Asks   \* Asks[t]: the sizes that thread t asks for, and returns

NUM_CLASSES  == 5
SIZE_CLASSES == <<16, 32, 64, 128, 256>>   \* class i is SIZE_CLASSES[i + 1]
CACHE_LINE   == 64
FreeBlock    == 64                         \* sizeof(FreeBlock), which is aligned to 64

Classes == 0..NUM_CLASSES - 1

Sizes == UNION {Asks[t] : t \in Threads}

ASSUME ClassesAssumption ==
  /\ Pools = Classes /\ Asks \in [Threads -> SUBSET Nat]
  /\ \A p, q \in Pools : Slot[p] = Slot[q]

\* The first class that fits, or NUM_CLASSES.
class_index(n) ==
  LET fits == {i \in Classes : n <= SIZE_CLASSES[i + 1]}
  IN  IF fits = {} THEN NUM_CLASSES ELSE Min(fits)

align_up(n, a) == ((n + a - 1) \div a) * a

\* The size of the blocks that ThreadLocalFreelistAllocator's constructor
\* makes for class i.
block_size(i) == align_up(Max({FreeBlock, SIZE_CLASSES[i + 1]}), CACHE_LINE)

\* A request beyond the largest class is refused, which changes nothing.
MAlloc(t, n) ==
  /\ class_index(n) < NUM_CLASSES
  /\ Alloc(t, <<class_index(n)>>)

\* Mutant of MDealloc: the block goes to the first class whatever its size.
MDeallocFirst(t, b, n) ==
  /\ class_index(n) = source[b]
  /\ Dealloc(t, b, 0)

\* A client returns a block with the size that it asked for.
MDealloc(t, b, n) ==
  /\ class_index(n) = source[b]
  /\ Dealloc(t, b, class_index(n))

MDestroy == Destroy(Classes)

Next ==
  \/ \E t \in Threads : \E n \in Asks[t] :
       MAlloc(t, n) \/ \E b \in Blocks : MDealloc(t, b, n)
  \/ \E t \in Threads : Step(t) \/ Client(t)
  \/ MDestroy
  \/ Ended

Spec == Init /\ [][Next]_vars
-----------------------------------------------------------------------------
(* Properties                                                              *)

\* A thread asks for sizes that are served with blocks of one size only.
OneBlockSize ==
  \A t \in Threads : \A m, n \in {k \in Asks[t] : class_index(k) < NUM_CLASSES} :
    block_size(class_index(m)) = block_size(class_index(n))

\* A block is at least as large as the request it was given for, whichever
\* class the cache of the thread is bound to and whichever threads, caches and
\* lists the block has been with.  (source[b] is the class of that request.)
\* The shared cache keeps it only for programs with OneBlockSize.
LargeEnough ==
  \A t \in Threads : \A b \in owned[t], n \in Sizes :
    class_index(n) = source[b] => n <= block_size(Home[b])
=============================================================================
