----------------------------- MODULE TlFreelist -----------------------------
(***************************************************************************)
(* ThreadLocalFreelistAllocator (include/tl_freelist_allocator.hpp,        *)
(* src/tl_freelist_allocator.cpp): a pool with its region.  get_cache      *)
(* declares the cache as a thread_local variable of a function, so a       *)
(* thread has ONE cache for all the allocators of the program, bound for   *)
(* life to the allocator that the thread called first.                     *)
(***************************************************************************)
EXTENDS ThreadCache

ASSUME OneCachePerThread == \A p, q \in Pools : Slot[p] = Slot[q]

\* ThreadLocalFreelistAllocator::alloc and dealloc.  A client returns a block
\* to the allocator it got it from.
Call(t) ==
  \/ \E p \in Pools : Alloc(t, <<p>>)
  \/ \E b \in Blocks : Dealloc(t, b, source[b])

Next ==
  \/ \E t \in Threads : Call(t) \/ Step(t) \/ Client(t)
  \/ \E p \in Pools : Destroy({p})
  \/ Ended

Spec == Init /\ [][Next]_vars
=============================================================================
