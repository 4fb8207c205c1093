------------------------------ MODULE Freelist ------------------------------
(***************************************************************************)
(* FreelistAllocator (include/freelist_allocator.hpp,                      *)
(* src/freelist_allocator.cpp): a lock-free stack of free blocks.  The     *)
(* head is a pointer and a tag that change together in one 16-byte         *)
(* compare-and-swap; a free block's first word is the link to the block    *)
(* below it.  push and pop are lock-free loops; push_bulk and pop_bulk     *)
(* call them in a loop while they hold bulk_lock, which push and pop       *)
(* themselves never take.                                                  *)
(*                                                                         *)
(* One action is one access to state that other threads can see.  Work on  *)
(* blocks the thread itself holds is folded into the neighbouring access:  *)
(* no other thread's step depends on it, because what a thread reads from  *)
(* a block another thread holds is arbitrary (LinkValues).                 *)
(*                                                                         *)
(* The allocator takes any address for a block.  Overlap says which blocks *)
(* are so close that their next words share bytes: none if the blocks are  *)
(* at least as large as a pointer (BlocksApart), as the ThreadCaches and   *)
(* the default benchmark size make them.                                   *)
(***************************************************************************)
EXTENDS Integers, SequencesExt

CONSTANTS
  Threads,   \* the threads that share the allocator
  Blocks,    \* the blocks of the region
  Overlap,   \* Overlap[b]: the other blocks whose next word shares bytes with b's
  Nil,       \* nullptr
  Wild,      \* a bit pattern that is the address of no block
  MaxTag,    \* bound: no call starts once the tag has reached MaxTag
  MaxBatch   \* bound: the longest batch a client pushes or asks for

ASSUME ConstantsAssumption ==
  /\ Nil \notin Blocks /\ Wild \notin Blocks /\ Nil # Wild
  /\ Nil \notin Threads
  /\ Overlap \in [Blocks -> SUBSET Blocks]
  /\ \A b \in Blocks : b \notin Overlap[b]
  /\ MaxTag \in Nat /\ MaxBatch \in Nat

VARIABLES
  head,       \* std::atomic<TaggedPtr> head
  next,       \* next[b]: the FreeBlock::next word at the start of block b
  bulk_lock,  \* the thread that holds the mutex bulk_lock, or Nil
  frame,      \* frame[t]: where thread t is, and its local variables
  owned,      \* owned[t]: the blocks thread t holds (client or mid-operation)
  stack       \* auxiliary: the free blocks in the order the list should have

vars == <<head, next, bulk_lock, frame, owned, stack>>

\* Every block has a next word of its own: it is no smaller than a pointer.
BlocksApart == \A b \in Blocks : Overlap[b] = {}

Pointers  == Blocks \cup {Nil}
TaggedPtr == [ptr : Pointers, tag : Nat]

PushPoints == {"push_load", "push_cas"}
PopPoints  == {"pop_load", "pop_next", "pop_cas"}
PCs == {"idle", "push_bulk", "pop_bulk", "unlock"} \cup PushPoints \cup PopPoints

\* The locals of the four operations: old_head; the value read from
\* old_head.ptr->next; push's node; push_bulk's next; the batch (the blocks
\* push_bulk has yet to reach, or pop_bulk's start..tail); pop_bulk's n.
Frame == [pc : PCs, old_head : TaggedPtr, link : Pointers \cup {Wild},
          node : Pointers, rest : Pointers, batch : Seq(Blocks), n : Nat]

Idle == [pc |-> "idle", old_head |-> [ptr |-> Nil, tag |-> 0], link |-> Nil,
         node |-> Nil, rest |-> Nil, batch |-> <<>>, n |-> 0]

First(s) == IF s = <<>> THEN Nil ELSE s[1]

\* Mutant of Retag: the tag is not advanced.
RetagStale(old, p) == [ptr |-> p, tag |-> old.tag]

Retag(old, p) == [ptr |-> p, tag |-> old.tag + 1]

\* The next words after b->next = v: a word that shares bytes with b's is left
\* with a mixture, the address of no block.
Stored(links, b, v) ==
  [c \in Blocks |-> IF c = b THEN v
                    ELSE IF c \in Overlap[b] THEN Wild ELSE links[c]]

\* compare_exchange_weak compares pointer and tag.
Matches(t) == head = frame[t].old_head

InBulk(t) == bulk_lock = t

\* The constructor, and a region whose blocks the creating thread still has
\* to push.
Init ==
  /\ head = [ptr |-> Nil, tag |-> 0]
  /\ next = [b \in Blocks |-> Wild]
  /\ bulk_lock = Nil
  /\ frame = [t \in Threads |-> Idle]
  /\ \E creator \in Threads :
       owned = [t \in Threads |-> IF t = creator THEN Blocks ELSE {}]
  /\ stack = <<>>

-----------------------------------------------------------------------------
(* The clients: a thread that is in no operation may call one.             *)

CanCall(t) == frame[t].pc = "idle" /\ head.tag < MaxTag

\* deallocation, and initialize_pool's push of each block of a new region, at
\* whatever stride the benchmark is asked for (Overlap).
CallPush(t, b) ==
  /\ CanCall(t)
  /\ b \in owned[t]
  /\ frame' = [frame EXCEPT ![t] = [Idle EXCEPT !.pc = "push_load", !.node = b]]
  /\ UNCHANGED <<head, next, bulk_lock, owned, stack>>

CallPop(t) ==
  /\ CanCall(t)
  /\ frame' = [frame EXCEPT ![t] = [Idle EXCEPT !.pc = "pop_load"]]
  /\ UNCHANGED <<head, next, bulk_lock, owned, stack>>

\* A caller of push_bulk hands over blocks it has linked from head to tail,
\* each in front of the ones before: the store to the first block is the last.
Linked(s, links) ==
  LET Hits(b) == {i \in 1..Len(s) - 1 : s[i] = b \/ b \in Overlap[s[i]]}
  IN  [b \in Blocks |-> IF Hits(b) = {} THEN links[b]
                        ELSE IF s[Min(Hits(b))] = b THEN s[Min(Hits(b)) + 1]
                        ELSE Wild]

Batches(S) == {s \in SeqOf(S, MaxBatch) : s # <<>> /\ IsInjective(s)}

CallPushBulk(t, s) ==
  /\ CanCall(t)
  /\ next' = Linked(s, next)
  /\ frame' = [frame EXCEPT ![t] = [Idle EXCEPT !.pc = "push_bulk", !.batch = s]]
  /\ UNCHANGED <<head, bulk_lock, owned, stack>>

CallPopBulk(t, n) ==
  /\ CanCall(t)
  /\ frame' = [frame EXCEPT ![t] = [Idle EXCEPT !.pc = "pop_bulk", !.n = n]]
  /\ UNCHANGED <<head, next, bulk_lock, owned, stack>>

\* A producer passes a block to a consumer through a queue of its own.
Handoff(t, u, b) ==
  /\ CanCall(t) /\ frame[u].pc = "idle" /\ t # u
  /\ b \in owned[t]
  /\ owned' = [owned EXCEPT ![t] = @ \ {b}, ![u] = @ \cup {b}]
  /\ UNCHANGED <<head, next, bulk_lock, frame, stack>>

-----------------------------------------------------------------------------
(* push                                                                    *)

PushLoad(t) ==
  /\ frame[t].pc = "push_load"
  /\ next' = Stored(next, frame[t].node, head.ptr)
  /\ frame' = [frame EXCEPT ![t] = [@ EXCEPT !.pc = "push_cas", !.old_head = head]]
  /\ UNCHANGED <<head, bulk_lock, owned, stack>>

\* Mutant of AfterPush: push_bulk reads the pushed block's link after push.
AfterPushLate(t) ==
  LET f == frame[t] IN
  IF ~InBulk(t) THEN Idle
  ELSE IF next[f.node] = Nil THEN [Idle EXCEPT !.pc = "unlock"]
  ELSE [Idle EXCEPT !.pc = "push_load", !.node = next[f.node]]

\* Where a thread goes when push returns: back to the client, to the end of
\* push_bulk, or to push_bulk's next block, whose own link it reads first.
AfterPush(t) ==
  LET f == frame[t] IN
  IF ~InBulk(t) THEN Idle
  ELSE IF f.rest = Nil THEN [Idle EXCEPT !.pc = "unlock"]
  ELSE [Idle EXCEPT !.pc = "push_load", !.node = f.rest,
                    !.rest = next[f.rest], !.batch = Tail(f.batch)]

PushCas(t) ==
  /\ frame[t].pc = "push_cas"
  /\ Matches(t)
  /\ head' = Retag(frame[t].old_head, frame[t].node)
  /\ stack' = <<frame[t].node>> \o stack
  /\ owned' = [owned EXCEPT ![t] = @ \ {frame[t].node}]
  /\ frame' = [frame EXCEPT ![t] = AfterPush(t)]
  /\ UNCHANGED <<next, bulk_lock>>

\* Mutant of PushCasFail: the retry keeps the link of the first attempt.
PushCasFailKeepsLink(t) ==
  /\ frame[t].pc = "push_cas"
  /\ frame' = [frame EXCEPT ![t] = [@ EXCEPT !.old_head = head]]
  /\ UNCHANGED <<head, next, bulk_lock, owned, stack>>

\* compare_exchange_weak may also fail when head is unchanged.
PushCasFail(t) ==
  /\ frame[t].pc = "push_cas"
  /\ frame' = [frame EXCEPT ![t] = [@ EXCEPT !.pc = "push_load", !.old_head = head]]
  /\ UNCHANGED <<head, next, bulk_lock, owned, stack>>

-----------------------------------------------------------------------------
(* pop                                                                     *)

\* Mutant of EndBatch: the last link is not cleared.
EndBatchOpen(s) == next

\* The end of pop_bulk's loop: the last block's link is cleared.
EndBatch(s) ==
  IF s = <<>> THEN next ELSE Stored(next, Last(s), Nil)

PopLoad(t) ==
  /\ frame[t].pc = "pop_load"
  /\ head.ptr # Nil
  /\ frame' = [frame EXCEPT ![t] = [@ EXCEPT !.pc = "pop_next", !.old_head = head]]
  /\ UNCHANGED <<head, next, bulk_lock, owned, stack>>

\* Mutant of PopEmpty: a return path that keeps bulk_lock locked.
PopEmptyKeepsLock(t) ==
  /\ frame[t].pc = "pop_load"
  /\ head.ptr = Nil
  /\ frame' = [frame EXCEPT ![t] = Idle]
  /\ UNCHANGED <<head, next, bulk_lock, owned, stack>>

\* pop finds the list empty and returns nullptr, which ends pop_bulk's loop.
PopEmpty(t) ==
  /\ frame[t].pc = "pop_load"
  /\ head.ptr = Nil
  /\ IF InBulk(t)
     THEN /\ next' = EndBatch(frame[t].batch)
          /\ frame' = [frame EXCEPT ![t] = [@ EXCEPT !.pc = "unlock"]]
     ELSE /\ frame' = [frame EXCEPT ![t] = Idle]
          /\ UNCHANGED next
  /\ UNCHANGED <<head, bulk_lock, owned, stack>>

\* What a plain read of b->next may return.  Another thread may hold b by
\* now, or a block that shares bytes with its link, and be writing to it: the
\* read is then a data race, any value at all.
LinkValues(b) ==
  IF \E t \in Threads : owned[t] \cap (Overlap[b] \cup {b}) # {} THEN Pointers \cup {Wild} ELSE {next[b]}

PopNext(t) ==
  /\ frame[t].pc = "pop_next"
  /\ \E v \in LinkValues(frame[t].old_head.ptr) :
       frame' = [frame EXCEPT ![t] = [@ EXCEPT !.pc = "pop_cas", !.link = v]]
  /\ UNCHANGED <<head, next, bulk_lock, owned, stack>>

\* pop_bulk links the popped block behind the ones it has, then asks for
\* another one or ends the batch.
ExtendBatch(t, b) ==
  LET s     == frame[t].batch
      links == IF s = <<>> THEN next ELSE Stored(next, Last(s), b)
      more  == Len(s) + 1 < frame[t].n
  IN  /\ next' = IF more THEN links ELSE Stored(links, b, Nil)
      /\ frame' = [frame EXCEPT ![t] =
           [Idle EXCEPT !.pc = IF more THEN "pop_load" ELSE "unlock",
                        !.batch = Append(s, b), !.n = frame[t].n]]

PopCas(t) ==
  LET old == frame[t].old_head IN
  /\ frame[t].pc = "pop_cas"
  /\ Matches(t)
  /\ head' = Retag(old, frame[t].link)
  /\ stack' = Tail(stack)
  /\ owned' = [owned EXCEPT ![t] = @ \cup {old.ptr}]
  /\ IF InBulk(t)
     THEN ExtendBatch(t, old.ptr)
     ELSE /\ frame' = [frame EXCEPT ![t] = Idle]
          /\ UNCHANGED next
  /\ UNCHANGED bulk_lock

PopCasFail(t) ==
  /\ frame[t].pc = "pop_cas"
  /\ frame' = [frame EXCEPT ![t] = [@ EXCEPT !.pc = "pop_load", !.old_head = head,
                                             !.link = Nil]]
  /\ UNCHANGED <<head, next, bulk_lock, owned, stack>>

-----------------------------------------------------------------------------
(* push_bulk and pop_bulk                                                  *)

PushBulk(t) ==
  LET s == frame[t].batch IN
  /\ frame[t].pc = "push_bulk"
  /\ bulk_lock = Nil
  /\ bulk_lock' = t
  /\ next' = EndBatch(s)
  /\ frame' = [frame EXCEPT ![t] = [@ EXCEPT !.pc = "push_load", !.node = s[1],
                                             !.rest = EndBatch(s)[s[1]], !.batch = Tail(s)]]
  /\ UNCHANGED <<head, owned, stack>>

PopBulk(t) ==
  /\ frame[t].pc = "pop_bulk"
  /\ bulk_lock = Nil
  /\ bulk_lock' = t
  /\ frame' = [frame EXCEPT ![t] = [@ EXCEPT !.pc = "pop_load"]]
  /\ UNCHANGED <<head, next, owned, stack>>

\* The lock_guard's destructor, on every return path of both operations.
Unlock(t) ==
  /\ frame[t].pc = "unlock"
  /\ bulk_lock' = Nil
  /\ frame' = [frame EXCEPT ![t] = Idle]
  /\ UNCHANGED <<head, next, owned, stack>>

-----------------------------------------------------------------------------
Call(t) ==
  \/ \E b \in Blocks : CallPush(t, b)
  \/ CallPop(t)
  \/ \E s \in Batches(owned[t]) : CallPushBulk(t, s)
  \/ \E n \in 0..MaxBatch : CallPopBulk(t, n)
  \/ \E u \in Threads, b \in Blocks : Handoff(t, u, b)

Step(t) ==
  \/ PushLoad(t) \/ PushCas(t) \/ PushCasFail(t)
  \/ PopLoad(t) \/ PopEmpty(t) \/ PopNext(t) \/ PopCas(t) \/ PopCasFail(t)
  \/ PushBulk(t) \/ PopBulk(t) \/ Unlock(t)

\* The clients have stopped calling (the bound MaxTag): nothing is left to do.
Quiescent ==
  /\ \A t \in Threads : frame[t].pc = "idle"
  /\ head.tag >= MaxTag
  /\ UNCHANGED vars

Next == (\E t \in Threads : Call(t) \/ Step(t)) \/ Quiescent

Spec == Init /\ [][Next]_vars

\* A thread inside an operation keeps running, and a compare-and-swap that
\* keeps being possible is not refused forever (weak failures are sporadic).
Fairness ==
  \A t \in Threads : /\ WF_vars(Step(t))
                     /\ SF_vars(PushCas(t)) /\ SF_vars(PopCas(t))

FairSpec == Spec /\ Fairness
-----------------------------------------------------------------------------
(* Properties                                                              *)

\* Every variable has its type: in particular head never holds a value that
\* is not a block's address, whatever pop's racing read of next returned.
TypeOK ==
  /\ head \in TaggedPtr
  /\ next \in [Blocks -> Pointers \cup {Wild}]
  /\ bulk_lock \in Threads \cup {Nil}
  /\ frame \in [Threads -> Frame]
  /\ owned \in [Threads -> SUBSET Blocks]
  /\ stack \in Seq(Blocks)

Chain(links, s) == \A i \in 1..Len(s) - 1 : links[s[i]] = s[i + 1]

ClosedChain(links, s) == Chain(links, s) /\ (s # <<>> => links[Last(s)] = Nil)

\* Following next from head reaches exactly the free blocks, in stack order,
\* and ends at nullptr: the list is never cut, cyclic or joined to a block
\* that a thread holds.
FreeListIntact ==
  /\ head.ptr = First(stack)
  /\ ClosedChain(next, stack)

\* No block is handed out twice and none is lost: each is on the list once
\* or held by one thread, in every interleaving of push, pop and bulk calls.
BlocksPartitioned ==
  /\ IsInjective(stack)
  /\ \A t \in Threads : owned[t] \cap ToSet(stack) = {}
  /\ \A t, u \in Threads : t # u => owned[t] \cap owned[u] = {}
  /\ \A b \in Blocks : b \in ToSet(stack) \/ \E t \in Threads : b \in owned[t]

\* A tag is never used for two different heads, and heads only get newer: a
\* compare-and-swap that fails because head changed failed because some other
\* operation completed (lock-freedom of the two loops).
TagNamesHead ==
  \A t \in Threads : frame[t].pc \in {"push_cas", "pop_next", "pop_cas"} =>
    /\ frame[t].old_head.tag <= head.tag
    /\ frame[t].old_head.tag = head.tag => frame[t].old_head = head

\* The ABA property: when a compare-and-swap would succeed, the link it is
\* about to commit, read or written earlier without synchronisation, is still
\* the right one.
CommitsFreshLink ==
  \A t \in Threads : LET f == frame[t] IN
    f.old_head = head =>
      /\ f.pc = "push_cas" => next[f.node] = head.ptr
      /\ f.pc = "pop_cas"  => f.link = next[head.ptr]

\* pop_bulk returns one block even when n is 0.
BatchLimit(n) == IF n = 0 THEN 1 ELSE n

\* The pointer walk of push_bulk reaches exactly the blocks still to push,
\* and pop_bulk returns a chain that ends in nullptr, at most n long, and
\* made of blocks the caller holds.  It needs BlocksApart, which the callers of
\* the bulk operations provide, but no least length of a batch or of the list:
\* the two readings of the repository README's "tiny allocation sizes".
BatchSound ==
  \A t \in Threads : LET f == frame[t] IN
    /\ ToSet(f.batch) \subseteq owned[t] \ {f.node}
    /\ f.pc = "push_bulk" => Chain(next, f.batch)
    /\ f.pc \in PushPoints /\ InBulk(t) =>
         ClosedChain(next, f.batch) /\ f.rest = First(f.batch)
    /\ f.pc \in PopPoints /\ InBulk(t) =>
         Chain(next, f.batch) /\ Len(f.batch) < BatchLimit(f.n)
    /\ f.pc = "unlock" => ClosedChain(next, f.batch) /\ Len(f.batch) <= BatchLimit(f.n)

\* The lock-free list implements the atomic stack.
Lifo == INSTANCE LifoPool
ImplementsLifoPool == Lifo!Spec

Waiting(t) == frame[t].pc \in {"push_bulk", "pop_bulk"}

\* Every call that is past the lock returns and releases it: each return path
\* of push_bulk and pop_bulk unlocks, and no loop spins on a head that nobody
\* changes any more.  A thread still waiting for bulk_lock is not covered: a
\* std::mutex may pass it over for as long as others keep locking.
CallsReturn ==
  \A t \in Threads :
    (frame[t].pc # "idle" /\ ~Waiting(t)) \/ InBulk(t)
      ~> frame[t].pc = "idle" /\ ~InBulk(t)
=============================================================================
