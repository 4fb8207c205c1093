--------------------------- MODULE FreelistProofs ---------------------------
(***************************************************************************)
(* Proofs that every behaviour of Freelist keeps the free list intact and  *)
(* the blocks partitioned, for any number of threads and blocks, and that  *)
(* the list implements the atomic stack of LifoPool.  All of it is about   *)
(* blocks that share no bytes (BlocksApart): on smaller ones a push spoils *)
(* the links of its neighbours.                                            *)
(***************************************************************************)
EXTENDS Freelist, SequenceTheorems, TLAPS

\* What holds of thread t in frame f, given the shared state it can see: the
\* head hd, the links of the blocks, its own blocks and the lock's holder.
ThreadOK(t, f, hd, links, mine, lock) ==
  /\ f \in Frame
  /\ f.pc \in {"push_cas", "pop_next", "pop_cas"} =>
       /\ f.old_head.tag <= hd.tag
       /\ f.old_head.tag = hd.tag => f.old_head = hd
  /\ f.old_head = hd => /\ f.pc = "push_cas" => links[f.node] = hd.ptr
                        /\ f.pc = "pop_cas"  => f.link = links[hd.ptr]
  /\ f.pc \in {"pop_next", "pop_cas"} => f.old_head.ptr # Nil
  /\ IsInjective(f.batch) /\ ToSet(f.batch) \subseteq mine \ {f.node}
  /\ f.pc = "idle" => f = Idle /\ lock # t
  /\ f.pc = "push_bulk" => f.batch # <<>> /\ Chain(links, f.batch)
                           /\ f.node = Nil /\ lock # t
  /\ f.pc = "pop_bulk" => f.batch = <<>> /\ f.node = Nil /\ lock # t
  /\ f.pc \in PushPoints =>
       /\ f.node \in mine
       /\ lock = t => ClosedChain(links, f.batch) /\ f.rest = First(f.batch)
       /\ lock # t => f.batch = <<>>
  /\ f.pc \in PopPoints =>
       /\ f.node = Nil
       /\ lock = t => Chain(links, f.batch) /\ Len(f.batch) < BatchLimit(f.n)
       /\ lock # t => f.batch = <<>>
  /\ f.pc = "unlock" =>
       ClosedChain(links, f.batch) /\ Len(f.batch) <= BatchLimit(f.n) /\ lock = t

SharedTypes ==
  /\ head \in TaggedPtr
  /\ next \in [Blocks -> Pointers \cup {Wild}]
  /\ bulk_lock \in Threads \cup {Nil}
  /\ DOMAIN frame = Threads /\ frame = [t \in Threads |-> frame[t]]
  /\ owned \in [Threads -> SUBSET Blocks]
  /\ stack \in Seq(Blocks)

\* The inductive invariant.
IInv ==
  /\ SharedTypes
  /\ FreeListIntact
  /\ BlocksPartitioned
  /\ \A t \in Threads : ThreadOK(t, frame[t], head, next, owned[t], bulk_lock)

-----------------------------------------------------------------------------
USE ConstantsAssumption

\* A thread in no operation has a well-typed frame.
LEMMA IdleType == Idle \in Frame
<1>1. <<>> \in Seq(Blocks) OBVIOUS
<1>2. [ptr |-> Nil, tag |-> 0] \in TaggedPtr BY DEF TaggedPtr, Pointers
<1>3. QED BY <1>1, <1>2 DEF Idle, Frame, PCs, Pointers

\* The inductive invariant types every frame and the head.
LEMMA FrameTyped ==
  ASSUME IInv, NEW t \in Threads
  PROVE  frame[t] \in Frame /\ head \in TaggedPtr
BY DEF IInv, SharedTypes, ThreadOK

\* The empty list of blocks is a closed chain.
LEMMA EmptyBatch ==
  ASSUME NEW links
  PROVE  /\ ToSet(<<>>) = {}
         /\ IsInjective(<<>>)
         /\ Chain(links, <<>>) /\ ClosedChain(links, <<>>)
BY DEF ToSet, Chain, ClosedChain, IsInjective

\* A chain depends on the links of its own blocks only.
LEMMA ChainKept ==
  ASSUME NEW links, NEW links2, NEW s \in Seq(Blocks),
         \A b \in ToSet(s) : links2[b] = links[b]
  PROVE  /\ Chain(links, s) => Chain(links2, s)
         /\ ClosedChain(links, s) => ClosedChain(links2, s)
<1>1. \A i \in 1..Len(s) : s[i] \in ToSet(s)
  BY DEF ToSet
<1>2. Chain(links, s) => Chain(links2, s)
  BY <1>1 DEF Chain
<1>3. s # <<>> => Last(s) \in ToSet(s)
  BY <1>1 DEF Last
<1> QED BY <1>2, <1>3 DEF ClosedChain

\* A store to the link of one of several blocks that share no bytes.
LEMMA StoredApart ==
  ASSUME BlocksApart, NEW links \in [Blocks -> Pointers \cup {Wild}],
         NEW b \in Blocks, NEW v \in Pointers
  PROVE  /\ Stored(links, b, v) \in [Blocks -> Pointers \cup {Wild}]
         /\ \A c \in Blocks : Stored(links, b, v)[c] = IF c = b THEN v ELSE links[c]
BY DEF Stored, BlocksApart

\* Writes to blocks outside the list leave the list as it was.
LEMMA ListKept ==
  ASSUME SharedTypes, FreeListIntact, UNCHANGED <<head, stack>>,
         \A b \in ToSet(stack) : next'[b] = next[b]
  PROVE  FreeListIntact'
<1>1. ClosedChain(next', stack)
  BY ChainKept DEF FreeListIntact, SharedTypes
<1> QED BY <1>1 DEF FreeListIntact

\* The head is a free block or null.
LEMMA HeadNotHeld ==
  ASSUME IInv, NEW t \in Threads
  PROVE  /\ head.ptr \notin owned[t]
         /\ head.ptr # Nil => /\ stack # <<>> /\ head.ptr = stack[1]
                              /\ head.ptr \in Blocks /\ head.ptr \in ToSet(stack)
<1>1. CASE stack = <<>>
  BY <1>1 DEF IInv, SharedTypes, FreeListIntact, First
<1>2. CASE stack # <<>>
  <2>1. 1 \in DOMAIN stack /\ stack[1] \in Blocks
    BY <1>2 DEF IInv, SharedTypes
  <2> QED BY <1>2, <2>1 DEF IInv, FreeListIntact, First, ToSet, BlocksPartitioned
<1> QED BY <1>1, <1>2

\* What a thread relies on survives another thread's step: heads only move
\* on to a larger tag, its own blocks are not written, nor is the head block
\* while it stays the head, and the lock neither reaches it nor leaves it.
LEMMA OtherThread ==
  ASSUME NEW u, NEW f, NEW hd \in TaggedPtr, NEW links, NEW mine, NEW lock,
         ThreadOK(u, f, hd, links, mine, lock),
         NEW hd2 \in TaggedPtr, NEW links2, NEW mine2, NEW lock2,
         hd2 # hd => hd2.tag > hd.tag,
         hd2 = hd /\ hd.ptr # Nil => links2[hd.ptr] = links[hd.ptr],
         mine \subseteq mine2,
         \A b \in mine : links2[b] = links[b],
         lock2 = u <=> lock = u
  PROVE  ThreadOK(u, f, hd2, links2, mine2, lock2)
<1>1. f \in Frame /\ f.batch \in Seq(Blocks) /\ f.old_head \in TaggedPtr
  BY DEF ThreadOK, Frame
<1>2. \A b \in ToSet(f.batch) : links2[b] = links[b]
  BY DEF ThreadOK
<1>3. /\ Chain(links, f.batch) => Chain(links2, f.batch)
      /\ ClosedChain(links, f.batch) => ClosedChain(links2, f.batch)
  BY <1>1, <1>2, ChainKept
<1>4. f.pc \in {"push_cas", "pop_next", "pop_cas"} =>
        /\ f.old_head.tag <= hd2.tag
        /\ f.old_head.tag = hd2.tag => f.old_head = hd2
  BY <1>1 DEF ThreadOK, TaggedPtr
<1>5. f.old_head = hd2 => /\ f.pc = "push_cas" => links2[f.node] = hd2.ptr
                          /\ f.pc = "pop_cas"  => f.link = links2[hd2.ptr]
  BY <1>1 DEF ThreadOK, TaggedPtr, PushPoints
<1> QED BY <1>1, <1>3, <1>4, <1>5 DEF ThreadOK

\* A step that changes nothing but the frame of t.
LEMMA FrameStep ==
  ASSUME IInv, NEW t \in Threads, NEW f,
         frame' = [frame EXCEPT ![t] = f],
         UNCHANGED <<head, next, bulk_lock, owned, stack>>,
         ThreadOK(t, f, head, next, owned[t], bulk_lock)
  PROVE  IInv'
<1>1. SharedTypes'
  BY DEF IInv, SharedTypes
<1>2. FreeListIntact' /\ BlocksPartitioned'
  BY DEF IInv, FreeListIntact, BlocksPartitioned
<1>3. \A u \in Threads : frame'[u] = IF u = t THEN f ELSE frame[u]
  BY DEF IInv, SharedTypes
<1> QED BY <1>1, <1>2, <1>3 DEF IInv

-----------------------------------------------------------------------------
\* A call of pop.
LEMMA CallPopInv ==
  ASSUME NEW t \in Threads, IInv, CallPop(t)
  PROVE  IInv'
<1> DEFINE f == [Idle EXCEPT !.pc = "pop_load"]
<1>1. ThreadOK(t, f, head, next, owned[t], bulk_lock)
  BY IdleType, EmptyBatch
  DEF IInv, CallPop, CanCall, ThreadOK, Frame, PCs, PopPoints, PushPoints, Idle
<1> QED BY <1>1, FrameStep DEF CallPop

\* A call of push, with a block the caller holds.
LEMMA CallPushInv ==
  ASSUME NEW t \in Threads, NEW b \in Blocks, IInv, CallPush(t, b)
  PROVE  IInv'
<1> DEFINE f == [Idle EXCEPT !.pc = "push_load", !.node = b]
<1>1. ThreadOK(t, f, head, next, owned[t], bulk_lock)
  BY IdleType, EmptyBatch
  DEF IInv, CallPush, CanCall, ThreadOK, Frame, PCs, PopPoints, PushPoints,
      Pointers, Idle
<1> QED BY <1>1, FrameStep DEF CallPush

\* A call of pop_bulk.
LEMMA CallPopBulkInv ==
  ASSUME NEW t \in Threads, NEW n \in 0..MaxBatch, IInv, CallPopBulk(t, n)
  PROVE  IInv'
<1> DEFINE f == [Idle EXCEPT !.pc = "pop_bulk", !.n = n]
<1>1. n \in Nat
  OBVIOUS
<1>2. ThreadOK(t, f, head, next, owned[t], bulk_lock)
  BY <1>1, IdleType, EmptyBatch
  DEF IInv, CallPopBulk, CanCall, ThreadOK, Frame, PCs, PopPoints, PushPoints, Idle
<1> QED BY <1>2, FrameStep DEF CallPopBulk

\* push retries: the link is written anew from the head it has just seen.
LEMMA PushCasFailInv ==
  ASSUME NEW t \in Threads, IInv, PushCasFail(t)
  PROVE  IInv'
<1> DEFINE f == [frame[t] EXCEPT !.pc = "push_load", !.old_head = head]
<1>1. f \in Frame
  BY FrameTyped DEF Frame, PCs, PushPoints
<1>2. ThreadOK(t, f, head, next, owned[t], bulk_lock)
  BY <1>1 DEF IInv, PushCasFail, ThreadOK, Frame, PopPoints, PushPoints
<1> QED BY <1>2, FrameStep DEF PushCasFail

\* pop loads a head that is not null.
LEMMA PopLoadInv ==
  ASSUME NEW t \in Threads, IInv, PopLoad(t)
  PROVE  IInv'
<1> DEFINE f == [frame[t] EXCEPT !.pc = "pop_next", !.old_head = head]
<1>1. f \in Frame
  BY FrameTyped DEF Frame, PCs, PopPoints
<1>2. ThreadOK(t, f, head, next, owned[t], bulk_lock)
  BY <1>1 DEF IInv, SharedTypes, PopLoad, ThreadOK, Frame, PopPoints, PushPoints,
              TaggedPtr
<1> QED BY <1>2, FrameStep DEF PopLoad

\* pop retries: the link read before is dropped.
LEMMA PopCasFailInv ==
  ASSUME NEW t \in Threads, IInv, PopCasFail(t)
  PROVE  IInv'
<1> DEFINE f == [frame[t] EXCEPT !.pc = "pop_load", !.old_head = head, !.link = Nil]
<1>1. f \in Frame
  BY FrameTyped DEF Frame, PCs, PopPoints, Pointers
<1>2. ThreadOK(t, f, head, next, owned[t], bulk_lock)
  BY <1>1 DEF IInv, PopCasFail, ThreadOK, Frame, PopPoints, PushPoints
<1> QED BY <1>2, FrameStep DEF PopCasFail

\* The racing read: if the head is still the one t loaded, the head block is
\* free, so nobody is writing to it and the read is exact.
LEMMA PopNextInv ==
  ASSUME BlocksApart, NEW t \in Threads, IInv, PopNext(t)
  PROVE  IInv'
<1>1. PICK v \in LinkValues(frame[t].old_head.ptr) :
        frame' = [frame EXCEPT ![t] = [@ EXCEPT !.pc = "pop_cas", !.link = v]]
  BY DEF PopNext
<1> DEFINE f == [frame[t] EXCEPT !.pc = "pop_cas", !.link = v]
<1>2. frame[t] \in Frame /\ frame[t].old_head.ptr \in Blocks
  BY DEF IInv, PopNext, ThreadOK, Frame, TaggedPtr, Pointers
<1>3. v \in Pointers \cup {Wild}
  BY <1>2 DEF LinkValues, IInv, SharedTypes
<1>4. f \in Frame
  BY <1>2, <1>3 DEF Frame, PCs, PopPoints
<1>5. frame[t].old_head = head => v = next[head.ptr]
  BY <1>2, HeadNotHeld DEF LinkValues, BlocksApart
<1>6. ThreadOK(t, f, head, next, owned[t], bulk_lock)
  BY <1>2, <1>4, <1>5 DEF IInv, PopNext, ThreadOK, Frame, PopPoints, PushPoints
<1> QED BY <1>1, <1>6, FrameStep DEF PopNext

\* A step of t that writes only to blocks of t, and may take or release the
\* lock for t.
LEMMA OwnWriteStep ==
  ASSUME IInv, NEW t \in Threads, NEW f,
         frame' = [frame EXCEPT ![t] = f],
         UNCHANGED <<head, owned, stack>>,
         next' \in [Blocks -> Pointers \cup {Wild}],
         \A b \in Blocks : b \notin owned[t] => next'[b] = next[b],
         bulk_lock' = bulk_lock \/ {bulk_lock, bulk_lock'} \subseteq {t, Nil},
         ThreadOK(t, f, head, next', owned[t], bulk_lock')
  PROVE  IInv'
<1>1. SharedTypes'
  BY DEF IInv, SharedTypes
<1>2. \A b \in ToSet(stack) : b \in Blocks /\ b \notin owned[t]
  BY DEF IInv, SharedTypes, BlocksPartitioned, ToSet
<1>3. FreeListIntact'
  BY <1>2, ListKept DEF IInv
<1>4. BlocksPartitioned'
  BY DEF IInv, BlocksPartitioned
<1>5. ASSUME NEW u \in Threads
      PROVE  ThreadOK(u, frame[u], head, next, owned[u], bulk_lock)'
  <2>1. CASE u = t
    BY <2>1 DEF IInv, SharedTypes
  <2>2. CASE u # t
    <3>1. \A b \in owned[u] : next'[b] = next[b]
      BY <2>2 DEF IInv, SharedTypes, BlocksPartitioned
    <3>2. head.ptr # Nil => next'[head.ptr] = next[head.ptr]
      BY HeadNotHeld
    <3>3. bulk_lock' = u <=> bulk_lock = u
      BY <2>2
    <3>4. ThreadOK(u, frame[u], head, next', owned[u], bulk_lock')
      BY <3>1, <3>2, <3>3, OtherThread DEF IInv, SharedTypes
    <3> QED BY <2>2, <3>4 DEF IInv, SharedTypes
  <2> QED BY <2>1, <2>2
<1> QED BY <1>1, <1>3, <1>4, <1>5 DEF IInv

\* push loads the head and links its node to it: nobody else relies on the
\* node's link.
LEMMA PushLoadInv ==
  ASSUME BlocksApart, NEW t \in Threads, IInv, PushLoad(t)
  PROVE  IInv'
<1> DEFINE f == [frame[t] EXCEPT !.pc = "push_cas", !.old_head = head]
<1>1. f \in Frame /\ f.node = frame[t].node /\ f.batch = frame[t].batch
  BY FrameTyped DEF Frame, PCs, PushPoints
<1>2. frame[t].node \in owned[t] /\ frame[t].node \in Blocks
  BY DEF IInv, SharedTypes, PushLoad, ThreadOK, PushPoints
<1>3. next' \in [Blocks -> Pointers \cup {Wild}]
  BY <1>2, StoredApart DEF IInv, SharedTypes, PushLoad, TaggedPtr
<1>4. \A b \in Blocks : next'[b] = IF b = frame[t].node THEN head.ptr ELSE next[b]
  BY <1>2, StoredApart DEF IInv, SharedTypes, PushLoad, TaggedPtr
<1>5. \A b \in ToSet(f.batch) : next'[b] = next[b]
  <2>1. ToSet(f.batch) \subseteq Blocks \ {frame[t].node}
    BY <1>1 DEF IInv, SharedTypes, ThreadOK
  <2> QED BY <1>4, <2>1
<1>6. /\ Chain(next, f.batch) => Chain(next', f.batch)
      /\ ClosedChain(next, f.batch) => ClosedChain(next', f.batch)
  BY <1>1, <1>5, ChainKept DEF Frame
<1>7. ThreadOK(t, f, head, next', owned[t], bulk_lock)
  BY <1>1, <1>2, <1>4, <1>6
  DEF IInv, SharedTypes, PushLoad, ThreadOK, Frame, PopPoints, PushPoints, TaggedPtr
<1>8. frame' = [frame EXCEPT ![t] = f] /\ UNCHANGED <<head, bulk_lock, owned, stack>>
  BY DEF PushLoad
<1>9. \A b \in Blocks : b \notin owned[t] => next'[b] = next[b]
  BY <1>2, <1>4
<1>10. ThreadOK(t, f, head, next', owned[t], bulk_lock')
  BY <1>7, <1>8
<1> HIDE DEF f
<1> QED BY <1>3, <1>8, <1>9, <1>10, OwnWriteStep

\* pop_bulk gets the mutex.
LEMMA PopBulkInv ==
  ASSUME NEW t \in Threads, IInv, PopBulk(t)
  PROVE  IInv'
<1> DEFINE f == [frame[t] EXCEPT !.pc = "pop_load"]
<1>1. f \in Frame /\ f.batch = <<>> /\ f.node = Nil /\ f.n \in Nat
  BY DEF IInv, PopBulk, ThreadOK, Frame, PCs, PopPoints
<1>2. ThreadOK(t, f, head, next, owned[t], t)
  BY <1>1, EmptyBatch
  DEF IInv, PopBulk, ThreadOK, Frame, PopPoints, PushPoints, BatchLimit
<1> QED BY <1>2, OwnWriteStep DEF PopBulk, IInv, SharedTypes

\* push_bulk or pop_bulk releases the mutex.
LEMMA UnlockInv ==
  ASSUME NEW t \in Threads, IInv, Unlock(t)
  PROVE  IInv'
<1>1. ThreadOK(t, Idle, head, next, owned[t], Nil)
  BY IdleType, EmptyBatch DEF ThreadOK, Idle, PushPoints, PopPoints
<1>2. bulk_lock = t
  BY DEF IInv, Unlock, ThreadOK
<1> QED BY <1>1, <1>2, OwnWriteStep DEF Unlock, IInv, SharedTypes

\* The blocks s of a batch hang together by the links that the caller writes.
LEMMA LinkedFacts ==
  ASSUME BlocksApart, NEW s \in Seq(Blocks), IsInjective(s),
         NEW links \in [Blocks -> Pointers \cup {Wild}]
  PROVE  /\ Linked(s, links) \in [Blocks -> Pointers \cup {Wild}]
         /\ Chain(Linked(s, links), s)
         /\ \A b \in Blocks : b \notin ToSet(s) => Linked(s, links)[b] = links[b]
<1> DEFINE Hits(b) == {i \in 1..Len(s) - 1 : s[i] = b \/ b \in Overlap[s[i]]}
<1>1. \A b \in Blocks : Linked(s, links)[b] =
        IF Hits(b) = {} THEN links[b]
        ELSE IF s[Min(Hits(b))] = b THEN s[Min(Hits(b)) + 1] ELSE Wild
  BY DEF Linked
<1>2. \A i \in 1..Len(s) - 1 : /\ i \in DOMAIN s /\ i + 1 \in DOMAIN s
                               /\ s[i] \in Blocks /\ s[i + 1] \in Blocks /\ s[i] \in ToSet(s)
  BY DEF ToSet
<1>3. \A b \in Blocks : \A i \in Hits(b) : s[i] = b /\ b \in ToSet(s)
  BY <1>2 DEF BlocksApart
<1>4. ASSUME NEW i \in 1..Len(s) - 1
      PROVE  Linked(s, links)[s[i]] = s[i + 1]
  <2>1. Hits(s[i]) = {i}
    BY <1>2, <1>3 DEF IsInjective
  <2>2. Min({i}) = i
    BY DEF Min
  <2> HIDE DEF Hits
  <2> QED BY <1>1, <1>2, <2>1, <2>2
<1>5. ASSUME NEW b \in Blocks
      PROVE  /\ Linked(s, links)[b] \in Pointers \cup {Wild}
             /\ b \notin ToSet(s) => Linked(s, links)[b] = links[b]
  <2>1. CASE Hits(b) = {}
    <3> HIDE DEF Hits
    <3> QED BY <1>1, <2>1
  <2>2. CASE Hits(b) # {}
    <3>1. PICK i \in 1..Len(s) - 1 : s[i] = b /\ b \in ToSet(s)
      BY <1>3, <2>2
    <3> HIDE DEF Hits
    <3>2. Linked(s, links)[b] \in Blocks
      BY <1>2, <1>4, <3>1
    <3> QED BY <3>1, <3>2 DEF Pointers
  <2> QED BY <2>1, <2>2
<1>6. Linked(s, links) = [b \in Blocks |-> Linked(s, links)[b]]
  BY DEF Linked
<1> HIDE DEF Hits
<1> QED BY <1>4, <1>5, <1>6 DEF Chain

\* What a client may hand to push_bulk.
LEMMA BatchFacts ==
  ASSUME NEW S \in SUBSET Blocks, NEW s \in Batches(S)
  PROVE  /\ s \in Seq(Blocks) /\ s # <<>> /\ IsInjective(s)
         /\ ToSet(s) \subseteq S
<1>1. PICK n \in 0..MaxBatch : s \in [1..n -> S]
  BY DEF Batches, SeqOf
<1>2. s \in Seq(S)
  BY <1>1
<1> QED BY <1>2 DEF Batches, ToSet

\* A call of push_bulk, with a chain of blocks the caller holds.
LEMMA CallPushBulkInv ==
  ASSUME BlocksApart, NEW t \in Threads, IInv,
         NEW s \in Batches(owned[t]), CallPushBulk(t, s)
  PROVE  IInv'
<1> DEFINE f == [Idle EXCEPT !.pc = "push_bulk", !.batch = s]
<1>1. owned[t] \in SUBSET Blocks /\ next \in [Blocks -> Pointers \cup {Wild}]
  BY DEF IInv, SharedTypes
<1>2. s \in Seq(Blocks) /\ s # <<>> /\ IsInjective(s) /\ ToSet(s) \subseteq owned[t]
  BY <1>1, BatchFacts
<1>3. /\ next' \in [Blocks -> Pointers \cup {Wild}]
      /\ Chain(next', s)
      /\ \A b \in Blocks : b \notin owned[t] => next'[b] = next[b]
  BY <1>1, <1>2, LinkedFacts DEF CallPushBulk
<1>4. f \in Frame
  BY <1>2, IdleType DEF Frame, PCs
<1>5. Nil \notin owned[t]
  BY <1>1
<1>6. ThreadOK(t, f, head, next', owned[t], bulk_lock)
  BY <1>2, <1>3, <1>4, <1>5
  DEF IInv, CallPushBulk, CanCall, ThreadOK, PopPoints, PushPoints, Idle
<1> QED BY <1>3, <1>6, OwnWriteStep DEF CallPushBulk

\* Clearing the last link closes a chain.
LEMMA EndBatchFacts ==
  ASSUME BlocksApart, SharedTypes, NEW s \in Seq(Blocks), IsInjective(s), Chain(next, s)
  PROVE  /\ EndBatch(s) \in [Blocks -> Pointers \cup {Wild}]
         /\ ClosedChain(EndBatch(s), s)
         /\ \A b \in Blocks : b \notin ToSet(s) => EndBatch(s)[b] = next[b]
<1>1. CASE s = <<>>
  BY <1>1, EmptyBatch DEF EndBatch, SharedTypes
<1>2. CASE s # <<>>
  <2>1. Len(s) \in 1..Len(s) /\ Last(s) = s[Len(s)] /\ Last(s) \in Blocks
    BY <1>2 DEF Last
  <2>2. Last(s) \in ToSet(s)
    BY <2>1 DEF ToSet
  <2>3. \A b \in Blocks : EndBatch(s)[b] = IF b = Last(s) THEN Nil ELSE next[b]
    BY <1>2, <2>1, StoredApart DEF EndBatch, SharedTypes, Pointers
  <2>4. \A i \in 1..Len(s) - 1 : s[i] \in Blocks /\ s[i] # Last(s)
    BY <2>1 DEF IsInjective
  <2>5. Chain(EndBatch(s), s)
    BY <2>3, <2>4 DEF Chain
  <2>6. EndBatch(s) \in [Blocks -> Pointers \cup {Wild}]
    BY <1>2, <2>1, StoredApart DEF EndBatch, SharedTypes, Pointers
  <2> QED BY <2>1, <2>2, <2>3, <2>5, <2>6 DEF ClosedChain
<1> QED BY <1>1, <1>2

\* pop finds the list empty; in pop_bulk that closes the batch.
LEMMA PopEmptyInv ==
  ASSUME BlocksApart, NEW t \in Threads, IInv, PopEmpty(t)
  PROVE  IInv'
<1>1. CASE ~InBulk(t)
  <2>1. ThreadOK(t, Idle, head, next, owned[t], bulk_lock)
    BY <1>1, IdleType, EmptyBatch DEF ThreadOK, Idle, PushPoints, PopPoints, InBulk
  <2> QED BY <1>1, <2>1, FrameStep DEF PopEmpty
<1>2. CASE InBulk(t)
  <2> DEFINE s == frame[t].batch
             f == [frame[t] EXCEPT !.pc = "unlock"]
  <2>1. f \in Frame /\ f.batch = s /\ s \in Seq(Blocks) /\ f.n = frame[t].n /\ f.n \in Nat
    BY FrameTyped DEF Frame, PCs
  <2>2. /\ IsInjective(s) /\ Chain(next, s) /\ ToSet(s) \subseteq owned[t]
        /\ Len(s) < BatchLimit(f.n)
    BY <1>2, <2>1 DEF IInv, PopEmpty, ThreadOK, PopPoints, InBulk
  <2>3. /\ next' \in [Blocks -> Pointers \cup {Wild}]
        /\ ClosedChain(next', s)
        /\ \A b \in Blocks : b \notin owned[t] => next'[b] = next[b]
    BY <1>2, <2>1, <2>2, EndBatchFacts DEF PopEmpty, IInv
  <2>4. ThreadOK(t, f, head, next', owned[t], bulk_lock)
    BY <1>2, <2>1, <2>2, <2>3
    DEF IInv, PopEmpty, ThreadOK, PopPoints, PushPoints, InBulk, BatchLimit, Frame
  <2> QED BY <1>2, <2>3, <2>4, OwnWriteStep DEF PopEmpty
<1> QED BY <1>1, <1>2

\* A thread in no operation relies on nothing but not holding the mutex.
LEMMA IdleOK ==
  ASSUME NEW t, NEW hd, NEW links, NEW mine, NEW lock, lock # t
  PROVE  ThreadOK(t, Idle, hd, links, mine, lock)
BY IdleType, EmptyBatch DEF ThreadOK, Idle, PushPoints, PopPoints

\* A sequence is empty exactly if its length is 0.
LEMMA EmptyLen ==
  ASSUME NEW s \in Seq(Blocks)
  PROVE  Len(s) \in Nat /\ (s = <<>> <=> Len(s) = 0)
BY EmptySeq, LenProperties

\* What removing the first of a sequence of distinct elements gives.
LEMMA TailFacts ==
  ASSUME NEW S, NEW s \in Seq(S), s # <<>>, IsInjective(s)
  PROVE  /\ Tail(s) \in Seq(S) /\ s[1] \in S /\ IsInjective(Tail(s))
         /\ s[1] \in ToSet(s)
         /\ ToSet(Tail(s)) = ToSet(s) \ {s[1]}
<1>1. /\ Tail(s) \in Seq(S) /\ Len(Tail(s)) = Len(s) - 1 /\ s[1] \in S
      /\ \A i \in 1..Len(s) - 1 : Tail(s)[i] = s[i + 1]
  OBVIOUS
<1>2. IsInjective(Tail(s))
  <2> SUFFICES ASSUME NEW i \in 1..Len(s) - 1, NEW j \in 1..Len(s) - 1,
                      Tail(s)[i] = Tail(s)[j]
               PROVE  i = j
    BY <1>1 DEF IsInjective
  <2>1. s[i + 1] = s[j + 1] /\ i + 1 \in DOMAIN s /\ j + 1 \in DOMAIN s
    BY <1>1
  <2> QED BY <2>1 DEF IsInjective
<1>3. s[1] \in ToSet(s)
  BY DEF ToSet
<1>4. ToSet(Tail(s)) \subseteq ToSet(s) \ {s[1]}
  <2> SUFFICES ASSUME NEW i \in 1..Len(s) - 1
               PROVE  Tail(s)[i] \in ToSet(s) \ {s[1]}
    BY <1>1 DEF ToSet
  <2>1. i + 1 \in DOMAIN s /\ 1 \in DOMAIN s /\ i + 1 # 1
    OBVIOUS
  <2>2. s[i + 1] # s[1]
    BY <2>1 DEF IsInjective
  <2> QED BY <1>1, <2>1, <2>2 DEF ToSet
<1>5. ToSet(s) \ {s[1]} \subseteq ToSet(Tail(s))
  <2> SUFFICES ASSUME NEW i \in 1..Len(s), s[i] # s[1]
               PROVE  s[i] \in ToSet(Tail(s))
    BY DEF ToSet
  <2>1. i - 1 \in DOMAIN Tail(s) /\ s[i] = Tail(s)[i - 1]
    BY <1>1
  <2> QED BY <2>1 DEF ToSet
<1> QED BY <1>1, <1>2, <1>3, <1>4, <1>5

\* What is left of a closed chain is one, and the first link leads to it.
LEMMA TailChain ==
  ASSUME NEW links, NEW s \in Seq(Blocks), s # <<>>, ClosedChain(links, s)
  PROVE  ClosedChain(links, Tail(s)) /\ links[s[1]] = First(Tail(s))
<1> DEFINE r == Tail(s)
<1>1. /\ r \in Seq(Blocks) /\ Len(r) = Len(s) - 1
      /\ \A i \in 1..Len(s) - 1 : r[i] = s[i + 1]
  OBVIOUS
<1> HIDE DEF r
<1>2. Len(s) \in Nat /\ Len(s) # 0 /\ (r = <<>> <=> Len(r) = 0)
  BY <1>1, EmptyLen
<1>3. Chain(links, r)
  BY <1>1 DEF ClosedChain, Chain
<1>4. r # <<>> => Last(r) = Last(s)
  BY <1>1, <1>2 DEF Last
<1>5. CASE Len(s) = 1
  <2>1. r = <<>> /\ s[1] = Last(s)
    BY <1>1, <1>2, <1>5 DEF Last
  <2>2. links[s[1]] = First(r)
    BY <2>1 DEF ClosedChain, First
  <2> QED BY <1>3, <1>4, <2>1, <2>2 DEF ClosedChain, r
<1>6. CASE Len(s) # 1
  <2>1. r # <<>> /\ 1 \in 1..Len(s) - 1
    BY <1>1, <1>2, <1>6
  <2>2. links[s[1]] = First(r)
    BY <1>1, <2>1 DEF ClosedChain, Chain, First
  <2>3. ClosedChain(links, r)
    BY <1>3, <1>4 DEF ClosedChain
  <2> QED BY <2>2, <2>3 DEF r
<1> QED BY <1>5, <1>6

\* push_bulk gets the mutex, closes the batch and reads the first block's link.
LEMMA PushBulkInv ==
  ASSUME BlocksApart, NEW t \in Threads, IInv, PushBulk(t)
  PROVE  IInv'
<1> DEFINE s == frame[t].batch
           f == [frame[t] EXCEPT !.pc = "push_load", !.node = s[1],
                                 !.rest = EndBatch(s)[s[1]], !.batch = Tail(s)]
<1>1. frame[t] \in Frame /\ s \in Seq(Blocks)
  BY FrameTyped DEF Frame
<1>2. /\ s # <<>> /\ IsInjective(s) /\ Chain(next, s) /\ ToSet(s) \subseteq owned[t]
  BY DEF IInv, PushBulk, ThreadOK
<1>3. /\ EndBatch(s) \in [Blocks -> Pointers \cup {Wild}]
      /\ ClosedChain(EndBatch(s), s)
      /\ \A b \in Blocks : b \notin owned[t] => EndBatch(s)[b] = next[b]
  BY <1>1, <1>2, EndBatchFacts DEF IInv
<1>4. /\ Tail(s) \in Seq(Blocks) /\ s[1] \in Blocks /\ IsInjective(Tail(s))
      /\ s[1] \in owned[t] /\ ToSet(Tail(s)) \subseteq owned[t] \ {s[1]}
  BY <1>1, <1>2, TailFacts
<1>5. ClosedChain(EndBatch(s), Tail(s)) /\ EndBatch(s)[s[1]] = First(Tail(s))
  BY <1>1, <1>2, <1>3, TailChain
<1>6. First(Tail(s)) \in Pointers
  BY <1>4 DEF First, Pointers
<1>7. f \in Frame /\ f.pc = "push_load" /\ f.node = s[1] /\ f.batch = Tail(s)
      /\ f.rest = EndBatch(s)[s[1]]
  BY <1>1, <1>4, <1>5, <1>6 DEF Frame, PCs, PushPoints, Pointers
<1>8. ThreadOK(t, f, head, EndBatch(s), owned[t], t)
  BY <1>4, <1>5, <1>7 DEF ThreadOK, PushPoints, PopPoints
<1>9. /\ next' = EndBatch(s) /\ bulk_lock' = t /\ bulk_lock = Nil
      /\ frame' = [frame EXCEPT ![t] = f] /\ UNCHANGED <<head, owned, stack>>
  BY DEF PushBulk
<1> HIDE DEF f
<1> QED BY <1>3, <1>8, <1>9, OwnWriteStep

\* A client passes a block to another thread.
LEMMA HandoffInv ==
  ASSUME NEW t \in Threads, NEW u \in Threads, NEW b \in Blocks,
         IInv, Handoff(t, u, b)
  PROVE  IInv'
<1>1. SharedTypes' /\ FreeListIntact'
  BY DEF IInv, Handoff, SharedTypes, FreeListIntact
<1>2. BlocksPartitioned'
  BY DEF IInv, Handoff, SharedTypes, BlocksPartitioned
<1>3. frame[t] = Idle /\ frame[u] = Idle /\ bulk_lock # t /\ bulk_lock # u
  BY DEF IInv, Handoff, CanCall, ThreadOK
<1>4. ASSUME NEW v \in Threads
      PROVE  ThreadOK(v, frame[v], head, next, owned[v], bulk_lock)'
  <2>1. CASE v \in {t, u}
    BY <1>3, <2>1, IdleOK DEF Handoff
  <2>2. CASE v \notin {t, u}
    BY <2>2 DEF Handoff, IInv, SharedTypes
  <2> QED BY <2>1, <2>2
<1> QED BY <1>1, <1>2, <1>4 DEF IInv
-----------------------------------------------------------------------------
\* A step of t that moves the head: the others see a larger tag, and only
\* blocks that t holds afterwards may have been written.
LEMMA HeadStep ==
  ASSUME IInv, NEW t \in Threads, NEW f,
         frame' = [frame EXCEPT ![t] = f],
         bulk_lock' = bulk_lock,
         head' \in TaggedPtr, head'.tag > head.tag,
         stack' \in Seq(Blocks), FreeListIntact', BlocksPartitioned',
         next' \in [Blocks -> Pointers \cup {Wild}],
         NEW mine \in SUBSET Blocks, owned' = [owned EXCEPT ![t] = mine],
         \A b \in Blocks : b \notin mine => next'[b] = next[b],
         ThreadOK(t, f, head', next', mine, bulk_lock)
  PROVE  IInv'
<1>1. SharedTypes'
  BY DEF IInv, SharedTypes
<1>2. ASSUME NEW u \in Threads
      PROVE  ThreadOK(u, frame[u], head, next, owned[u], bulk_lock)'
  <2>1. CASE u = t
    BY <2>1 DEF IInv, SharedTypes
  <2>2. CASE u # t
    <3>1. owned'[u] = owned[u] /\ owned'[t] = mine /\ owned[u] \subseteq Blocks
      BY <2>2 DEF IInv, SharedTypes
    <3>2. \A b \in owned[u] : next'[b] = next[b]
      BY <2>2, <3>1 DEF BlocksPartitioned
    <3>3. head \in TaggedPtr /\ head' # head
      BY DEF IInv, SharedTypes, TaggedPtr
    <3>4. ThreadOK(u, frame[u], head', next', owned[u], bulk_lock)
      BY <3>2, <3>3, OtherThread DEF IInv
    <3> QED BY <2>2, <3>1, <3>4 DEF IInv, SharedTypes
  <2> QED BY <2>1, <2>2
<1> QED BY <1>1, <1>2 DEF IInv

\* What a push on top of a sequence of distinct elements gives.
LEMMA ConsFacts ==
  ASSUME NEW s \in Seq(Blocks), NEW x \in Blocks, NEW q, q = <<x>> \o s
  PROVE  /\ q \in Seq(Blocks) /\ q # <<>> /\ Len(q) = Len(s) + 1 /\ q[1] = x
         /\ \A i \in 1..Len(s) : q[i + 1] = s[i]
         /\ ToSet(q) = ToSet(s) \cup {x}
         /\ IsInjective(s) /\ x \notin ToSet(s) => IsInjective(q)
<1>1. /\ q \in Seq(Blocks) /\ Len(q) = Len(s) + 1 /\ q[1] = x /\ Len(s) \in Nat
      /\ \A i \in 1..Len(s) : q[i + 1] = s[i]
  OBVIOUS
<1>2. \A i \in 1..Len(q) : i = 1 \/ (i - 1 \in 1..Len(s) /\ q[i] = s[i - 1])
  <2> SUFFICES ASSUME NEW i \in 1..Len(q), i # 1
               PROVE  i - 1 \in 1..Len(s) /\ q[i] = s[i - 1]
    OBVIOUS
  <2>1. i - 1 \in 1..Len(s) /\ (i - 1) + 1 = i
    BY <1>1
  <2> QED BY <1>1, <2>1
<1>3. q # <<>>
  BY <1>1
<1>4. ToSet(q) \subseteq ToSet(s) \cup {x}
  BY <1>1, <1>2 DEF ToSet
<1>5. ToSet(s) \subseteq ToSet(q)
  <2> SUFFICES ASSUME NEW i \in 1..Len(s) PROVE s[i] \in ToSet(q)
    BY DEF ToSet
  <2>1. i + 1 \in DOMAIN q /\ q[i + 1] = s[i]
    BY <1>1
  <2> QED BY <2>1 DEF ToSet
<1>6. x \in ToSet(q)
  BY <1>1 DEF ToSet
<1>7. ASSUME IsInjective(s), x \notin ToSet(s) PROVE IsInjective(q)
  <2> SUFFICES ASSUME NEW i \in 1..Len(q), NEW j \in 1..Len(q), q[i] = q[j]
               PROVE  i = j
    BY <1>1 DEF IsInjective
  <2>1. \A k \in 1..Len(s) : s[k] \in ToSet(s)
    BY DEF ToSet
  <2>2. i = 1 <=> j = 1
    BY <1>1, <1>2, <1>7, <2>1
  <2>3. i # 1 => i - 1 = j - 1
    BY <1>2, <1>7, <2>2 DEF IsInjective
  <2> QED BY <2>2, <2>3
<1> QED BY <1>1, <1>3, <1>4, <1>5, <1>6, <1>7

\* A block linked to the first block of a closed chain extends it.
LEMMA ConsChain ==
  ASSUME NEW links, NEW s \in Seq(Blocks), NEW x \in Blocks, NEW q,
         q = <<x>> \o s, ClosedChain(links, s), links[x] = First(s)
  PROVE  ClosedChain(links, q)
<1>1. /\ q \in Seq(Blocks) /\ q # <<>> /\ Len(q) = Len(s) + 1 /\ q[1] = x
      /\ \A i \in 1..Len(s) : q[i + 1] = s[i]
  BY ConsFacts
<1>2. Len(s) \in Nat /\ (s = <<>> <=> Len(s) = 0)
  BY EmptyLen
<1>3. ASSUME NEW i \in 1..Len(q) - 1
      PROVE  links[q[i]] = q[i + 1]
  <2>1. CASE i = 1
    <3>1. s # <<>> /\ q[i + 1] = s[1]
      BY <1>1, <1>2, <2>1
    <3> QED BY <1>1, <2>1, <3>1 DEF First
  <2>2. CASE i # 1
    <3>1. i - 1 \in 1..Len(s) - 1 /\ i - 1 \in 1..Len(s) /\ (i - 1) + 1 = i /\ i \in 1..Len(s)
      BY <1>1, <1>2, <2>2
    <3>2. q[i] = s[i - 1] /\ q[i + 1] = s[i]
      BY <1>1, <3>1
    <3>3. links[s[i - 1]] = s[(i - 1) + 1]
      BY <3>1 DEF ClosedChain, Chain
    <3> QED BY <3>1, <3>2, <3>3
  <2> QED BY <2>1, <2>2
<1>4. links[Last(q)] = Nil
  <2>1. CASE s = <<>>
    BY <1>1, <1>2, <2>1 DEF Last, First
  <2>2. CASE s # <<>>
    <3>1. Len(s) \in 1..Len(s)
      BY <1>2, <2>2
    <3>2. Last(q) = Last(s)
      BY <1>1, <3>1 DEF Last
    <3> QED BY <2>2, <3>2 DEF ClosedChain
  <2> QED BY <2>1, <2>2
<1> QED BY <1>3, <1>4 DEF ClosedChain, Chain

\* The frame that push leaves behind.
LEMMA AfterPushOK ==
  ASSUME NEW t \in Threads, IInv, frame[t].pc = "push_cas", NEW hd \in TaggedPtr
  PROVE  ThreadOK(t, AfterPush(t), hd, next, owned[t] \ {frame[t].node}, bulk_lock)
<1> DEFINE f == frame[t]
           s == f.batch
           mine == owned[t] \ {f.node}
<1>1. f \in Frame /\ s \in Seq(Blocks) /\ f.rest \in Pointers
  BY FrameTyped DEF Frame
<1>2. CASE ~InBulk(t)
  BY <1>2, IdleOK DEF AfterPush, InBulk
<1>3. CASE InBulk(t)
  <2>1. /\ ClosedChain(next, s) /\ f.rest = First(s)
        /\ IsInjective(s) /\ ToSet(s) \subseteq mine
    BY <1>3 DEF IInv, ThreadOK, PushPoints, InBulk
  <2>2. CASE f.rest = Nil
    <3> DEFINE g == [Idle EXCEPT !.pc = "unlock"]
    <3>1. g \in Frame /\ g.pc = "unlock" /\ g.batch = <<>> /\ g.n = 0
      BY IdleType DEF Idle, Frame, PCs
    <3>2. AfterPush(t) = g
      BY <1>3, <2>2 DEF AfterPush
    <3>3. ThreadOK(t, g, hd, next, mine, bulk_lock)
      BY <1>3, <3>1, EmptyBatch
      DEF ThreadOK, PushPoints, PopPoints, InBulk, BatchLimit
    <3> QED BY <3>2, <3>3
  <2>3. CASE f.rest # Nil
    <3>1. s # <<>> /\ f.rest = s[1]
      BY <2>1, <2>3 DEF First
    <3>2. /\ Tail(s) \in Seq(Blocks) /\ s[1] \in Blocks /\ IsInjective(Tail(s))
          /\ s[1] \in ToSet(s) /\ ToSet(Tail(s)) = ToSet(s) \ {s[1]}
      BY <1>1, <2>1, <3>1, TailFacts
    <3>3. ClosedChain(next, Tail(s)) /\ next[s[1]] = First(Tail(s))
      BY <1>1, <2>1, <3>1, TailChain
    <3>4. First(Tail(s)) \in Pointers
      BY <3>2 DEF First, Pointers
    <3> DEFINE g == [Idle EXCEPT !.pc = "push_load", !.node = f.rest,
                                 !.rest = next[f.rest], !.batch = Tail(s)]
    <3>5. /\ g \in Frame /\ g.pc = "push_load" /\ g.node = s[1] /\ g.batch = Tail(s)
          /\ g.rest = First(Tail(s))
      BY <3>1, <3>2, <3>3, <3>4, IdleType DEF Idle, Frame, PCs, PushPoints, Pointers
    <3>6. AfterPush(t) = g
      BY <1>3, <2>3 DEF AfterPush
    <3> HIDE DEF g
    <3>7. ThreadOK(t, g, hd, next, mine, bulk_lock)
      BY <1>3, <2>1, <3>2, <3>3, <3>5 DEF ThreadOK, PushPoints, PopPoints, InBulk
    <3> QED BY <3>6, <3>7
  <2> QED BY <2>2, <2>3
<1> QED BY <1>2, <1>3

\* push's compare-and-swap succeeds: the node becomes the first free block.
LEMMA PushCasInv ==
  ASSUME NEW t \in Threads, IInv, PushCas(t)
  PROVE  IInv'
<1> DEFINE b == frame[t].node
           mine == owned[t] \ {b}
<1>1. frame[t] \in Frame /\ b \in owned[t] /\ b \in Blocks /\ next[b] = head.ptr
  BY DEF IInv, SharedTypes, PushCas, ThreadOK, PushPoints, Matches
<1>2. /\ head' = [ptr |-> b, tag |-> head.tag + 1] /\ head.tag \in Nat
  BY DEF PushCas, Matches, Retag, IInv, SharedTypes, TaggedPtr
<1>3. head' \in TaggedPtr /\ head'.tag > head.tag /\ head'.ptr = b
  BY <1>1, <1>2 DEF TaggedPtr, Pointers
<1>4. stack \in Seq(Blocks) /\ IsInjective(stack) /\ b \notin ToSet(stack)
      /\ head.ptr = First(stack) /\ ClosedChain(next, stack)
  BY <1>1 DEF IInv, SharedTypes, BlocksPartitioned, FreeListIntact
<1>5. stack' = <<b>> \o stack
  BY DEF PushCas
<1>6. /\ stack' \in Seq(Blocks) /\ stack' # <<>> /\ stack'[1] = b
      /\ ToSet(stack') = ToSet(stack) \cup {b} /\ IsInjective(stack')
  <2> DEFINE q == <<b>> \o stack
  <2>1. stack \in Seq(Blocks) /\ b \in Blocks /\ q = <<b>> \o stack
    BY <1>1, <1>4
  <2> HIDE DEF b, q
  <2>2. q \in Seq(Blocks) /\ q # <<>>
    BY <2>1, ConsFacts
  <2>3. q[1] = b
    BY <2>1, ConsFacts
  <2>4. ToSet(q) = ToSet(stack) \cup {b}
    BY <2>1, ConsFacts
  <2>5. IsInjective(q)
    BY <1>4, <2>1, ConsFacts
  <2> QED BY <1>5, <2>2, <2>3, <2>4, <2>5 DEF q
<1>7. FreeListIntact'
  <2>1. ClosedChain(next, stack')
    BY <1>1, <1>4, <1>5, ConsChain
  <2> QED BY <1>3, <1>6, <2>1 DEF FreeListIntact, First, PushCas
<1>8. owned' = [owned EXCEPT ![t] = mine] /\ mine \in SUBSET Blocks
  BY DEF PushCas, IInv, SharedTypes
<1>9. BlocksPartitioned'
  <2>1. \A u \in Threads : owned'[u] = IF u = t THEN mine ELSE owned[u]
    BY <1>8 DEF IInv, SharedTypes
  <2> QED BY <1>1, <1>6, <2>1 DEF IInv, BlocksPartitioned
<1>10. ThreadOK(t, AfterPush(t), head', next, mine, bulk_lock)
  BY <1>3, AfterPushOK DEF PushCas
<1>11. frame' = [frame EXCEPT ![t] = AfterPush(t)] /\ UNCHANGED <<next, bulk_lock>>
  BY DEF PushCas
<1>12. next \in [Blocks -> Pointers \cup {Wild}]
  BY DEF IInv, SharedTypes
<1> HIDE DEF mine, b
<1> QED BY <1>3, <1>6, <1>7, <1>8, <1>9, <1>10, <1>11, <1>12, HeadStep
\* What an element added behind a sequence of distinct elements gives.
LEMMA AppendFacts ==
  ASSUME NEW s \in Seq(Blocks), NEW x \in Blocks, NEW q, q = Append(s, x),
         IsInjective(s), x \notin ToSet(s)
  PROVE  /\ q \in Seq(Blocks) /\ q # <<>> /\ Len(q) = Len(s) + 1 /\ q[Len(q)] = x
         /\ \A i \in 1..Len(s) : q[i] = s[i]
         /\ ToSet(q) = ToSet(s) \cup {x}
         /\ IsInjective(q)
<1>1. /\ q \in Seq(Blocks) /\ Len(q) = Len(s) + 1 /\ q[Len(q)] = x /\ Len(s) \in Nat
      /\ \A i \in 1..Len(s) : q[i] = s[i]
  OBVIOUS
<1>2. \A i \in 1..Len(q) : i = Len(q) \/ i \in 1..Len(s)
  BY <1>1
<1>3. q # <<>>
  BY <1>1
<1>4. \A k \in 1..Len(s) : s[k] \in ToSet(s) /\ k \in DOMAIN q
  BY <1>1 DEF ToSet
<1>5. ToSet(q) \subseteq ToSet(s) \cup {x}
  BY <1>1, <1>2 DEF ToSet
<1>6. ToSet(s) \subseteq ToSet(q) /\ x \in ToSet(q)
  BY <1>1, <1>4 DEF ToSet
<1>7. IsInjective(q)
  <2> SUFFICES ASSUME NEW i \in 1..Len(q), NEW j \in 1..Len(q), q[i] = q[j]
               PROVE  i = j
    BY <1>1 DEF IsInjective
  <2>1. i = Len(q) <=> j = Len(q)
    BY <1>1, <1>2, <1>4
  <2> QED BY <1>1, <1>2, <2>1 DEF IsInjective
<1> QED BY <1>1, <1>3, <1>5, <1>6, <1>7

\* pop_bulk's writes: the last link of the batch is turned to the new block,
\* whose own link may be cleared.
LEMMA ExtendChain ==
  ASSUME NEW links, NEW links2, NEW s \in Seq(Blocks), NEW x \in Blocks, NEW q,
         q = Append(s, x), IsInjective(s), x \notin ToSet(s),
         Chain(links, s), s # <<>> => links2[Last(s)] = x,
         \A b \in Blocks : b # x /\ (s # <<>> => b # Last(s)) => links2[b] = links[b]
  PROVE  Chain(links2, q)
<1>1. /\ q \in Seq(Blocks) /\ Len(q) = Len(s) + 1 /\ q[Len(q)] = x
      /\ \A i \in 1..Len(s) : q[i] = s[i]
  BY AppendFacts
<1>2. Len(s) \in Nat /\ (s = <<>> <=> Len(s) = 0)
  BY EmptyLen
<1>3. ASSUME NEW i \in 1..Len(q) - 1
      PROVE  links2[q[i]] = q[i + 1]
  <2>1. i \in 1..Len(s) /\ q[i] = s[i] /\ s # <<>>
    BY <1>1, <1>2
  <2>2. CASE i = Len(s)
    BY <1>1, <2>1, <2>2 DEF Last
  <2>3. CASE i # Len(s)
    <3>1. i \in 1..Len(s) - 1 /\ i + 1 \in 1..Len(s) /\ q[i + 1] = s[i + 1]
      BY <1>1, <2>1, <2>3
    <3>2. s[i] \in Blocks /\ s[i] # x
      BY <2>1 DEF ToSet
    <3>3. s[i] # Last(s)
      BY <2>1, <2>3 DEF Last, IsInjective
    <3>4. links[s[i]] = s[i + 1]
      BY <3>1 DEF Chain
    <3> QED BY <2>1, <3>1, <3>2, <3>3, <3>4
  <2> QED BY <2>2, <2>3
<1> QED BY <1>3 DEF Chain

\* pop_bulk keeps its batch a chain of its own blocks, within n.
LEMMA ExtendBatchOK ==
  ASSUME BlocksApart, NEW t \in Threads, IInv, frame[t].pc = "pop_cas", InBulk(t),
         NEW b \in Blocks, b \notin owned[t], ExtendBatch(t, b),
         NEW hd \in TaggedPtr, NEW mine, mine = owned[t] \cup {b}
  PROVE  \E f : /\ frame' = [frame EXCEPT ![t] = f]
                /\ ThreadOK(t, f, hd, next', mine, bulk_lock)
                /\ next' \in [Blocks -> Pointers \cup {Wild}]
                /\ \A c \in Blocks : c \notin mine => next'[c] = next[c]
<1> DEFINE s == frame[t].batch
           n == frame[t].n
           more == Len(s) + 1 < n
           links == IF s = <<>> THEN next ELSE Stored(next, Last(s), b)
           q == Append(s, b)
           f == [Idle EXCEPT !.pc = IF more THEN "pop_load" ELSE "unlock",
                             !.batch = q, !.n = n]
<1>1. s \in Seq(Blocks) /\ n \in Nat /\ next \in [Blocks -> Pointers \cup {Wild}]
      /\ owned[t] \subseteq Blocks
  BY FrameTyped DEF Frame, IInv, SharedTypes
<1>2. /\ IsInjective(s) /\ Chain(next, s) /\ ToSet(s) \subseteq owned[t]
      /\ Len(s) < BatchLimit(n)
  BY DEF IInv, ThreadOK, PopPoints, InBulk
<1>3. s # <<>> => Last(s) \in Blocks /\ Last(s) \in owned[t] /\ Last(s) # b
  <2>1. s # <<>> => Last(s) \in ToSet(s)
    BY <1>1 DEF Last, ToSet
  <2> QED BY <1>1, <1>2, <2>1
<1>4. /\ links \in [Blocks -> Pointers \cup {Wild}]
      /\ s # <<>> => links[Last(s)] = b
      /\ \A c \in Blocks : (s # <<>> => c # Last(s)) => links[c] = next[c]
  <2>1. CASE s = <<>>
    BY <1>1, <2>1
  <2>2. CASE s # <<>>
    <3>1. links = Stored(next, Last(s), b) /\ Last(s) \in Blocks /\ b \in Pointers
      BY <1>3, <2>2 DEF Pointers
    <3> HIDE DEF s, links
    <3>2. /\ links \in [Blocks -> Pointers \cup {Wild}]
          /\ \A c \in Blocks : links[c] = IF c = Last(s) THEN b ELSE next[c]
      BY <1>1, <3>1, StoredApart
    <3> QED BY <2>2, <3>1, <3>2
  <2> QED BY <2>1, <2>2
<1>5. next' = IF more THEN links ELSE Stored(links, b, Nil)
  BY DEF ExtendBatch
<1>6. next' \in [Blocks -> Pointers \cup {Wild}]
  <2> HIDE DEF links, more
  <2> QED BY <1>4, <1>5, StoredApart DEF Pointers
<1>7. /\ s # <<>> => next'[Last(s)] = b
      /\ ~more => next'[b] = Nil
      /\ \A c \in Blocks : c # b /\ (s # <<>> => c # Last(s)) => next'[c] = next[c]
  <2> HIDE DEF links, more, s
  <2>1. ~more => \A c \in Blocks : next'[c] = IF c = b THEN Nil ELSE links[c]
    BY <1>4, <1>5, StoredApart DEF Pointers
  <2> QED BY <1>3, <1>4, <1>5, <2>1
<1>8. \A c \in Blocks : c \notin mine => next'[c] = next[c]
  BY <1>3, <1>7
<1>9. b \notin ToSet(s)
  BY <1>2
<1>10. /\ q \in Seq(Blocks) /\ q # <<>> /\ Len(q) = Len(s) + 1
       /\ ToSet(q) = ToSet(s) \cup {b} /\ IsInjective(q)
  <2> HIDE DEF s
  <2> QED BY <1>1, <1>2, <1>9, AppendFacts
<1>11. Chain(next', q) /\ Last(q) = b
  <2> DEFINE links2 == next'
  <2> HIDE DEF s, more, q
  <2>1. q = Append(s, b) /\ s \in Seq(Blocks) /\ IsInjective(s) /\ Chain(next, s)
    BY <1>1, <1>2 DEF q
  <2>2. /\ s # <<>> => links2[Last(s)] = b
        /\ \A c \in Blocks : c # b /\ (s # <<>> => c # Last(s)) => links2[c] = next[c]
    BY <1>7
  <2> HIDE DEF links2
  <2>3. Chain(links2, q)
    BY <1>9, <2>1, <2>2, ExtendChain
  <2>4. Last(q) = b
    BY <2>1 DEF Last
  <2> QED BY <2>3, <2>4 DEF links2
<1>12. ~more => ClosedChain(next', q)
  BY <1>7, <1>11 DEF ClosedChain
<1>13. /\ more => Len(q) < BatchLimit(n)
       /\ Len(q) <= BatchLimit(n)
  BY <1>1, <1>2, <1>10 DEF BatchLimit
<1>14. /\ f \in Frame /\ f.batch = q /\ f.n = n /\ f.node = Nil
       /\ f.pc = IF more THEN "pop_load" ELSE "unlock"
  BY <1>1, <1>10, IdleType DEF Idle, Frame, PCs, PopPoints
<1>15. ToSet(q) \subseteq mine \ {Nil}
  BY <1>1, <1>2, <1>10
<1>16. frame' = [frame EXCEPT ![t] = f]
  BY DEF ExtendBatch
<1> HIDE DEF f, q, s, n, more, links
<1>17. ThreadOK(t, f, hd, next', mine, bulk_lock)
  BY <1>10, <1>11, <1>12, <1>13, <1>14, <1>15
  DEF ThreadOK, PushPoints, PopPoints, InBulk
<1> QED BY <1>6, <1>8, <1>16, <1>17

\* pop's compare-and-swap succeeds: the first free block goes to the caller, and
\* the link read earlier leads to the new first free block.
LEMMA PopCasInv ==
  ASSUME BlocksApart, NEW t \in Threads, IInv, PopCas(t)
  PROVE  IInv'
<1> DEFINE b == head.ptr
           mine == owned[t] \cup {b}
           r == Tail(stack)
<1>1. /\ frame[t].old_head = head /\ b # Nil /\ frame[t].link = next[b]
  BY DEF PopCas, Matches, IInv, ThreadOK
<1>2. /\ stack # <<>> /\ b = stack[1] /\ b \in Blocks /\ b \notin owned[t]
      /\ stack \in Seq(Blocks) /\ IsInjective(stack) /\ ClosedChain(next, stack)
  BY <1>1, HeadNotHeld DEF IInv, SharedTypes, BlocksPartitioned, FreeListIntact
<1>3. /\ r \in Seq(Blocks) /\ IsInjective(r) /\ b \in ToSet(stack)
      /\ ToSet(r) = ToSet(stack) \ {b}
  BY <1>2, TailFacts
<1>4. ClosedChain(next, r) /\ next[b] = First(r)
  BY <1>2, TailChain
<1>5. First(r) \in Pointers
  BY <1>3 DEF First, Pointers
<1>6. head' = [ptr |-> First(r), tag |-> head.tag + 1] /\ head.tag \in Nat
  BY <1>1, <1>4 DEF PopCas, Retag, IInv, SharedTypes, TaggedPtr
<1>7. head' \in TaggedPtr /\ head'.tag > head.tag /\ head'.ptr = First(r)
  BY <1>5, <1>6 DEF TaggedPtr
<1>8. stack' = r /\ owned' = [owned EXCEPT ![t] = mine] /\ bulk_lock' = bulk_lock
      /\ mine \in SUBSET Blocks
  BY <1>1, <1>2 DEF PopCas, IInv, SharedTypes
<1>9. \A u \in Threads : owned'[u] = IF u = t THEN mine ELSE owned[u]
  BY <1>8 DEF IInv, SharedTypes
<1>10. BlocksPartitioned'
  <2> HIDE DEF r, b
  <2> QED BY <1>3, <1>8, <1>9 DEF IInv, BlocksPartitioned, mine
<1>11. PICK f : /\ frame' = [frame EXCEPT ![t] = f]
                /\ ThreadOK(t, f, head', next', mine, bulk_lock)
                /\ next' \in [Blocks -> Pointers \cup {Wild}]
                /\ \A c \in Blocks : c \notin mine => next'[c] = next[c]
  <2>1. CASE InBulk(t)
    <3>1. ExtendBatch(t, b) /\ frame[t].pc = "pop_cas"
      BY <1>1, <2>1 DEF PopCas
    <3>2. b \in Blocks /\ b \notin owned[t] /\ mine = owned[t] \cup {b}
      BY <1>2
    <3>3. PICK hd \in TaggedPtr : hd = head'
      BY <1>7
    <3> HIDE DEF b, mine, r
    <3>4. PICK f : /\ frame' = [frame EXCEPT ![t] = f]
                   /\ ThreadOK(t, f, hd, next', mine, bulk_lock)
                   /\ next' \in [Blocks -> Pointers \cup {Wild}]
                   /\ \A c \in Blocks : c \notin mine => next'[c] = next[c]
      BY <2>1, <3>1, <3>2, ExtendBatchOK
    <3> QED BY <3>3, <3>4
  <2>2. CASE ~InBulk(t)
    <3>1. /\ frame' = [frame EXCEPT ![t] = Idle] /\ next' = next
      BY <2>2 DEF PopCas
    <3>2. ThreadOK(t, Idle, head', next', mine, bulk_lock)
      BY <2>2, IdleOK DEF InBulk
    <3> QED BY <3>1, <3>2 DEF IInv, SharedTypes
  <2> QED BY <2>1, <2>2
<1>12. FreeListIntact'
  <2>1. \A c \in ToSet(r) : c \in Blocks /\ c \notin mine
    <3>1. \A c \in ToSet(stack) : c \in Blocks /\ c \notin owned[t]
      BY <1>2 DEF IInv, BlocksPartitioned, ToSet
    <3> QED BY <1>3, <3>1
  <2> HIDE DEF r, mine
  <2>2. ClosedChain(next', r)
    BY <1>3, <1>4, <1>11, <2>1, ChainKept
  <2> QED BY <1>7, <1>8, <2>2 DEF FreeListIntact
<1> HIDE DEF mine, r, b
<1> QED BY <1>3, <1>7, <1>8, <1>10, <1>11, <1>12, HeadStep
-----------------------------------------------------------------------------
\* A new allocator, and a region its creator has not pushed yet.
LEMMA InitInv ==
  ASSUME Init
  PROVE  IInv
<1>1. <<>> \in Seq(Blocks)
  OBVIOUS
<1>2. head \in TaggedPtr /\ next \in [Blocks -> Pointers \cup {Wild}]
  BY DEF Init, TaggedPtr, Pointers
<1>3. SharedTypes
  BY <1>1, <1>2 DEF Init, SharedTypes
<1>4. FreeListIntact
  BY EmptyBatch DEF Init, FreeListIntact, First
<1>5. BlocksPartitioned
  BY EmptyBatch DEF Init, BlocksPartitioned
<1>6. ASSUME NEW t \in Threads
      PROVE  ThreadOK(t, frame[t], head, next, owned[t], bulk_lock)
  BY IdleOK DEF Init
<1> QED BY <1>3, <1>4, <1>5, <1>6 DEF IInv

\* A step that changes nothing.
LEMMA StutterInv ==
  ASSUME IInv, UNCHANGED vars
  PROVE  IInv'
<1>1. SharedTypes' /\ FreeListIntact' /\ BlocksPartitioned'
  BY DEF vars, IInv, SharedTypes, FreeListIntact, BlocksPartitioned
<1> QED BY <1>1 DEF vars, IInv

\* Every step keeps the inductive invariant.
LEMMA NextInv ==
  ASSUME BlocksApart, IInv, [Next]_vars
  PROVE  IInv'
<1>1. ASSUME NEW t \in Threads, Call(t) PROVE IInv'
  BY <1>1, CallPushInv, CallPopInv, CallPushBulkInv, CallPopBulkInv, HandoffInv
  DEF Call
<1>2. ASSUME NEW t \in Threads, Step(t) PROVE IInv'
  BY <1>2, PushLoadInv, PushCasInv, PushCasFailInv, PopLoadInv, PopEmptyInv,
     PopNextInv, PopCasInv, PopCasFailInv, PushBulkInv, PopBulkInv, UnlockInv
  DEF Step
<1>3. CASE Quiescent \/ UNCHANGED vars
  BY <1>3, StutterInv DEF Quiescent
<1> QED BY <1>1, <1>2, <1>3 DEF Next

\* The inductive invariant holds in every reachable state of the allocator.
THEOREM Invariance ==
  ASSUME BlocksApart PROVE Spec => []IInv
<1>1. Init => IInv
  BY InitInv
<1>2. IInv /\ [Next]_vars => IInv'
  BY NextInv
<1> QED BY <1>1, <1>2, PTL DEF Spec

\* What the runs check follows from the inductive invariant.
LEMMA Consequences ==
  ASSUME IInv
  PROVE  TypeOK /\ TagNamesHead /\ CommitsFreshLink /\ BatchSound
<1>1. TypeOK
  <2>1. frame \in [Threads -> Frame]
    BY DEF IInv, SharedTypes, ThreadOK
  <2> QED BY <2>1 DEF IInv, SharedTypes, TypeOK
<1>2. TagNamesHead
  BY DEF IInv, ThreadOK, TagNamesHead
<1>3. CommitsFreshLink
  BY DEF IInv, ThreadOK, CommitsFreshLink
<1>4. BatchSound
  BY DEF IInv, ThreadOK, BatchSound, InBulk
<1> QED BY <1>1, <1>2, <1>3, <1>4

\* Types: push and pop only ever install the address of a block, or nullptr,
\* in head, although pop reads next from blocks other threads may hold.
THEOREM TypeCorrect ==
  ASSUME BlocksApart PROVE Spec => []TypeOK
BY Invariance, Consequences, PTL

\* The list that head starts is exactly the stack of free blocks, whatever
\* push, pop, push_bulk and pop_bulk calls interleave.
THEOREM ListIntact ==
  ASSUME BlocksApart PROVE Spec => []FreeListIntact
<1>1. IInv => FreeListIntact
  BY DEF IInv
<1> QED BY <1>1, Invariance, PTL

\* pop and pop_bulk never hand out a block that somebody holds, and push and
\* push_bulk lose none.
THEOREM Partition ==
  ASSUME BlocksApart PROVE Spec => []BlocksPartitioned
<1>1. IInv => BlocksPartitioned
  BY DEF IInv
<1> QED BY <1>1, Invariance, PTL

\* No ABA: a compare-and-swap of push or pop that succeeds commits a link that
\* is right at that moment.
THEOREM NoABA ==
  ASSUME BlocksApart PROVE Spec => []CommitsFreshLink
BY Invariance, Consequences, PTL

\* Each value of the tag belongs to one head only.
THEOREM TagsUnique ==
  ASSUME BlocksApart PROVE Spec => []TagNamesHead
BY Invariance, Consequences, PTL

\* push_bulk's walk reaches exactly its batch, pop_bulk's result is a
\* terminated chain of the caller's own blocks, no longer than asked for.
THEOREM BatchesSound ==
  ASSUME BlocksApart PROVE Spec => []BatchSound
BY Invariance, Consequences, PTL

-----------------------------------------------------------------------------
\* Each step of the lock-free list is a step of the atomic stack or leaves it
\* alone: push and pop take effect at their successful compare-and-swap.
LEMMA StepSimulates ==
  ASSUME IInv, [Next]_vars
  PROVE  [Lifo!Next]_(Lifo!vars)
<1>1. ASSUME NEW t \in Threads, PushCas(t)
      PROVE  Lifo!Next
  <2>1. frame[t].node \in owned[t] /\ frame[t].node \in Blocks
    BY <1>1 DEF IInv, SharedTypes, PushCas, ThreadOK, PushPoints
  <2>2. Lifo!Push(t, frame[t].node)
    BY <1>1, <2>1 DEF PushCas, Lifo!Push
  <2> QED BY <2>1, <2>2 DEF Lifo!Next
<1>2. ASSUME NEW t \in Threads, PopCas(t)
      PROVE  Lifo!Next
  <2>1. frame[t].old_head = head /\ head.ptr # Nil
    BY <1>2 DEF PopCas, Matches, IInv, ThreadOK
  <2>2. stack # <<>> /\ head.ptr = Head(stack)
    BY <2>1, HeadNotHeld DEF IInv, SharedTypes
  <2>3. Lifo!Pop(t)
    BY <1>2, <2>1, <2>2 DEF PopCas, Lifo!Pop
  <2> QED BY <2>3 DEF Lifo!Next
<1>3. ASSUME NEW t \in Threads, NEW u \in Threads, NEW b \in Blocks, Handoff(t, u, b)
      PROVE  Lifo!Next
  BY <1>3 DEF Handoff, Lifo!Handoff, Lifo!Next
<1>4. ASSUME NEW t \in Threads, Call(t)
      PROVE  [Lifo!Next]_(Lifo!vars)
  BY <1>3, <1>4
  DEF Call, CallPush, CallPop, CallPushBulk, CallPopBulk, Lifo!vars
<1>5. ASSUME NEW t \in Threads, Step(t)
      PROVE  [Lifo!Next]_(Lifo!vars)
  BY <1>1, <1>2, <1>5
  DEF Step, PushLoad, PushCasFail, PopLoad, PopEmpty, PopNext, PopCasFail,
      PushBulk, PopBulk, Unlock, Lifo!vars
<1>6. CASE Quiescent \/ UNCHANGED vars
  BY <1>6 DEF Quiescent, vars, Lifo!vars
<1> QED BY <1>4, <1>5, <1>6 DEF Next

\* The lock-free list implements the atomic stack: to its callers, push and
\* pop happen at one instant, in one order that all threads agree on.
THEOREM Refinement ==
  ASSUME BlocksApart PROVE Spec => ImplementsLifoPool
<1>1. Init => Lifo!Init
  BY DEF Init, Lifo!Init
<1>2. IInv /\ [Next]_vars => [Lifo!Next]_(Lifo!vars)
  BY StepSimulates
<1> QED BY <1>1, <1>2, Invariance, PTL DEF Spec, ImplementsLifoPool, Lifo!Spec

\* What every allocator promises its clients.
Contract == INSTANCE BlockPool

\* The lock-free list implements the contract of an allocator too: pop hands
\* out a block that nobody holds, and a block stays with its holder until it
\* is pushed or passed on.
THEOREM KeepsContract ==
  ASSUME BlocksApart PROVE Spec => Contract!Spec
<1>1. Init => Contract!Init
  BY DEF Init, Contract!Init, Contract!Exclusive
<1>2. IInv /\ [Next]_vars => [Contract!Next]_owned
  <2> SUFFICES ASSUME IInv, [Next]_vars PROVE [Contract!Next]_owned
    OBVIOUS
  <2>1. [Lifo!Next]_(Lifo!vars)
    BY StepSimulates
  <2>2. ASSUME NEW t \in Threads, Lifo!Pop(t) PROVE Contract!Next
    <3>1. PICK b : b = Head(stack)
      OBVIOUS
    <3>2. b \in Blocks /\ b \in ToSet(stack)
      BY <2>2, <3>1 DEF Lifo!Pop, IInv, SharedTypes, ToSet
    <3>3. b \in Contract!Free
      BY <3>2 DEF Contract!Free, IInv, BlocksPartitioned
    <3>4. Contract!Alloc(t, b)
      BY <2>2, <3>1, <3>3 DEF Contract!Alloc, Lifo!Pop
    <3> QED BY <3>2, <3>4 DEF Contract!Next
  <2>3. ASSUME NEW t \in Threads, NEW b \in Blocks, Lifo!Push(t, b) PROVE Contract!Next
    BY <2>3 DEF Lifo!Push, Contract!Next, Contract!Dealloc
  <2>4. ASSUME NEW t \in Threads, NEW u \in Threads, NEW b \in Blocks, Lifo!Handoff(t, u, b)
        PROVE  Contract!Next
    BY <2>4 DEF Lifo!Handoff, Contract!Next, Contract!Handoff
  <2> QED BY <2>1, <2>2, <2>3, <2>4 DEF Lifo!Next, Lifo!vars
<1> QED BY <1>1, <1>2, Invariance, PTL DEF Spec, Contract!Spec
=============================================================================
