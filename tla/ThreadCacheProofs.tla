------------------------- MODULE ThreadCacheProofs --------------------------
(***************************************************************************)
(* Lemmas about ThreadCache for the allocators that are built from it:     *)
(* what its operations keep, for any number of threads, pools and blocks,  *)
(* any batch sizes and any sharing of the slots.                           *)
(***************************************************************************)
EXTENDS ThreadCache, SequenceTheorems, FiniteSetTheorems, TLAPS

\* What is in each place.
Located == [x \in Places |-> At(x)]

\* Every block is in exactly one of the places.
Partition(A) ==
  /\ A \in [Places -> SUBSET Blocks]
  /\ \A b \in Blocks : \E x \in Places : \A y \in Places : b \in A[y] <=> y = x

\* No list has a block twice.
NoRepeats ==
  /\ \A p \in Pools : IsInjective(global[p])
  /\ \A t \in Threads : /\ IsInjective(frame[t].batch)
                        /\ \A s \in Slots : IsInjective(cache[t][s].list)

\* A call works on a cache that is constructed, and has a batch in transit
\* only between the two sides of a bulk operation.
FrameOK(f, caches) ==
  /\ f.pc # "idle" => f.pool \in Pools /\ caches[Slot[f.pool]].pool \in Pools
  /\ f.pc \in {"idle", "refill", "fallback", "push_unlock"} => f.batch = <<>>
  /\ f.pc \in {"flush", "push_bulk"} => f.batch # <<>>
  /\ f.pc = "fallback" => f.rest # <<>>

\* A client knows the allocator that it got a block from.
SourceKnown == \A t \in Threads : \A b \in owned[t] : source[b] \in Pools

\* A cache that is not constructed has no blocks; one that is was made for a
\* pool that uses its slot.
SlotsKept ==
  \A t \in Threads, s \in Slots :
    /\ cache[t][s].pool = Nil => cache[t][s].list = <<>>
    /\ cache[t][s].pool \in Pools => Slot[cache[t][s].pool] = s

\* The call of thread t, as far as it works on slot s.
FrameAt(t, s) ==
  IF frame[t].pc # "idle" /\ Slot[frame[t].pool] = s THEN frame[t] ELSE Idle

\* A cache whose batch size is B, and the batch in transit, stay within the
\* watermarks: a cache that is refilled is at the low watermark at most, one
\* that is not is at the high watermark at most, and one block more is there
\* only while dealloc cuts the cache.
WithinMarks(B, c, f) ==
  /\ f.pc \in {"refill", "pop_bulk", "pop_unlock"} => c.size <= B \div 2
  /\ f.pc \notin {"refill", "pop_bulk", "pop_unlock"} => c.size <= 2 * B
  /\ f.pc = "pop_bulk" => Len(f.batch) < B \/ Len(f.batch) = 0
  /\ f.pc = "pop_unlock" => Len(f.batch) <= B \/ Len(f.batch) <= 1
  /\ c.size + Len(f.batch) <= 2 * B + 1

MarksAt(t, s) ==
  cache[t][s].pool \in Pools =>
    WithinMarks(Batch[cache[t][s].pool], cache[t][s], FrameAt(t, s))

Marks == \A t \in Threads, s \in Slots : MarksAt(t, s)

\* The inductive invariant.
IInv ==
  /\ TypeOK
  /\ SizeExact
  /\ Partition(Located)
  /\ NoRepeats
  /\ \A t \in Threads : FrameOK(frame[t], cache[t])
  /\ SourceKnown
  /\ SlotsKept
  /\ Marks

-----------------------------------------------------------------------------
(* Lists of blocks                                                         *)

\* The empty list has no blocks.
LEMMA EmptyList == ToSet(<<>>) = {} /\ IsInjective(<<>>)
BY DEF ToSet, IsInjective

\* A list that is not empty: its head, and what is left without it.
LEMMA ListHead ==
  ASSUME NEW S, NEW s \in Seq(S), s # <<>>
  PROVE  /\ Tail(s) \in Seq(S) /\ Len(Tail(s)) = Len(s) - 1 /\ Len(s) >= 1
         /\ Head(s) = s[1] /\ s[1] \in S
         /\ ToSet(s) = {s[1]} \cup ToSet(Tail(s))
         /\ IsInjective(s) => IsInjective(Tail(s)) /\ s[1] \notin ToSet(Tail(s))
<1>1. Tail(s) \in Seq(S) /\ Len(Tail(s)) = Len(s) - 1 /\ Len(s) >= 1
      /\ \A i \in 1..Len(Tail(s)) : Tail(s)[i] = s[i + 1]
  BY HeadTailProperties
<1>2. Head(s) = s[1] /\ s[1] \in S
  BY <1>1
<1>3. ToSet(s) = {s[1]} \cup ToSet(Tail(s))
  <2>1. ASSUME NEW i \in 1..Len(s), i # 1
        PROVE  i - 1 \in 1..Len(Tail(s)) /\ s[i] = Tail(s)[i - 1]
    BY <1>1, <2>1
  <2>2. ASSUME NEW i \in 1..Len(Tail(s))
        PROVE  i + 1 \in 1..Len(s) /\ s[i + 1] = Tail(s)[i]
    BY <1>1
  <2>3. 1 \in 1..Len(s)
    BY <1>1
  <2>4. DOMAIN s = 1..Len(s) /\ DOMAIN Tail(s) = 1..Len(Tail(s))
    BY <1>1
  <2>5. ASSUME NEW x \in ToSet(s), x # s[1] PROVE x \in ToSet(Tail(s))
    <3>1. PICK i \in 1..Len(s) : x = s[i]
      BY <2>4 DEF ToSet
    <3> QED BY <2>1, <2>4, <2>5, <3>1 DEF ToSet
  <2>6. {s[1]} \cup ToSet(Tail(s)) \subseteq ToSet(s)
    BY <2>2, <2>3, <2>4 DEF ToSet
  <2> QED BY <2>5, <2>6
<1>4. ASSUME IsInjective(s)
      PROVE  IsInjective(Tail(s)) /\ s[1] \notin ToSet(Tail(s))
  BY <1>1, <1>4 DEF IsInjective, ToSet
<1> QED BY <1>1, <1>2, <1>3, <1>4

\* The blocks of two lists put together.
LEMMA ListConcat ==
  ASSUME NEW S, NEW r \in Seq(S), NEW s \in Seq(S)
  PROVE  /\ r \o s \in Seq(S) /\ Len(r \o s) = Len(r) + Len(s)
         /\ ToSet(r \o s) = ToSet(r) \cup ToSet(s)
         /\ IsInjective(r) /\ IsInjective(s) /\ ToSet(r) \cap ToSet(s) = {}
              => IsInjective(r \o s)
<1>1. /\ r \o s \in Seq(S) /\ Len(r \o s) = Len(r) + Len(s)
      /\ \A i \in 1..Len(r) + Len(s) :
           (r \o s)[i] = IF i <= Len(r) THEN r[i] ELSE s[i - Len(r)]
  BY ConcatProperties
<1>2. /\ DOMAIN r = 1..Len(r) /\ DOMAIN s = 1..Len(s)
      /\ DOMAIN (r \o s) = 1..Len(r) + Len(s)
      /\ Len(r) \in Nat /\ Len(s) \in Nat
  BY <1>1
<1> DEFINE u == r \o s
<1> HIDE DEF u
<1>3. ToSet(u) = ToSet(r) \cup ToSet(s)
  <2>1. ASSUME NEW i \in 1..Len(r) PROVE i \in DOMAIN u /\ u[i] = r[i]
    BY <1>1, <1>2 DEF u
  <2>2. ASSUME NEW i \in 1..Len(s) PROVE i + Len(r) \in DOMAIN u /\ u[i + Len(r)] = s[i]
    BY <1>1, <1>2 DEF u
  <2>3. ASSUME NEW i \in DOMAIN u
        PROVE  (\E j \in 1..Len(r) : u[i] = r[j]) \/ (\E j \in 1..Len(s) : u[i] = s[j])
    <3>1. CASE i <= Len(r)
      BY <1>1, <1>2, <3>1 DEF u
    <3>2. CASE ~ (i <= Len(r))
      <4>1. i - Len(r) \in 1..Len(s) /\ u[i] = s[i - Len(r)]
        BY <1>1, <1>2, <3>2 DEF u
      <4> QED BY <4>1
    <3> QED BY <3>1, <3>2
  <2>4. ToSet(u) \subseteq ToSet(r) \cup ToSet(s)
    BY <1>2, <2>3 DEF ToSet
  <2>5. ToSet(r) \cup ToSet(s) \subseteq ToSet(u)
    BY <1>2, <2>1, <2>2 DEF ToSet
  <2> QED BY <2>4, <2>5
<1>4. ASSUME IsInjective(r), IsInjective(s), ToSet(r) \cap ToSet(s) = {}
      PROVE  IsInjective(u)
  <2>1. \A i \in 1..Len(r) : r[i] \in ToSet(r)
    BY <1>2 DEF ToSet
  <2>2. \A i \in 1..Len(s) : s[i] \in ToSet(s)
    BY <1>2 DEF ToSet
  <2>3. \A i \in 1..Len(r), j \in 1..Len(s) : r[i] # s[j]
    BY <1>4, <2>1, <2>2
  <2> QED BY <1>1, <1>2, <1>4, <2>3 DEF IsInjective, u
<1> QED BY <1>1, <1>3, <1>4 DEF u

\* A block put in front of a list.
LEMMA ListCons ==
  ASSUME NEW S, NEW x \in S, NEW s \in Seq(S)
  PROVE  /\ <<x>> \o s \in Seq(S) /\ Len(<<x>> \o s) = Len(s) + 1
         /\ ToSet(<<x>> \o s) = {x} \cup ToSet(s)
         /\ IsInjective(s) /\ x \notin ToSet(s) => IsInjective(<<x>> \o s)
<1> DEFINE one == <<x>>
<1>1. one \in Seq(S) /\ Len(one) = 1 /\ ToSet(one) = {x} /\ IsInjective(one)
  BY DEF ToSet, IsInjective
<1>2. Len(s) \in Nat
  OBVIOUS
<1> HIDE DEF one
<1>3. /\ one \o s \in Seq(S) /\ Len(one \o s) = Len(one) + Len(s)
      /\ ToSet(one \o s) = ToSet(one) \cup ToSet(s)
      /\ IsInjective(one) /\ IsInjective(s) /\ ToSet(one) \cap ToSet(s) = {}
           => IsInjective(one \o s)
  BY <1>1, ListConcat
<1>4. x \notin ToSet(s) => ToSet(one) \cap ToSet(s) = {}
  BY <1>1
<1> QED BY <1>1, <1>2, <1>3, <1>4 DEF one

\* A block put behind a list.
LEMMA ListAppend ==
  ASSUME NEW S, NEW x \in S, NEW s \in Seq(S)
  PROVE  /\ Append(s, x) \in Seq(S) /\ Len(Append(s, x)) = Len(s) + 1
         /\ Append(s, x) # <<>>
         /\ ToSet(Append(s, x)) = {x} \cup ToSet(s)
         /\ IsInjective(s) /\ x \notin ToSet(s) => IsInjective(Append(s, x))
<1> DEFINE one == <<x>>
<1>1. one \in Seq(S) /\ Len(one) = 1 /\ ToSet(one) = {x} /\ IsInjective(one)
  BY DEF ToSet, IsInjective
<1>2. Append(s, x) = s \o one /\ Append(s, x) # <<>>
  OBVIOUS
<1> HIDE DEF one
<1>3. /\ s \o one \in Seq(S) /\ Len(s \o one) = Len(s) + Len(one)
      /\ ToSet(s \o one) = ToSet(s) \cup ToSet(one)
      /\ IsInjective(s) /\ IsInjective(one) /\ ToSet(s) \cap ToSet(one) = {}
           => IsInjective(s \o one)
  BY <1>1, ListConcat
<1>4. x \notin ToSet(s) => ToSet(s) \cap ToSet(one) = {}
  BY <1>1
<1> QED BY <1>1, <1>2, <1>3, <1>4

\* A list cut in two.
LEMMA ListCut ==
  ASSUME NEW S, NEW s \in Seq(S), NEW k \in 0..Len(s)
  PROVE  LET front == SubSeq(s, 1, k)
             back  == SubSeq(s, k + 1, Len(s))
         IN  /\ front \in Seq(S) /\ Len(front) = k
             /\ back \in Seq(S) /\ Len(back) = Len(s) - k
             /\ ToSet(s) = ToSet(front) \cup ToSet(back)
             /\ IsInjective(s) => /\ IsInjective(front) /\ IsInjective(back)
                                  /\ ToSet(front) \cap ToSet(back) = {}
<1> DEFINE n     == Len(s)
           front == SubSeq(s, 1, k)
           back  == SubSeq(s, k + 1, n)
<1>1. n \in Nat /\ DOMAIN s = 1..n /\ k \in Nat /\ k <= n /\ \A i \in 1..n : s[i] \in S
  OBVIOUS
<1> HIDE DEF n
<1>2. front \in Seq(S) /\ Len(front) = k /\ \A i \in 1..k : front[i] = s[i]
  <2>1. \A i \in 1..k : s[i] \in S
    BY <1>1
  <2>2. /\ front \in Seq(S) /\ Len(front) = IF 1 <= k THEN k - 1 + 1 ELSE 0
        /\ \A i \in 1..k - 1 + 1 : front[i] = s[1 + i - 1]
    BY <1>1, <2>1, SubSeqProperties
  <2> HIDE DEF front
  <2> QED BY <1>1, <2>2
<1>3. back \in Seq(S) /\ Len(back) = n - k /\ \A i \in 1..n - k : back[i] = s[k + i]
  <2>1. \A i \in k + 1..n : s[i] \in S
    BY <1>1
  <2>2. /\ back \in Seq(S) /\ Len(back) = IF k + 1 <= n THEN n - (k + 1) + 1 ELSE 0
        /\ \A i \in 1..n - (k + 1) + 1 : back[i] = s[k + 1 + i - 1]
    BY <1>1, <2>1, SubSeqProperties
  <2> HIDE DEF back
  <2> QED BY <1>1, <2>2
<1> HIDE DEF front, back
<1>4. DOMAIN front = 1..k /\ DOMAIN back = 1..n - k
  BY <1>2, <1>3
<1>5. ToSet(s) = ToSet(front) \cup ToSet(back)
  <2>1. ASSUME NEW i \in 1..n
        PROVE  \/ i \in 1..k /\ s[i] = front[i]
               \/ i - k \in 1..n - k /\ s[i] = back[i - k]
    <3>1. CASE i <= k
      BY <1>1, <1>2, <3>1
    <3>2. CASE ~ (i <= k)
      <4>1. i - k \in 1..n - k /\ k + (i - k) = i
        BY <1>1, <3>2
      <4> QED BY <1>3, <4>1
    <3> QED BY <3>1, <3>2
  <2>2. ToSet(s) \subseteq ToSet(front) \cup ToSet(back)
    BY <1>1, <1>4, <2>1 DEF ToSet
  <2>3. ToSet(front) \subseteq ToSet(s)
    <3>1. \A i \in 1..k : i \in 1..n
      BY <1>1
    <3> QED BY <1>1, <1>2, <1>4, <3>1 DEF ToSet
  <2>4. ToSet(back) \subseteq ToSet(s)
    <3>1. \A i \in 1..n - k : k + i \in 1..n
      BY <1>1
    <3> QED BY <1>1, <1>3, <1>4, <3>1 DEF ToSet
  <2> QED BY <2>2, <2>3, <2>4
<1>6. ASSUME IsInjective(s)
      PROVE  /\ IsInjective(front) /\ IsInjective(back)
             /\ ToSet(front) \cap ToSet(back) = {}
  <2>1. \A i \in 1..k, j \in 1..n - k : k + j \in 1..n /\ i \in 1..n /\ i # k + j
    BY <1>1
  <2>2. IsInjective(front)
    BY <1>1, <1>2, <1>4, <1>6 DEF IsInjective
  <2>3. IsInjective(back)
    <3>1. \A i \in 1..n - k : k + i \in 1..n
      BY <1>1
    <3>2. \A i, j \in 1..n - k : back[i] = back[j] => k + i = k + j
      BY <1>1, <1>3, <1>6, <3>1 DEF IsInjective
    <3> QED BY <1>1, <1>4, <3>2 DEF IsInjective
  <2>4. ASSUME NEW i \in 1..k, NEW j \in 1..n - k
        PROVE  front[i] # back[j]
    <3>1. s[i] # s[k + j]
      BY <1>1, <1>6, <2>1 DEF IsInjective
    <3> QED BY <1>2, <1>3, <3>1
  <2> QED BY <1>4, <2>2, <2>3, <2>4 DEF ToSet
<1> QED BY <1>2, <1>3, <1>5, <1>6 DEF front, back, n

-----------------------------------------------------------------------------
(* Places                                                                  *)

USE PoolsAssumption

GlobalList(p)    == <<"global", p>>
CacheList(t, s)  == <<"cache", t, s>>
InTransit(t)     == <<"batch", t>>
WithClient(t)    == <<"client", t>>
Lost             == <<"lost">>

\* The places where a block can be.
LEMMA PlaceCases ==
  ASSUME NEW x \in Places
  PROVE  \/ \E p \in Pools : x = GlobalList(p)
         \/ \E t \in Threads, s \in Slots : x = CacheList(t, s)
         \/ \E t \in Threads : x = InTransit(t)
         \/ \E t \in Threads : x = WithClient(t)
         \/ x = Lost
BY DEF Places, GlobalList, CacheList, InTransit, WithClient, Lost

\* Different places are different values.
LEMMA PlacesApart ==
  /\ \A p \in Pools : GlobalList(p) \in Places
  /\ \A t \in Threads, s \in Slots : CacheList(t, s) \in Places
  /\ \A t \in Threads : InTransit(t) \in Places /\ WithClient(t) \in Places
  /\ Lost \in Places
  /\ \A p, q : GlobalList(p) = GlobalList(q) => p = q
  /\ \A t, u, r, s : CacheList(t, r) = CacheList(u, s) => t = u /\ r = s
  /\ \A t, u : /\ InTransit(t) = InTransit(u) => t = u
               /\ WithClient(t) = WithClient(u) => t = u
  /\ \A p, t, u, v, s :
       /\ GlobalList(p) # CacheList(t, s) /\ GlobalList(p) # InTransit(u)
       /\ GlobalList(p) # WithClient(v) /\ GlobalList(p) # Lost
       /\ CacheList(t, s) # InTransit(u) /\ CacheList(t, s) # WithClient(v)
       /\ CacheList(t, s) # Lost
       /\ InTransit(u) # WithClient(v) /\ InTransit(u) # Lost /\ WithClient(v) # Lost
BY DEF Places, GlobalList, CacheList, InTransit, WithClient, Lost

\* The blocks at each place.
LEMMA LocatedAt ==
  /\ \A p \in Pools : Located[GlobalList(p)] = ToSet(global[p])
  /\ \A t \in Threads, s \in Slots : Located[CacheList(t, s)] = ToSet(cache[t][s].list)
  /\ \A t \in Threads : /\ Located[InTransit(t)] = ToSet(frame[t].batch)
                        /\ Located[WithClient(t)] = owned[t]
  /\ Located[Lost] = leaked
<1>1. \A x \in Places : Located[x] = At(x)
  BY DEF Located
<1>2. \A p : At(GlobalList(p)) = ToSet(global[p])
  BY DEF At, GlobalList
<1>3. \A t, s : At(CacheList(t, s)) = ToSet(cache[t][s].list)
  BY DEF At, CacheList
<1>4. \A t : At(InTransit(t)) = ToSet(frame[t].batch) /\ At(WithClient(t)) = owned[t]
  BY DEF At, InTransit, WithClient
<1>5. At(Lost) = leaked
  BY DEF At, Lost
<1> QED BY <1>1, <1>2, <1>3, <1>4, <1>5, PlacesApart

\* The same after a step.
LEMMA LocatedAtNext ==
  /\ \A p \in Pools : Located'[GlobalList(p)] = ToSet(global'[p])
  /\ \A t \in Threads, s \in Slots : Located'[CacheList(t, s)] = ToSet(cache'[t][s].list)
  /\ \A t \in Threads : /\ Located'[InTransit(t)] = ToSet(frame'[t].batch)
                        /\ Located'[WithClient(t)] = owned'[t]
  /\ Located'[Lost] = leaked'
<1>1. \A x \in Places : Located'[x] = At(x)'
  BY DEF Located
<1>2. \A p : At(GlobalList(p))' = ToSet(global'[p])
  BY DEF At, GlobalList
<1>3. \A t, s : At(CacheList(t, s))' = ToSet(cache'[t][s].list)
  BY DEF At, CacheList
<1>4. \A t : At(InTransit(t))' = ToSet(frame'[t].batch) /\ At(WithClient(t))' = owned'[t]
  BY DEF At, InTransit, WithClient
<1>5. At(Lost)' = leaked'
  BY DEF At, Lost
<1> QED BY <1>1, <1>2, <1>3, <1>4, <1>5, PlacesApart

\* From A to A2 the blocks B go to the place y, from wherever they were.
Gather(A, A2, B, y) ==
  /\ Partition(A) /\ y \in Places /\ B \in SUBSET Blocks
  /\ A2 \in [Places -> SUBSET Blocks]
  /\ \A z \in Places : A2[z] = IF z = y THEN A[z] \cup B ELSE A[z] \ B

\* Blocks that move to one place are still at one place each.
LEMMA GatherKeeps ==
  ASSUME NEW A, NEW A2, NEW B, NEW y, Gather(A, A2, B, y)
  PROVE  Partition(A2)
<1>1. ASSUME NEW b \in Blocks
      PROVE  \E x \in Places : \A z \in Places : b \in A2[z] <=> z = x
  <2>1. PICK x \in Places : \A z \in Places : b \in A[z] <=> z = x
    BY DEF Gather, Partition
  <2>2. CASE b \in B
    BY <2>2 DEF Gather
  <2>3. CASE b \notin B
    BY <2>1, <2>3 DEF Gather
  <2> QED BY <2>2, <2>3
<1> QED BY <1>1 DEF Gather, Partition

\* The two ways of saying that each block is in one place.
LEMMA PartitionConserves ==
  ASSUME TypeOK, Partition(Located), NoRepeats
  PROVE  BlocksConserved
<1>1. \A x \in Places : Located[x] = At(x)
  BY DEF Located
<1>2. ASSUME NEW b \in Blocks
      PROVE  \E x \in Places : {y \in Places : b \in At(y)} = {x}
  <2>1. PICK x \in Places : \A y \in Places : b \in Located[y] <=> y = x
    BY DEF Partition
  <2> QED BY <1>1, <2>1
<1> QED BY <1>2 DEF BlocksConserved, NoRepeats

-----------------------------------------------------------------------------
(* A step of one thread                                                    *)

\* Pairwise disjoint sets.
Apart(G, C, F, O) ==
  /\ G \cap C = {} /\ G \cap F = {} /\ G \cap O = {}
  /\ C \cap F = {} /\ C \cap O = {} /\ F \cap O = {}

\* From A to A2 blocks change between four places, and no others are touched.
Shuffle(A, A2, x1, x2, x3, x4) ==
  /\ Partition(A) /\ {x1, x2, x3, x4} \subseteq Places
  /\ A2 \in [Places -> SUBSET Blocks]
  /\ Apart(A2[x1], A2[x2], A2[x3], A2[x4])
  /\ A2[x1] \cup A2[x2] \cup A2[x3] \cup A2[x4]
       = A[x1] \cup A[x2] \cup A[x3] \cup A[x4]
  /\ \A z \in Places \ {x1, x2, x3, x4} : A2[z] = A[z]

\* Blocks that move among four places are still at one place each.
LEMMA ShuffleKeeps ==
  ASSUME NEW A, NEW A2, NEW x1, NEW x2, NEW x3, NEW x4,
         Shuffle(A, A2, x1, x2, x3, x4)
  PROVE  Partition(A2)
<1>1. ASSUME NEW b \in Blocks
      PROVE  \E v \in Places : \A z \in Places : b \in A2[z] <=> z = v
  <2>1. PICK v \in Places : \A z \in Places : b \in A[z] <=> z = v
    BY DEF Shuffle, Partition
  <2>2. CASE b \in A2[x1] \cup A2[x2] \cup A2[x3] \cup A2[x4]
    <3>1. v \in {x1, x2, x3, x4}
      BY <2>1, <2>2 DEF Shuffle
    <3>2. \A z \in Places \ {x1, x2, x3, x4} : b \notin A2[z]
      BY <2>1, <3>1 DEF Shuffle
    <3>3. PICK w \in {x1, x2, x3, x4} : b \in A2[w]
      BY <2>2
    <3>4. \A z \in {x1, x2, x3, x4} : b \in A2[z] => z = w
      BY <3>3 DEF Shuffle, Apart
    <3> QED BY <3>2, <3>3, <3>4 DEF Shuffle
  <2>3. CASE b \notin A2[x1] \cup A2[x2] \cup A2[x3] \cup A2[x4]
    <3>1. v \notin {x1, x2, x3, x4}
      BY <2>1, <2>3 DEF Shuffle
    <3>2. \A z \in Places : b \in A2[z] <=> z = v
      BY <2>1, <2>3, <3>1 DEF Shuffle
    <3> QED BY <3>2
  <2> QED BY <2>2, <2>3
<1> QED BY <1>1 DEF Shuffle, Partition

\* The lists that a step of thread t on pool p and slot s works on.
LEMMA LocalApart ==
  ASSUME IInv, NEW t \in Threads, NEW s \in Slots, NEW p \in Pools
  PROVE  Apart(ToSet(global[p]), ToSet(cache[t][s].list), ToSet(frame[t].batch), owned[t])
<1>1. Partition(Located)
  BY DEF IInv
<1>2. ASSUME NEW x \in Places, NEW y \in Places, x # y
      PROVE  Located[x] \cap Located[y] = {}
  <2>1. Located[x] \subseteq Blocks
    BY <1>1 DEF Partition
  <2> QED BY <1>1, <1>2, <2>1 DEF Partition
<1>3. Apart(Located[GlobalList(p)], Located[CacheList(t, s)],
            Located[InTransit(t)], Located[WithClient(t)])
  BY <1>2, PlacesApart DEF Apart
<1> QED BY <1>3, LocatedAt

\* The blocks of a list are of its type.
LEMMA ToSetType ==
  ASSUME NEW S, NEW q \in Seq(S)
  PROVE  ToSet(q) \subseteq S
BY DEF ToSet

\* What a thread t does to the global list of p, to its cache in slot s, to its
\* frame and to what its client holds: g, c, f and o replace them, and no block
\* is lost or duplicated on the way.
LocalStep(t, s, p, g, c, f, o) ==
  /\ g \in Seq(Blocks) /\ c \in Cache /\ f \in Frame /\ o \in SUBSET Blocks
  /\ global' = [global EXCEPT ![p] = g]
  /\ cache' = [cache EXCEPT ![t][s] = c]
  /\ frame' = [frame EXCEPT ![t] = f]
  /\ owned' = [owned EXCEPT ![t] = o]
  /\ leaked' = leaked
  /\ bulk_lock' \in [Pools -> Threads \cup {Nil}]
  /\ source' \in [Blocks -> Pools \cup {Nil}]
  /\ alive' \in SUBSET Pools
  /\ IsInjective(g) /\ IsInjective(c.list) /\ IsInjective(f.batch)
  /\ c.size = Len(c.list) /\ c.pool \in Pools /\ Slot[c.pool] = s /\ Slot[p] = s
  /\ frame[t].pc \in {"idle", "fallback"} \/ Slot[frame[t].pool] = s
  /\ f.pc # "idle" => f.pool \in Pools /\ Slot[f.pool] = s
  /\ c.pool \in {p, cache[t][s].pool}
  /\ f.pc # "idle" => f.pool = p \/ (frame[t].pc # "idle" /\ f.pool = frame[t].pool)
  /\ MarksAt(t, s) => WithinMarks(Batch[c.pool], c, f)
  /\ f.pc \in {"idle", "refill", "fallback", "push_unlock"} => f.batch = <<>>
  /\ f.pc \in {"flush", "push_bulk"} => f.batch # <<>>
  /\ f.pc = "fallback" => f.rest # <<>>
  /\ \A b \in o : source'[b] = IF b \in owned[t] THEN source[b] ELSE p
  /\ \A b \in Blocks : b \notin owned[t] \cup o => source'[b] = source[b]
  /\ Apart(ToSet(g), ToSet(c.list), ToSet(f.batch), o)
  /\ ToSet(g) \cup ToSet(c.list) \cup ToSet(f.batch) \cup o
       = ToSet(global[p]) \cup ToSet(cache[t][s].list) \cup ToSet(frame[t].batch)
         \cup owned[t]

\* Such a step keeps the invariant.
LEMMA LocalStepKeeps ==
  ASSUME IInv, NEW t \in Threads, NEW s \in Slots, NEW p \in Pools,
         NEW g, NEW c, NEW f, NEW o, LocalStep(t, s, p, g, c, f, o)
  PROVE  IInv'
<1> USE DEF LocalStep
<1>1. TypeOK
  BY DEF IInv
<1>2. TypeOK'
  <2>1. global' \in [Pools -> Seq(Blocks)]
    BY <1>1 DEF TypeOK
  <2>2. cache' \in [Threads -> [Slots -> Cache]]
    BY <1>1 DEF TypeOK
  <2>3. frame' \in [Threads -> Frame] /\ owned' \in [Threads -> SUBSET Blocks]
    BY <1>1 DEF TypeOK
  <2> QED BY <1>1, <2>1, <2>2, <2>3 DEF TypeOK
<1>3. /\ \A q \in Pools : global'[q] = IF q = p THEN g ELSE global[q]
      /\ \A u \in Threads, r \in Slots :
           cache'[u][r] = IF u = t /\ r = s THEN c ELSE cache[u][r]
      /\ \A u \in Threads : /\ frame'[u] = IF u = t THEN f ELSE frame[u]
                            /\ owned'[u] = IF u = t THEN o ELSE owned[u]
  BY <1>1 DEF TypeOK
<1>4. SizeExact'
  BY <1>3 DEF IInv, SizeExact
<1>5. NoRepeats'
  BY <1>3 DEF IInv, NoRepeats
<1>6. ASSUME NEW u \in Threads PROVE FrameOK(frame'[u], cache'[u])
  <2>1. CASE u = t
    BY <1>3, <2>1 DEF FrameOK
  <2>2. CASE u # t
    <3>1. cache'[u] = cache[u] /\ frame'[u] = frame[u]
      BY <1>1, <1>3, <2>2 DEF TypeOK
    <3> QED BY <3>1 DEF IInv
  <2> QED BY <2>1, <2>2
<1>7. Partition(Located)
  BY DEF IInv
<1> DEFINE x1 == GlobalList(p)
           x2 == CacheList(t, s)
           x3 == InTransit(t)
           x4 == WithClient(t)
<1>8. /\ x1 \in Places /\ x2 \in Places /\ x3 \in Places /\ x4 \in Places
      /\ x1 # x2 /\ x1 # x3 /\ x1 # x4 /\ x2 # x3 /\ x2 # x4 /\ x3 # x4
  BY PlacesApart
<1>9. /\ Located[x1] = ToSet(global[p]) /\ Located[x2] = ToSet(cache[t][s].list)
      /\ Located[x3] = ToSet(frame[t].batch) /\ Located[x4] = owned[t]
      /\ Located'[x1] = ToSet(g) /\ Located'[x2] = ToSet(c.list)
      /\ Located'[x3] = ToSet(f.batch) /\ Located'[x4] = o
  BY <1>3, LocatedAt, LocatedAtNext
<1>10. \A z \in Places \ {x1, x2, x3, x4} : Located'[z] = Located[z]
  <2> SUFFICES ASSUME NEW z \in Places \ {x1, x2, x3, x4}
               PROVE  Located'[z] = Located[z]
    OBVIOUS
  <2>1. CASE \E q \in Pools : z = GlobalList(q)
    <3>1. PICK q \in Pools : z = GlobalList(q)
      BY <2>1
    <3>2. q # p
      BY <3>1
    <3> QED BY <1>3, <3>1, <3>2, LocatedAt, LocatedAtNext
  <2>2. CASE \E u \in Threads, r \in Slots : z = CacheList(u, r)
    <3>1. PICK u \in Threads, r \in Slots : z = CacheList(u, r)
      BY <2>2
    <3>2. ~ (u = t /\ r = s)
      BY <3>1
    <3>3. cache'[u][r] = cache[u][r]
      BY <1>3, <3>2
    <3>4. Located'[CacheList(u, r)] = ToSet(cache'[u][r].list)
          /\ Located[CacheList(u, r)] = ToSet(cache[u][r].list)
      BY LocatedAt, LocatedAtNext
    <3> QED BY <3>1, <3>3, <3>4
  <2>3. CASE \E u \in Threads : z = InTransit(u)
    <3>1. PICK u \in Threads : z = InTransit(u)
      BY <2>3
    <3>2. u # t
      BY <3>1
    <3> QED BY <1>3, <3>1, <3>2, LocatedAt, LocatedAtNext
  <2>4. CASE \E u \in Threads : z = WithClient(u)
    <3>1. PICK u \in Threads : z = WithClient(u)
      BY <2>4
    <3>2. u # t
      BY <3>1
    <3> QED BY <1>3, <3>1, <3>2, LocatedAt, LocatedAtNext
  <2>5. CASE z = Lost
    BY <2>5, LocatedAt, LocatedAtNext
  <2> QED BY <2>1, <2>2, <2>3, <2>4, <2>5, PlaceCases
<1>11. Located' \in [Places -> SUBSET Blocks]
  <2>1. Located' = [z \in Places |-> Located'[z]]
    BY DEF Located
  <2>2. \A z \in Places : Located'[z] \in SUBSET Blocks
    <3>1. ToSet(g) \subseteq Blocks /\ ToSet(c.list) \subseteq Blocks
          /\ ToSet(f.batch) \subseteq Blocks
      BY ToSetType DEF Cache, Frame
    <3>2. \A z \in Places : Located[z] \in SUBSET Blocks
      BY <1>7 DEF Partition
    <3>3. \A z \in {x1, x2, x3, x4} : Located'[z] \in SUBSET Blocks
      BY <1>9, <3>1
    <3>4. \A z \in Places \ {x1, x2, x3, x4} : Located'[z] \in SUBSET Blocks
      BY <1>10, <3>2
    <3> QED BY <3>3, <3>4
  <2> QED BY <2>1, <2>2
<1>12. Partition(Located')
  <2>1. Apart(Located'[x1], Located'[x2], Located'[x3], Located'[x4])
    BY <1>9
  <2>2. Located'[x1] \cup Located'[x2] \cup Located'[x3] \cup Located'[x4]
          = Located[x1] \cup Located[x2] \cup Located[x3] \cup Located[x4]
    BY <1>9
  <2> HIDE DEF x1, x2, x3, x4
  <2>3. Shuffle(Located, Located', x1, x2, x3, x4)
    BY <1>7, <1>8, <1>10, <1>11, <2>1, <2>2 DEF Shuffle
  <2> QED BY <2>3, ShuffleKeeps
<1>13. SourceKnown'
  <2>1. ASSUME NEW u \in Threads, NEW b \in owned'[u] PROVE source'[b] \in Pools
    <3>1. CASE u = t
      <4>1. \A x \in owned[t] : source[x] \in Pools
        BY DEF IInv, SourceKnown
      <4>2. b \in o
        BY <1>3, <3>1
      <4>3. source'[b] = IF b \in owned[t] THEN source[b] ELSE p
        BY <4>2
      <4> HIDE DEF LocalStep
      <4> QED BY <4>1, <4>3
    <3>2. CASE u # t
      <4>1. b \in owned[u] /\ b \in Blocks
        BY <1>1, <1>3, <3>2 DEF TypeOK
      <4>2. Located[WithClient(u)] = owned[u] /\ WithClient(u) \in Places
            /\ WithClient(u) \notin {x1, x2, x3, x4}
        BY <3>2, LocatedAt, PlacesApart
      <4>3. b \notin Located[x4] /\ b \notin Located'[x4]
        BY <1>7, <1>8, <1>10, <1>12, <4>1, <4>2 DEF Partition
      <4> QED BY <1>9, <4>1, <4>3 DEF IInv, SourceKnown
    <3> QED BY <3>1, <3>2
  <2> QED BY <2>1 DEF SourceKnown
<1>14. Partition(Located)'
  BY <1>12 DEF Partition
<1>15. SlotsKept'
  <2>1. Nil \notin Pools
    OBVIOUS
  <2> QED BY <1>3, <2>1 DEF IInv, SlotsKept
<1>16. Marks'
  <2> SUFFICES ASSUME NEW u \in Threads, NEW r \in Slots, cache'[u][r].pool \in Pools
               PROVE  WithinMarks(Batch[cache'[u][r].pool], cache'[u][r], FrameAt(u, r)')
    BY DEF Marks, MarksAt
  <2>1. MarksAt(u, r) /\ MarksAt(t, s)
    BY DEF IInv, Marks
  <2>2. CASE u # t
    <3>1. cache'[u][r] = cache[u][r] /\ FrameAt(u, r)' = FrameAt(u, r)
      BY <1>3, <2>2 DEF FrameAt
    <3> QED BY <2>1, <3>1 DEF MarksAt
  <2>3. CASE u = t /\ r = s
    <3>1. cache'[u][r] = c /\ frame'[u] = f /\ WithinMarks(Batch[c.pool], c, f)
      BY <1>3, <2>1, <2>3
    <3>2. CASE f.pc # "idle"
      <4>1. FrameAt(u, r)' = f
        BY <2>3, <3>1, <3>2 DEF FrameAt
      <4> QED BY <3>1, <4>1
    <3>3. CASE f.pc = "idle"
      <4>1. FrameAt(u, r)' = Idle
        BY <3>1, <3>3 DEF FrameAt
      <4>2. c.size <= 2 * Batch[c.pool] /\ c.size + Len(f.batch) <= 2 * Batch[c.pool] + 1
            /\ f.batch = <<>>
        BY <3>1, <3>3 DEF WithinMarks
      <4> HIDE DEF LocalStep
      <4>3. WithinMarks(Batch[c.pool], c, Idle)
        BY <4>2 DEF WithinMarks, Idle
      <4> QED BY <3>1, <4>1, <4>3
    <3> QED BY <3>2, <3>3
  <2>4. CASE u = t /\ r # s
    <3>1. cache'[u][r] = cache[u][r]
      BY <1>3, <2>4
    <3>2. FrameAt(u, r)' = Idle
      BY <1>3, <2>4 DEF FrameAt
    <3>3. FrameAt(u, r) = Idle \/ (FrameAt(u, r) = frame[u] /\ frame[u].pc = "fallback")
      BY <2>4 DEF FrameAt
    <3> DEFINE k == cache[u][r]
    <3>4. WithinMarks(Batch[k.pool], k, FrameAt(u, r))
      BY <2>1, <3>1 DEF MarksAt
    <3>5. frame[u].pc = "fallback" => frame[u].batch = <<>>
      BY DEF IInv, FrameOK
    <3> HIDE DEF LocalStep, k
    <3>6. k.size <= 2 * Batch[k.pool] /\ k.size + Len(<<>>) <= 2 * Batch[k.pool] + 1
      BY <3>3, <3>4, <3>5 DEF WithinMarks, Idle
    <3>7. WithinMarks(Batch[k.pool], k, Idle)
      BY <3>6 DEF WithinMarks, Idle
    <3> QED BY <3>1, <3>2, <3>7 DEF k
  <2> QED BY <2>2, <2>3, <2>4
<1> QED BY <1>2, <1>4, <1>5, <1>6, <1>13, <1>14, <1>15, <1>16 DEF IInv

-----------------------------------------------------------------------------
(* The steps inside a call                                                 *)

\* The frame of an idle thread.
LEMMA IdleType == Idle \in Frame /\ Idle.pc = "idle" /\ Idle.batch = <<>>
BY DEF Idle, Frame, PCs

\* The lists that a step works on.
LEMMA ListFacts ==
  ASSUME IInv, NEW t \in Threads, NEW s \in Slots, NEW p \in Pools
  PROVE  /\ global[p] \in Seq(Blocks) /\ IsInjective(global[p])
         /\ cache[t][s] \in Cache /\ cache[t][s].list \in Seq(Blocks)
         /\ IsInjective(cache[t][s].list)
         /\ cache[t][s].size = Len(cache[t][s].list)
         /\ frame[t] \in Frame /\ frame[t].batch \in Seq(Blocks)
         /\ IsInjective(frame[t].batch)
         /\ owned[t] \in SUBSET Blocks
         /\ \A b \in owned[t] : source[b] \in Pools
         /\ global = [global EXCEPT ![p] = global[p]]
         /\ cache = [cache EXCEPT ![t][s] = cache[t][s]]
         /\ owned = [owned EXCEPT ![t] = owned[t]]
         /\ bulk_lock \in [Pools -> Threads \cup {Nil}]
         /\ source \in [Blocks -> Pools \cup {Nil}]
         /\ alive \in SUBSET Pools
<1>1. TypeOK /\ SizeExact /\ NoRepeats /\ SourceKnown
  BY DEF IInv
<1>2. /\ global[p] \in Seq(Blocks) /\ cache[t][s] \in Cache /\ frame[t] \in Frame
      /\ owned[t] \in SUBSET Blocks
  BY <1>1 DEF TypeOK
<1>3. cache[t][s].list \in Seq(Blocks) /\ frame[t].batch \in Seq(Blocks)
  BY <1>2 DEF Cache, Frame
<1>4. /\ global = [global EXCEPT ![p] = global[p]]
      /\ cache = [cache EXCEPT ![t][s] = cache[t][s]]
      /\ owned = [owned EXCEPT ![t] = owned[t]]
  BY <1>1 DEF TypeOK
<1>5. /\ IsInjective(global[p]) /\ IsInjective(cache[t][s].list)
      /\ IsInjective(frame[t].batch) /\ cache[t][s].size = Len(cache[t][s].list)
      /\ \A b \in owned[t] : source[b] \in Pools
  BY <1>1 DEF NoRepeats, SizeExact, SourceKnown
<1> QED BY <1>1, <1>2, <1>3, <1>4, <1>5 DEF TypeOK

\* A call works on the cache of the slot of its pool.
LEMMA CallFacts ==
  ASSUME IInv, NEW t \in Threads, frame[t].pc # "idle"
  PROVE  /\ frame[t].pool \in Pools /\ Slot[frame[t].pool] \in Slots
         /\ Current(t).pool \in Pools
         /\ Slot[Current(t).pool] = Slot[frame[t].pool]
         /\ MarksAt(t, Slot[frame[t].pool]) =>
              WithinMarks(Batch[Current(t).pool], Current(t), frame[t])
         /\ frame[t].pc \in {"refill", "fallback", "push_unlock"} => frame[t].batch = <<>>
         /\ frame[t].pc \in {"flush", "push_bulk"} => frame[t].batch # <<>>
         /\ frame[t].pc = "fallback" => frame[t].rest # <<>>
<1>1. /\ frame[t].pool \in Pools /\ Slot[frame[t].pool] \in Slots
      /\ Current(t).pool \in Pools
  BY DEF IInv, FrameOK, Current, Slots
<1>2. Slot[Current(t).pool] = Slot[frame[t].pool]
  BY <1>1 DEF IInv, SlotsKept, Current
<1>3. MarksAt(t, Slot[frame[t].pool]) =>
        WithinMarks(Batch[Current(t).pool], Current(t), frame[t])
  BY <1>1 DEF MarksAt, FrameAt, Current
<1> QED BY <1>1, <1>2, <1>3 DEF IInv, FrameOK

\* A step that leaves the caches and the clients alone.
LEMMA Unmoved ==
  ASSUME IInv, NEW t \in Threads, NEW s \in Slots,
         UNCHANGED <<bulk_lock, cache, owned, source, alive, leaked>>
  PROVE  /\ cache[t][s] \in Cache /\ owned[t] \in SUBSET Blocks
         /\ cache' = [cache EXCEPT ![t][s] = cache[t][s]]
         /\ owned' = [owned EXCEPT ![t] = owned[t]]
         /\ leaked' = leaked
         /\ bulk_lock' \in [Pools -> Threads \cup {Nil}]
         /\ source' \in [Blocks -> Pools \cup {Nil}]
         /\ alive' \in SUBSET Pools
         /\ IsInjective(cache[t][s].list)
         /\ cache[t][s].size = Len(cache[t][s].list)
         /\ \A b \in Blocks : source'[b] = source[b]
<1>1. TypeOK /\ SizeExact /\ NoRepeats /\ SourceKnown
  BY DEF IInv
<1>2. cache[t][s] \in Cache /\ owned[t] \in SUBSET Blocks
  BY <1>1 DEF TypeOK
<1>3. /\ cache' = [cache EXCEPT ![t][s] = cache[t][s]]
      /\ owned' = [owned EXCEPT ![t] = owned[t]]
  BY <1>1 DEF TypeOK
<1>4. /\ IsInjective(cache[t][s].list) /\ cache[t][s].size = Len(cache[t][s].list)
  BY <1>1 DEF NoRepeats, SizeExact
<1> QED BY <1>1, <1>2, <1>3, <1>4 DEF TypeOK

\* A step of thread t, on one of the pools P, after which its client holds what
\* it held, or more.
StepsOn(t, P) ==
  \E s \in Slots, p \in P \cap Pools : \E g, c, f, o :
    LocalStep(t, s, p, g, c, f, o) /\ owned[t] \subseteq o

Steps(t) == StepsOn(t, Pools)

\* The steps that move no block.
LEMMA QuietSteps ==
  ASSUME IInv, NEW t \in Threads,
         RefillLock(t) \/ RefillEmpty(t) \/ FlushLock(t) \/ FlushUnlock(t)
  PROVE  StepsOn(t, {Current(t).pool}) /\ owned' = owned
<1> DEFINE s == Slot[frame[t].pool]
           p == Current(t).pool
           f == IF frame[t].pc = "push_unlock" THEN Idle
                ELSE [frame[t] EXCEPT !.pc = IF frame[t].pc = "refill" THEN "pop_bulk"
                                             ELSE IF frame[t].pc = "flush" THEN "push_bulk"
                                             ELSE "pop_unlock"]
<1>1. frame[t].pc \in {"refill", "pop_bulk", "flush", "push_unlock"}
      /\ frame' = [frame EXCEPT ![t] = f]
      /\ UNCHANGED <<global, cache, owned, source, alive, leaked>>
  BY DEF RefillLock, RefillEmpty, FlushLock, FlushUnlock
<1>2. /\ s \in Slots /\ p \in Pools /\ frame[t].pool \in Pools /\ Slot[p] = s
      /\ MarksAt(t, s) => WithinMarks(Batch[p], Current(t), frame[t])
      /\ frame[t].pc = "refill" => frame[t].batch = <<>>
      /\ frame[t].pc = "push_unlock" => frame[t].batch = <<>>
      /\ frame[t].pc = "flush" => frame[t].batch # <<>>
  BY <1>1, CallFacts
<1>3. frame[t] \in Frame
  BY DEF IInv, TypeOK
<1>4. /\ f \in Frame /\ f.batch = frame[t].batch
      /\ f.pc \in {"idle", "pop_bulk", "push_bulk", "pop_unlock"}
      /\ f.pc # "idle" => f.pool = frame[t].pool
      /\ f.pc = "idle" <=> frame[t].pc = "push_unlock"
      /\ f.pc = "push_bulk" => frame[t].pc = "flush"
      /\ f.pc = "pop_bulk" => frame[t].pc = "refill"
      /\ f.pc = "pop_unlock" => frame[t].pc = "pop_bulk"
  BY <1>1, <1>2, <1>3, IdleType DEF Frame, PCs
<1>5. bulk_lock' \in [Pools -> Threads \cup {Nil}]
  <2>1. bulk_lock \in [Pools -> Threads \cup {Nil}]
    BY DEF IInv, TypeOK
  <2>2. \/ bulk_lock' = bulk_lock
        \/ \E v \in Threads \cup {Nil} : bulk_lock' = [bulk_lock EXCEPT ![p] = v]
    BY DEF RefillLock, RefillEmpty, FlushLock, FlushUnlock
  <2> QED BY <2>1, <2>2
<1> HIDE DEF s, p, f
<1>6. Apart(ToSet(global[p]), ToSet(cache[t][s].list), ToSet(f.batch), owned[t])
  BY <1>2, <1>4, LocalApart
<1>7. cache[t][s].pool \in Pools
  BY <1>2 DEF Current, s, p
<1>8. LocalStep(t, s, p, global[p], cache[t][s], f, owned[t])
  <2>1. /\ global' = [global EXCEPT ![p] = global[p]]
        /\ cache' = [cache EXCEPT ![t][s] = cache[t][s]]
        /\ owned' = [owned EXCEPT ![t] = owned[t]]
    BY <1>1, <1>2, ListFacts
  <2>2. f.pc # "idle" => f.pool \in Pools /\ Slot[f.pool] = s
    BY <1>2, <1>4 DEF s
  <2>3. IsInjective(f.batch) /\ IsInjective(global[p]) /\ IsInjective(cache[t][s].list)
    BY <1>2, <1>4, ListFacts
  <2>4. /\ global[p] \in Seq(Blocks) /\ cache[t][s] \in Cache /\ owned[t] \in SUBSET Blocks
        /\ cache[t][s].size = Len(cache[t][s].list)
    BY <1>2, ListFacts
  <2>5. /\ source' \in [Blocks -> Pools \cup {Nil}] /\ alive' \in SUBSET Pools
        /\ source' = source
    BY <1>1, <1>2, ListFacts
  <2>6. /\ frame[t].pc \in {"idle", "fallback"} \/ Slot[frame[t].pool] = s
        /\ Slot[cache[t][s].pool] = s
    BY <1>2 DEF s, p, Current
  <2>7. ASSUME MarksAt(t, s)
        PROVE  WithinMarks(Batch[cache[t][s].pool], cache[t][s], f)
    <3>1. WithinMarks(Batch[p], cache[t][s], frame[t]) /\ p = cache[t][s].pool
      BY <1>2, <2>7 DEF Current, s, p
    <3>2. Batch[p] \in Nat /\ Len(<<>>) = 0
      BY <1>2
    <3>3. WithinMarks(Batch[p], cache[t][s], f)
      BY <1>1, <1>2, <1>4, <3>1, <3>2 DEF WithinMarks
    <3> QED BY <3>1, <3>3
  <2>8. \A b \in owned[t] : source'[b] = IF b \in owned[t] THEN source[b] ELSE p
    BY <2>5
  <2>9. \A b \in Blocks : b \notin owned[t] \cup owned[t] => source'[b] = source[b]
    BY <2>5
  <2>10. f.pc # "idle" => frame[t].pc # "idle" /\ f.pool = frame[t].pool
    BY <1>1, <1>4
  <2> QED BY <1>1, <1>2, <1>4, <1>5, <1>6, <1>7, <2>1, <2>2, <2>3, <2>4, <2>5, <2>6, <2>7,
             <2>8, <2>9, <2>10 DEF LocalStep
<1> QED BY <1>1, <1>2, <1>8 DEF StepsOn, p

\* pop_bulk takes a block from the global list into the batch.
LEMMA RefillPopSteps ==
  ASSUME IInv, NEW t \in Threads, RefillPop(t)
  PROVE  StepsOn(t, {Current(t).pool}) /\ owned' = owned
<1> DEFINE s == Slot[frame[t].pool]
           p == Current(t).pool
           h == Head(global[p])
           g == Tail(global[p])
           f == [frame[t] EXCEPT !.pc = IF WantsMore(t) THEN "pop_bulk" ELSE "pop_unlock",
                                 !.batch = Append(@, h)]
<1>1. /\ s \in Slots /\ p \in Pools /\ frame[t].pool \in Pools /\ Slot[p] = s
      /\ frame[t].pc = "pop_bulk"
      /\ MarksAt(t, s) => WithinMarks(Batch[p], Current(t), frame[t])
  BY CallFacts DEF RefillPop
<1>2. /\ global[p] \in Seq(Blocks) /\ IsInjective(global[p])
      /\ frame[t] \in Frame /\ frame[t].batch \in Seq(Blocks)
      /\ IsInjective(frame[t].batch) /\ global[p] # <<>>
  BY <1>1, ListFacts DEF RefillPop
<1>3. /\ g \in Seq(Blocks) /\ h \in Blocks
      /\ IsInjective(g) /\ h \notin ToSet(g)
      /\ ToSet(global[p]) = {h} \cup ToSet(g)
  BY <1>2, ListHead
<1>4. frame' = [frame EXCEPT ![t] = f] /\ global' = [global EXCEPT ![p] = g]
      /\ UNCHANGED <<bulk_lock, cache, owned, source, alive, leaked>>
  <2>1. global \in [Pools -> Seq(Blocks)] /\ frame \in [Threads -> Frame]
    BY DEF IInv, TypeOK
  <2>2. frame' = [frame EXCEPT ![t] = f]
    BY <2>1 DEF RefillPop
  <2>3. global' = [global EXCEPT ![p] = g]
    BY <1>1, <2>1 DEF RefillPop
  <2> QED BY <2>2, <2>3 DEF RefillPop
<1>5. Apart(ToSet(global[p]), ToSet(cache[t][s].list), ToSet(frame[t].batch), owned[t])
  BY <1>1, LocalApart
<1> HIDE DEF s, p, h, g
<1>6. h \notin ToSet(frame[t].batch)
  BY <1>3, <1>5 DEF Apart
<1>7. /\ Append(frame[t].batch, h) \in Seq(Blocks)
      /\ ToSet(Append(frame[t].batch, h)) = {h} \cup ToSet(frame[t].batch)
      /\ IsInjective(Append(frame[t].batch, h))
  BY <1>2, <1>3, <1>6, ListAppend
<1>8. /\ f \in Frame /\ f.batch = Append(frame[t].batch, h)
      /\ f.pc \in {"pop_bulk", "pop_unlock"} /\ f.pool = frame[t].pool
      /\ f.pc = "pop_bulk" => WantsMore(t)
  BY <1>2, <1>7 DEF Frame, PCs
<1> HIDE DEF f
<1>9. Apart(ToSet(g), ToSet(cache[t][s].list), ToSet(f.batch), owned[t])
  BY <1>3, <1>5, <1>7, <1>8 DEF Apart
<1>10. ToSet(g) \cup ToSet(cache[t][s].list) \cup ToSet(f.batch) \cup owned[t]
         = ToSet(global[p]) \cup ToSet(cache[t][s].list) \cup ToSet(frame[t].batch)
           \cup owned[t]
  BY <1>3, <1>7, <1>8
<1>11. cache[t][s].pool \in Pools /\ Slot[f.pool] = s /\ Slot[cache[t][s].pool] = s
       /\ Slot[frame[t].pool] = s
  BY <1>1, <1>8 DEF Current, s, p
<1>13. ASSUME MarksAt(t, s)
       PROVE  WithinMarks(Batch[cache[t][s].pool], cache[t][s], f)
  <2> DEFINE m == Len(frame[t].batch)
             n == Len(f.batch)
             c == cache[t][s]
  <2>1. m \in Nat /\ n = m + 1
    BY <1>2, <1>3, <1>8, ListAppend
  <2>2. c = Current(t) /\ p = c.pool
    BY DEF Current, s, p
  <2>3. c.size <= Batch[p] \div 2 /\ (m < Batch[p] \/ m = 0)
    BY <1>1, <1>13, <2>2 DEF WithinMarks
  <2>4. WantsMore(t) => n < Batch[p]
    BY <2>1, <2>2 DEF WantsMore, batch_size
  <2>5. Batch[p] \in Nat /\ c.size \in Nat
    <3>1. c \in Cache
      BY <1>1, ListFacts
    <3> QED BY <1>1, <3>1 DEF Cache
  <2> HIDE DEF m, n, c
  <2>6. n <= Batch[p] \/ n <= 1
    BY <2>1, <2>3, <2>5
  <2>7. c.size + n <= 2 * Batch[p] + 1
    BY <2>1, <2>3, <2>5, <2>6
  <2>8. /\ f.pc = "pop_bulk" => n < Batch[p] \/ n = 0
        /\ f.pc \in {"refill", "pop_bulk", "pop_unlock"}
    BY <1>8, <2>4
  <2>9. WithinMarks(Batch[p], c, f)
    BY <2>3, <2>6, <2>7, <2>8 DEF WithinMarks, n
  <2> QED BY <2>2, <2>9 DEF c
<1>12. LocalStep(t, s, p, g, cache[t][s], f, owned[t])
  <2>1. f.pc # "idle" /\ f.pc \notin {"idle", "refill", "fallback", "push_unlock"}
        /\ f.pc \notin {"flush", "push_bulk"}
    BY <1>8
  <2>2. /\ \A b \in owned[t] : source'[b] = IF b \in owned[t] THEN source[b] ELSE p
        /\ \A b \in Blocks : b \notin owned[t] \cup owned[t] => source'[b] = source[b]
    BY <1>4
  <2> QED BY <1>1, <1>3, <1>4, <1>7, <1>8, <1>9, <1>10, <1>11, <1>13, <2>1, <2>2, Unmoved
          DEF LocalStep
<1> QED BY <1>1, <1>4, <1>12 DEF StepsOn, p

\* push_bulk puts the first block of the batch on the global list.
LEMMA FlushPushSteps ==
  ASSUME IInv, NEW t \in Threads, FlushPush(t)
  PROVE  StepsOn(t, {Current(t).pool}) /\ owned' = owned
<1> DEFINE s == Slot[frame[t].pool]
           p == Current(t).pool
           q == frame[t].batch
           g == <<q[1]>> \o global[p]
           f == [frame[t] EXCEPT !.pc = IF Len(q) > 1 THEN "push_bulk" ELSE "push_unlock",
                                 !.batch = Tail(q)]
<1>1. /\ s \in Slots /\ p \in Pools /\ frame[t].pool \in Pools /\ q # <<>>
      /\ Slot[p] = s /\ frame[t].pc = "push_bulk"
      /\ MarksAt(t, s) => WithinMarks(Batch[p], Current(t), frame[t])
  BY CallFacts DEF FlushPush
<1>2. /\ global[p] \in Seq(Blocks) /\ IsInjective(global[p])
      /\ frame[t] \in Frame /\ q \in Seq(Blocks) /\ IsInjective(q)
  BY <1>1, ListFacts
<1>3. frame' = [frame EXCEPT ![t] = f] /\ global' = [global EXCEPT ![p] = g]
      /\ UNCHANGED <<bulk_lock, cache, owned, source, alive, leaked>>
  BY DEF FlushPush
<1>4. Apart(ToSet(global[p]), ToSet(cache[t][s].list), ToSet(q), owned[t])
  BY <1>1, LocalApart
<1>5. /\ Tail(q) \in Seq(Blocks) /\ Len(Tail(q)) = Len(q) - 1 /\ Len(q) >= 1
      /\ q[1] \in Blocks
      /\ ToSet(q) = {q[1]} \cup ToSet(Tail(q))
      /\ IsInjective(Tail(q)) /\ q[1] \notin ToSet(Tail(q))
  BY <1>1, <1>2, ListHead
<1>6. q[1] \notin ToSet(global[p])
  BY <1>4, <1>5 DEF Apart
<1>7. g \in Seq(Blocks) /\ ToSet(g) = {q[1]} \cup ToSet(global[p]) /\ IsInjective(g)
  BY <1>2, <1>5, <1>6, ListCons
<1>8. /\ f \in Frame /\ f.batch = Tail(q) /\ f.pool = frame[t].pool
      /\ f.pc = IF Len(q) > 1 THEN "push_bulk" ELSE "push_unlock"
  BY <1>2, <1>5 DEF Frame, PCs
<1> HIDE DEF s, p, q, g, f
<1>9. Len(q) > 1 <=> Tail(q) # <<>>
  <2> DEFINE r == Tail(q)
  <2>2. Len(r) = Len(q) - 1 /\ r \in Seq(Blocks)
    BY <1>5
  <2> HIDE DEF r
  <2>1. Len(q) \in Nat /\ Len(r) \in Nat
    BY <1>2, <2>2
  <2>4. Len(r) = 0 <=> r = <<>>
    BY <2>2, EmptySeq
  <2>3. Len(q) > 1 <=> r # <<>>
    BY <2>1, <2>2, <2>4
  <2> QED BY <2>3 DEF r
<1>10. /\ f.pc = "push_bulk" => f.batch # <<>>
       /\ f.pc = "push_unlock" => f.batch = <<>>
       /\ f.pc \in {"push_bulk", "push_unlock"}
  BY <1>8, <1>9
<1>11. Apart(ToSet(g), ToSet(cache[t][s].list), ToSet(f.batch), owned[t])
  BY <1>4, <1>5, <1>7, <1>8 DEF Apart
<1>12. ToSet(g) \cup ToSet(cache[t][s].list) \cup ToSet(f.batch) \cup owned[t]
         = ToSet(global[p]) \cup ToSet(cache[t][s].list) \cup ToSet(frame[t].batch)
           \cup owned[t]
  BY <1>5, <1>7, <1>8 DEF q
<1>13. cache[t][s].pool \in Pools /\ Slot[f.pool] = s /\ Slot[cache[t][s].pool] = s
       /\ Slot[frame[t].pool] = s
  BY <1>1, <1>8 DEF Current, s, p
<1>15. ASSUME MarksAt(t, s)
       PROVE  WithinMarks(Batch[cache[t][s].pool], cache[t][s], f)
  <2> DEFINE m == Len(frame[t].batch)
             n == Len(f.batch)
             c == cache[t][s]
  <2>1. m \in Nat /\ n \in Nat /\ n <= m
    <3>1. n = Len(q) - 1 /\ m = Len(q) /\ Len(q) \in Nat /\ Len(q) >= 1
      BY <1>2, <1>5, <1>8 DEF q
    <3> QED BY <3>1
  <2>2. c = Current(t) /\ p = c.pool
    BY DEF Current, s, p
  <2>3. c.size <= 2 * Batch[p] /\ c.size + m <= 2 * Batch[p] + 1
    BY <1>1, <1>15, <2>2 DEF WithinMarks
  <2>4. Batch[p] \in Nat /\ c.size \in Nat
    <3>1. c \in Cache
      BY <1>1, ListFacts
    <3> QED BY <1>1, <3>1 DEF Cache
  <2> HIDE DEF m, n, c
  <2>5. c.size + n <= 2 * Batch[p] + 1
    BY <2>1, <2>3, <2>4
  <2>6. WithinMarks(Batch[p], c, f)
    BY <1>10, <2>3, <2>5 DEF WithinMarks, n
  <2> QED BY <2>2, <2>6 DEF c
<1>14. LocalStep(t, s, p, g, cache[t][s], f, owned[t])
  <2>1. IsInjective(f.batch)
    BY <1>5, <1>8
  <2>2. /\ \A b \in owned[t] : source'[b] = IF b \in owned[t] THEN source[b] ELSE p
        /\ \A b \in Blocks : b \notin owned[t] \cup owned[t] => source'[b] = source[b]
    BY <1>3
  <2> QED BY <1>1, <1>3, <1>7, <1>8, <1>10, <1>11, <1>12, <1>13, <1>15, <2>1, <2>2, Unmoved
          DEF LocalStep
<1> QED BY <1>1, <1>3, <1>14 DEF StepsOn, p

-----------------------------------------------------------------------------
(* alloc                                                                   *)

\* A block of a cache, or in transit, is with no client.
LEMMA CachedIsFree ==
  ASSUME IInv, NEW t \in Threads, NEW s \in Slots,
         NEW b \in ToSet(cache[t][s].list) \cup ToSet(frame[t].batch)
  PROVE  b \in Contract!Free
<1>1. Partition(Located)
  BY DEF IInv
<1>2. PICK x \in Places : b \in Located[x] /\ \A u \in Threads : x # WithClient(u)
  <2>1. CASE b \in ToSet(cache[t][s].list)
    BY <2>1, LocatedAt, PlacesApart
  <2>2. CASE b \in ToSet(frame[t].batch)
    BY <2>2, LocatedAt, PlacesApart
  <2> QED BY <2>1, <2>2
<1>3. b \in Blocks
  BY <1>1, <1>2 DEF Partition
<1>4. ASSUME NEW u \in Threads PROVE b \notin Located[WithClient(u)]
  BY <1>1, <1>2, <1>3, PlacesApart DEF Partition
<1> QED BY <1>3, <1>4, LocatedAt DEF Contract!Free

\* The end of alloc: c is the cache with the refilled blocks, if there are any.
TakesFrom(t, ps, c) ==
  /\ ps \in Seq(Pools) /\ ps # <<>>
  /\ c \in Cache /\ c.pool \in Pools /\ c.size = Len(c.list) /\ IsInjective(c.list)
  /\ ToSet(c.list) = ToSet(cache[t][Slot[ps[1]]].list) \cup ToSet(frame[t].batch)
  /\ Slot[c.pool] = Slot[ps[1]] /\ c.size <= 2 * Batch[c.pool] + 1
  /\ c.pool \in {ps[1], cache[t][Slot[ps[1]]].pool}
  /\ frame[t].pc \in {"idle", "fallback"} \/ Slot[frame[t].pool] = Slot[ps[1]]
  /\ Take(t, ps, c)
  /\ bulk_lock' \in [Pools -> Threads \cup {Nil}]
  /\ UNCHANGED <<global, alive, leaked>>

\* Taking a block from a cache that has one, or finding none, is such a step.
LEMMA TakeSteps ==
  ASSUME IInv, NEW t \in Threads, NEW ps, NEW c, TakesFrom(t, ps, c)
  PROVE  StepsOn(t, {ps[1]}) /\ [Contract!Next]_owned
<1> DEFINE p == ps[1]
           s == Slot[p]
<1>1. p \in Pools /\ s \in Slots /\ Tail(ps) \in Seq(Pools) /\ Len(Tail(ps)) = Len(ps) - 1
  BY ListHead DEF TakesFrom, Slots
<1>2. /\ global[p] \in Seq(Blocks) /\ IsInjective(global[p])
      /\ owned[t] \in SUBSET Blocks /\ \A b \in owned[t] : source[b] \in Pools
      /\ global = [global EXCEPT ![p] = global[p]]
      /\ owned = [owned EXCEPT ![t] = owned[t]]
      /\ source \in [Blocks -> Pools \cup {Nil}] /\ alive \in SUBSET Pools
  BY <1>1, ListFacts
<1>3. Apart(ToSet(global[p]), ToSet(cache[t][s].list), ToSet(frame[t].batch), owned[t])
  BY <1>1, LocalApart
<1> HIDE DEF p, s
<1>4. Apart(ToSet(global[p]), ToSet(c.list), {}, owned[t])
  BY <1>3 DEF Apart, TakesFrom, p, s
<1>5. CASE c.list = <<>>
  <2> DEFINE f == IF Len(ps) = 1 THEN Idle
                  ELSE [Idle EXCEPT !.pc = "fallback", !.pool = p, !.rest = Tail(ps)]
  <2>1. /\ cache' = [cache EXCEPT ![t][s] = c] /\ frame' = [frame EXCEPT ![t] = f]
        /\ UNCHANGED <<owned, source>>
    BY <1>5 DEF TakesFrom, Take, p, s
  <2>2. Len(ps) # 1 => Tail(ps) # <<>>
    <3> DEFINE r == Tail(ps)
    <3>1. Len(ps) \in Nat /\ Len(r) = Len(ps) - 1
      BY <1>1 DEF TakesFrom
    <3> HIDE DEF r
    <3>2. Len(ps) # 1 => r # <<>>
      BY <3>1
    <3> QED BY <3>2 DEF r
  <2>3. /\ f \in Frame /\ f.batch = <<>> /\ f.pc \in {"idle", "fallback"}
        /\ f.pc = "fallback" => f.pool = p /\ f.rest # <<>>
    BY <1>1, <2>2, IdleType DEF Idle, Frame, PCs
  <2> HIDE DEF f
  <2>4. LocalStep(t, s, p, global[p], c, f, owned[t])
    <3>1. IsInjective(f.batch) /\ ToSet(f.batch) = {}
      BY <2>3, EmptyList
    <3>2. /\ c.pool \in Pools /\ Slot[c.pool] = s /\ Slot[p] = s
          /\ c.pool \in {p, cache[t][s].pool}
          /\ f.pc # "idle" => f.pool = p /\ f.pool \in Pools /\ Slot[f.pool] = s
          /\ frame[t].pc \in {"idle", "fallback"} \/ Slot[frame[t].pool] = s
      BY <1>1, <2>3 DEF TakesFrom, s, p
    <3>8. WithinMarks(Batch[c.pool], c, f)
      <4>1. Batch[c.pool] \in Nat /\ c.size = 0 /\ Len(f.batch) = 0
        BY <1>5, <2>3 DEF TakesFrom
      <4> QED BY <2>3, <4>1 DEF WithinMarks
    <3>9. /\ \A b \in owned[t] : source'[b] = IF b \in owned[t] THEN source[b] ELSE p
          /\ \A b \in Blocks : b \notin owned[t] \cup owned[t] => source'[b] = source[b]
      BY <2>1
    <3>3. Apart(ToSet(global[p]), ToSet(c.list), ToSet(f.batch), owned[t])
      BY <1>4, <3>1
    <3>4. ToSet(c.list) \cup ToSet(f.batch)
            = ToSet(cache[t][s].list) \cup ToSet(frame[t].batch)
      BY <3>1 DEF TakesFrom, s, p
    <3>5. ToSet(global[p]) \cup ToSet(c.list) \cup ToSet(f.batch) \cup owned[t]
            = ToSet(global[p]) \cup ToSet(cache[t][s].list) \cup ToSet(frame[t].batch)
              \cup owned[t]
      BY <3>4
    <3>6. /\ global' = [global EXCEPT ![p] = global[p]]
          /\ owned' = [owned EXCEPT ![t] = owned[t]]
          /\ source' \in [Blocks -> Pools \cup {Nil}] /\ alive' \in SUBSET Pools
          /\ leaked' = leaked /\ bulk_lock' \in [Pools -> Threads \cup {Nil}]
      BY <1>2, <2>1 DEF TakesFrom
    <3>7. c \in Cache /\ c.size = Len(c.list) /\ IsInjective(c.list)
      BY DEF TakesFrom
    <3> QED BY <1>2, <2>1, <2>3, <3>1, <3>2, <3>3, <3>5, <3>6, <3>7, <3>8, <3>9 DEF LocalStep
  <2> QED BY <1>1, <2>1, <2>4 DEF StepsOn, p
<1>6. CASE c.list # <<>>
  <2> DEFINE h == c.list[1]
             d == Popped(c)
             o == owned[t] \cup {h}
  <2>1. /\ cache' = [cache EXCEPT ![t][s] = d] /\ frame' = [frame EXCEPT ![t] = Idle]
        /\ owned' = [owned EXCEPT ![t] = @ \cup {h}] /\ source' = [source EXCEPT ![h] = p]
    BY <1>6 DEF TakesFrom, Take, p, s
  <2>2. owned' = [owned EXCEPT ![t] = o]
    BY <2>1 DEF IInv, TypeOK
  <2>3. /\ Tail(c.list) \in Seq(Blocks) /\ Len(Tail(c.list)) = Len(c.list) - 1
        /\ Len(c.list) >= 1 /\ h \in Blocks
        /\ ToSet(c.list) = {h} \cup ToSet(Tail(c.list))
        /\ IsInjective(Tail(c.list)) /\ h \notin ToSet(Tail(c.list))
    <3>1. c.list \in Seq(Blocks) /\ IsInjective(c.list)
      BY DEF TakesFrom, Cache
    <3> QED BY <1>6, <3>1, ListHead
  <2>4. /\ d.list = Tail(c.list) /\ d.size = Len(d.list) /\ d \in Cache /\ d.pool = c.pool
        /\ d.pool \in Pools /\ d.size = c.size - 1
    <3>2. c.size - 1 = Len(Tail(c.list)) /\ c.size - 1 \in Nat
      <4>1. c.size = Len(c.list) /\ c.size \in Nat
        BY DEF TakesFrom, Cache
      <4> QED BY <2>3, <4>1
    <3>3. c \in Cache
      BY DEF TakesFrom
    <3> DEFINE x == Tail(c.list)
               y == c.size - 1
    <3>4. d = [c EXCEPT !.list = x, !.size = y]
      BY DEF Popped
    <3>5. x \in Seq(Blocks) /\ y \in Nat /\ y = Len(x)
      BY <2>3, <3>2
    <3> HIDE DEF x, y, d
    <3>6. d \in Cache /\ d.list = x /\ d.size = y /\ d.pool = c.pool
      BY <3>3, <3>4, <3>5 DEF Cache
    <3>7. c.pool \in Pools
      BY DEF TakesFrom
    <3> QED BY <3>5, <3>6, <3>7 DEF x, y
  <2>5. h \in Contract!Free
    <3>1. h \in ToSet(cache[t][s].list) \cup ToSet(frame[t].batch)
      BY <2>3 DEF TakesFrom, p, s
    <3> QED BY <1>1, <3>1, CachedIsFree
  <2> HIDE DEF h, d, o
  <2>6. Contract!Next
    BY <2>1, <2>3, <2>5 DEF Contract!Next, Contract!Alloc
  <2>7. LocalStep(t, s, p, global[p], d, Idle, o)
    <3>1. Idle \in Frame /\ Idle.pc = "idle" /\ Idle.batch = <<>>
          /\ IsInjective(Idle.batch) /\ ToSet(Idle.batch) = {}
      BY IdleType, EmptyList
    <3>2. Apart(ToSet(global[p]), ToSet(d.list), ToSet(Idle.batch), o)
      BY <1>4, <2>3, <2>4, <3>1 DEF Apart, o
    <3>3. ToSet(d.list) \cup {h} = ToSet(cache[t][s].list) \cup ToSet(frame[t].batch)
      BY <2>3, <2>4 DEF TakesFrom, p, s
    <3>4. ToSet(global[p]) \cup ToSet(d.list) \cup ToSet(Idle.batch) \cup o
            = ToSet(global[p]) \cup ToSet(cache[t][s].list) \cup ToSet(frame[t].batch)
              \cup owned[t]
      BY <3>1, <3>3 DEF o
    <3>5. /\ global' = [global EXCEPT ![p] = global[p]] /\ alive' \in SUBSET Pools
          /\ leaked' = leaked /\ bulk_lock' \in [Pools -> Threads \cup {Nil}]
          /\ o \in SUBSET Blocks
      BY <1>2, <2>3 DEF TakesFrom, o
    <3>6. /\ source' \in [Blocks -> Pools \cup {Nil}]
          /\ \A b \in o : source'[b] = IF b \in owned[t] THEN source[b] ELSE p
          /\ \A b \in Blocks : b \notin owned[t] \cup o => source'[b] = source[b]
      <4>1. h \notin owned[t]
        BY <2>5 DEF Contract!Free
      <4> QED BY <1>1, <1>2, <2>1, <2>3, <4>1 DEF o
    <3>7. IsInjective(d.list)
      BY <2>3, <2>4
    <3>8. /\ Slot[d.pool] = s /\ Slot[p] = s /\ d.pool \in {p, cache[t][s].pool}
          /\ frame[t].pc \in {"idle", "fallback"} \/ Slot[frame[t].pool] = s
      BY <2>4 DEF TakesFrom, s, p
    <3>9. WithinMarks(Batch[d.pool], d, Idle)
      <4>1. Batch[d.pool] \in Nat /\ c.size \in Nat /\ c.size <= 2 * Batch[d.pool] + 1
        BY <2>4 DEF TakesFrom, Cache
      <4>2. d.size <= 2 * Batch[d.pool] /\ d.size \in Nat /\ Len(<<>>) = 0
        BY <2>4, <4>1 DEF Cache
      <4> QED BY <4>1, <4>2 DEF WithinMarks, Idle
    <3> QED BY <1>2, <2>1, <2>2, <2>4, <3>1, <3>2, <3>4, <3>5, <3>6, <3>7, <3>8, <3>9
            DEF LocalStep
  <2>8. owned[t] \subseteq o
    BY DEF o
  <2> QED BY <1>1, <2>6, <2>7, <2>8 DEF StepsOn, p
<1> QED BY <1>5, <1>6

\* get_cache finds a constructed cache with the blocks that the slot has.
LEMMA GetCache ==
  ASSUME IInv, NEW t \in Threads, NEW p \in Pools, frame[t].pc \in {"idle", "fallback"}
  PROVE  LET c == get_cache(t, p)
         IN  /\ c \in Cache /\ c.pool \in Pools /\ c.size = Len(c.list)
             /\ IsInjective(c.list) /\ c.list = cache[t][Slot[p]].list
             /\ Slot[c.pool] = Slot[p] /\ c.size <= 2 * Batch[c.pool]
             /\ c.pool \in {p, cache[t][Slot[p]].pool}
<1> DEFINE s == Slot[p]
<1>1. s \in Slots
  BY DEF Slots
<1>2. /\ cache[t][s] \in Cache /\ IsInjective(cache[t][s].list)
      /\ cache[t][s].size = Len(cache[t][s].list)
  BY <1>1, ListFacts
<1>3. cache[t][s].pool = Nil => cache[t][s].list = <<>>
  BY <1>1 DEF IInv, SlotsKept
<1> HIDE DEF s
<1>4. CASE cache[t][s].pool = Nil
  <2> DEFINE c == [NoCache EXCEPT !.pool = p]
  <2>1. c = [pool |-> p, list |-> <<>>, size |-> 0]
    BY DEF NoCache
  <2>2. get_cache(t, p) = c
    BY <1>4 DEF get_cache, s
  <2> HIDE DEF c
  <2>3. c \in Cache /\ c.pool = p /\ c.list = <<>> /\ c.size = 0
    <3>1. <<>> \in Seq(Blocks)
      OBVIOUS
    <3> QED BY <2>1, <3>1 DEF Cache
  <2>4. c.size = Len(c.list) /\ IsInjective(c.list)
    BY <2>3, EmptyList
  <2>5. Batch[c.pool] \in Nat /\ c.size <= 2 * Batch[c.pool]
    BY <2>3
  <2> QED BY <1>3, <1>4, <2>2, <2>3, <2>4, <2>5 DEF s
<1>5. CASE cache[t][s].pool # Nil
  <2>1. get_cache(t, p) = cache[t][s]
    BY <1>5 DEF get_cache, s
  <2>2. cache[t][s].pool \in Pools
    BY <1>2, <1>5 DEF Cache
  <2>3. Slot[cache[t][s].pool] = s
    BY <1>1, <2>2 DEF IInv, SlotsKept
  <2>4. cache[t][s].size <= 2 * Batch[cache[t][s].pool]
    <3>1. WithinMarks(Batch[cache[t][s].pool], cache[t][s], FrameAt(t, s))
      BY <1>1, <2>2 DEF IInv, Marks, MarksAt
    <3>2. FrameAt(t, s).pc \in {"idle", "fallback"}
      BY IdleType DEF FrameAt
    <3> QED BY <3>1, <3>2 DEF WithinMarks
  <2> QED BY <1>2, <2>1, <2>2, <2>3, <2>4 DEF s
<1> QED BY <1>4, <1>5

\* alloc with enough blocks in the cache.
LEMMA AttemptTakes ==
  ASSUME IInv, NEW t \in Threads, NEW ps \in Seq(Pools), ps # <<>>,
         frame[t].pc \in {"idle", "fallback"}, Attempt(t, ps),
         ~ (get_cache(t, ps[1]).size <= low_watermark(get_cache(t, ps[1])))
  PROVE  TakesFrom(t, ps, get_cache(t, ps[1]))
<1> DEFINE p == ps[1]
           s == Slot[p]
           c == get_cache(t, p)
<1>1. p \in Pools
  BY ListHead
<1>2. /\ c \in Cache /\ c.pool \in Pools /\ c.size = Len(c.list)
      /\ IsInjective(c.list) /\ c.list = cache[t][s].list
      /\ Slot[c.pool] = s /\ c.size <= 2 * Batch[c.pool]
      /\ c.pool \in {p, cache[t][s].pool}
  BY <1>1, GetCache
<1>3. frame[t].batch = <<>>
  BY DEF IInv, FrameOK
<1>4. Take(t, ps, c) /\ UNCHANGED <<global, bulk_lock, alive, leaked>>
  BY DEF Attempt
<1>5. ToSet(c.list) = ToSet(cache[t][s].list) \cup ToSet(frame[t].batch)
  BY <1>2, <1>3, EmptyList
<1>6. bulk_lock' \in [Pools -> Threads \cup {Nil}]
  BY <1>4 DEF IInv, TypeOK
<1> HIDE DEF c
<1>8. c.size <= 2 * Batch[c.pool] + 1
  <2>1. c.size \in Nat /\ Batch[c.pool] \in Nat
    BY <1>2 DEF Cache
  <2>2. c.size <= 2 * Batch[c.pool]
    BY <1>2
  <2> QED BY <2>1, <2>2
<1>7. TakesFrom(t, ps, c)
  BY <1>2, <1>4, <1>5, <1>6, <1>8 DEF TakesFrom
<1> QED BY <1>7 DEF c

\* alloc until it finds that it must refill, or hands out a cached block.
LEMMA AttemptSteps ==
  ASSUME IInv, NEW t \in Threads, NEW ps \in Seq(Pools), ps # <<>>,
         frame[t].pc \in {"idle", "fallback"}, Attempt(t, ps)
  PROVE  StepsOn(t, {ps[1]}) /\ [Contract!Next]_owned
<1> DEFINE p == ps[1]
           s == Slot[p]
           c == get_cache(t, p)
<1>1. p \in Pools /\ s \in Slots /\ Tail(ps) \in Seq(Pools)
  BY ListHead DEF Slots
<1>2. /\ c \in Cache /\ c.pool \in Pools /\ c.size = Len(c.list)
      /\ IsInjective(c.list) /\ c.list = cache[t][s].list
      /\ Slot[c.pool] = s /\ c.size <= 2 * Batch[c.pool]
      /\ c.pool \in {p, cache[t][s].pool}
  BY <1>1, GetCache
<1>3. frame[t].batch = <<>>
  BY DEF IInv, FrameOK
<1>4. UNCHANGED <<global, bulk_lock, alive, leaked>>
  BY DEF Attempt
<1>5. CASE c.size <= low_watermark(c)
  <2> DEFINE f == [Idle EXCEPT !.pc = "refill", !.pool = p, !.rest = Tail(ps)]
  <2>1. /\ cache' = [cache EXCEPT ![t][s] = c] /\ frame' = [frame EXCEPT ![t] = f]
        /\ UNCHANGED <<owned, source>>
    BY <1>5 DEF Attempt
  <2>2. f \in Frame /\ f.batch = <<>> /\ f.pc = "refill" /\ f.pool = p
    <3> HIDE DEF p
    <3> QED BY <1>1, IdleType DEF Idle, Frame, PCs
  <2> HIDE DEF p, s, c, f
  <2>3. /\ global[p] \in Seq(Blocks) /\ IsInjective(global[p])
        /\ owned[t] \in SUBSET Blocks
        /\ global' = [global EXCEPT ![p] = global[p]]
        /\ owned' = [owned EXCEPT ![t] = owned[t]]
        /\ bulk_lock' \in [Pools -> Threads \cup {Nil}]
        /\ source' \in [Blocks -> Pools \cup {Nil}] /\ alive' \in SUBSET Pools
    BY <1>1, <1>4, <2>1, ListFacts
  <2>4. Apart(ToSet(global[p]), ToSet(c.list), ToSet(f.batch), owned[t])
    BY <1>1, <1>2, <1>3, <2>2, LocalApart
  <2>5. ToSet(global[p]) \cup ToSet(c.list) \cup ToSet(f.batch) \cup owned[t]
          = ToSet(global[p]) \cup ToSet(cache[t][s].list) \cup ToSet(frame[t].batch)
            \cup owned[t]
    BY <1>2, <1>3, <2>2
  <2>6. LocalStep(t, s, p, global[p], c, f, owned[t])
    <3>1. IsInjective(f.batch) /\ Slot[f.pool] = s
      BY <2>2, EmptyList DEF s
    <3>2. /\ \A b \in owned[t] : source'[b] = IF b \in owned[t] THEN source[b] ELSE p
          /\ \A b \in Blocks : b \notin owned[t] \cup owned[t] => source'[b] = source[b]
      BY <2>1
    <3>3. Slot[p] = s
      BY DEF s
    <3>4. WithinMarks(Batch[c.pool], c, f)
      <4>1. c.size \in Nat /\ Batch[c.pool] \in Nat /\ Len(f.batch) = 0
        BY <1>2, <2>2 DEF Cache
      <4>2. c.size <= Batch[c.pool] \div 2
        BY <1>5 DEF low_watermark, batch_size
      <4>3. c.size <= 2 * Batch[c.pool]
        BY <1>2
      <4>4. c.size + 0 <= 2 * Batch[c.pool] + 1
        BY <4>1, <4>3
      <4> QED BY <2>2, <4>1, <4>2, <4>4 DEF WithinMarks
    <3> QED BY <1>1, <1>2, <1>4, <2>1, <2>2, <2>3, <2>4, <2>5, <3>1, <3>2, <3>3, <3>4
            DEF LocalStep
  <2> QED BY <1>1, <2>1, <2>6 DEF StepsOn, p
<1>6. CASE ~ (c.size <= low_watermark(c))
  BY <1>6, AttemptTakes, TakeSteps
<1> QED BY <1>5, <1>6

\* A step on some of the pools is a step.
LEMMA Narrower ==
  ASSUME NEW t, NEW P, StepsOn(t, P)
  PROVE  Steps(t)
BY DEF Steps, StepsOn

\* A call of alloc begins with an attempt on the first pool.
LEMMA AllocSteps ==
  ASSUME IInv, NEW t \in Threads, NEW ps \in Seq(Pools), ps # <<>>, Alloc(t, ps)
  PROVE  StepsOn(t, {ps[1]}) /\ Steps(t) /\ [Contract!Next]_owned
<1>1. StepsOn(t, {ps[1]}) /\ [Contract!Next]_owned
  BY AttemptSteps DEF Alloc
<1> QED BY <1>1, Narrower

\* The attempt on the next pool.
LEMMA FallbackSteps ==
  ASSUME IInv, NEW t \in Threads, Fallback(t)
  PROVE  Steps(t) /\ [Contract!Next]_owned
<1>1. frame[t].rest \in Seq(Pools) /\ frame[t].rest # <<>>
  BY DEF Fallback, IInv, TypeOK, Frame, FrameOK
<1> QED BY <1>1, AttemptSteps, Narrower DEF Fallback

\* The batch joins the cache, and alloc takes a block of it.
LEMMA RefillUnlockTakes ==
  ASSUME IInv, NEW t \in Threads, RefillUnlock(t)
  PROVE  LET ps == <<frame[t].pool>> \o frame[t].rest
             c  == Refilled(Current(t), frame[t].batch)
         IN  /\ TakesFrom(t, ps, c) /\ ps[1] = frame[t].pool
             /\ c.size = Current(t).size + Len(frame[t].batch)
<1> DEFINE p  == frame[t].pool
           s  == Slot[p]
           k  == Current(t)
           q  == frame[t].batch
           ps == <<p>> \o frame[t].rest
           c  == Refilled(k, q)
<1>1. /\ p \in Pools /\ s \in Slots /\ k.pool \in Pools /\ Slot[k.pool] = s
      /\ frame[t].pc = "pop_unlock"
  BY CallFacts DEF RefillUnlock
<1>14. k.size <= Batch[k.pool] \div 2 /\ (Len(q) <= Batch[k.pool] \/ Len(q) <= 1)
  <2>1. MarksAt(t, s)
    BY <1>1 DEF IInv, Marks
  <2>2. WithinMarks(Batch[k.pool], k, frame[t])
    BY <1>1, <2>1, CallFacts
  <2> QED BY <1>1, <2>2 DEF WithinMarks
<1>2. /\ k \in Cache /\ k.list \in Seq(Blocks) /\ IsInjective(k.list)
      /\ k.size = Len(k.list) /\ q \in Seq(Blocks) /\ IsInjective(q)
  BY <1>1, ListFacts DEF Current
<1>3. frame[t].rest \in Seq(Pools)
  BY DEF IInv, TypeOK, Frame
<1>4. ps \in Seq(Pools) /\ ps # <<>> /\ ps[1] = p
  BY <1>1, <1>3
<1>5. ToSet(k.list) \cap ToSet(q) = {}
  BY <1>1, LocalApart DEF Apart, Current
<1>6. Take(t, ps, c) /\ UNCHANGED <<global, alive, leaked>>
      /\ bulk_lock' = [bulk_lock EXCEPT ![k.pool] = Nil]
  BY DEF RefillUnlock
<1>7. bulk_lock' \in [Pools -> Threads \cup {Nil}]
  BY <1>1, <1>6 DEF IInv, TypeOK
<1>8. k.list = cache[t][Slot[ps[1]]].list
  BY <1>4 DEF Current
<1> HIDE DEF p, s, k, q, ps
<1>9. /\ q \o k.list \in Seq(Blocks) /\ Len(q \o k.list) = Len(q) + Len(k.list)
      /\ ToSet(q \o k.list) = ToSet(q) \cup ToSet(k.list)
      /\ IsInjective(q \o k.list)
  <2>1. ToSet(q) \cap ToSet(k.list) = {}
    BY <1>5
  <2> QED BY <1>2, <2>1, ListConcat
<1>10. c.list = q \o k.list /\ c.size = Len(c.list) /\ c.pool = k.pool /\ c \in Cache
  <2> DEFINE x == q \o k.list
             y == k.size + Len(q)
  <2>1. c = [k EXCEPT !.list = x, !.size = y]
    BY DEF Refilled
  <2>2. x \in Seq(Blocks) /\ y \in Nat /\ y = Len(x)
    BY <1>2, <1>9
  <2> HIDE DEF x, y, c
  <2>3. c \in Cache /\ c.list = x /\ c.size = y /\ c.pool = k.pool
    BY <1>2, <2>1, <2>2 DEF Cache
  <2> QED BY <2>2, <2>3 DEF x
<1> HIDE DEF c
<1>11. ToSet(c.list) = ToSet(cache[t][Slot[ps[1]]].list) \cup ToSet(frame[t].batch)
  BY <1>8, <1>9, <1>10 DEF q
<1>13. c.size = k.size + Len(q)
  BY <1>2, <1>9, <1>10
<1>15. c.size <= 2 * Batch[c.pool] + 1
  <2> DEFINE m == Len(q)
             B == Batch[k.pool]
  <2>1. m \in Nat /\ B \in Nat /\ k.size \in Nat
    BY <1>1, <1>2 DEF Cache
  <2>2. c.size = k.size + m /\ k.size <= B \div 2 /\ (m <= B \/ m <= 1) /\ B = Batch[c.pool]
    BY <1>10, <1>13, <1>14
  <2> HIDE DEF m, B
  <2>3. c.size <= 2 * B + 1
    BY <2>1, <2>2
  <2> QED BY <2>2, <2>3
<1>16. /\ Slot[c.pool] = Slot[ps[1]] /\ Slot[frame[t].pool] = Slot[ps[1]]
       /\ c.pool = cache[t][Slot[ps[1]]].pool
  BY <1>1, <1>4, <1>10 DEF s, p, k, Current
<1>12. TakesFrom(t, ps, c)
  BY <1>1, <1>4, <1>6, <1>7, <1>9, <1>10, <1>11, <1>15, <1>16 DEF TakesFrom
<1> QED BY <1>4, <1>12, <1>13 DEF p, k, q, ps, c

\* The end of refill, with what alloc does after it.
LEMMA RefillUnlockSteps ==
  ASSUME IInv, NEW t \in Threads, RefillUnlock(t)
  PROVE  StepsOn(t, {frame[t].pool}) /\ [Contract!Next]_owned
BY RefillUnlockTakes, TakeSteps

-----------------------------------------------------------------------------
(* dealloc                                                                 *)

\* flush cuts off no more than the list has.
LEMMA CutRange ==
  ASSUME NEW c \in Cache, c.pool \in Pools, c.size = Len(c.list)
  PROVE  Cut(c, Excess(c)) \in 0..Len(c.list)
<1>1. batch_size(c) \in Nat /\ c.size \in Nat /\ Len(c.list) \in Nat
  BY DEF batch_size, Cache
<1>2. Excess(c) \in Nat
  BY <1>1 DEF Excess, high_watermark
<1> QED BY <1>1, <1>2 DEF Cut, Lesser

\* The block joins the cache, which is cut if it has become too long.
LEMMA DeallocSteps ==
  ASSUME IInv, NEW t \in Threads, NEW b \in Blocks, NEW p \in Pools, Dealloc(t, b, p)
  PROVE  /\ \E c, f : LocalStep(t, Slot[p], p, global[p], c, f, owned[t] \ {b})
         /\ Contract!Next
         /\ cache'[t][Slot[p]].size + Len(frame'[t].batch) = cache[t][Slot[p]].size + 1
         /\ frame'[t].pc \in {"idle", "flush"}
<1> DEFINE s   == Slot[p]
           old == get_cache(t, p)
           c   == [old EXCEPT !.list = <<b>> \o @, !.size = @ + 1]
           k   == Cut(c, Excess(c))
           d   == Kept(c, k)
           f   == IF k = 0 THEN Idle
                  ELSE [Idle EXCEPT !.pc = "flush", !.pool = p, !.batch = SubSeq(c.list, 1, k)]
           o   == owned[t] \ {b}
<1>1. s \in Slots
  BY DEF Slots
<1>2. /\ old \in Cache /\ old.pool \in Pools /\ old.size = Len(old.list)
      /\ IsInjective(old.list) /\ old.list = cache[t][s].list
      /\ Slot[old.pool] = s /\ old.size <= 2 * Batch[old.pool]
      /\ old.pool \in {p, cache[t][s].pool}
  BY GetCache DEF Dealloc
<1>3. /\ frame[t].pc = "idle" /\ b \in owned[t]
      /\ cache' = [cache EXCEPT ![t][s] = d]
      /\ frame' = [frame EXCEPT ![t] = f]
      /\ owned' = [owned EXCEPT ![t] = @ \ {b}]
      /\ source' = [source EXCEPT ![b] = Nil]
      /\ UNCHANGED <<global, bulk_lock, alive, leaked>>
  BY DEF Dealloc
<1>4. owned' = [owned EXCEPT ![t] = o]
  BY <1>3 DEF IInv, TypeOK
<1>5. /\ global[p] \in Seq(Blocks) /\ IsInjective(global[p])
      /\ owned[t] \in SUBSET Blocks /\ \A x \in owned[t] : source[x] \in Pools
      /\ global' = [global EXCEPT ![p] = global[p]]
      /\ bulk_lock' \in [Pools -> Threads \cup {Nil}]
      /\ source \in [Blocks -> Pools \cup {Nil}] /\ alive' \in SUBSET Pools
  BY <1>1, <1>3, ListFacts
<1>6. frame[t].batch = <<>>
  BY <1>3 DEF IInv, FrameOK
<1>7. Apart(ToSet(global[p]), ToSet(old.list), ToSet(frame[t].batch), owned[t])
  BY <1>1, <1>2, LocalApart
<1> DEFINE l == <<b>> \o old.list
           n == old.size + 1
<1>8. c = [old EXCEPT !.list = l, !.size = n]
  OBVIOUS
<1> HIDE DEF old, c, s
<1>9. b \notin ToSet(old.list)
  BY <1>3, <1>7 DEF Apart
<1>10. /\ l \in Seq(Blocks) /\ Len(l) = Len(old.list) + 1
       /\ ToSet(l) = {b} \cup ToSet(old.list) /\ IsInjective(l)
  <2>1. old.list \in Seq(Blocks)
    BY <1>2 DEF Cache
  <2> QED BY <1>2, <1>9, <2>1, ListCons
<1>11. n \in Nat /\ n = Len(l)
  BY <1>2, <1>10 DEF Cache
<1> HIDE DEF l, n
<1>12. c \in Cache /\ c.list = l /\ c.size = n /\ c.pool = old.pool
  BY <1>2, <1>8, <1>10, <1>11 DEF Cache
<1>13. k \in 0..Len(l)
  BY <1>2, <1>11, <1>12, CutRange
<1> HIDE DEF k
<1> DEFINE front == SubSeq(l, 1, k)
           back  == SubSeq(l, k + 1, Len(l))
<1>14. /\ front \in Seq(Blocks) /\ Len(front) = k
       /\ back \in Seq(Blocks) /\ Len(back) = Len(l) - k
       /\ ToSet(l) = ToSet(front) \cup ToSet(back)
       /\ IsInjective(front) /\ IsInjective(back) /\ ToSet(front) \cap ToSet(back) = {}
  BY <1>10, <1>13, ListCut
<1>15. /\ d \in Cache /\ d.list = back /\ d.size = Len(back) /\ d.pool \in Pools
       /\ d.pool = old.pool /\ d.size = n - k
  <2>1. d = [c EXCEPT !.list = back, !.size = n - k]
    BY <1>12 DEF Kept
  <2>2. n - k \in Nat /\ n - k = Len(back)
    BY <1>11, <1>13, <1>14
  <2> DEFINE m == n - k
  <2> HIDE DEF d, back, m
  <2>3. d \in Cache /\ d.list = back /\ d.size = m /\ d.pool = c.pool
    BY <1>12, <1>14, <2>1, <2>2 DEF Cache, m
  <2> QED BY <1>2, <1>12, <2>2, <2>3 DEF m
<1>16. f.batch = front /\ f \in Frame /\ (f.pc = "idle" \/ f.pc = "flush")
       /\ (f.pc = "idle" => front = <<>>)
       /\ (f.pc = "flush" => front # <<>> /\ f.pool = p)
  <2>1. CASE k = 0
    <3>1. front = <<>> /\ f = Idle
      BY <1>14, <2>1, EmptySeq
    <3> HIDE DEF front, f
    <3> QED BY <3>1, IdleType
  <2>2. CASE k # 0
    <3>1. f = [Idle EXCEPT !.pc = "flush", !.pool = p, !.batch = front]
      BY <1>12, <2>2
    <3>2. front # <<>>
      BY <1>14, <2>2
    <3> HIDE DEF front, f
    <3> QED BY <1>14, <3>1, <3>2, IdleType DEF Idle, Frame, PCs
  <2> QED BY <2>1, <2>2
<1> HIDE DEF d, f, front, back
<1>17. Contract!Next
  BY <1>3 DEF Contract!Next, Contract!Dealloc
<1>18. LocalStep(t, s, p, global[p], d, f, o)
  <2>1. Apart(ToSet(global[p]), ToSet(d.list), ToSet(f.batch), o)
    <3>1. Apart(ToSet(global[p]), ToSet(l), {}, o)
      BY <1>3, <1>7, <1>10 DEF Apart
    <3> QED BY <1>14, <1>15, <1>16, <3>1 DEF Apart
  <2>2. ToSet(global[p]) \cup ToSet(d.list) \cup ToSet(f.batch) \cup o
          = ToSet(global[p]) \cup ToSet(cache[t][s].list) \cup ToSet(frame[t].batch)
            \cup owned[t]
    <3>1. ToSet(d.list) \cup ToSet(f.batch) = {b} \cup ToSet(cache[t][s].list)
      BY <1>2, <1>10, <1>14, <1>15, <1>16
    <3>2. ToSet(frame[t].batch) = {} /\ owned[t] = o \cup {b}
      BY <1>3, <1>6, EmptyList
    <3> QED BY <3>1, <3>2
  <2>3. /\ source' \in [Blocks -> Pools \cup {Nil}]
        /\ \A x \in o : source'[x] = IF x \in owned[t] THEN source[x] ELSE p
        /\ \A x \in Blocks : x \notin owned[t] \cup o => source'[x] = source[x]
    BY <1>3, <1>5
  <2>4. /\ d \in Cache /\ IsInjective(d.list) /\ d.size = Len(d.list) /\ d.pool \in Pools
        /\ f \in Frame /\ IsInjective(f.batch) /\ o \in SUBSET Blocks
    BY <1>5, <1>14, <1>15, <1>16
  <2>5. /\ f.pc # "idle" => f.pool = p /\ f.pool \in Pools /\ Slot[f.pool] = s
        /\ f.pc \in {"idle", "refill", "fallback", "push_unlock"} => f.batch = <<>>
        /\ f.pc \in {"flush", "push_bulk"} => f.batch # <<>>
        /\ f.pc # "fallback"
    BY <1>16 DEF s
  <2>6. Slot[d.pool] = s /\ Slot[p] = s /\ d.pool \in {p, cache[t][s].pool}
    BY <1>2, <1>15 DEF s
  <2>7. WithinMarks(Batch[d.pool], d, f)
    <3> DEFINE B == Batch[d.pool]
               m == Len(f.batch)
    <3>1. B \in Nat /\ old.size \in Nat /\ old.size <= 2 * B /\ n = old.size + 1
      BY <1>2, <1>15 DEF n, Cache
    <3>2. k = IF n > B * 2 THEN n - B ELSE 0
      <4>1. batch_size(c) = B /\ c.size = n /\ Len(c.list) = n /\ n \in Nat
        BY <1>2, <1>11, <1>12, <1>15 DEF batch_size
      <4> HIDE DEF B
      <4> QED BY <3>1, <4>1 DEF k, Cut, Lesser, Excess, high_watermark
    <3>3. m = k /\ d.size = n - k /\ k \in Nat
      BY <1>13, <1>14, <1>15, <1>16
    <3> HIDE DEF B, m
    <3> DEFINE x == d.size
               y == old.size
    <3>a. /\ B \in Nat /\ y \in Nat /\ y <= 2 * B /\ n = y + 1 /\ m = k /\ x = n - k
          /\ k \in Nat /\ k = IF n > B * 2 THEN n - B ELSE 0
      BY <3>1, <3>2, <3>3
    <3> HIDE DEF x, y
    <3>b. x <= 2 * B /\ x + m <= 2 * B + 1
      <4>1. CASE n > B * 2
        BY <3>a, <4>1
      <4>2. CASE ~(n > B * 2)
        BY <3>a, <4>2
      <4> QED BY <4>1, <4>2
    <3>4. d.size <= 2 * B /\ d.size + m <= 2 * B + 1
      BY <3>b DEF x
    <3>5. WithinMarks(B, d, f)
      BY <1>16, <3>4 DEF WithinMarks, m
    <3> QED BY <3>5 DEF B
  <2> HIDE DEF o
  <2> QED BY <1>3, <1>4, <1>5, <2>1, <2>2, <2>3, <2>4, <2>5, <2>6, <2>7 DEF LocalStep
<1>19. /\ cache'[t][s].size + Len(frame'[t].batch) = cache[t][s].size + 1
       /\ frame'[t].pc \in {"idle", "flush"}
  <2>1. cache'[t][s] = d /\ frame'[t] = f
    BY <1>1, <1>3 DEF IInv, TypeOK
  <2>2. cache[t][s].size = Len(old.list) /\ Len(old.list) \in Nat
    <3>1. cache[t][s].size = Len(cache[t][s].list) /\ cache[t][s].list \in Seq(Blocks)
      BY <1>1, ListFacts
    <3> QED BY <1>2, <3>1
  <2>3. d.size = Len(back) /\ f.batch = front
    BY <1>15, <1>16
  <2>4. Len(back) + Len(front) = Len(old.list) + 1
    <3>1. k \in Nat
      BY <1>13
    <3> QED BY <1>10, <1>14, <2>2, <3>1
  <2> QED BY <1>16, <2>1, <2>2, <2>3, <2>4
<1> QED BY <1>17, <1>18, <1>19 DEF s

-----------------------------------------------------------------------------
(* The rest of the program                                                 *)

\* A block that is passed on leaves one client for the other.
LEMMA HandoffKeeps ==
  ASSUME IInv, NEW t \in Threads, NEW u \in Threads, NEW b \in Blocks, Handoff(t, u, b)
  PROVE  IInv' /\ Contract!Next
<1>1. /\ t # u /\ b \in owned[t]
      /\ owned' = [owned EXCEPT ![t] = @ \ {b}, ![u] = @ \cup {b}]
      /\ UNCHANGED <<global, bulk_lock, cache, frame, source, alive, leaked>>
  BY DEF Handoff
<1>2. TypeOK
  BY DEF IInv
<1>3. /\ \A v \in Threads : owned'[v] = IF v = t THEN owned[v] \ {b}
                                        ELSE IF v = u THEN owned[v] \cup {b} ELSE owned[v]
      /\ owned' \in [Threads -> SUBSET Blocks]
  BY <1>1, <1>2 DEF TypeOK
<1>4. TypeOK'
  BY <1>1, <1>2, <1>3 DEF TypeOK
<1>5. SizeExact' /\ NoRepeats' /\ SlotsKept'
  BY <1>1 DEF IInv, SizeExact, NoRepeats, SlotsKept
<1>6. \A v \in Threads : FrameOK(frame'[v], cache'[v])
  BY <1>1 DEF IInv
<1>7. SourceKnown'
  <2>1. source[b] \in Pools
    BY <1>1 DEF IInv, SourceKnown
  <2>2. ASSUME NEW v \in Threads, NEW x \in owned'[v] PROVE source'[x] \in Pools
    <3>1. x = b \/ x \in owned[v]
      BY <1>3
    <3> QED BY <1>1, <2>1, <3>1 DEF IInv, SourceKnown
  <2> QED BY <2>2 DEF SourceKnown
<1>8. Partition(Located')
  <2> DEFINE y == WithClient(u)
  <2>1. Partition(Located)
    BY DEF IInv
  <2>2. ASSUME NEW z \in Places
        PROVE  Located'[z] = IF z = y THEN Located[z] \cup {b} ELSE Located[z] \ {b}
    <3>1. b \in Located[WithClient(t)]
      BY <1>1, LocatedAt
    <3>2. \A x \in Places : x # WithClient(t) => b \notin Located[x]
      BY <2>1, <3>1, PlacesApart DEF Partition
    <3>3. CASE \E v \in Threads : z = WithClient(v)
      <4>1. PICK v \in Threads : z = WithClient(v)
        BY <3>3
      <4>2. Located'[z] = owned'[v] /\ Located[z] = owned[v]
        BY <4>1, LocatedAt, LocatedAtNext
      <4>3. (z = y <=> v = u) /\ (z = WithClient(t) <=> v = t)
        BY <4>1, PlacesApart
      <4>4. v # t => b \notin owned[v]
        BY <3>2, <4>2, <4>3
      <4> HIDE DEF y
      <4>5. CASE v = u
        BY <1>1, <1>3, <4>2, <4>3, <4>5
      <4>6. CASE v = t
        BY <1>1, <1>3, <4>2, <4>3, <4>6
      <4>7. CASE v # t /\ v # u
        BY <1>3, <4>2, <4>3, <4>4, <4>7
      <4> QED BY <4>5, <4>6, <4>7
    <3>4. CASE ~ \E v \in Threads : z = WithClient(v)
      <4>1. z # y /\ z # WithClient(t)
        BY <3>4
      <4>2. Located'[z] = Located[z]
        <5>1. At(z)' = At(z)
          <6>1. CASE \E p \in Pools : z = GlobalList(p)
            BY <1>1, <6>1 DEF At, GlobalList
          <6>2. CASE \E v \in Threads, s \in Slots : z = CacheList(v, s)
            BY <1>1, <6>2 DEF At, CacheList
          <6>3. CASE \E v \in Threads : z = InTransit(v)
            BY <1>1, <6>3 DEF At, InTransit
          <6>4. CASE z = Lost
            BY <1>1, <6>4 DEF At, Lost
          <6> QED BY <3>4, <6>1, <6>2, <6>3, <6>4, PlaceCases
        <5> QED BY <5>1 DEF Located
      <4> QED BY <3>2, <4>1, <4>2
    <3> QED BY <3>3, <3>4
  <2>3. Located' \in [Places -> SUBSET Blocks]
    <3>1. Located' = [z \in Places |-> Located'[z]]
      BY DEF Located
    <3>2. ASSUME NEW z \in Places PROVE Located'[z] \in SUBSET Blocks
      <4>1. Located[z] \in SUBSET Blocks
        BY <2>1 DEF Partition
      <4> QED BY <2>2, <4>1
    <3> QED BY <3>1, <3>2
  <2>4. y \in Places
    BY PlacesApart
  <2> HIDE DEF y
  <2>5. Gather(Located, Located', {b}, y)
    BY <2>1, <2>2, <2>3, <2>4 DEF Gather
  <2> QED BY <2>5, GatherKeeps
<1>9. Partition(Located)'
  BY <1>8 DEF Partition
<1>10. Contract!Next
  BY <1>1 DEF Contract!Next, Contract!Handoff
<1>11. Marks'
  BY <1>1 DEF IInv, Marks, MarksAt, FrameAt
<1> QED BY <1>4, <1>5, <1>6, <1>7, <1>9, <1>10, <1>11 DEF IInv

\* What a thread's caches hold is in no other place.
LEMMA CachedElsewhere ==
  ASSUME Partition(Located), NEW t \in Threads, NEW z \in Places,
         \A r \in Slots : z # CacheList(t, r)
  PROVE  Located[z] \cap Cached(t) = {}
<1> SUFFICES ASSUME NEW b \in Located[z], b \in Cached(t)
             PROVE  FALSE
  OBVIOUS
<1>1. PICK r \in Slots : b \in ToSet(cache[t][r].list)
  BY DEF Cached
<1>2. b \in Located[CacheList(t, r)] /\ CacheList(t, r) \in Places
  BY <1>1, LocatedAt, PlacesApart
<1>3. b \in Blocks
  BY DEF Partition
<1> QED BY <1>2, <1>3 DEF Partition

\* The blocks of a thread that ends are lost, and no others.
LEMMA ExitKeeps ==
  ASSUME IInv, NEW t \in Threads, Exit(t)
  PROVE  IInv' /\ owned' = owned
<1>1. /\ frame[t].pc = "idle"
      /\ leaked' = leaked \cup Cached(t)
      /\ cache' = [cache EXCEPT ![t] = [s \in Slots |-> NoCache]]
      /\ UNCHANGED <<global, bulk_lock, frame, owned, source, alive>>
  BY DEF Exit
<1>2. TypeOK
  BY DEF IInv
<1>3. NoCache \in Cache /\ NoCache.list = <<>> /\ NoCache.size = 0 /\ NoCache.pool = Nil
  BY DEF NoCache, Cache
<1>4. /\ cache' \in [Threads -> [Slots -> Cache]]
      /\ \A u \in Threads, s \in Slots : cache'[u][s] = IF u = t THEN NoCache ELSE cache[u][s]
      /\ \A u \in Threads : u # t => cache'[u] = cache[u]
  BY <1>1, <1>2, <1>3 DEF TypeOK
<1>5. Cached(t) \subseteq Blocks
  <2>1. \A s \in Slots : ToSet(cache[t][s].list) \subseteq Blocks
    BY <1>2, ToSetType DEF TypeOK, Cache
  <2> QED BY <2>1 DEF Cached
<1>6. TypeOK'
  BY <1>1, <1>2, <1>4, <1>5 DEF TypeOK
<1>7. SizeExact'
  BY <1>3, <1>4 DEF IInv, SizeExact
<1>8. NoRepeats'
  BY <1>1, <1>3, <1>4, EmptyList DEF IInv, NoRepeats
<1>9. SlotsKept'
  BY <1>3, <1>4 DEF IInv, SlotsKept
<1>10. SourceKnown'
  BY <1>1 DEF IInv, SourceKnown
<1>11. ASSUME NEW u \in Threads PROVE FrameOK(frame'[u], cache'[u])
  BY <1>1, <1>4 DEF IInv, FrameOK
<1>12. Partition(Located')
  <2>1. Partition(Located)
    BY DEF IInv
  <2>2. ASSUME NEW z \in Places
        PROVE  Located'[z] = IF z = Lost THEN Located[z] \cup Cached(t)
                             ELSE Located[z] \ Cached(t)
    <3>1. CASE \E u \in Threads, s \in Slots : z = CacheList(u, s)
      <4>1. PICK u \in Threads, s \in Slots : z = CacheList(u, s)
        BY <3>1
      <4>2. /\ Located'[z] = ToSet(cache'[u][s].list) /\ z # Lost
            /\ Located[z] = ToSet(cache[u][s].list)
        BY <4>1, LocatedAt, LocatedAtNext, PlacesApart
      <4>3. CASE u = t
        <5>1. Located'[z] = {}
          BY <1>3, <1>4, <4>2, <4>3, EmptyList
        <5>2. Located[z] \subseteq Cached(t)
          BY <4>2, <4>3 DEF Cached
        <5> QED BY <4>2, <5>1, <5>2
      <4>4. CASE u # t
        <5>1. Located'[z] = Located[z]
          BY <1>4, <4>2, <4>4
        <5>2. \A r \in Slots : z # CacheList(t, r)
          BY <4>1, <4>4, PlacesApart
        <5>3. Located[z] \cap Cached(t) = {}
          BY <2>1, <5>2, CachedElsewhere
        <5> QED BY <4>2, <5>1, <5>3
      <4> QED BY <4>3, <4>4
    <3>2. CASE z = Lost
      BY <1>1, <3>2, LocatedAt, LocatedAtNext
    <3>3. CASE z # Lost /\ ~ \E u \in Threads, s \in Slots : z = CacheList(u, s)
      <4>1. At(z)' = At(z)
        <5>1. CASE \E p \in Pools : z = GlobalList(p)
          BY <1>1, <5>1 DEF At, GlobalList
        <5>2. CASE \E v \in Threads : z = InTransit(v)
          BY <1>1, <5>2 DEF At, InTransit
        <5>3. CASE \E v \in Threads : z = WithClient(v)
          BY <1>1, <5>3 DEF At, WithClient
        <5> QED BY <3>3, <5>1, <5>2, <5>3, PlaceCases
      <4>2. Located'[z] = Located[z]
        BY <4>1 DEF Located
      <4>3. Located[z] \cap Cached(t) = {}
        BY <2>1, <3>3, CachedElsewhere
      <4> QED BY <3>3, <4>2, <4>3
    <3> QED BY <3>1, <3>2, <3>3
  <2>3. Located' \in [Places -> SUBSET Blocks]
    <3>1. Located' = [z \in Places |-> Located'[z]]
      BY DEF Located
    <3>2. ASSUME NEW z \in Places PROVE Located'[z] \in SUBSET Blocks
      <4>1. Located[z] \in SUBSET Blocks
        BY <2>1 DEF Partition
      <4> QED BY <1>5, <2>2, <4>1
    <3> QED BY <3>1, <3>2
  <2>4. Lost \in Places
    BY PlacesApart
  <2>5. Gather(Located, Located', Cached(t), Lost)
    BY <1>5, <2>1, <2>2, <2>3, <2>4 DEF Gather
  <2> QED BY <2>5, GatherKeeps
<1>13. Partition(Located)'
  BY <1>12 DEF Partition
<1>14. Marks'
  <2> SUFFICES ASSUME NEW u \in Threads, NEW s \in Slots PROVE MarksAt(u, s)'
    BY DEF Marks
  <2>1. CASE u = t
    <3>1. cache'[u][s].pool \notin Pools
      BY <1>3, <1>4, <2>1
    <3> QED BY <3>1 DEF MarksAt
  <2>2. CASE u # t
    BY <1>1, <1>4, <2>2 DEF IInv, Marks, MarksAt, FrameAt
  <2> QED BY <2>1, <2>2
<1> QED BY <1>1, <1>6, <1>7, <1>8, <1>9, <1>10, <1>11, <1>13, <1>14 DEF IInv

\* Destroying an allocator moves no block.
LEMMA DestroyKeeps ==
  ASSUME IInv, NEW ps, Destroy(ps)
  PROVE  IInv' /\ owned' = owned
<1>1. alive' \subseteq alive
      /\ UNCHANGED <<global, bulk_lock, cache, frame, owned, source, leaked>>
  BY DEF Destroy
<1>2. Located' = Located
  BY <1>1 DEF Located, At
<1> QED BY <1>1, <1>2 DEF IInv, TypeOK, SizeExact, Partition, NoRepeats, SourceKnown, SlotsKept,
        Marks, MarksAt, FrameAt

\* A step that changes none of the variables.
LEMMA StutterKeeps ==
  ASSUME IInv, UNCHANGED vars
  PROVE  IInv' /\ owned' = owned
<1>1. Located' = Located
  BY DEF Located, At, vars
<1> QED BY <1>1 DEF vars, IInv, TypeOK, SizeExact, Partition, NoRepeats, SourceKnown, SlotsKept,
        Marks, MarksAt, FrameAt

\* The steps above keep the invariant.
LEMMA StepsKeep ==
  ASSUME IInv, NEW t \in Threads, Steps(t)
  PROVE  IInv'
BY LocalStepKeeps DEF Steps, StepsOn

\* The steps of a thread inside a call.
LEMMA StepSteps ==
  ASSUME IInv, NEW t \in Threads, Step(t)
  PROVE  /\ StepsOn(t, {frame[t].pool, Current(t).pool}) /\ Steps(t)
         /\ [Contract!Next]_owned
<1> DEFINE On(P) == StepsOn(t, P) /\ [Contract!Next]_owned
<1>1. On({Current(t).pool}) \/ On({frame[t].pool})
  <2>1. CASE RefillLock(t) \/ RefillEmpty(t) \/ FlushLock(t) \/ FlushUnlock(t)
    BY <2>1, QuietSteps
  <2>2. CASE RefillPop(t)
    BY <2>2, RefillPopSteps
  <2>3. CASE FlushPush(t)
    BY <2>3, FlushPushSteps
  <2>4. CASE RefillUnlock(t)
    BY <2>4, RefillUnlockSteps
  <2> QED BY <2>1, <2>2, <2>3, <2>4 DEF Step
<1>2. StepsOn(t, {frame[t].pool, Current(t).pool})
  BY <1>1 DEF StepsOn
<1> QED BY <1>1, <1>2, Narrower

\* What threads do besides calling the allocator.
LEMMA ClientKeeps ==
  ASSUME IInv, NEW t \in Threads, Client(t)
  PROVE  IInv' /\ [Contract!Next]_owned
BY HandoffKeeps, ExitKeeps DEF Client

\* A call of dealloc keeps the invariant and takes back one block.
LEMMA DeallocKeeps ==
  ASSUME IInv, NEW t \in Threads, NEW b \in Blocks, NEW p \in Pools, Dealloc(t, b, p)
  PROVE  IInv' /\ Contract!Next
<1>1. Slot[p] \in Slots
  BY DEF Slots
<1> QED BY <1>1, DeallocSteps, LocalStepKeeps

-----------------------------------------------------------------------------
(* How many blocks the caches have                                         *)

\* Thread t's step hands out at most what its cache in slot s would have, n
\* blocks, and changes nothing for other threads.
HandsOut(t, s, n) ==
  /\ cache'[t][s].size + Cardinality(owned'[t] \ owned[t]) = n
  /\ Cardinality(owned'[t] \ owned[t]) \in Nat
  /\ owned[t] \subseteq owned'[t] /\ owned'[t] \subseteq Blocks
  /\ frame'[t].pc \in {"idle", "refill", "fallback"}
  /\ \A u \in Threads \ {t} :
       cache'[u] = cache[u] /\ frame'[u] = frame[u] /\ owned'[u] = owned[u]

\* What alloc hands out comes off the cache.
LEMMA TakeHandsOut ==
  ASSUME IInv, NEW t \in Threads, NEW ps, NEW c, TakesFrom(t, ps, c)
  PROVE  HandsOut(t, Slot[ps[1]], c.size)
<1> DEFINE p == ps[1]
           s == Slot[p]
<1>1. p \in Pools /\ s \in Slots
  BY ListHead DEF TakesFrom, Slots
<1>2. TypeOK /\ c \in Cache /\ c.size = Len(c.list)
  BY DEF IInv, TakesFrom
<1>3. CASE c.list = <<>>
  <2> DEFINE f == IF Len(ps) = 1 THEN Idle
                  ELSE [Idle EXCEPT !.pc = "fallback", !.pool = p, !.rest = Tail(ps)]
  <2>1. /\ cache' = [cache EXCEPT ![t][s] = c] /\ frame' = [frame EXCEPT ![t] = f]
        /\ owned' = owned
    BY <1>3 DEF TakesFrom, Take
  <2>2. f.pc \in {"idle", "fallback"}
    BY DEF Idle
  <2> HIDE DEF s, p, f
  <2>3. /\ cache'[t][s] = c /\ frame'[t] = f
        /\ \A u \in Threads \ {t} : cache'[u] = cache[u] /\ frame'[u] = frame[u]
    BY <1>1, <1>2, <2>1 DEF TypeOK
  <2>4. owned'[t] \ owned[t] = {} /\ Cardinality(owned'[t] \ owned[t]) = 0
    BY <2>1, FS_EmptySet
  <2>5. c.size \in Nat /\ owned[t] \subseteq Blocks
    BY <1>2 DEF Cache, TypeOK
  <2>6. HandsOut(t, s, c.size)
    BY <2>1, <2>2, <2>3, <2>4, <2>5 DEF HandsOut
  <2> QED BY <2>6 DEF s, p
<1>4. CASE c.list # <<>>
  <2> DEFINE h == c.list[1]
             d == Popped(c)
  <2>1. /\ cache' = [cache EXCEPT ![t][s] = d] /\ frame' = [frame EXCEPT ![t] = Idle]
        /\ owned' = [owned EXCEPT ![t] = @ \cup {h}]
    BY <1>4 DEF TakesFrom, Take
  <2>2. h \in Blocks /\ h \in ToSet(c.list)
    <3>1. c.list \in Seq(Blocks)
      BY <1>2 DEF Cache
    <3> QED BY <1>4, <3>1, ListHead
  <2>3. h \notin owned[t]
    <3>1. h \in ToSet(cache[t][s].list) \cup ToSet(frame[t].batch)
      BY <2>2 DEF TakesFrom
    <3>2. h \in Contract!Free
      BY <1>1, <3>1, CachedIsFree
    <3> QED BY <3>2 DEF Contract!Free
  <2>4. d.size = c.size - 1
    BY <1>2 DEF Popped, Cache
  <2> HIDE DEF s, p, h, d
  <2>5. /\ cache'[t][s] = d /\ frame'[t] = Idle /\ owned'[t] = owned[t] \cup {h}
        /\ \A u \in Threads \ {t} :
             cache'[u] = cache[u] /\ frame'[u] = frame[u] /\ owned'[u] = owned[u]
    BY <1>1, <1>2, <2>1 DEF TypeOK
  <2>6. owned'[t] \ owned[t] = {h} /\ Cardinality(owned'[t] \ owned[t]) = 1
    <3>1. owned'[t] \ owned[t] = {h}
      BY <2>3, <2>5
    <3>2. Cardinality({h}) = 1
      BY FS_Singleton
    <3> QED BY <3>1, <3>2
  <2>7. c.size \in Nat /\ owned[t] \subseteq Blocks /\ Idle.pc = "idle"
    BY <1>2, IdleType DEF Cache, TypeOK
  <2>8. HandsOut(t, s, c.size)
    BY <2>2, <2>4, <2>5, <2>6, <2>7 DEF HandsOut
  <2> QED BY <2>8 DEF s, p
<1> QED BY <1>3, <1>4

\* The same of an attempt that needs no refill.
LEMMA AttemptHandsOut ==
  ASSUME IInv, NEW t \in Threads, NEW ps \in Seq(Pools), ps # <<>>,
         frame[t].pc \in {"idle", "fallback"}, Attempt(t, ps)
  PROVE  HandsOut(t, Slot[ps[1]], cache[t][Slot[ps[1]]].size)
<1> DEFINE p == ps[1]
           s == Slot[p]
           c == get_cache(t, p)
<1>1. p \in Pools /\ s \in Slots
  BY ListHead DEF Slots
<1>2. /\ c \in Cache /\ c.size = Len(c.list) /\ c.list = cache[t][s].list
      /\ cache[t][s].size = Len(cache[t][s].list)
  BY <1>1, GetCache, ListFacts
<1>3. c.size = cache[t][s].size
  BY <1>2
<1>4. CASE c.size <= low_watermark(c)
  <2> DEFINE f == [Idle EXCEPT !.pc = "refill", !.pool = p, !.rest = Tail(ps)]
  <2>1. /\ cache' = [cache EXCEPT ![t][s] = c] /\ frame' = [frame EXCEPT ![t] = f]
        /\ owned' = owned
    BY <1>4 DEF Attempt
  <2>2. f.pc = "refill"
    BY DEF Idle
  <2> HIDE DEF p, s, c, f
  <2>3. /\ cache'[t][s] = c /\ frame'[t] = f
        /\ \A u \in Threads \ {t} : cache'[u] = cache[u] /\ frame'[u] = frame[u]
    BY <1>1, <2>1 DEF IInv, TypeOK
  <2>4. owned'[t] \ owned[t] = {} /\ Cardinality(owned'[t] \ owned[t]) = 0
    BY <2>1, FS_EmptySet
  <2>5. c.size \in Nat /\ owned[t] \subseteq Blocks
    BY <1>2 DEF Cache, IInv, TypeOK
  <2>6. HandsOut(t, s, c.size)
    BY <2>1, <2>2, <2>3, <2>4, <2>5 DEF HandsOut
  <2> QED BY <1>3, <2>6 DEF s, p
<1>5. CASE ~ (c.size <= low_watermark(c))
  BY <1>3, <1>5, AttemptTakes, TakeHandsOut
<1> QED BY <1>4, <1>5

-----------------------------------------------------------------------------
(* The initial state                                                       *)

\* The sequence of a finite set has each of its elements once.
LEMMA ListOfSet ==
  ASSUME NEW S, IsFiniteSet(S)
  PROVE  /\ SetToSeq(S) \in Seq(S) /\ IsInjective(SetToSeq(S))
         /\ ToSet(SetToSeq(S)) = S
<1> DEFINE n == Cardinality(S)
           q == SetToSeq(S)
<1>1. n \in Nat /\ ExistsBijection(1..n, S)
  BY FS_CardinalityType
<1>2. \E f \in [1..n -> S] : IsInjective(f)
  BY <1>1 DEF ExistsBijection, Bijection, Injection
<1>3. q \in [1..n -> S] /\ IsInjective(q)
  BY <1>2 DEF SetToSeq
<1> HIDE DEF q, n
<1>4. q \in Seq(S) /\ DOMAIN q = 1..n
  BY <1>1, <1>3
<1>5. q \in Injection(1..n, S)
  BY <1>3 DEF Injection
<1>6. Cardinality(1..n) = n
  <2>1. Cardinality(1..n) = IF 1 > n THEN 0 ELSE n - 1 + 1
    BY <1>1, FS_Interval
  <2> QED BY <1>1, <2>1
<1>7. q \in Surjection(1..n, S)
  BY <1>5, <1>6, FS_Injection DEF n
<1>8. ToSet(q) = S
  BY <1>3, <1>4, <1>7 DEF ToSet, Surjection
<1> QED BY <1>3, <1>4, <1>8 DEF q

\* The constructors leave every block on the list of its own pool.
LEMMA InitIInv ==
  ASSUME Init
  PROVE  IInv /\ Contract!Init
<1>1. ASSUME NEW p \in Pools
      PROVE  global[p] \in Seq(Blocks) /\ IsInjective(global[p]) /\ ToSet(global[p]) = Region(p)
  <2>1. IsFiniteSet(Region(p)) /\ Region(p) \subseteq Blocks
    BY FS_Subset DEF Region
  <2>2. global[p] = SetToSeq(Region(p))
    BY DEF Init
  <2>3. /\ SetToSeq(Region(p)) \in Seq(Region(p)) /\ IsInjective(SetToSeq(Region(p)))
        /\ ToSet(SetToSeq(Region(p))) = Region(p)
    BY <2>1, ListOfSet
  <2>4. Seq(Region(p)) \subseteq Seq(Blocks)
    BY <2>1
  <2> QED BY <2>2, <2>3, <2>4
<1>2. NoCache \in Cache /\ NoCache.list = <<>> /\ NoCache.size = 0 /\ NoCache.pool = Nil
  BY DEF NoCache, Cache
<1>3. TypeOK
  <2>1. global \in [Pools -> Seq(Blocks)]
    BY <1>1 DEF Init
  <2> QED BY <1>2, <2>1, IdleType DEF Init, TypeOK
<1>4. SizeExact /\ SlotsKept
  BY <1>2 DEF Init, SizeExact, SlotsKept
<1>5. NoRepeats
  BY <1>1, <1>2, IdleType, EmptyList DEF Init, NoRepeats
<1>6. \A t \in Threads : FrameOK(frame[t], cache[t])
  BY IdleType DEF Init, FrameOK
<1>10. Marks
  <2>1. \A t \in Threads, s \in Slots : cache[t][s].pool \notin Pools
    BY <1>2 DEF Init
  <2> QED BY <2>1 DEF Marks, MarksAt
<1>7. SourceKnown
  BY DEF Init, SourceKnown
<1>8. Partition(Located)
  <2>1. ASSUME NEW z \in Places
        PROVE  \/ \E p \in Pools : z = GlobalList(p) /\ Located[z] = Region(p)
               \/ Located[z] = {} /\ \A p \in Pools : z # GlobalList(p)
    <3>1. CASE \E p \in Pools : z = GlobalList(p)
      BY <1>1, <3>1, LocatedAt
    <3>2. CASE \E t \in Threads, s \in Slots : z = CacheList(t, s)
      <4>1. PICK t \in Threads, s \in Slots : z = CacheList(t, s)
        BY <3>2
      <4>2. cache[t][s] = NoCache
        BY DEF Init
      <4>3. Located[z] = {}
        BY <1>2, <4>1, <4>2, LocatedAt, EmptyList
      <4> QED BY <4>1, <4>3, PlacesApart
    <3>3. CASE \E t \in Threads : z = InTransit(t)
      <4>1. PICK t \in Threads : z = InTransit(t)
        BY <3>3
      <4>2. frame[t].batch = <<>>
        BY IdleType DEF Init
      <4>3. Located[z] = {}
        BY <4>1, <4>2, LocatedAt, EmptyList
      <4> QED BY <4>1, <4>3, PlacesApart
    <3>4. CASE \E t \in Threads : z = WithClient(t)
      <4>1. PICK t \in Threads : z = WithClient(t)
        BY <3>4
      <4>2. owned[t] = {}
        BY DEF Init
      <4> QED BY <4>1, <4>2, LocatedAt, PlacesApart
    <3>5. CASE z = Lost
      <4>1. leaked = {}
        BY DEF Init
      <4> QED BY <3>5, <4>1, LocatedAt, PlacesApart
    <3> QED BY <3>1, <3>2, <3>3, <3>4, <3>5, PlaceCases
  <2>2. Located \in [Places -> SUBSET Blocks]
    <3>1. \A z \in Places : Located[z] \in SUBSET Blocks
      BY <2>1 DEF Region
    <3>2. Located = [z \in Places |-> Located[z]]
      BY DEF Located
    <3> QED BY <3>1, <3>2
  <2>3. ASSUME NEW b \in Blocks
        PROVE  \E x \in Places : \A y \in Places : b \in Located[y] <=> y = x
    <3>1. Home[b] \in Pools
      OBVIOUS
    <3>2. ASSUME NEW y \in Places PROVE b \in Located[y] <=> y = GlobalList(Home[b])
      <4>1. CASE \E p \in Pools : y = GlobalList(p) /\ Located[y] = Region(p)
        <5>1. PICK p \in Pools : y = GlobalList(p) /\ Located[y] = Region(p)
          BY <4>1
        <5>2. b \in Region(p) <=> Home[b] = p
          BY DEF Region
        <5> QED BY <5>1, <5>2, PlacesApart
      <4>2. CASE Located[y] = {} /\ \A p \in Pools : y # GlobalList(p)
        BY <3>1, <4>2
      <4> QED BY <2>1, <4>1, <4>2
    <3> QED BY <3>1, <3>2, PlacesApart
  <2> QED BY <2>2, <2>3 DEF Partition
<1>9. Contract!Init
  BY DEF Init, Contract!Init, Contract!Exclusive
<1> QED BY <1>3, <1>4, <1>5, <1>6, <1>7, <1>8, <1>9, <1>10 DEF IInv

\* What the invariant says of the library's promises.
LEMMA Promises ==
  ASSUME IInv
  PROVE  TypeOK /\ SizeExact /\ BlocksConserved
BY PartitionConserves DEF IInv

-----------------------------------------------------------------------------
(* Where a call of alloc leads                                             *)

\* What alloc's first step on a pool leads to: a refill, or a block of the
\* thread's cache.
LEMMA AttemptLeads ==
  ASSUME IInv, NEW t \in Threads, NEW ps \in Seq(Pools), ps # <<>>,
         frame[t].pc \in {"idle", "fallback"}, Attempt(t, ps)
  PROVE  \/ /\ frame' = [frame EXCEPT ![t] = [Idle EXCEPT !.pc = "refill", !.pool = ps[1],
                                                          !.rest = Tail(ps)]]
            /\ owned' = owned
         \/ /\ frame' = [frame EXCEPT ![t] = Idle]
            /\ \E b \in ToSet(cache[t][Slot[ps[1]]].list) : owned'[t] \ owned[t] = {b}
<1> DEFINE p == ps[1]
           c == get_cache(t, p)
<1>1. p \in Pools
  BY ListHead
<1>2. /\ c \in Cache /\ c.pool \in Pools /\ c.size = Len(c.list)
      /\ c.list = cache[t][Slot[p]].list
  BY <1>1, GetCache
<1>3. CASE c.size <= low_watermark(c)
  BY <1>3 DEF Attempt
<1>4. CASE ~ (c.size <= low_watermark(c))
  <2>1. Take(t, ps, c)
    BY <1>4 DEF Attempt
  <2>2. c.list \in Seq(Blocks) /\ Batch[c.pool] \in Nat
    BY <1>2 DEF Cache
  <2> HIDE DEF c
  <2>3. c.list # <<>>
    <3>1. low_watermark(c) \in Nat
      BY <2>2 DEF low_watermark, batch_size
    <3>2. c.list = <<>> => c.size = 0
      BY <1>2
    <3> QED BY <1>4, <3>1, <3>2
  <2>4. c.list[1] \in ToSet(c.list) /\ c.list[1] \in Blocks
    BY <2>2, <2>3, ListHead
  <2>5. c.list[1] \notin owned[t]
    <3>1. c.list[1] \in ToSet(cache[t][Slot[p]].list) /\ Slot[p] \in Slots
      BY <1>1, <1>2, <2>4 DEF Slots
    <3>2. Apart(ToSet(global[p]), ToSet(cache[t][Slot[p]].list), ToSet(frame[t].batch),
                owned[t])
      BY <1>1, <3>1, LocalApart
    <3> QED BY <3>1, <3>2 DEF Apart
  <2>6. /\ frame' = [frame EXCEPT ![t] = Idle]
        /\ owned' = [owned EXCEPT ![t] = @ \cup {c.list[1]}]
    BY <2>1, <2>3 DEF Take
  <2>7. owned'[t] \ owned[t] = {c.list[1]}
    BY <2>5, <2>6 DEF IInv, TypeOK
  <2> QED BY <1>2, <2>4, <2>6, <2>7
<1> QED BY <1>3, <1>4

\* A list without the head that was put before it.
LEMMA TailOfCons ==
  ASSUME NEW S, NEW x \in S, NEW s \in Seq(S)
  PROVE  /\ Tail(<<x>> \o s) = s /\ (<<x>> \o s)[1] = x
         /\ Len(<<x>> \o s) = Len(s) + 1
<1> DEFINE u == <<x>> \o s
<1>1. u \in Seq(S) /\ Len(u) = Len(s) + 1 /\ u # <<>> /\ Len(s) \in Nat
  BY ListCons
<1>2. \A i \in 1..Len(s) + 1 : u[i] = IF i = 1 THEN x ELSE s[i - 1]
  OBVIOUS
<1> HIDE DEF u
<1>3. Tail(u) \in Seq(S) /\ Len(Tail(u)) = Len(s)
      /\ \A i \in 1..Len(Tail(u)) : Tail(u)[i] = u[i + 1]
  BY <1>1, HeadTailProperties
<1>4. \A i \in 1..Len(s) : Tail(u)[i] = s[i]
  BY <1>1, <1>2, <1>3
<1>5. Tail(u) = s
  BY <1>3, <1>4, SeqEqual
<1> QED BY <1>1, <1>2, <1>5 DEF u

\* What the end of a refill leads to: the next pool or failure, if the thread
\* has no block, or else a block of the cache or the batch.
LEMMA UnlockLeads ==
  ASSUME IInv, NEW t \in Threads, RefillUnlock(t)
  PROVE  \/ /\ frame[t].batch = <<>> /\ frame[t].rest = <<>>
            /\ frame' = [frame EXCEPT ![t] = Idle] /\ owned' = owned
         \/ /\ frame[t].batch = <<>>
            /\ frame' = [frame EXCEPT ![t] = [Idle EXCEPT !.pc = "fallback",
                           !.pool = frame[t].pool, !.rest = frame[t].rest]]
            /\ owned' = owned
         \/ /\ frame' = [frame EXCEPT ![t] = Idle]
            /\ \E b \in ToSet(cache[t][Slot[frame[t].pool]].list) \cup ToSet(frame[t].batch) :
                 owned'[t] \ owned[t] = {b}
<1> DEFINE p  == frame[t].pool
           r  == frame[t].rest
           ps == <<p>> \o r
           c  == Refilled(Current(t), frame[t].batch)
           s  == Slot[p]
<1>1. /\ TakesFrom(t, ps, c) /\ Take(t, ps, c)
  BY RefillUnlockTakes DEF TakesFrom
<1>2. p \in Pools /\ s \in Slots /\ r \in Seq(Pools)
  <2>1. frame[t] \in Frame
    BY DEF IInv, TypeOK
  <2>2. frame[t].pc # "idle"
    BY DEF RefillUnlock
  <2> QED BY <2>1, <2>2, CallFacts DEF Frame
<1> HIDE DEF p, r, c
<1>3. Tail(ps) = r /\ ps[1] = p /\ Len(ps) = Len(r) + 1 /\ Len(r) \in Nat
  BY <1>2, TailOfCons
<1> HIDE DEF ps
<1>4. /\ c \in Cache /\ c.list \in Seq(Blocks)
      /\ ToSet(c.list) = ToSet(cache[t][s].list) \cup ToSet(frame[t].batch)
  BY <1>1, <1>3 DEF TakesFrom, Cache
<1>5. CASE c.list = <<>>
  <2>1. ToSet(frame[t].batch) = {}
    BY <1>4, <1>5, EmptyList
  <2>2. frame[t].batch = <<>>
    <3>1. frame[t].batch \in Seq(Blocks)
      BY <1>2, ListFacts
    <3>2. frame[t].batch # <<>> => frame[t].batch[1] \in ToSet(frame[t].batch)
      BY <3>1, ListHead
    <3> QED BY <2>1, <3>2
  <2>3. /\ owned' = owned
        /\ frame' = [frame EXCEPT ![t] =
             IF Len(ps) = 1 THEN Idle
             ELSE [Idle EXCEPT !.pc = "fallback", !.pool = ps[1], !.rest = Tail(ps)]]
    BY <1>1, <1>5 DEF Take
  <2>4. ASSUME Len(ps) = 1 PROVE r = <<>>
    <3> DEFINE m == Len(r)
    <3>1. m = 0
      <4>1. m \in Nat /\ 1 = m + 1
        BY <1>3, <2>4
      <4> HIDE DEF m
      <4> QED BY <4>1
    <3> QED BY <1>2, <3>1, EmptySeq
  <2> QED BY <1>3, <2>2, <2>3, <2>4 DEF p, r
<1>6. CASE c.list # <<>>
  <2>1. c.list[1] \in ToSet(c.list) /\ c.list[1] \in Blocks
    BY <1>4, <1>6, ListHead
  <2>2. c.list[1] \notin owned[t]
    <3>1. Apart(ToSet(global[p]), ToSet(cache[t][s].list), ToSet(frame[t].batch), owned[t])
      BY <1>2, LocalApart
    <3> QED BY <1>4, <2>1, <3>1 DEF Apart
  <2>3. /\ frame' = [frame EXCEPT ![t] = Idle]
        /\ owned' = [owned EXCEPT ![t] = @ \cup {c.list[1]}]
    BY <1>1, <1>6 DEF Take
  <2>4. owned'[t] \ owned[t] = {c.list[1]}
    BY <2>2, <2>3 DEF IInv, TypeOK
  <2> QED BY <1>4, <2>1, <2>3, <2>4 DEF p
<1> QED BY <1>5, <1>6

-----------------------------------------------------------------------------
(* Pools that share no slot                                                *)

\* No two pools share a thread's cache.
OwnSlots == \A p, q \in Pools : Slot[p] = Slot[q] => p = q

\* Each list has blocks of one region, and a client got a block from the pool
\* in whose region it lies.
Homed ==
  /\ \A p \in Pools : ToSet(global[p]) \subseteq Region(p)
  /\ \A t \in Threads, p \in Pools : ToSet(cache[t][Slot[p]].list) \subseteq Region(p)
  /\ \A t \in Threads : frame[t].pc # "idle" =>
       ToSet(frame[t].batch) \subseteq Region(frame[t].pool)
  /\ \A t \in Threads : \A b \in owned[t] : source[b] = Home[b]

\* A step keeps the lists of the regions apart, if what the client returns in
\* it lies in the region of the pool it returns it to.
LEMMA LocalStepHomed ==
  ASSUME IInv, OwnSlots, Homed, NEW t \in Threads, NEW s \in Slots, NEW p \in Pools,
         NEW g, NEW c, NEW f, NEW o, LocalStep(t, s, p, g, c, f, o),
         owned[t] \ o \subseteq Region(p)
  PROVE  Homed'
<1>1. TypeOK
  BY DEF IInv
<1>2. /\ \A q \in Pools : global'[q] = IF q = p THEN g ELSE global[q]
      /\ \A u \in Threads, r \in Slots :
           cache'[u][r] = IF u = t /\ r = s THEN c ELSE cache[u][r]
      /\ \A u \in Threads : /\ frame'[u] = IF u = t THEN f ELSE frame[u]
                            /\ owned'[u] = IF u = t THEN o ELSE owned[u]
  BY <1>1 DEF LocalStep, TypeOK
<1>3. ToSet(frame[t].batch) \subseteq Region(p)
  <2>1. CASE frame[t].pc \in {"idle", "fallback"}
    BY <2>1, EmptyList DEF IInv, FrameOK
  <2>2. CASE frame[t].pc \notin {"idle", "fallback"}
    <3>1. frame[t].pool \in Pools /\ Slot[frame[t].pool] = Slot[p]
      BY <2>2, CallFacts DEF LocalStep
    <3> QED BY <2>2, <3>1 DEF Homed, OwnSlots
  <2> QED BY <2>1, <2>2
<1>4. /\ ToSet(global[p]) \subseteq Region(p) /\ ToSet(cache[t][s].list) \subseteq Region(p)
      /\ Slot[p] = s
  BY DEF Homed, LocalStep
<1>5. /\ ToSet(g) \subseteq Region(p) /\ ToSet(c.list) \subseteq Region(p)
      /\ ToSet(f.batch) \subseteq Region(p)
      /\ \A b \in o : b \in owned[t] \/ b \in Region(p)
  <2>1. /\ Apart(ToSet(g), ToSet(c.list), ToSet(f.batch), o)
        /\ ToSet(g) \cup ToSet(c.list) \cup ToSet(f.batch) \cup o
             = ToSet(global[p]) \cup ToSet(cache[t][s].list) \cup ToSet(frame[t].batch)
               \cup owned[t]
    BY DEF LocalStep
  <2> QED BY <1>3, <1>4, <2>1 DEF Apart
<1>6. ASSUME NEW q \in Pools PROVE ToSet(global'[q]) \subseteq Region(q)
  BY <1>2, <1>5 DEF Homed
<1>7. ASSUME NEW u \in Threads, NEW q \in Pools
      PROVE  ToSet(cache'[u][Slot[q]].list) \subseteq Region(q)
  <2>1. Slot[q] \in Slots
    BY DEF Slots
  <2>2. CASE u = t /\ Slot[q] = s
    <3>1. q = p
      BY <1>4, <2>2 DEF OwnSlots
    <3> QED BY <1>2, <1>5, <2>1, <2>2, <3>1
  <2>3. CASE ~ (u = t /\ Slot[q] = s)
    BY <1>2, <2>1, <2>3 DEF Homed
  <2> QED BY <2>2, <2>3
<1>8. ASSUME NEW u \in Threads, frame'[u].pc # "idle"
      PROVE  ToSet(frame'[u].batch) \subseteq Region(frame'[u].pool)
  <2>1. CASE u = t
    <3>1. frame'[u] = f /\ f.pool \in Pools /\ Slot[f.pool] = s
      BY <1>2, <1>8, <2>1 DEF LocalStep
    <3>2. f.pool = p
      BY <1>4, <3>1 DEF OwnSlots
    <3> QED BY <1>5, <3>1, <3>2
  <2>2. CASE u # t
    BY <1>2, <1>8, <2>2 DEF Homed
  <2> QED BY <2>1, <2>2
<1>9. ASSUME NEW u \in Threads, NEW b \in owned'[u]
      PROVE  source'[b] = Home[b]
  <2>1. CASE u = t
    <3>1. b \in o /\ source'[b] = IF b \in owned[t] THEN source[b] ELSE p
      BY <1>2, <2>1 DEF LocalStep
    <3> QED BY <1>5, <3>1 DEF Homed, Region
  <2>2. CASE u # t
    <3>1. b \in owned[u] /\ b \in Blocks
      BY <1>1, <1>2, <2>2 DEF TypeOK
    <3>2. b \notin owned[t] \cup o
      <4>1. Partition(Located) /\ Located[WithClient(u)] = owned[u]
            /\ Located[WithClient(t)] = owned[t] /\ Partition(Located)'
            /\ Located'[WithClient(u)] = owned'[u] /\ Located'[WithClient(t)] = owned'[t]
        BY LocalStepKeeps, LocatedAt, LocatedAtNext DEF IInv
      <4>2. WithClient(t) \in Places /\ WithClient(u) \in Places
            /\ WithClient(t) # WithClient(u)
        BY <2>2, PlacesApart
      <4>3. b \notin owned[t]
        BY <3>1, <4>1, <4>2 DEF Partition
      <4>4. b \notin owned'[t]
        BY <3>1, <4>1, <4>2 DEF Partition
      <4> QED BY <1>2, <4>3, <4>4
    <3> QED BY <3>1, <3>2 DEF LocalStep, Homed
  <2> QED BY <2>1, <2>2
<1> QED BY <1>6, <1>7, <1>8, <1>9 DEF Homed

\* What a call does that returns nothing.
LEMMA StepsHomed ==
  ASSUME IInv, OwnSlots, Homed, NEW t \in Threads, Steps(t)
  PROVE  Homed'
<1>1. PICK s \in Slots, p \in Pools : \E g, c, f, o :
        LocalStep(t, s, p, g, c, f, o) /\ owned[t] \subseteq o
  BY DEF Steps, StepsOn
<1>2. PICK g, c, f, o : LocalStep(t, s, p, g, c, f, o) /\ owned[t] \subseteq o
  BY <1>1
<1>3. owned[t] \ o \subseteq Region(p)
  BY <1>2
<1> QED BY <1>2, <1>3, LocalStepHomed

\* A block that is returned to the pool in whose region it lies.
LEMMA DeallocHomed ==
  ASSUME IInv, OwnSlots, Homed, NEW t \in Threads, NEW b \in Blocks, NEW p \in Pools,
         Dealloc(t, b, p), Home[b] = p
  PROVE  Homed'
<1>1. PICK c, f : LocalStep(t, Slot[p], p, global[p], c, f, owned[t] \ {b})
  BY DeallocSteps
<1>2. Slot[p] \in Slots /\ owned[t] \ (owned[t] \ {b}) \subseteq Region(p)
  BY DEF Slots, Region
<1> QED BY <1>1, <1>2, LocalStepHomed

\* The rest of the program moves no block between lists.
LEMMA ClientHomed ==
  ASSUME IInv, Homed,
         (\E t \in Threads : Client(t)) \/ (\E ps : Destroy(ps)) \/ UNCHANGED vars
  PROVE  Homed'
<1>1. TypeOK
  BY DEF IInv
<1>2. ASSUME NEW t \in Threads, NEW u \in Threads, NEW b \in Blocks, Handoff(t, u, b)
      PROVE  Homed'
  <2>1. /\ b \in owned[t] /\ owned' = [owned EXCEPT ![t] = @ \ {b}, ![u] = @ \cup {b}]
        /\ UNCHANGED <<global, cache, frame, source>>
    BY <1>2 DEF Handoff
  <2>2. ASSUME NEW v \in Threads, NEW x \in owned'[v] PROVE source'[x] = Home[x]
    <3>1. x = b \/ x \in owned[v]
      BY <1>1, <2>1 DEF TypeOK
    <3> QED BY <2>1, <3>1 DEF Homed
  <2> QED BY <2>1, <2>2 DEF Homed
<1>3. ASSUME NEW t \in Threads, Exit(t) PROVE Homed'
  <2>1. /\ cache' = [cache EXCEPT ![t] = [s \in Slots |-> NoCache]]
        /\ UNCHANGED <<global, frame, owned, source>>
    BY <1>3 DEF Exit
  <2>2. ASSUME NEW v \in Threads, NEW p \in Pools
        PROVE  ToSet(cache'[v][Slot[p]].list) \subseteq Region(p)
    <3>1. Slot[p] \in Slots
      BY DEF Slots
    <3>2. cache'[v][Slot[p]] = IF v = t THEN NoCache ELSE cache[v][Slot[p]]
      BY <1>1, <2>1, <3>1 DEF TypeOK
    <3> QED BY <3>2, EmptyList DEF NoCache, Homed
  <2> QED BY <2>1, <2>2 DEF Homed
<1>4. ASSUME UNCHANGED <<global, cache, frame, owned, source>> PROVE Homed'
  BY <1>4 DEF Homed
<1> QED BY <1>2, <1>3, <1>4 DEF Client, Destroy, vars

\* The constructors put every block on the list of its region.
LEMMA InitHomed ==
  ASSUME Init
  PROVE  Homed
<1>1. ASSUME NEW p \in Pools PROVE ToSet(global[p]) \subseteq Region(p)
  <2>1. IsFiniteSet(Region(p))
    BY FS_Subset DEF Region
  <2>2. global[p] = SetToSeq(Region(p))
    BY DEF Init
  <2> QED BY <2>1, <2>2, ListOfSet
<1>2. ASSUME NEW t \in Threads, NEW p \in Pools
      PROVE  ToSet(cache[t][Slot[p]].list) \subseteq Region(p)
  <2>1. Slot[p] \in Slots
    BY DEF Slots
  <2> QED BY <2>1, EmptyList DEF Init, NoCache
<1> QED BY <1>1, <1>2, EmptyList DEF Init, Homed, Idle

-----------------------------------------------------------------------------
(* How many blocks the caches withhold                                     *)

\* A set whose elements are all found on a few short lists is small.
LEMMA OnShortLists ==
  ASSUME NEW T, IsFiniteSet(T), NEW n \in Nat, NEW H, NEW W,
         \A b \in W : \E u \in T : \E i \in 1..n : H[u][i] = b
  PROVE  Cardinality(W) <= Cardinality(T) * n
<1> DEFINE C    == T \X (1..n)
           f    == [b \in W |-> CHOOSE x \in C : H[x[1]][x[2]] = b]
<1>1. IsFiniteSet(C) /\ Cardinality(C) = Cardinality(T) * n
  <2>1. IsFiniteSet(1..n) /\ Cardinality(1..n) = n
    BY FS_Interval
  <2> QED BY <2>1, FS_Product
<1>2. ASSUME NEW b \in W PROVE f[b] \in C /\ H[f[b][1]][f[b][2]] = b
  <2>1. PICK u \in T, i \in 1..n : H[u][i] = b
    OBVIOUS
  <2>2. <<u, i>> \in C /\ H[<<u, i>>[1]][<<u, i>>[2]] = b
    BY <2>1
  <2>3. \E x \in C : H[x[1]][x[2]] = b
    BY <2>2
  <2> HIDE DEF C
  <2> QED BY <2>3
<1> HIDE DEF C
<1>3. f \in [W -> C]
  BY <1>2
<1>4. \A a, b \in W : f[a] = f[b] => a = b
  BY <1>2
<1> HIDE DEF f
<1>5. f \in Injection(W, C)
  BY <1>3, <1>4 DEF Injection, IsInjective
<1> QED BY <1>1, <1>5, FS_Injection

\* What thread u withholds from the pool of slot s: its cache and the batch in
\* transit.
Withheld(u, s) == FrameAt(u, s).batch \o cache[u][s].list

\* It is no more than the high watermark and one block.
LEMMA WithheldBound ==
  ASSUME IInv, OwnSlots, NEW u \in Threads, NEW p \in Pools
  PROVE  LET L == Withheld(u, Slot[p])
         IN  /\ L \in Seq(Blocks) /\ Len(L) <= 2 * Batch[p] + 1
             /\ ToSet(L) = ToSet(FrameAt(u, Slot[p]).batch) \cup ToSet(cache[u][Slot[p]].list)
<1> DEFINE s == Slot[p]
           c == cache[u][s]
           f == FrameAt(u, s)
           B == Batch[p]
<1>1. s \in Slots /\ B \in Nat
  BY DEF Slots
<1>2. /\ c \in Cache /\ c.list \in Seq(Blocks) /\ c.size = Len(c.list)
      /\ frame[u] \in Frame
  BY <1>1, ListFacts
<1>3. f \in Frame
  BY <1>2, IdleType DEF FrameAt
<1>4. f.batch \in Seq(Blocks)
  BY <1>3 DEF Frame
<1>5. Len(f.batch) + Len(c.list) <= 2 * B + 1
  <2>1. CASE c.pool \in Pools
    <3>1. c.pool = p
      BY <1>1, <2>1 DEF IInv, SlotsKept, OwnSlots
    <3>2. WithinMarks(B, c, f)
      BY <1>1, <2>1, <3>1 DEF IInv, Marks, MarksAt
    <3>3. c.size + Len(f.batch) <= 2 * B + 1
      BY <3>2 DEF WithinMarks
    <3> DEFINE m == Len(f.batch)
               k == Len(c.list)
    <3>4. m \in Nat /\ k \in Nat /\ k + m <= 2 * B + 1
      <4> HIDE DEF c, f, B
      <4>1. m \in Nat /\ k \in Nat
        BY <1>2, <1>4
      <4>2. c.size = k /\ c.size + m <= 2 * B + 1
        BY <1>2, <3>3
      <4> HIDE DEF m, k
      <4> QED BY <4>1, <4>2
    <3> HIDE DEF m, k, B
    <3>5. m + k <= 2 * B + 1
      BY <1>1, <3>4
    <3> QED BY <3>5 DEF m, k
  <2>2. CASE c.pool \notin Pools
    <3>1. c.pool = Nil
      BY <1>2, <2>2 DEF Cache
    <3>2. c.list = <<>>
      BY <1>1, <3>1 DEF IInv, SlotsKept
    <3>3. f = Idle
      <4>1. FrameOK(frame[u], cache[u])
        BY DEF IInv
      <4> QED BY <2>2, <4>1 DEF FrameAt, FrameOK
    <3>4. Len(f.batch) = 0 /\ Len(c.list) = 0
      BY <3>2, <3>3, IdleType
    <3> HIDE DEF c, f, B
    <3> QED BY <1>1, <3>4
  <2> QED BY <2>1, <2>2
<1> HIDE DEF s, c, f, B
<1>6. /\ f.batch \o c.list \in Seq(Blocks)
      /\ Len(f.batch \o c.list) = Len(f.batch) + Len(c.list)
      /\ ToSet(f.batch \o c.list) = ToSet(f.batch) \cup ToSet(c.list)
  BY <1>2, <1>4, ListConcat
<1>7. Withheld(u, s) = f.batch \o c.list
  BY DEF Withheld, f, c
<1> QED BY <1>5, <1>6, <1>7 DEF s, c, f, B

\* A block that is neither with a client nor lost is on the list of its pool or
\* is withheld by a thread.
LEMMA FreeBlockPlaces ==
  ASSUME IInv, OwnSlots, Homed, NEW p \in Pools, NEW b \in Region(p),
         b \notin leaked, \A u \in Threads : b \notin owned[u]
  PROVE  \/ b \in ToSet(global[p])
         \/ \E u \in Threads : b \in ToSet(FrameAt(u, Slot[p]).batch)
                                     \cup ToSet(cache[u][Slot[p]].list)
<1>1. b \in Blocks /\ Home[b] = p
  BY DEF Region
<1>2. PICK x \in Places : b \in Located[x]
  BY <1>1 DEF IInv, Partition
<1>3. ASSUME NEW q \in Pools, x = GlobalList(q) PROVE b \in ToSet(global[p])
  <2>1. b \in ToSet(global[q])
    BY <1>2, <1>3, LocatedAt
  <2>2. q = p
    BY <1>1, <2>1 DEF Homed, Region
  <2> QED BY <2>1, <2>2
<1>4. ASSUME NEW u \in Threads, NEW s \in Slots, x = CacheList(u, s)
      PROVE  b \in ToSet(cache[u][Slot[p]].list)
  <2>1. b \in ToSet(cache[u][s].list)
    BY <1>2, <1>4, LocatedAt
  <2>2. PICK q \in Pools : s = Slot[q]
    BY DEF Slots
  <2>3. q = p
    BY <1>1, <2>1, <2>2 DEF Homed, Region
  <2> QED BY <2>1, <2>2, <2>3
<1>5. ASSUME NEW u \in Threads, x = InTransit(u)
      PROVE  b \in ToSet(FrameAt(u, Slot[p]).batch)
  <2>1. b \in ToSet(frame[u].batch)
    BY <1>2, <1>5, LocatedAt
  <2>2. frame[u].pc # "idle"
    BY <2>1, EmptyList DEF IInv, FrameOK
  <2>3. frame[u].pool = p
    BY <1>1, <2>1, <2>2 DEF Homed, Region
  <2> QED BY <2>1, <2>2, <2>3 DEF FrameAt
<1>6. ASSUME NEW u \in Threads, x = WithClient(u) PROVE FALSE
  BY <1>2, <1>6, LocatedAt
<1>7. x # Lost
  BY <1>2, LocatedAt
<1> QED BY <1>3, <1>4, <1>5, <1>6, <1>7, PlaceCases

\* What alloc's failure says about the pool.
LEMMA FailuresBounded ==
  ASSUME IInv, OwnSlots, Homed, IsFiniteSet(Threads)
  PROVE  FailureBound
<1> SUFFICES ASSUME NEW t \in Threads,
                    frame[t].pc = "pop_bulk", frame[t].batch = <<>>,
                    Current(t).list = <<>>, global[Current(t).pool] = <<>>
             PROVE  Cardinality(Region(Current(t).pool)
                                  \ (leaked \cup UNION {owned[u] : u \in Threads}))
                      <= (Cardinality(Threads) - 1) * (high_watermark(Current(t)) + 1)
  BY DEF FailureBound
<1> DEFINE p == Current(t).pool
           s == Slot[p]
           n == high_watermark(Current(t)) + 1
           W == Region(p) \ (leaked \cup UNION {owned[u] : u \in Threads})
           H == [u \in Threads |-> Withheld(u, s)]
           T == Threads \ {t}
<1>1. p \in Pools /\ s = Slot[frame[t].pool]
  BY CallFacts
<1>2. n = 2 * Batch[p] + 1 /\ Batch[p] \in Nat /\ n \in Nat
  BY <1>1 DEF high_watermark, batch_size
<1>3. IsFiniteSet(T) /\ Cardinality(T) = Cardinality(Threads) - 1
  BY FS_RemoveElement
<1>4. ASSUME NEW b \in W
      PROVE  \E u \in T : \E i \in 1..n : H[u][i] = b
  <2>1. b \in Region(p) /\ b \notin leaked /\ \A u \in Threads : b \notin owned[u]
    OBVIOUS
  <2>2. b \notin ToSet(global[p])
    BY EmptyList
  <2>3. PICK u \in Threads : b \in ToSet(FrameAt(u, s).batch) \cup ToSet(cache[u][s].list)
    BY <1>1, <2>1, <2>2, FreeBlockPlaces
  <2>4. u # t
    <3>1. FrameAt(t, s).batch = <<>> /\ cache[t][s].list = <<>>
      BY <1>1, IdleType DEF FrameAt, Current
    <3> QED BY <2>3, <3>1, EmptyList
  <2> DEFINE L == Withheld(u, s)
  <2>5. L \in Seq(Blocks) /\ Len(L) <= n /\ b \in ToSet(L)
    BY <1>1, <1>2, <2>3, WithheldBound
  <2>6. H[u] = L
    OBVIOUS
  <2> HIDE DEF L, H, n
  <2>7. PICK i \in 1..Len(L) : L[i] = b
    BY <2>5 DEF ToSet
  <2>8. i \in 1..n
    BY <1>2, <2>5, <2>7
  <2> QED BY <2>4, <2>6, <2>7, <2>8
<1> HIDE DEF n, W, H, T
<1>5. Cardinality(W) <= Cardinality(T) * n
  <2>1. \A b \in W : \E u \in T : \E i \in 1..n : H[u][i] = b
    BY <1>4
  <2>2. n \in Nat /\ IsFiniteSet(T)
    BY <1>2, <1>3
  <2> QED BY <2>1, <2>2, OnShortLists
<1> QED BY <1>3, <1>5 DEF n, W
=============================================================================
