----------------------- MODULE ProducerConsumerProofs -----------------------
(***************************************************************************)
(* Theorems about the producer/consumer benchmark, for any pool of blocks  *)
(* and any number of operations.                                           *)
(***************************************************************************)
EXTENDS ProducerConsumer, SequenceTheorems, TLAPS

USE OpsAssumption

\* Every variable has its type.
TypeOK ==
  /\ free \in SUBSET Blocks
  /\ queue \in Seq(Blocks)
  /\ done \in BOOLEAN
  /\ producer \in [pc : {"pop", "queue", "ended"}, i : Nat, p : Blocks \cup {Nil}]
  /\ consumer \in [pc : {"pop", "push", "check", "ended"}, p : Blocks \cup {Nil}]
  /\ late \in SUBSET Blocks

\* A block is in one place, and once in the queue.
InOnePlace ==
  /\ producer.p # Nil =>
       producer.p \notin free \cup ToSet(queue) /\ producer.p # consumer.p
  /\ consumer.p # Nil => consumer.p \notin free \cup ToSet(queue)
  /\ free \cap ToSet(queue) = {}
  /\ IsInjective(queue)

\* A thread has a block just where the code uses it.
BlocksInUse ==
  /\ producer.pc = "queue" <=> producer.p # Nil
  /\ consumer.pc = "push" <=> consumer.p # Nil

\* The flag is set when the producer has ended.  A consumer that has found the
\* queue empty has seen everything that was queued before.
Signalled ==
  /\ done <=> producer.pc = "ended"
  /\ consumer.pc = "ended" => done
  /\ consumer.pc \in {"check", "ended"} => ToSet(queue) \subseteq late

\* The inductive invariant.
IInv == TypeOK /\ InOnePlace /\ BlocksInUse /\ Signalled
-----------------------------------------------------------------------------
(* The queue                                                               *)

\* What ToSet and IsInjective say, with the queue's blocks for S.
LEMMA SetOfQueue ==
  ASSUME NEW S, NEW q \in Seq(S)
  PROVE  /\ \A b : b \in ToSet(q) <=> \E k \in 1..Len(q) : b = q[k]
         /\ ToSet(q) \in SUBSET S
         /\ IsInjective(q) <=> \A j, k \in 1..Len(q) : q[j] = q[k] => j = k
  BY DEF ToSet, IsInjective

\* push_back puts one more block into the queue.
LEMMA QueueAppend ==
  ASSUME NEW S, NEW q \in Seq(S), NEW b \in S
  PROVE  /\ Append(q, b) \in Seq(S)
         /\ ToSet(Append(q, b)) = ToSet(q) \cup {b}
         /\ IsInjective(q) /\ b \notin ToSet(q) => IsInjective(Append(q, b))
<1>1. /\ Append(q, b) \in Seq(S) /\ Len(Append(q, b)) = Len(q) + 1
      /\ \A k \in 1..Len(q) : Append(q, b)[k] = q[k]
      /\ Append(q, b)[Len(q) + 1] = b /\ Len(q) \in Nat
  OBVIOUS
<1> DEFINE l == Append(q, b)
           m == Len(q)
<1>2. \A k : k \in 1..Len(l) <=> k \in 1..m \/ k = m + 1
  BY <1>1
<1>3. ToSet(l) = ToSet(q) \cup {b}
  <2> SUFFICES ASSUME NEW x
               PROVE  x \in ToSet(l) <=> x \in ToSet(q) \/ x = b
    OBVIOUS
  <2>1. x \in ToSet(q) <=> \E k \in 1..m : x = q[k]
    BY SetOfQueue
  <2>2. l \in Seq(S)
    BY <1>1
  <2> HIDE DEF l
  <2>3. x \in ToSet(l) <=> \E k \in 1..Len(l) : x = l[k]
    BY <2>2, SetOfQueue
  <2> QED BY <1>1, <1>2, <2>1, <2>3 DEF l
<1>4. ASSUME IsInjective(q), b \notin ToSet(q)
      PROVE  \A j, k \in 1..Len(l) : l[j] = l[k] => j = k
  BY <1>1, <1>2, <1>4, SetOfQueue
<1>5. IsInjective(q) /\ b \notin ToSet(q) => IsInjective(l)
  BY <1>1, <1>4, SetOfQueue
<1> QED BY <1>1, <1>3, <1>5

\* pop_front takes the first block out of the queue.
LEMMA QueueTail ==
  ASSUME NEW S, NEW q \in Seq(S), q # <<>>
  PROVE  /\ Tail(q) \in Seq(S) /\ Head(q) \in S
         /\ ToSet(q) = ToSet(Tail(q)) \cup {Head(q)}
         /\ IsInjective(q) => IsInjective(Tail(q)) /\ Head(q) \notin ToSet(Tail(q))
<1> DEFINE l == Tail(q)
           m == Len(q)
<1>1. /\ l \in Seq(S) /\ Len(l) = m - 1 /\ Head(q) = q[1] /\ m \in Nat \ {0}
      /\ \A k \in 1..m - 1 : l[k] = q[k + 1]
  OBVIOUS
<1>2. Head(q) \in S
  BY <1>1
<1> HIDE DEF l
<1>3. \A b : b \in ToSet(q) <=> b = Head(q) \/ b \in ToSet(l)
  <2> SUFFICES ASSUME NEW b
               PROVE  b \in ToSet(q) <=> b = Head(q) \/ b \in ToSet(l)
    OBVIOUS
  <2>1. b \in ToSet(q) <=> \E k \in 1..m : b = q[k]
    BY SetOfQueue
  <2>2. b \in ToSet(l) <=> \E k \in 1..m - 1 : b = q[k + 1]
    BY <1>1, SetOfQueue
  <2>3. \A k : k \in 1..m <=> k = 1 \/ (k \in 2..m)
    BY <1>1
  <2>4. (\E k \in 2..m : b = q[k]) <=> \E k \in 1..m - 1 : b = q[k + 1]
    <3>1. \A k \in 2..m : k - 1 \in 1..m - 1 /\ (k - 1) + 1 = k
      BY <1>1
    <3>2. \A k \in 1..m - 1 : k + 1 \in 2..m
      BY <1>1
    <3> QED BY <3>1, <3>2
  <2> QED BY <1>1, <2>1, <2>2, <2>3, <2>4
<1>4. ASSUME IsInjective(q)
      PROVE  IsInjective(l) /\ Head(q) \notin ToSet(l)
  <2>1. \A j, k \in 1..m : q[j] = q[k] => j = k
    BY <1>4, SetOfQueue
  <2>2. \A j, k \in 1..m - 1 : l[j] = l[k] => j = k
    BY <1>1, <2>1
  <2>3. \A k \in 1..m - 1 : l[k] # q[1]
    BY <1>1, <2>1
  <2> QED BY <1>1, <2>2, <2>3, SetOfQueue
<1> QED BY <1>1, <1>2, <1>3, <1>4 DEF l

-----------------------------------------------------------------------------
(* Every step keeps the inductive invariant                                *)

\* The threads start with an empty queue and no block.
LEMMA InitIInv == Init => IInv
<1> SUFFICES ASSUME Init PROVE IInv
  OBVIOUS
<1>1. ToSet(queue) = {} /\ IsInjective(queue)
  BY DEF Init, ToSet, IsInjective
<1>2. producer \in [pc : {"pop", "queue", "ended"}, i : Nat, p : Blocks \cup {Nil}]
  BY DEF Init
<1>3. consumer \in [pc : {"pop", "push", "check", "ended"}, p : Blocks \cup {Nil}]
  BY DEF Init
<1>4. queue \in Seq(Blocks)
  BY DEF Init
<1>5. TypeOK
  BY <1>2, <1>3, <1>4 DEF Init, TypeOK
<1> QED BY <1>1, <1>5 DEF Init, IInv, InOnePlace, BlocksInUse, Signalled

\* Taking a block out of the pool, and getting none.
LEMMA ProducerPopKept == IInv /\ ProducerPop => IInv'
<1> SUFFICES ASSUME IInv, ProducerPop PROVE IInv'
  OBVIOUS
<1> USE DEF IInv, TypeOK, InOnePlace, BlocksInUse, Signalled
<1>1. CASE producer' = [producer EXCEPT !.i = @ + 1] /\ UNCHANGED free
  BY <1>1 DEF ProducerPop
<1>2. ASSUME NEW b \in free,
             producer' = [producer EXCEPT !.pc = "queue", !.p = b], free' = free \ {b}
      PROVE  IInv'
  BY <1>2 DEF ProducerPop
<1> QED BY <1>1, <1>2 DEF ProducerPop

\* Queueing it.
LEMMA ProducerQueueKept == IInv /\ ProducerQueue => IInv'
<1> SUFFICES ASSUME IInv, ProducerQueue PROVE IInv'
  OBVIOUS
<1>1. producer.p \in Blocks /\ producer.p \notin ToSet(queue) /\ queue \in Seq(Blocks)
  BY DEF IInv, TypeOK, InOnePlace, BlocksInUse, ProducerQueue
<1>2. /\ queue' \in Seq(Blocks)
      /\ ToSet(queue') = ToSet(queue) \cup {producer.p}
      /\ IsInjective(queue) => IsInjective(queue')
  BY <1>1, QueueAppend DEF ProducerQueue
<1> QED BY <1>1, <1>2 DEF IInv, TypeOK, InOnePlace, BlocksInUse, Signalled, ProducerQueue

\* The flag is set last.
LEMMA ProducerDoneKept == IInv /\ ProducerDone => IInv'
  BY DEF IInv, TypeOK, InOnePlace, BlocksInUse, Signalled, ProducerDone

\* A look at the queue: nothing in it is late any more, or it was empty.
LEMMA ConsumerPopKept == IInv /\ ConsumerPop => IInv'
<1> SUFFICES ASSUME IInv, ConsumerPop PROVE IInv'
  OBVIOUS
<1>1. CASE queue = <<>>
  <2>1. ToSet(queue) = {}
    BY <1>1 DEF ToSet
  <2> QED BY <1>1, <2>1 DEF IInv, TypeOK, InOnePlace, BlocksInUse, Signalled, ConsumerPop
<1>2. CASE queue # <<>>
  <2>1. /\ queue' \in Seq(Blocks) /\ Head(queue) \in Blocks
        /\ ToSet(queue) = ToSet(queue') \cup {Head(queue)}
        /\ IsInjective(queue') /\ Head(queue) \notin ToSet(queue')
    <3>1. queue \in Seq(Blocks) /\ IsInjective(queue) /\ queue' = Tail(queue)
      BY <1>2 DEF ConsumerPop, IInv, TypeOK, InOnePlace
    <3> QED BY <1>2, <3>1, QueueTail
  <2> QED
    BY <1>2, <2>1 DEF IInv, TypeOK, InOnePlace, BlocksInUse, Signalled, ConsumerPop
<1> QED BY <1>1, <1>2

\* Giving the block back.
LEMMA ConsumerPushKept == IInv /\ ConsumerPush => IInv'
  BY DEF IInv, TypeOK, InOnePlace, BlocksInUse, Signalled, ConsumerPush

\* Reading the flag: what was queued since the last look stays late.
LEMMA ConsumerCheckKept == IInv /\ ConsumerCheck => IInv'
  BY DEF IInv, TypeOK, InOnePlace, BlocksInUse, Signalled, ConsumerCheck

\* One step of the benchmark.
LEMMA NextKept == IInv /\ [Next]_vars => IInv'
<1> SUFFICES ASSUME IInv, [Next]_vars PROVE IInv'
  OBVIOUS
<1>1. CASE UNCHANGED vars
  BY <1>1 DEF vars, IInv, TypeOK, InOnePlace, BlocksInUse, Signalled
<1> QED
  BY <1>1, ProducerPopKept, ProducerQueueKept, ProducerDoneKept, ConsumerPopKept,
     ConsumerPushKept, ConsumerCheckKept DEF Next, Producer, Consumer

\* The inductive invariant holds in every behaviour of the benchmark.
THEOREM Invariance == Spec => []IInv
  BY InitIInv, NextKept, PTL DEF Spec

\* When the consumer has ended, so has the producer, and every block still in
\* the queue was queued after the consumer's last look at it: the flag is
\* stored after the last push and read after the queue was found empty.
THEOREM LeftoversBounded == Spec => []LeftoversLate
<1>1. IInv => LeftoversLate
  BY DEF IInv, Signalled, LeftoversLate
<1> QED BY <1>1, Invariance, PTL

-----------------------------------------------------------------------------
(* The benchmark keeps the allocator's contract                            *)

\* The holders' blocks, one by one.
LEMMA Holdings ==
  /\ holdings["producer"] = Held(producer.p)
  /\ holdings["queue"] = ToSet(queue)
  /\ holdings["consumer"] = Held(consumer.p)
  BY DEF holdings, Holders

\* At the start nobody holds a block.
LEMMA InitContract == Init => Contract!Init
<1> SUFFICES ASSUME Init PROVE Contract!Init
  OBVIOUS
<1>1. ToSet(queue) = {}
  BY DEF Init, ToSet
<1>2. \A h \in Holders : holdings[h] = {}
  BY <1>1, Holdings DEF Init, Holders, Held
<1> QED BY <1>2 DEF Contract!Init, Contract!Exclusive, holdings

\* Each step takes a block from the pool, passes it on, gives it back, or
\* changes nobody's blocks.
LEMMA StepContract == IInv /\ [Next]_vars => [Contract!Next]_holdings
<1> SUFFICES ASSUME IInv, [Next]_vars PROVE [Contract!Next]_holdings
  OBVIOUS
<1>1. ASSUME UNCHANGED <<producer.p, queue, consumer.p>>
      PROVE  UNCHANGED holdings
  BY <1>1 DEF holdings, Held
<1>2. ASSUME ProducerPop, NEW b \in free,
             producer' = [producer EXCEPT !.pc = "queue", !.p = b]
      PROVE  Contract!Alloc("producer", b)
  <2>1. b \in Blocks /\ b # Nil /\ producer.p = Nil /\ b # consumer.p /\ b \notin ToSet(queue)
    BY <1>2 DEF IInv, TypeOK, InOnePlace, BlocksInUse, ProducerPop
  <2>2. b \in Contract!Free
    BY <2>1, Holdings DEF Contract!Free, Holders, Held
  <2>3. producer'.p = b /\ UNCHANGED <<queue, consumer>>
    BY <1>2 DEF IInv, TypeOK, ProducerPop
  <2>4. holdings' = [holdings EXCEPT !["producer"] = @ \cup {b}]
    BY <2>1, <2>3 DEF holdings, Holders, Held
  <2> QED BY <2>2, <2>4 DEF Contract!Alloc
<1>3. ASSUME ProducerQueue
      PROVE  Contract!Handoff("producer", "queue", producer.p) /\ producer.p \in Blocks
  <2>1. producer.p \in Blocks /\ producer.p # Nil /\ queue \in Seq(Blocks)
    BY <1>3 DEF IInv, TypeOK, BlocksInUse, ProducerQueue
  <2>2. /\ ToSet(queue') = ToSet(queue) \cup {producer.p}
        /\ producer'.p = Nil /\ UNCHANGED consumer
    BY <1>3, <2>1, QueueAppend DEF ProducerQueue
  <2>3. holdings' = [holdings EXCEPT !["producer"] = @ \ {producer.p},
                                     !["queue"] = @ \cup {producer.p}]
    BY <2>1, <2>2 DEF holdings, Holders, Held
  <2> QED BY <2>1, <2>3, Holdings DEF Contract!Handoff, Held
<1>4. ASSUME ConsumerPop, queue # <<>>
      PROVE  Contract!Handoff("queue", "consumer", Head(queue)) /\ Head(queue) \in Blocks
  <2>1. /\ queue \in Seq(Blocks) /\ IsInjective(queue) /\ consumer.p = Nil
        /\ queue' = Tail(queue) /\ consumer'.p = Head(queue) /\ UNCHANGED producer
    BY <1>4 DEF IInv, TypeOK, InOnePlace, BlocksInUse, ConsumerPop
  <2>2. /\ Head(queue) \in Blocks /\ Head(queue) # Nil
        /\ ToSet(queue) = ToSet(queue') \cup {Head(queue)}
        /\ Head(queue) \notin ToSet(queue')
    BY <1>4, <2>1, QueueTail
  <2>3. ToSet(queue') = ToSet(queue) \ {Head(queue)} /\ Head(queue) \in ToSet(queue)
    BY <2>2
  <2>4. holdings' = [holdings EXCEPT !["queue"] = @ \ {Head(queue)},
                                     !["consumer"] = @ \cup {Head(queue)}]
    BY <2>1, <2>2, <2>3 DEF holdings, Holders, Held
  <2> QED BY <2>2, <2>3, <2>4, Holdings DEF Contract!Handoff
<1>5. ASSUME ConsumerPush
      PROVE  Contract!Dealloc("consumer", consumer.p) /\ consumer.p \in Blocks
  <2>1. /\ consumer.p \in Blocks /\ consumer.p # Nil /\ consumer'.p = Nil
        /\ UNCHANGED <<producer, queue>>
    BY <1>5 DEF IInv, TypeOK, BlocksInUse, ConsumerPush
  <2>2. holdings' = [holdings EXCEPT !["consumer"] = @ \ {consumer.p}]
    BY <2>1 DEF holdings, Holders, Held
  <2> QED BY <2>1, <2>2, Holdings DEF Contract!Dealloc, Held
<1>6. {"producer", "queue", "consumer"} \subseteq Holders
  BY DEF Holders
<1>7. ASSUME \/ ProducerPop /\ producer' = [producer EXCEPT !.i = @ + 1]
             \/ ProducerDone
             \/ ConsumerPop /\ queue = <<>>
             \/ ConsumerCheck
             \/ UNCHANGED vars
      PROVE  UNCHANGED holdings
  BY <1>1, <1>7 DEF IInv, TypeOK, ProducerPop, ProducerDone, ConsumerPop, ConsumerCheck, vars
<1>8. ASSUME ProducerPop
      PROVE  \/ producer' = [producer EXCEPT !.i = @ + 1]
             \/ \E b \in free : b \in Blocks /\ Contract!Alloc("producer", b)
  <2>1. \A b \in free : b \in Blocks
    BY DEF IInv, TypeOK
  <2>2. \A b \in free : producer' = [producer EXCEPT !.pc = "queue", !.p = b]
                          => Contract!Alloc("producer", b)
    BY <1>2, <1>8
  <2> QED BY <1>8, <2>1, <2>2 DEF ProducerPop
<1> QED
  BY <1>3, <1>4, <1>5, <1>6, <1>7, <1>8 DEF Next, Producer, Consumer, Contract!Next

\* The benchmark uses the allocator as BlockPool demands: a block is taken
\* from the pool once, passed from the producer through the queue to the
\* consumer, and given back once by the one who holds it.
THEOREM Refinement == Spec => KeepsContract
  BY InitContract, StepContract, Invariance, PTL DEF Spec, KeepsContract, Contract!Spec
=============================================================================
