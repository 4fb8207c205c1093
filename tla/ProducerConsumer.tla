-------------------------- MODULE ProducerConsumer --------------------------
(***************************************************************************)
(* The producer/consumer benchmark (benchmark/freelist/                    *)
(* producer_consumer.cpp; the variants for the other allocators differ     *)
(* only in the calls of the allocator): one thread allocates blocks and    *)
(* queues them, the other takes them from the queue and frees them until   *)
(* it finds the queue empty and the flag done set.                         *)
(*                                                                         *)
(* The allocator is BlockPool: a call gives any free block or none.  It    *)
(* may give none while there are free blocks: those in the consumer's      *)
(* cache (tl_freelist), in other words or regions (bitmap, tl_bitmap).     *)
(* The queue's operations are critical sections of its mutex.              *)
(***************************************************************************)
EXTENDS Integers, SequencesExt

CONSTANTS
  Blocks,  \* the cfg.pool blocks
  Ops,     \* cfg.ops
  Nil      \* no block

ASSUME OpsAssumption == Ops \in Nat /\ Nil \notin Blocks

VARIABLES
  free,      \* the blocks of the allocator
  queue,     \* queue_
  done,      \* done
  producer,  \* the producer's place, its loop counter i and the block p
  consumer,  \* the consumer's place and the block p
  late       \* auxiliary: the blocks queued since the consumer's last look at
             \* the queue

vars == <<free, queue, done, producer, consumer, late>>

\* initialize_pool, and main starts both threads.
Init ==
  /\ free = Blocks
  /\ queue = <<>>
  /\ done = FALSE
  /\ producer = [pc |-> "pop", i |-> 0, p |-> Nil]
  /\ consumer = [pc |-> "pop", p |-> Nil]
  /\ late = {}

\* allocator.pop(), in the variants allocator.alloc(); without a block the loop
\* continues.
ProducerPop ==
  /\ producer.pc = "pop" /\ producer.i < Ops
  /\ \/ /\ producer' = [producer EXCEPT !.i = @ + 1]
        /\ UNCHANGED free
     \/ \E b \in free :
          /\ producer' = [producer EXCEPT !.pc = "queue", !.p = b]
          /\ free' = free \ {b}
  /\ UNCHANGED <<queue, done, consumer, late>>

ProducerQueue ==
  /\ producer.pc = "queue"
  /\ queue' = Append(queue, producer.p)
  /\ late' = late \cup {producer.p}
  /\ producer' = [pc |-> "pop", i |-> producer.i + 1, p |-> Nil]
  /\ UNCHANGED <<free, done, consumer>>

ProducerDone ==
  /\ producer.pc = "pop" /\ producer.i = Ops
  /\ done' = TRUE
  /\ producer' = [producer EXCEPT !.pc = "ended"]
  /\ UNCHANGED <<free, queue, consumer, late>>

\* Mutant of ConsumerPop: the block is read from the queue but left there.
ConsumerPopKeeps ==
  /\ consumer.pc = "pop"
  /\ consumer' = IF queue = <<>> THEN [consumer EXCEPT !.pc = "check"]
                                 ELSE [pc |-> "push", p |-> Head(queue)]
  /\ late' = {}
  /\ UNCHANGED <<free, queue, done, producer>>

\* queue_.pop(p)
ConsumerPop ==
  /\ consumer.pc = "pop"
  /\ IF queue = <<>>
     THEN /\ consumer' = [consumer EXCEPT !.pc = "check"]
          /\ UNCHANGED queue
     ELSE /\ consumer' = [pc |-> "push", p |-> Head(queue)]
          /\ queue' = Tail(queue)
  /\ late' = {}
  /\ UNCHANGED <<free, done, producer>>

\* allocator.push(p)
ConsumerPush ==
  /\ consumer.pc = "push"
  /\ free' = free \cup {consumer.p}
  /\ consumer' = [pc |-> "pop", p |-> Nil]
  /\ UNCHANGED <<queue, done, producer, late>>

\* Mutant of ConsumerCheck: the flag alone ends the loop, in any round.
ConsumerCheckAlways ==
  /\ consumer.pc \in {"check", "pop"}
  /\ consumer' = [consumer EXCEPT !.pc = IF done THEN "ended" ELSE "pop"]
  /\ UNCHANGED <<free, queue, done, producer, late>>

\* Mutant of ConsumerCheck: the flag is read once, before the loop.
ConsumerCheckHoisted ==
  /\ consumer.pc = "check"
  /\ consumer' = [consumer EXCEPT !.pc = "pop"]
  /\ UNCHANGED <<free, queue, done, producer, late>>

\* The flag is read after the queue was found empty.
ConsumerCheck ==
  /\ consumer.pc = "check"
  /\ consumer' = [consumer EXCEPT !.pc = IF done THEN "ended" ELSE "pop"]
  /\ UNCHANGED <<free, queue, done, producer, late>>

\* main has joined both threads.
Joined == producer.pc = "ended" /\ consumer.pc = "ended"

Producer == ProducerPop \/ ProducerQueue \/ ProducerDone
Consumer == ConsumerPop \/ ConsumerPush \/ ConsumerCheck

Next == Producer \/ Consumer \/ (Joined /\ UNCHANGED vars)

\* Both threads run on.
Spec == Init /\ [][Next]_vars /\ WF_vars(Producer) /\ WF_vars(Consumer)
-----------------------------------------------------------------------------
(* Properties                                                              *)

\* A block is held by the producer, by the queue or by the consumer, and
\* passed on in this direction: the benchmark uses the allocator as BlockPool
\* demands, and frees no block twice.
Held(x) == {x} \ {Nil}
Holders == {"producer", "queue", "consumer"}
holdings == [h \in Holders |-> IF h = "producer" THEN Held(producer.p)
                               ELSE IF h = "queue" THEN ToSet(queue)
                               ELSE Held(consumer.p)]
Contract == INSTANCE BlockPool WITH Threads <- Holders, owned <- holdings
KeepsContract == Contract!Spec

\* Blocks may be left in the queue when the benchmark ends, but only those
\* queued after the consumer's last look at the queue.
LeftoversLate ==
  consumer.pc = "ended" => ToSet(queue) \subseteq late /\ producer.pc = "ended"

\* The benchmark ends: main joins both threads, even if the producer gets
\* no block again and again.
Terminates == <>Joined
=============================================================================
