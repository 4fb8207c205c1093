------------------------------- MODULE Bitmap -------------------------------
(***************************************************************************)
(* BitmapAllocator (include/bitmap_allocator.hpp,                          *)
(* src/bitmap_allocator.cpp): one bit per block in an array of atomic      *)
(* words, a set bit meaning that the block is handed out.  alloc scans the *)
(* words from a hint, and claims the lowest clear bit of the first word    *)
(* that is not full with a compare-and-swap; dealloc clears the bit.  The  *)
(* last word may have bits that stand for no block: alloc gives such a bit *)
(* back and reports failure.                                               *)
(*                                                                         *)
(* A word is the set of its set bits.  One action is one access to the     *)
(* bitmap or to the hint.                                                  *)
(***************************************************************************)
EXTENDS Integers, FiniteSetsExt

CONSTANTS
  Threads,     \* the threads that share the allocator
  BlockCount,  \* m_block_count
  WordBits     \* WORD_BITS

ASSUME SizesAssumption == BlockCount \in Nat \ {0} /\ WordBits \in Nat \ {0}

VARIABLES
  bitmap,   \* bitmap[w]: the set bits of word w
  hint,     \* m_hint
  frame,    \* frame[t]: where thread t is, and its local variables
  owned,    \* owned[t]: the blocks thread t holds (client or mid-operation)
  spent     \* auxiliary: spent[t]: the words that had no free block at some
            \* moment of thread t's latest scan

vars == <<bitmap, hint, frame, owned, spent>>

WordCount == (BlockCount + WordBits - 1) \div WordBits

Blocks == 0..BlockCount - 1
Words  == 0..WordCount - 1
Bits   == 0..WordBits - 1
FULL   == Bits

\* The block a bit stands for, and dealloc's way back from a block.
GlobalIndex(w, i) == w * WordBits + i
WordIndex(b) == b \div WordBits
BitIndex(b)  == b % WordBits

\* Mutant of find_free_bit: the highest clear bit.
find_free_bit_high(word) == Max(FULL \ word)

find_free_bit(word) == Min(FULL \ word)

\* No bit of w stands for a block that could still be claimed.
Exhausted(words, w) == \A b \in Blocks : WordIndex(b) = w => BitIndex(b) \in words[w]

\* The locals of the two operations: alloc's start, probe and word; the word
\* and bit claimed or cleared; whether the latest alloc returned nullptr.
PCs   == {"idle", "load", "cas", "undo", "alloc_hint", "dealloc_hint"}
Frame == [pc : PCs, start : Words, probe : Words, word : SUBSET Bits,
          w : Words, bit : Bits, failed : BOOLEAN]

Idle == [pc |-> "idle", start |-> 0, probe |-> 0, word |-> {}, w |-> 0,
         bit |-> 0, failed |-> FALSE]

Failed == [Idle EXCEPT !.failed = TRUE]

Scanning(t) == frame[t].pc \in {"load", "cas"}

\* The constructor.
Init ==
  /\ bitmap = [w \in Words |-> {}]
  /\ hint = 0
  /\ frame = [t \in Threads |-> Idle]
  /\ owned = [t \in Threads |-> {}]
  /\ spent = [t \in Threads |-> {}]

-----------------------------------------------------------------------------
(* alloc                                                                   *)

AllocStart(t) ==
  /\ frame[t].pc = "idle"
  /\ frame' = [frame EXCEPT ![t] = [Idle EXCEPT !.pc = "load", !.start = hint]]
  /\ spent' = [spent EXCEPT ![t] = {w \in Words : Exhausted(bitmap, w)}]
  /\ UNCHANGED <<bitmap, hint, owned>>

\* Mutant of WordAt: the scan does not wrap around.
WordAtClamped(t) ==
  Min({frame[t].start + frame[t].probe, WordCount - 1})

WordAt(t) == (frame[t].start + frame[t].probe) % WordCount

\* What follows a look at a word: its lowest clear bit is tried, or the next
\* word is, or alloc has run out of words and returns nullptr.
Looked(t, word) ==
  IF word # FULL THEN [frame[t] EXCEPT !.pc = "cas", !.word = word]
  ELSE IF frame[t].probe + 1 < WordCount
  THEN [frame[t] EXCEPT !.pc = "load", !.probe = @ + 1, !.word = {}]
  ELSE Failed

AllocLoad(t) ==
  /\ frame[t].pc = "load"
  /\ frame' = [frame EXCEPT ![t] = Looked(t, bitmap[WordAt(t)])]
  /\ UNCHANGED <<bitmap, hint, owned, spent>>

\* Mutant of Unchanged: the bit is set without comparing the word.
UnchangedNever(t) == frame[t].bit \in Bits

\* compare_exchange_weak succeeds only on the word it compared.
Unchanged(t) == bitmap[WordAt(t)] = frame[t].word

\* Mutant of InRange: the bits beyond the last block are handed out.
InRangeWord(g) == g < WordCount * WordBits

InRange(g) == g < BlockCount

AllocCas(t) ==
  LET w     == WordAt(t)
      bit   == find_free_bit(frame[t].word)
      g     == GlobalIndex(w, bit)
      words == [bitmap EXCEPT ![w] = frame[t].word \cup {bit}]
  IN
  /\ frame[t].pc = "cas"
  /\ Unchanged(t)
  /\ bitmap' = words
  /\ frame' = [frame EXCEPT ![t] =
       [Idle EXCEPT !.pc = IF InRange(g) THEN "alloc_hint" ELSE "undo",
                    !.w = w, !.bit = bit]]
  /\ owned' = IF InRange(g) THEN [owned EXCEPT ![t] = @ \cup {g}] ELSE owned
  /\ spent' = [u \in Threads |->
       IF Scanning(u) THEN spent[u] \cup {v \in Words : Exhausted(words, v)}
                      ELSE spent[u]]
  /\ UNCHANGED hint

\* Mutant of AllocCasFail: the retry does not see the new word.
AllocCasFailStale(t) ==
  /\ frame[t].pc = "cas"
  /\ UNCHANGED vars

\* compare_exchange_weak may also fail when the word is unchanged.
AllocCasFail(t) ==
  /\ frame[t].pc = "cas"
  /\ frame' = [frame EXCEPT ![t] = Looked(t, bitmap[WordAt(t)])]
  /\ UNCHANGED <<bitmap, hint, owned, spent>>

\* Mutant of Undo: the bit beyond the last block stays set.
UndoSkipped(t) ==
  /\ frame[t].pc = "undo"
  /\ frame' = [frame EXCEPT ![t] = Failed]
  /\ UNCHANGED <<bitmap, hint, owned, spent>>

\* The claimed bit stands for no block: it is cleared again and alloc returns
\* nullptr, without looking at the words it has not probed yet.
Undo(t) ==
  /\ frame[t].pc = "undo"
  /\ bitmap' = [bitmap EXCEPT ![frame[t].w] = @ \ {frame[t].bit}]
  /\ frame' = [frame EXCEPT ![t] = Failed]
  /\ UNCHANGED <<hint, owned, spent>>

AllocHint(t) ==
  /\ frame[t].pc = "alloc_hint"
  /\ hint' = frame[t].w
  /\ frame' = [frame EXCEPT ![t] = Idle]
  /\ UNCHANGED <<bitmap, owned, spent>>

-----------------------------------------------------------------------------
(* dealloc                                                                 *)

Dealloc(t, b) ==
  /\ frame[t].pc = "idle"
  /\ b \in owned[t]
  /\ bitmap' = [bitmap EXCEPT ![WordIndex(b)] = @ \ {BitIndex(b)}]
  /\ owned' = [owned EXCEPT ![t] = @ \ {b}]
  /\ frame' = [frame EXCEPT ![t] = [Idle EXCEPT !.pc = "dealloc_hint",
                                                !.w = WordIndex(b)]]
  /\ UNCHANGED <<hint, spent>>

DeallocHint(t) ==
  /\ frame[t].pc = "dealloc_hint"
  /\ hint' = frame[t].w
  /\ frame' = [frame EXCEPT ![t] = Idle]
  /\ UNCHANGED <<bitmap, owned, spent>>

\* A producer passes a block to a consumer through a queue of its own.
Handoff(t, u, b) ==
  /\ frame[t].pc = "idle" /\ frame[u].pc = "idle" /\ t # u
  /\ b \in owned[t]
  /\ owned' = [owned EXCEPT ![t] = @ \ {b}, ![u] = @ \cup {b}]
  /\ UNCHANGED <<bitmap, hint, frame, spent>>

-----------------------------------------------------------------------------
Call(t) ==
  \/ AllocStart(t)
  \/ \E b \in Blocks : Dealloc(t, b)
  \/ \E u \in Threads, b \in Blocks : Handoff(t, u, b)

Step(t) ==
  \/ AllocLoad(t) \/ AllocCas(t) \/ AllocCasFail(t) \/ Undo(t) \/ AllocHint(t)
  \/ DeallocHint(t)

Next == \E t \in Threads : Call(t) \/ Step(t)

Spec == Init /\ [][Next]_vars

\* A thread inside an operation keeps running, and a compare-and-swap that
\* stays possible is not refused forever (weak failures are sporadic).
Fairness == \A t \in Threads : WF_vars(Step(t)) /\ WF_vars(AllocCas(t))

FairSpec == Spec /\ Fairness
-----------------------------------------------------------------------------
(* Properties                                                              *)

\* Every variable has its type.
TypeOK ==
  /\ bitmap \in [Words -> SUBSET Bits]
  /\ hint \in Words
  /\ frame \in [Threads -> Frame]
  /\ owned \in [Threads -> SUBSET Blocks]
  /\ spent \in [Threads -> SUBSET Words]

\* A block's bit is set exactly while some thread holds the block, and only
\* one does: no two racing calls of alloc return the same block, no call of
\* dealloc frees a block twice or clears a neighbour's bit.
BitsMatchOwners ==
  /\ \A b \in Blocks :
       BitIndex(b) \in bitmap[WordIndex(b)] <=> \E t \in Threads : b \in owned[t]
  /\ \A t, u \in Threads : t # u => owned[t] \cap owned[u] = {}

Spare(w, i) == GlobalIndex(w, i) \notin Blocks

\* A bit beyond the last block is set only while the one call of alloc that
\* set it is about to clear it: such bits never accumulate.
SpareBitsReturned ==
  \A w \in Words, i \in Bits : Spare(w, i) /\ i \in bitmap[w] =>
    \E t \in Threads :
      /\ frame[t].pc = "undo" /\ frame[t].w = w /\ frame[t].bit = i
      /\ \A u \in Threads \ {t} :
           frame[u].pc = "undo" => <<frame[u].w, frame[u].bit>> # <<w, i>>

Ragged == BlockCount % WordBits # 0

\* alloc returns nullptr only if every word was without a free block at some
\* moment of the call, whatever was freed and claimed meanwhile.  With a
\* partial last word that is promised of the last word alone: the scan ends
\* where the bit beyond the last block is claimed.
FailureJustified ==
  \A t \in Threads : frame[t].failed =>
    \/ spent[t] = Words
    \/ Ragged /\ WordCount - 1 \in spent[t]

\* The allocator hands out and takes back blocks as its clients expect.
Pool == INSTANCE BlockPool
ImplementsBlockPool == Pool!Spec

\* Lock-freedom: a call goes on forever only if the bitmap keeps changing,
\* that is, if other calls keep claiming or clearing bits.
CallsReturn ==
  <>[][UNCHANGED bitmap]_vars =>
    \A t \in Threads : frame[t].pc # "idle" ~> frame[t].pc = "idle"
=============================================================================
