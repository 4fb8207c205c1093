------------------------------ MODULE TlBitmap ------------------------------
(***************************************************************************)
(* ThreadLocalBitmapAllocator (include/tl_bitmap_allocator.hpp,            *)
(* src/tl_bitmap_allocator.cpp): max_threads regions, each with memory, a  *)
(* bitmap and a plain hint.  A thread allocates from the region with its   *)
(* index; dealloc finds the region by address.  The index of a thread is a *)
(* static thread_local variable, shared by all the allocators and assigned *)
(* by the one that the thread calls first.                                 *)
(*                                                                         *)
(* The scan of a region is that of Bitmap, whose operators on words and on *)
(* a thread's frame are used through W; Reg(r) is region r seen as a       *)
(* Bitmap.  A region is a pair of an allocator and an index, a pointer is  *)
(* an address; blocks have size 1.                                         *)
(***************************************************************************)
EXTENDS Integers, FiniteSetsExt

CONSTANTS
  Threads,          \* the threads of the program
  Allocators,       \* the ThreadLocalBitmapAllocator objects
  MaxThreads,       \* MaxThreads[a]: m_max_threads
  BlocksPerThread,  \* m_blocks_per_thread
  WordBits,         \* WORD_BITS
  Memory,           \* Memory[r]: the address of the memory of region r
  MaxAssigned,      \* bound: no thread ends once so many had an index
  Nil               \* SIZE_MAX, no region

Regions == UNION {{a} \X (0..MaxThreads[a] - 1) : a \in Allocators}

index_to_ptr(r, i) == Memory[r] + i
ptr_to_index(r, p) == p - Memory[r]

\* Mutant of Inside: the address after a region counts as inside.
InsideClosed(r, p) == Memory[r] <= p /\ p <= Memory[r] + BlocksPerThread

Inside(r, p) == Memory[r] <= p /\ p < Memory[r] + BlocksPerThread

Pointers == UNION {Memory[r]..Memory[r] + BlocksPerThread - 1 : r \in Regions}

\* The regions have blocks and are apart from each other.
ASSUME RegionsAssumption ==
  /\ BlocksPerThread \in Nat \ {0} /\ WordBits \in Nat \ {0}
  /\ Nil \notin Nat /\ Nil \notin Regions
  /\ MaxThreads \in [Allocators -> Nat \ {0}] /\ Memory \in [Regions -> Nat \ {0}]
  /\ \A q, r \in Regions : q # r =>
       \/ Memory[q] + BlocksPerThread <= Memory[r]
       \/ Memory[r] + BlocksPerThread <= Memory[q]

ASSUME ThreadsAssumption == IsFiniteSet(Threads)

VARIABLES
  bitmap,          \* bitmap[r][w]: the set bits of word w of region r
  hint,            \* hint[r]: the word where the next scan of r starts
  thread_counter,  \* thread_counter[a]: m_thread_counter
  region_index,    \* region_index[t]: t_region_index
  region,          \* region[t]: the region of thread t's latest call
  frame,           \* frame[t]: where thread t is in it, as in Bitmap
  owned,           \* owned[t]: the pointers that thread t holds
  spent            \* auxiliary: as in Bitmap, for the region of the call

vars == <<bitmap, hint, thread_counter, region_index, region, frame, owned, spent>>

W == INSTANCE Bitmap WITH BlockCount <- BlocksPerThread

\* The blocks of region r among the pointers ps.
IndexesIn(r, ps) == {i \in W!Blocks : index_to_ptr(r, i) \in ps}

Reg(r) == INSTANCE Bitmap WITH
  BlockCount <- BlocksPerThread,
  bitmap <- bitmap[r],
  hint   <- hint[r],
  frame  <- [t \in Threads |-> IF region[t] = r THEN frame[t] ELSE W!Idle],
  owned  <- [t \in Threads |-> IndexesIn(r, owned[t])],
  spent  <- [t \in Threads |-> IF region[t] = r THEN spent[t] ELSE {}]

Init ==
  /\ bitmap = [r \in Regions |-> [w \in W!Words |-> {}]]
  /\ hint = [r \in Regions |-> 0]
  /\ thread_counter = [a \in Allocators |-> 0]
  /\ region_index = [t \in Threads |-> Nil]
  /\ region = [t \in Threads |-> Nil]
  /\ frame = [t \in Threads |-> W!Idle]
  /\ owned = [t \in Threads |-> {}]
  /\ spent = [t \in Threads |-> {}]

-----------------------------------------------------------------------------
(* alloc                                                                   *)

assign_region(a) == thread_counter[a] % MaxThreads[a]

IndexOf(t, a) == IF region_index[t] = Nil THEN assign_region(a) ELSE region_index[t]

\* The plain hint: a read that races with a write may give any word's index.
HintRead(t, r) ==
  IF \E u \in Threads \ {t} :
       region[u] = r /\ frame[u].pc \in {"alloc_hint", "dealloc_hint"}
  THEN W!Words ELSE {hint[r]}

\* Mutant of CountThread: the counter is read but not advanced.
CountThreadNot(t, a) == UNCHANGED thread_counter

CountThread(t, a) ==
  thread_counter' = IF region_index[t] = Nil
                    THEN [thread_counter EXCEPT ![a] = @ + 1] ELSE thread_counter

\* A thread that has no index gets one.  An index that is no region of this
\* allocator reads past the end of m_regions: what follows is undefined.  The
\* assignment and the read of the hint are one step: only an assignment reads
\* the counter and only its thread the index, so nothing that others do in
\* between depends on them, and their writes of the hint come before the step.
AllocStart(t, a) ==
  LET r == <<a, IndexOf(t, a)>> IN
  /\ frame[t].pc = "idle"
  /\ CountThread(t, a)
  /\ region_index' = [region_index EXCEPT ![t] = IndexOf(t, a)]
  /\ IF r \in Regions
     THEN /\ region' = [region EXCEPT ![t] = r]
          /\ \E w \in HintRead(t, r) :
               frame' = [frame EXCEPT ![t] = [W!Idle EXCEPT !.pc = "load", !.start = w]]
          /\ spent' = [spent EXCEPT ![t] = {w \in W!Words : W!Exhausted(bitmap[r], w)}]
     ELSE /\ frame' = [frame EXCEPT ![t] = [W!Idle EXCEPT !.pc = "undefined"]]
          /\ UNCHANGED <<region, spent>>
  /\ UNCHANGED <<bitmap, hint, owned>>

\* The load of a word, and a compare_exchange_weak that fails, with the word
\* changed or not: what the thread sees decides how the scan goes on.
AllocLook(t) ==
  /\ frame[t].pc \in {"load", "cas"}
  /\ frame' = [frame EXCEPT ![t] = W!Looked(t, bitmap[region[t]][W!WordAt(t)])]
  /\ UNCHANGED <<bitmap, hint, thread_counter, region_index, region, owned, spent>>

\* Mutant of Unchanged: the word is written without comparing it.
UnchangedNever(t) == frame[t].pc = "cas"

\* compare_exchange_weak succeeds only on the word it compared.
Unchanged(t) == bitmap[region[t]][W!WordAt(t)] = frame[t].word

\* Mutant of InRange: the bits beyond the last block are handed out.
InRangeWord(i) == i < W!WordCount * WordBits

InRange(i) == i < BlocksPerThread

AllocCas(t) ==
  LET r     == region[t]
      w     == W!WordAt(t)
      bit   == W!find_free_bit(frame[t].word)
      i     == W!GlobalIndex(w, bit)
      words == [bitmap[r] EXCEPT ![w] = frame[t].word \cup {bit}]
  IN
  /\ frame[t].pc = "cas"
  /\ Unchanged(t)
  /\ bitmap' = [bitmap EXCEPT ![r] = words]
  /\ frame' = [frame EXCEPT ![t] =
       [W!Idle EXCEPT !.pc = IF InRange(i) THEN "alloc_hint" ELSE "undo",
                      !.w = w, !.bit = bit]]
  /\ owned' = IF InRange(i) THEN [owned EXCEPT ![t] = @ \cup {index_to_ptr(r, i)}] ELSE owned
  /\ spent' = [u \in Threads |->
       IF region[u] = r /\ W!Scanning(u)
       THEN spent[u] \cup {v \in W!Words : W!Exhausted(words, v)} ELSE spent[u]]
  /\ UNCHANGED <<hint, thread_counter, region_index, region>>

\* The claimed bit stands for no block: it is cleared and alloc returns nullptr.
Undo(t) ==
  /\ frame[t].pc = "undo"
  /\ bitmap' = [bitmap EXCEPT ![region[t]][frame[t].w] = @ \ {frame[t].bit}]
  /\ frame' = [frame EXCEPT ![t] = W!Failed]
  /\ UNCHANGED <<hint, thread_counter, region_index, region, owned, spent>>

\* Mutant of SetHint: the index of the block is stored.
SetHintBlock(t) ==
  /\ frame[t].pc \in {"alloc_hint", "dealloc_hint"}
  /\ hint' = [hint EXCEPT ![region[t]] = W!GlobalIndex(frame[t].w, frame[t].bit)]
  /\ frame' = [frame EXCEPT ![t] = W!Idle]
  /\ UNCHANGED <<bitmap, thread_counter, region_index, region, owned, spent>>

\* The end of alloc and of dealloc.
SetHint(t) ==
  /\ frame[t].pc \in {"alloc_hint", "dealloc_hint"}
  /\ hint' = [hint EXCEPT ![region[t]] = frame[t].w]
  /\ frame' = [frame EXCEPT ![t] = W!Idle]
  /\ UNCHANGED <<bitmap, thread_counter, region_index, region, owned, spent>>

-----------------------------------------------------------------------------
(* dealloc                                                                 *)

\* The first region of allocator a that the pointer lies in.
Find(a, p) ==
  LET in == {i \in 0..MaxThreads[a] - 1 : Inside(<<a, i>>, p)}
  IN  IF in = {} THEN Nil ELSE <<a, Min(in)>>

\* A pointer that no region of the allocator has is ignored: a client never
\* passes one.
Dealloc(t, a, p) ==
  LET r == Find(a, p)
      i == ptr_to_index(r, p)
  IN
  /\ frame[t].pc = "idle"
  /\ p \in owned[t]
  /\ r # Nil
  /\ bitmap' = [bitmap EXCEPT ![r][W!WordIndex(i)] = @ \ {W!BitIndex(i)}]
  /\ owned' = [owned EXCEPT ![t] = @ \ {p}]
  /\ region' = [region EXCEPT ![t] = r]
  /\ frame' = [frame EXCEPT ![t] = [W!Idle EXCEPT !.pc = "dealloc_hint",
                                                  !.w = W!WordIndex(i)]]
  /\ UNCHANGED <<hint, thread_counter, region_index, spent>>

-----------------------------------------------------------------------------
(* The rest of the program                                                 *)

\* A producer passes a block to a consumer through a queue of its own.
Handoff(t, u, p) ==
  /\ frame[t].pc = "idle" /\ frame[u].pc = "idle" /\ t # u
  /\ p \in owned[t]
  /\ owned' = [owned EXCEPT ![t] = @ \ {p}, ![u] = @ \cup {p}]
  /\ UNCHANGED <<bitmap, hint, thread_counter, region_index, region, frame, spent>>

\* A thread ends, and a new one without an index takes its place.
Exit(t) ==
  /\ frame[t].pc = "idle"
  /\ owned[t] = {}
  /\ region_index[t] # Nil
  /\ \A a \in Allocators : thread_counter[a] < MaxAssigned
  /\ region_index' = [region_index EXCEPT ![t] = Nil]
  /\ region' = [region EXCEPT ![t] = Nil]
  /\ frame' = [frame EXCEPT ![t] = W!Idle]
  /\ spent' = [spent EXCEPT ![t] = {}]
  /\ UNCHANGED <<bitmap, hint, thread_counter, owned>>

Next ==
  \E t \in Threads :
    \/ \E a \in Allocators : AllocStart(t, a) \/ \E p \in Pointers : Dealloc(t, a, p)
    \/ AllocLook(t) \/ AllocCas(t) \/ Undo(t) \/ SetHint(t)
    \/ \E u \in Threads, p \in Pointers : Handoff(t, u, p)
    \/ Exit(t)

Spec == Init /\ [][Next]_vars
-----------------------------------------------------------------------------
(* Properties                                                              *)

\* Every variable has its type; the hint is always the index of a word.
TypeOK ==
  /\ bitmap \in [Regions -> [W!Words -> SUBSET W!Bits]]
  /\ hint \in [Regions -> W!Words]
  /\ thread_counter \in [Allocators -> Nat]
  /\ region_index \in [Threads -> Nat \cup {Nil}]
  /\ region \in [Threads -> Regions \cup {Nil}]
  /\ owned \in [Threads -> SUBSET Pointers]
  /\ spent \in [Threads -> SUBSET W!Words]

\* However many threads share a region and its racing hint, and whoever frees
\* its blocks: a bit is set exactly while one thread holds the block, and bits
\* beyond the last block do not stay set.
RegionsSound ==
  \A r \in Regions : Reg(r)!BitsMatchOwners /\ Reg(r)!SpareBitsReturned

\* alloc returns nullptr only if the thread's own region had no free block, or
\* its last word none, at some moment of the scan of each word.
FailureJustified == \A r \in Regions : Reg(r)!FailureJustified

\* No thread reads past the end of m_regions.
RegionInRange == \A t \in Threads : frame[t].pc # "undefined"

\* assign_region spreads the threads over the regions: if the allocator is the
\* only one of the program, no more running threads share region i than the
\* times round-robin over the regions has come to i, also when the counter has
\* wrapped around and threads have ended.  In particular the first max_threads
\* threads have a region each.
EvenSharing ==
  \A a \in Allocators : Allocators = {a} =>
    \A i \in 0..MaxThreads[a] - 1 :
      Cardinality({t \in Threads : region_index[t] = i})
        <= (thread_counter[a] + MaxThreads[a] - 1 - i) \div MaxThreads[a]

\* Regions are per thread: while no more threads than regions exist, no two of
\* them allocate from the same region.
RegionPerThread ==
  \A a \in Allocators : Cardinality(Threads) <= MaxThreads[a] =>
    \A t, u \in Threads : t # u /\ region_index[t] # Nil => region_index[t] # region_index[u]

\* The allocator hands out and takes back blocks as its clients expect.
Contract == INSTANCE BlockPool WITH Blocks <- Pointers, owned <- owned
ImplementsBlockPool == Contract!Spec
=============================================================================
