---------------------------- MODULE BitmapProofs ----------------------------
(***************************************************************************)
(* Proofs that every behaviour of Bitmap keeps the bits in step with the   *)
(* blocks that are held, gives the bits beyond the last block back, fails  *)
(* only when it may and implements BlockPool, for any number of threads    *)
(* and blocks and any word size.                                           *)
(***************************************************************************)
EXTENDS Bitmap, WellFoundedInduction, TLAPS

\* What holds of a thread in frame f whose latest scan has seen the words sp
\* exhausted, given the bitmap words.
ThreadOK(f, words, sp) ==
  /\ f.failed => /\ f.pc = "idle"
                 /\ sp = Words \/ (Ragged /\ WordCount - 1 \in sp)
  /\ f.pc = "cas" => f.word # FULL
  /\ f.pc \in {"load", "cas"} =>
       /\ \A w \in Words : Exhausted(words, w) => w \in sp
       /\ \A k \in Words : k < f.probe => (f.start + k) % WordCount \in sp
  /\ f.pc = "undo" => /\ Spare(f.w, f.bit) /\ f.bit \in words[f.w]
                      /\ Ragged /\ WordCount - 1 \in sp

\* The bitmap, the threads' frames, the blocks they hold and what their scans
\* have seen have their types.
Typed(words, fr, ow, sp) ==
  /\ words \in [Words -> SUBSET Bits]
  /\ fr \in [Threads -> Frame]
  /\ ow \in [Threads -> SUBSET Blocks]
  /\ sp \in [Threads -> SUBSET Words]

\* The bits match the blocks that are held, as BitsMatchOwners says.
Matched(words, ow) ==
  /\ \A b \in Blocks :
       BitIndex(b) \in words[WordIndex(b)] <=> \E t \in Threads : b \in ow[t]
  /\ \A t, u \in Threads : t # u => ow[t] \cap ow[u] = {}

\* No two threads are about to clear the same bit.
UndosApart(fr) ==
  \A t, u \in Threads :
    fr[t].pc = "undo" /\ fr[u].pc = "undo" /\ t # u =>
      <<fr[t].w, fr[t].bit>> # <<fr[u].w, fr[u].bit>>

\* Every set bit that stands for no block has a thread about to clear it.
SpareBitsClaimed(words, fr) ==
  \A w \in Words, i \in Bits : Spare(w, i) /\ i \in words[w] =>
    \E t \in Threads : fr[t].pc = "undo" /\ fr[t].w = w /\ fr[t].bit = i

\* What holds of one bitmap and the threads that use it.  The values are
\* parameters, so that the lemmas below serve every region of TlBitmap too.
Sound(words, fr, ow, sp) ==
  /\ Typed(words, fr, ow, sp)
  /\ Matched(words, ow)
  /\ UndosApart(fr)
  /\ SpareBitsClaimed(words, fr)
  /\ \A t \in Threads : ThreadOK(fr[t], words, sp[t])

\* The inductive invariant.
IInv == hint \in Words /\ Sound(bitmap, frame, owned, spent)

\* The effects of the steps, in the same form: where a scan looks and how it
\* goes on; the compare-and-swap that claims a bit; the clearing of a bit that
\* stands for no block, and of a block's bit; passing a block on.
WordOf(f) == (f.start + f.probe) % WordCount

Resumed(f, word) ==
  IF word # FULL THEN [f EXCEPT !.pc = "cas", !.word = word]
  ELSE IF f.probe + 1 < WordCount
  THEN [f EXCEPT !.pc = "load", !.probe = f.probe + 1, !.word = {}]
  ELSE Failed

ClaimFrame(w, bit) ==
  [Idle EXCEPT !.pc = IF InRange(GlobalIndex(w, bit)) THEN "alloc_hint" ELSE "undo",
               !.w = w, !.bit = bit]

Claim(words, fr, ow, sp, t, w, bit, words2, fr2, ow2, sp2) ==
  /\ fr[t].pc = "cas" /\ w = WordOf(fr[t]) /\ bit = find_free_bit(fr[t].word)
  /\ words[w] = fr[t].word
  /\ words2 = [words EXCEPT ![w] = fr[t].word \cup {bit}]
  /\ fr2 = [fr EXCEPT ![t] = ClaimFrame(w, bit)]
  /\ ow2 = IF InRange(GlobalIndex(w, bit))
           THEN [ow EXCEPT ![t] = @ \cup {GlobalIndex(w, bit)}] ELSE ow
  /\ sp2 = [u \in Threads |->
       IF fr[u].pc \in {"load", "cas"}
       THEN sp[u] \cup {v \in Words : Exhausted(words2, v)} ELSE sp[u]]

GiveUp(words, fr, t, words2, fr2) ==
  /\ fr[t].pc = "undo"
  /\ words2 = [words EXCEPT ![fr[t].w] = @ \ {fr[t].bit}]
  /\ fr2 = [fr EXCEPT ![t] = Failed]

ReturnFrame(b) == [Idle EXCEPT !.pc = "dealloc_hint", !.w = WordIndex(b)]

Return(words, fr, ow, t, b, words2, fr2, ow2) ==
  /\ fr[t].pc = "idle" /\ b \in ow[t]
  /\ words2 = [words EXCEPT ![WordIndex(b)] = @ \ {BitIndex(b)}]
  /\ fr2 = [fr EXCEPT ![t] = ReturnFrame(b)]
  /\ ow2 = [ow EXCEPT ![t] = @ \ {b}]

PassOn(ow, t, u, b, ow2) ==
  /\ b \in ow[t] /\ t # u
  /\ ow2 = [ow EXCEPT ![t] = @ \ {b}, ![u] = @ \cup {b}]

-----------------------------------------------------------------------------
(* Words, bits and blocks                                                  *)

USE SizesAssumption

\* Division with remainder.
LEMMA DivMod ==
  ASSUME NEW b \in Nat, NEW k \in Nat \ {0}
  PROVE  /\ b \div k \in Nat /\ b % k \in 0..k - 1
         /\ b = (b \div k) * k + (b % k)
OBVIOUS

\* Quotient and remainder are unique.
LEMMA DivModUnique ==
  ASSUME NEW w \in Nat, NEW k \in Nat \ {0}, NEW i \in 0..k - 1
  PROVE  (w * k + i) \div k = w /\ (w * k + i) % k = i
OBVIOUS

\* Multiplication is monotone.
LEMMA MultMonotone ==
  ASSUME NEW a \in Nat, NEW b \in Nat, NEW k \in Nat \ {0}, a < b
  PROVE  a * k + k <= b * k
OBVIOUS

\* The remainder of a number less than twice the divisor.
LEMMA ModOnce ==
  ASSUME NEW n \in Nat \ {0}, NEW x \in 0..n - 1
  PROVE  x % n = x /\ (x + n) % n = x
OBVIOUS

\* The words hold all the blocks, and only the last word may be partial.
LEMMA WordCountFits ==
  /\ WordCount \in Nat \ {0}
  /\ BlockCount <= WordCount * WordBits
  /\ (WordCount - 1) * WordBits < BlockCount
  /\ BlockCount % WordBits = 0 => WordCount * WordBits = BlockCount
<1> DEFINE q == BlockCount \div WordBits
           r == BlockCount % WordBits
<1>1. q \in Nat /\ r \in 0..WordBits - 1 /\ BlockCount = q * WordBits + r
  BY DivMod
<1> HIDE DEF q, r
<1>2. CASE r = 0
  <2>1. BlockCount + WordBits - 1 = q * WordBits + (WordBits - 1)
    BY <1>1, <1>2
  <2>2. WordCount = q
    BY <1>1, <2>1, DivModUnique DEF WordCount
  <2>3. q # 0
    BY <1>1, <1>2
  <2> QED BY <1>1, <1>2, <2>2, <2>3 DEF r
<1>3. CASE r # 0
  <2>1. BlockCount + WordBits - 1 = (q + 1) * WordBits + (r - 1)
    BY <1>1
  <2>2. WordCount = q + 1
    <3>1. r - 1 \in 0..WordBits - 1 /\ q + 1 \in Nat
      BY <1>1, <1>3
    <3> QED BY <2>1, <3>1, DivModUnique DEF WordCount
  <2>3. (q + 1) * WordBits = q * WordBits + WordBits
    BY <1>1
  <2> QED BY <1>1, <1>3, <2>2, <2>3 DEF r
<1> QED BY <1>2, <1>3

\* dealloc finds the bit that alloc claimed for a block.
LEMMA BlockBit ==
  ASSUME NEW b \in Blocks
  PROVE  /\ WordIndex(b) \in Words /\ BitIndex(b) \in Bits
         /\ GlobalIndex(WordIndex(b), BitIndex(b)) = b
<1>1. /\ WordIndex(b) \in Nat /\ BitIndex(b) \in Bits
      /\ b = WordIndex(b) * WordBits + BitIndex(b)
  BY DivMod DEF Blocks, WordIndex, BitIndex, Bits
<1>2. WordIndex(b) < WordCount
  <2>1. SUFFICES ASSUME WordCount <= WordIndex(b)
                 PROVE  FALSE
    BY <1>1, WordCountFits
  <2>2. WordCount * WordBits <= WordIndex(b) * WordBits
    BY <1>1, <2>1, WordCountFits, MultMonotone
  <2> QED BY <1>1, <2>2, WordCountFits DEF Blocks, Bits
<1> QED BY <1>1, <1>2, WordCountFits DEF Words, GlobalIndex

\* A bit stands for one block, if any.
LEMMA BitBlock ==
  ASSUME NEW w \in Words, NEW i \in Bits
  PROVE  /\ GlobalIndex(w, i) \in Nat
         /\ WordIndex(GlobalIndex(w, i)) = w /\ BitIndex(GlobalIndex(w, i)) = i
         /\ InRange(GlobalIndex(w, i)) <=> GlobalIndex(w, i) \in Blocks
         /\ Spare(w, i) <=> ~ InRange(GlobalIndex(w, i))
<1>1. w \in Nat /\ i \in 0..WordBits - 1 /\ w * WordBits \in Nat
  BY WordCountFits DEF Words, Bits
<1> QED BY <1>1, DivModUnique
        DEF GlobalIndex, WordIndex, BitIndex, InRange, Spare, Blocks

\* Only a partial last word has bits that stand for no block, above the bits
\* of all its blocks.
LEMMA SpareBit ==
  ASSUME NEW w \in Words, NEW i \in Bits, Spare(w, i)
  PROVE  /\ w = WordCount - 1
         /\ Ragged
         /\ \A b \in Blocks : WordIndex(b) = w => BitIndex(b) < i
<1>1. w * WordBits + i >= BlockCount /\ w \in Nat /\ i \in 0..WordBits - 1
  BY BitBlock, WordCountFits DEF GlobalIndex, InRange, Words, Bits
<1>2. w = WordCount - 1
  <2>1. SUFFICES ASSUME w < WordCount - 1 PROVE FALSE
    BY WordCountFits DEF Words
  <2>2. w * WordBits + WordBits <= (WordCount - 1) * WordBits
    BY <1>1, <2>1, WordCountFits, MultMonotone
  <2>3. w * WordBits \in Nat /\ (WordCount - 1) * WordBits \in Nat
    BY <1>1, WordCountFits
  <2> QED BY <1>1, <2>2, <2>3, WordCountFits
<1>3. Ragged
  <2>1. SUFFICES ASSUME WordCount * WordBits = BlockCount PROVE FALSE
    BY WordCountFits DEF Ragged
  <2>2. w * WordBits + WordBits = BlockCount
    BY <1>1, <1>2, <2>1, WordCountFits
  <2> QED BY <1>1, <2>2
<1>4. ASSUME NEW b \in Blocks, WordIndex(b) = w
      PROVE  BitIndex(b) < i
  <2>1. w * WordBits + BitIndex(b) = b
    BY <1>4, BlockBit DEF GlobalIndex
  <2>2. BitIndex(b) \in Int /\ w * WordBits \in Int /\ b < BlockCount
    BY <1>1, BlockBit DEF Bits, Blocks
  <2> QED BY <1>1, <2>1, <2>2
<1> QED BY <1>2, <1>3, <1>4

\* find_free_bit returns the lowest clear bit of a word that is not full.
LEMMA LowestClearBit ==
  ASSUME NEW word \in SUBSET Bits, word # FULL
  PROVE  /\ find_free_bit(word) \in Bits \ word
         /\ \A i \in Bits \ word : find_free_bit(word) <= i
<1> DEFINE T == Bits \ word
<1>1. T \subseteq Nat /\ T # {}
  <2>1. T \subseteq Nat BY DEF Bits
  <2>2. T # {} BY DEF FULL
  <2> QED BY <2>1, <2>2
<1>2. \E x \in T : \A y \in T : ~ (<<y, x>> \in OpToRel(<, Nat))
  BY <1>1, NatLessThanWellFounded, WFMin
<1>3. PICK x \in T : \A y \in T : x <= y
  <2>1. PICK x \in T : \A y \in T : ~ (<<y, x>> \in OpToRel(<, Nat))
    BY <1>2
  <2>2. ASSUME NEW y \in T PROVE x <= y
    <3>1. x \in Nat /\ y \in Nat
      BY <1>1
    <3>2. y < x => <<y, x>> \in OpToRel(<, Nat)
      BY <3>1 DEF OpToRel
    <3>3. ~ (y < x)
      BY <2>1, <3>2
    <3> QED BY <3>1, <3>3
  <2> QED BY <2>2
<1> QED BY <1>3 DEF find_free_bit, Min, FULL

\* A full scan looks at every word, wherever it starts.
LEMMA ScanCovers ==
  ASSUME NEW start \in Words, NEW w \in Words
  PROVE  \E k \in Words : (start + k) % WordCount = w
<1>1. CASE start <= w
  <2>1. w - start \in Words /\ start + (w - start) = w /\ w % WordCount = w
    BY <1>1, ModOnce, WordCountFits DEF Words
  <2> QED BY <2>1
<1>2. CASE w < start
  <2>1. w + WordCount - start \in Words
    BY <1>2, WordCountFits DEF Words
  <2>2. start + (w + WordCount - start) = w + WordCount
    BY WordCountFits DEF Words
  <2>3. (w + WordCount) % WordCount = w
    BY ModOnce, WordCountFits DEF Words
  <2> QED BY <2>1, <2>2, <2>3
<1> QED BY <1>1, <1>2, WordCountFits DEF Words

\* The scan stays within the bitmap.
LEMMA WordAtType ==
  ASSUME NEW start \in Words, NEW k \in Words
  PROVE  (start + k) % WordCount \in Words
BY DivMod, WordCountFits DEF Words

-----------------------------------------------------------------------------
(* Steps that leave the bitmap alone                                       *)

\* A thread in no operation has a well-typed frame, whether or not its latest
\* call failed.
LEMMA IdleType ==
  /\ Idle \in Frame /\ Failed \in Frame
  /\ Idle.pc = "idle" /\ Failed.pc = "idle" /\ ~ Idle.failed
<1>1. 0 \in Words /\ 0 \in Bits
  BY WordCountFits DEF Words, Bits
<1> QED BY <1>1 DEF Idle, Failed, Frame, PCs

\* What holds before any call.
LEMMA SoundAtStart ==
  Sound([w \in Words |-> {}], [t \in Threads |-> Idle], [t \in Threads |-> {}],
        [t \in Threads |-> {}])
<1> DEFINE words == [w \in Words |-> {}]
           fr    == [t \in Threads |-> Idle]
           none  == [t \in Threads |-> {}]
<1>1. Typed(words, fr, none, none)
  BY IdleType DEF Typed
<1>2. Matched(words, none)
  BY BlockBit DEF Matched
<1>3. UndosApart(fr) /\ SpareBitsClaimed(words, fr)
  BY IdleType DEF UndosApart, SpareBitsClaimed
<1>4. ASSUME NEW t \in Threads
      PROVE  ThreadOK(fr[t], words, none[t])
  BY IdleType DEF ThreadOK
<1> QED BY <1>1, <1>2, <1>3, <1>4 DEF Sound

\* A step of one thread that neither changes the bitmap nor begins or ends
\* the clearing of a bit keeps the invariant if it keeps it for that thread.
LEMMA LocalStep ==
  ASSUME NEW words, NEW fr, NEW ow, NEW sp, Sound(words, fr, ow, sp),
         NEW t \in Threads, NEW f \in Frame, NEW s \in SUBSET Words,
         fr[t].pc # "undo", f.pc # "undo", ThreadOK(f, words, s)
  PROVE  Sound(words, [fr EXCEPT ![t] = f], ow, [sp EXCEPT ![t] = s])
<1> DEFINE fr2 == [fr EXCEPT ![t] = f]
           sp2 == [sp EXCEPT ![t] = s]
<1>1. Typed(words, fr2, ow, sp2)
  BY DEF Sound, Typed
<1>2. Matched(words, ow)
  BY DEF Sound
<1>3. \A u \in Threads : fr2[u] = IF u = t THEN f ELSE fr[u]
  BY DEF Sound, Typed
<1>4. \A u \in Threads : sp2[u] = IF u = t THEN s ELSE sp[u]
  BY DEF Sound, Typed
<1>5. UndosApart(fr2)
  BY <1>3 DEF Sound, UndosApart
<1>6. SpareBitsClaimed(words, fr2)
  BY <1>3 DEF Sound, SpareBitsClaimed
<1>7. ASSUME NEW u \in Threads
      PROVE  ThreadOK(fr2[u], words, sp2[u])
  BY <1>3, <1>4, <1>7 DEF Sound
<1> QED BY <1>1, <1>2, <1>5, <1>6, <1>7 DEF Sound

\* A scan begins, at any word.
LEMMA StartStep ==
  ASSUME NEW words, NEW fr, NEW ow, NEW sp, Sound(words, fr, ow, sp),
         NEW t \in Threads, fr[t].pc = "idle", NEW h \in Words
  PROVE  Sound(words, [fr EXCEPT ![t] = [Idle EXCEPT !.pc = "load", !.start = h]], ow,
               [sp EXCEPT ![t] = {w \in Words : Exhausted(words, w)}])
<1> DEFINE f == [Idle EXCEPT !.pc = "load", !.start = h]
           s == {w \in Words : Exhausted(words, w)}
<1>1. f \in Frame /\ f.pc = "load" /\ f.probe = 0 /\ ~ f.failed
  <2>1. 0 \in Words /\ 0 \in Bits
    BY WordCountFits DEF Words, Bits
  <2> QED BY <2>1 DEF Idle, Frame, PCs
<1>2. ThreadOK(f, words, s)
  <2> HIDE DEF f
  <2>1. \A k \in Words : ~ (k < f.probe)
    BY <1>1, WordCountFits DEF Words
  <2> QED BY <1>1, <2>1 DEF ThreadOK
<1>3. s \in SUBSET Words
  OBVIOUS
<1> HIDE DEF f, s
<1>4. Sound(words, [fr EXCEPT ![t] = f], ow, [sp EXCEPT ![t] = s])
  BY <1>1, <1>2, <1>3, LocalStep
<1> QED BY <1>4 DEF f, s

\* A thread becomes idle, without a failure, whatever its scan has seen.
LEMMA IdleStep ==
  ASSUME NEW words, NEW fr, NEW ow, NEW sp, Sound(words, fr, ow, sp),
         NEW t \in Threads, fr[t].pc # "undo", NEW s \in SUBSET Words
  PROVE  Sound(words, [fr EXCEPT ![t] = Idle], ow, [sp EXCEPT ![t] = s])
<1>1. ThreadOK(Idle, words, s)
  BY IdleType DEF ThreadOK
<1> QED BY <1>1, IdleType, LocalStep

\* A scan moves on from a full word only, and ends after the last one.
LEMMA ScanStep ==
  ASSUME NEW words, NEW fr, NEW ow, NEW sp, Sound(words, fr, ow, sp),
         NEW t \in Threads, fr[t].pc \in {"load", "cas"}
  PROVE  Sound(words, [fr EXCEPT ![t] = Resumed(fr[t], words[WordOf(fr[t])])], ow, sp)
<1> DEFINE w == WordOf(fr[t])
           f == Resumed(fr[t], words[w])
           s == sp[t]
<1>0. sp = [sp EXCEPT ![t] = s]
  BY DEF Sound, Typed
<1>1. fr[t] \in Frame /\ s \in SUBSET Words /\ words \in [Words -> SUBSET Bits]
      /\ ThreadOK(fr[t], words, s)
  BY DEF Sound, Typed
<1>2. w \in Words
  BY <1>1, WordAtType DEF WordOf, Frame
<1>3. ~ fr[t].failed
  BY <1>1 DEF ThreadOK
<1>4. CASE words[w] # FULL
  <2>1. f = [fr[t] EXCEPT !.pc = "cas", !.word = words[w]]
    BY <1>4 DEF Resumed
  <2>2. f \in Frame /\ f.pc = "cas" /\ f.word = words[w] /\ ~ f.failed
        /\ f.probe = fr[t].probe /\ f.start = fr[t].start
    BY <1>1, <1>2, <1>3, <2>1 DEF Frame, PCs
  <2> HIDE DEF f, w, s
  <2>3. ThreadOK(f, words, s)
    BY <1>1, <1>4, <2>2 DEF ThreadOK
  <2> QED BY <1>0, <1>1, <2>2, <2>3, LocalStep DEF f, w, s
<1>5. CASE words[w] = FULL
  <2>1. Exhausted(words, w)
    BY <1>5, BlockBit DEF Exhausted, FULL
  <2>2. w \in s
    BY <1>1, <1>2, <2>1 DEF ThreadOK
  <2>3. ASSUME NEW k \in Words, k <= fr[t].probe
        PROVE  (fr[t].start + k) % WordCount \in s
    <3>1. CASE k = fr[t].probe
      BY <2>2, <3>1 DEF WordOf
    <3>2. CASE k < fr[t].probe
      BY <1>1, <2>3, <3>2 DEF ThreadOK
    <3>3. k \in Int /\ fr[t].probe \in Int
      BY <1>1 DEF Frame, Words
    <3> QED BY <2>3, <3>1, <3>2, <3>3
  <2>4. CASE fr[t].probe + 1 < WordCount
    <3>1. f = [fr[t] EXCEPT !.pc = "load", !.probe = fr[t].probe + 1, !.word = {}]
      BY <1>5, <2>4 DEF Resumed
    <3>2. fr[t].probe + 1 \in Words
      BY <1>1, <2>4, WordCountFits DEF Frame, Words
    <3>3. f \in Frame /\ f.pc = "load" /\ ~ f.failed
          /\ f.probe = fr[t].probe + 1 /\ f.start = fr[t].start
      BY <1>1, <1>3, <3>1, <3>2 DEF Frame, PCs
    <3> HIDE DEF f, w, s
    <3>4. \A k \in Words : k < f.probe => (f.start + k) % WordCount \in s
      <4>1. \A k \in Words : k < f.probe => k <= fr[t].probe
        BY <1>1, <3>3, WordCountFits DEF Frame, Words
      <4> QED BY <2>3, <3>3, <4>1
    <3>5. \A v \in Words : Exhausted(words, v) => v \in s
      BY <1>1 DEF ThreadOK
    <3>6. ThreadOK(f, words, s)
      BY <3>3, <3>4, <3>5 DEF ThreadOK
    <3> QED BY <1>0, <1>1, <3>3, <3>6, LocalStep DEF f, w, s
  <2>5. CASE ~ (fr[t].probe + 1 < WordCount)
    <3>1. f = Failed
      BY <1>5, <2>5 DEF Resumed
    <3>2. \A k \in Words : k <= fr[t].probe
      BY <1>1, <2>5, WordCountFits DEF Frame, Words
    <3>3. ASSUME NEW v \in Words PROVE v \in s
      <4>1. PICK k \in Words : (fr[t].start + k) % WordCount = v
        BY <1>1, ScanCovers DEF Frame
      <4> QED BY <2>3, <3>2, <4>1
    <3>4. s = Words
      BY <1>1, <3>3
    <3> HIDE DEF f, w, s
    <3>5. ThreadOK(f, words, s)
      BY <3>1, <3>4, IdleType DEF ThreadOK
    <3> QED BY <1>0, <1>1, <3>1, <3>5, IdleType, LocalStep DEF f, w, s
  <2> QED BY <2>4, <2>5
<1> QED BY <1>4, <1>5

-----------------------------------------------------------------------------
(* Steps that set or clear a bit                                           *)

\* What the winner of a compare-and-swap has claimed: a bit that was clear
\* until then, of a block nobody holds or, if the bit stands for no block, of
\* a word without a free block.
LEMMA CasClaims ==
  ASSUME NEW words, NEW fr, NEW ow, NEW sp, Sound(words, fr, ow, sp),
         NEW t \in Threads, NEW w, NEW bit, NEW words2, NEW fr2, NEW ow2, NEW sp2,
         Claim(words, fr, ow, sp, t, w, bit, words2, fr2, ow2, sp2)
  PROVE  /\ w \in Words /\ bit \in Bits /\ bit \notin words[w]
         /\ words2 = [words EXCEPT ![w] = @ \cup {bit}]
         /\ \A b \in Blocks : b = GlobalIndex(w, bit) =>
              \A u \in Threads : b \notin ow[u]
         /\ Spare(w, bit) =>
              Ragged /\ w = WordCount - 1 /\ Exhausted(words2, w)
<1>1. fr[t] \in Frame /\ words \in [Words -> SUBSET Bits]
      /\ ThreadOK(fr[t], words, sp[t])
  BY DEF Sound, Typed
<1>2. w \in Words
  BY <1>1, WordAtType DEF Claim, WordOf, Frame
<1>3. fr[t].word = words[w] /\ fr[t].word # FULL
  BY <1>1 DEF Claim, ThreadOK
<1>4. bit = find_free_bit(words[w])
  BY <1>3 DEF Claim
<1>5. bit \in Bits /\ bit \notin words[w] /\ \A i \in Bits \ words[w] : bit <= i
  BY <1>1, <1>2, <1>3, <1>4, LowestClearBit
<1>6. words2 = [words EXCEPT ![w] = @ \cup {bit}]
  BY <1>1, <1>2, <1>3 DEF Claim
<1>7. ASSUME NEW b \in Blocks, b = GlobalIndex(w, bit), NEW u \in Threads
      PROVE  b \notin ow[u]
  <2>1. WordIndex(b) = w /\ BitIndex(b) = bit
    BY <1>2, <1>5, <1>7, BitBlock
  <2> QED BY <1>5, <2>1 DEF Sound, Matched
<1>8. ASSUME Spare(w, bit)
      PROVE  Ragged /\ w = WordCount - 1 /\ Exhausted(words2, w)
  <2>1. ASSUME NEW b \in Blocks, WordIndex(b) = w
        PROVE  BitIndex(b) \in words[w]
    <3>1. BitIndex(b) \in Bits /\ BitIndex(b) < bit
      BY <1>2, <1>5, <1>8, <2>1, BlockBit, SpareBit
    <3>2. BitIndex(b) \in Int /\ bit \in Int
      BY <1>5, <3>1 DEF Bits
    <3> QED BY <1>5, <3>1, <3>2
  <2>2. words2[w] = words[w] \cup {bit}
    BY <1>1, <1>2, <1>6
  <2> QED BY <1>2, <1>5, <1>8, <2>1, <2>2, SpareBit DEF Exhausted
<1> QED BY <1>2, <1>5, <1>6, <1>7, <1>8

\* A bit is claimed.
LEMMA ClaimStep ==
  ASSUME NEW words, NEW fr, NEW ow, NEW sp, Sound(words, fr, ow, sp),
         NEW t \in Threads, NEW w, NEW bit, NEW words2, NEW fr2, NEW ow2, NEW sp2,
         Claim(words, fr, ow, sp, t, w, bit, words2, fr2, ow2, sp2)
  PROVE  Sound(words2, fr2, ow2, sp2)
<1> DEFINE g == GlobalIndex(w, bit)
           f == ClaimFrame(w, bit)
<1>1. /\ w \in Words /\ bit \in Bits /\ bit \notin words[w]
      /\ words2 = [words EXCEPT ![w] = @ \cup {bit}]
      /\ \A b \in Blocks : b = g => \A u \in Threads : b \notin ow[u]
      /\ Spare(w, bit) => Ragged /\ w = WordCount - 1 /\ Exhausted(words2, w)
  BY CasClaims
<1>2. /\ WordIndex(g) = w /\ BitIndex(g) = bit
      /\ InRange(g) <=> g \in Blocks
      /\ Spare(w, bit) <=> ~ InRange(g)
  BY <1>1, BitBlock
<1>3. fr[t].pc = "cas"
  BY DEF Claim
<1>4. /\ fr2 = [fr EXCEPT ![t] = f]
      /\ ow2 = IF InRange(g) THEN [ow EXCEPT ![t] = @ \cup {g}] ELSE ow
      /\ sp2 = [u \in Threads |->
           IF fr[u].pc \in {"load", "cas"}
           THEN sp[u] \cup {v \in Words : Exhausted(words2, v)} ELSE sp[u]]
  BY DEF Claim
<1> HIDE DEF g
<1>5. f \in Frame /\ f.w = w /\ f.bit = bit /\ ~ f.failed
      /\ f.pc = IF InRange(g) THEN "alloc_hint" ELSE "undo"
  BY <1>1, IdleType DEF Idle, Frame, PCs, ClaimFrame, g
<1> HIDE DEF f
<1>6. Typed(words, fr, ow, sp)
  BY DEF Sound
<1>7. \A u \in Threads : fr2[u] = IF u = t THEN f ELSE fr[u]
  BY <1>4, <1>6 DEF Typed
<1>8. \A v \in Words : words2[v] = IF v = w THEN words[v] \cup {bit} ELSE words[v]
  BY <1>1, <1>6 DEF Typed
<1>9. Typed(words2, fr2, ow2, sp2)
  <2>1. words2 \in [Words -> SUBSET Bits]
    BY <1>1, <1>6 DEF Typed
  <2>2. ow2 \in [Threads -> SUBSET Blocks]
    BY <1>2, <1>4, <1>6 DEF Typed
  <2>3. sp2 \in [Threads -> SUBSET Words]
    BY <1>4, <1>6 DEF Typed
  <2>4. fr2 \in [Threads -> Frame]
    BY <1>4, <1>5, <1>6 DEF Typed
  <2> QED BY <2>1, <2>2, <2>3, <2>4 DEF Typed
<1>10. Matched(words2, ow2)
  <2>1. ASSUME NEW b \in Blocks
        PROVE  BitIndex(b) \in words2[WordIndex(b)] <=>
                 b = g \/ BitIndex(b) \in words[WordIndex(b)]
    <3>1. WordIndex(b) \in Words
          /\ (WordIndex(b) = w /\ BitIndex(b) = bit <=> b = g)
      BY <1>2, BlockBit DEF g
    <3> QED BY <1>8, <3>1
  <2>2. ASSUME NEW u \in Threads, NEW b \in Blocks
        PROVE  b \in ow2[u] <=> b \in ow[u] \/ (u = t /\ b = g)
    BY <1>2, <1>4, <1>6 DEF Typed
  <2>3. \A b \in Blocks : BitIndex(b) \in words[WordIndex(b)]
                            <=> \E u \in Threads : b \in ow[u]
    BY DEF Sound, Matched
  <2>4. \A b \in Blocks : BitIndex(b) \in words2[WordIndex(b)]
                            <=> \E u \in Threads : b \in ow2[u]
    BY <2>1, <2>2, <2>3
  <2>5. ASSUME NEW u \in Threads, NEW v \in Threads, u # v
        PROVE  ow2[u] \cap ow2[v] = {}
    <3>1. ow[u] \cap ow[v] = {}
      BY <2>5 DEF Sound, Matched
    <3>2. ow2[u] \subseteq Blocks
      BY <1>9 DEF Typed
    <3> QED BY <1>1, <2>2, <2>5, <3>1, <3>2
  <2> QED BY <2>4, <2>5 DEF Matched
<1>11. UndosApart(fr2)
  <2>1. ASSUME NEW u \in Threads \ {t}, fr[u].pc = "undo"
        PROVE  <<fr[u].w, fr[u].bit>> # <<w, bit>>
    BY <1>1, <2>1 DEF Sound, ThreadOK
  <2> QED BY <1>5, <1>7, <2>1 DEF Sound, UndosApart
<1>12. SpareBitsClaimed(words2, fr2)
  <2> SUFFICES ASSUME NEW v \in Words, NEW i \in Bits, Spare(v, i), i \in words2[v]
               PROVE  \E u \in Threads :
                        fr2[u].pc = "undo" /\ fr2[u].w = v /\ fr2[u].bit = i
    BY DEF SpareBitsClaimed
  <2>1. CASE v = w /\ i = bit
    BY <1>2, <1>5, <1>7, <2>1
  <2>2. CASE ~ (v = w /\ i = bit)
    <3>1. i \in words[v]
      BY <1>8, <2>2
    <3>2. PICK u \in Threads :
            fr[u].pc = "undo" /\ fr[u].w = v /\ fr[u].bit = i
      BY <3>1 DEF Sound, SpareBitsClaimed
    <3> QED BY <1>3, <1>7, <3>2
  <2> QED BY <2>1, <2>2
<1>13. ASSUME NEW u \in Threads
       PROVE  ThreadOK(fr2[u], words2, sp2[u])
  <2>1. CASE u = t
    <3>1. sp2[t] = sp[t] \cup {v \in Words : Exhausted(words2, v)}
      BY <1>3, <1>4
    <3>2. CASE InRange(g)
      BY <1>5, <1>7, <2>1, <3>2 DEF ThreadOK
    <3>3. CASE ~ InRange(g)
      <4>1. Spare(w, bit) /\ Ragged /\ w = WordCount - 1 /\ w \in sp2[t]
        BY <1>1, <1>2, <3>1, <3>3
      <4>2. bit \in words2[w]
        BY <1>1, <1>8
      <4> QED BY <1>5, <1>7, <2>1, <3>3, <4>1, <4>2 DEF ThreadOK
    <3> QED BY <3>2, <3>3
  <2>2. CASE u # t
    <3>1. fr2[u] = fr[u] /\ fr[u] \in Frame
          /\ ThreadOK(fr[u], words, sp[u])
      BY <1>6, <1>7, <2>2 DEF Sound, Typed
    <3>2. CASE fr[u].pc \in {"load", "cas"}
      <4>1. sp2[u] = sp[u] \cup {v \in Words : Exhausted(words2, v)}
        BY <1>4, <3>2
      <4> QED BY <3>1, <3>2, <4>1 DEF ThreadOK
    <3>3. CASE ~ fr[u].pc \in {"load", "cas"}
      <4>1. sp2[u] = sp[u]
        BY <1>4, <3>3
      <4>2. fr[u].w \in Words
        BY <3>1 DEF Frame
      <4> QED BY <1>8, <3>1, <3>3, <4>1, <4>2 DEF ThreadOK
    <3> QED BY <3>2, <3>3
  <2> QED BY <2>1, <2>2
<1> QED BY <1>9, <1>10, <1>11, <1>12, <1>13 DEF Sound

\* Clearing a bit disturbs no thread but the one about to clear it.
LEMMA ClearingKeeps ==
  ASSUME NEW words \in [Words -> SUBSET Bits], NEW w \in Words, NEW i \in Bits,
         NEW f \in Frame, NEW sp, ThreadOK(f, words, sp),
         f.pc = "undo" => ~ (f.w = w /\ f.bit = i)
  PROVE  ThreadOK(f, [words EXCEPT ![w] = @ \ {i}], sp)
<1> DEFINE words2 == [words EXCEPT ![w] = @ \ {i}]
<1>1. \A v \in Words : words2[v] = IF v = w THEN words[v] \ {i} ELSE words[v]
  OBVIOUS
<1>2. \A v \in Words : Exhausted(words2, v) => Exhausted(words, v)
  BY <1>1 DEF Exhausted
<1>3. f.w \in Words
  BY DEF Frame
<1> QED BY <1>1, <1>2, <1>3 DEF ThreadOK

\* A bit that stands for no block is cleared.
LEMMA GiveUpStep ==
  ASSUME NEW words, NEW fr, NEW ow, NEW sp, Sound(words, fr, ow, sp),
         NEW t \in Threads, NEW words2, NEW fr2, GiveUp(words, fr, t, words2, fr2)
  PROVE  Sound(words2, fr2, ow, sp)
<1> DEFINE w == fr[t].w
           i == fr[t].bit
<1>1. Typed(words, fr, ow, sp) /\ Typed(words2, fr2, ow, sp)
  BY IdleType DEF Sound, Typed, GiveUp
<1>2. w \in Words /\ i \in Bits /\ fr[t].pc = "undo"
  BY <1>1 DEF Typed, Frame, GiveUp
<1>3. ThreadOK(fr[t], words, sp[t])
  BY DEF Sound
<1>4. Spare(w, i) /\ Ragged /\ WordCount - 1 \in sp[t]
  BY <1>2, <1>3 DEF ThreadOK
<1>5. words2 = [words EXCEPT ![w] = @ \ {i}]
  BY DEF GiveUp
<1>6. \A u \in Threads : fr2[u] = IF u = t THEN Failed ELSE fr[u]
  BY <1>1 DEF GiveUp, Typed
<1> HIDE DEF w, i
<1>8. \A v \in Words : words2[v] = IF v = w THEN words[v] \ {i} ELSE words[v]
  BY <1>1, <1>2, <1>5 DEF Typed
<1>9. Matched(words2, ow)
  <2>1. ASSUME NEW b \in Blocks
        PROVE  BitIndex(b) \in words2[WordIndex(b)]
                 <=> BitIndex(b) \in words[WordIndex(b)]
    <3>1. WordIndex(b) \in Words /\ ~ (WordIndex(b) = w /\ BitIndex(b) = i)
      BY <1>4, BlockBit DEF Spare
    <3> QED BY <1>8, <3>1
  <2> QED BY <2>1 DEF Sound, Matched
<1>10. UndosApart(fr2)
  BY <1>6, IdleType DEF Sound, UndosApart
<1>11. SpareBitsClaimed(words2, fr2)
  <2> SUFFICES ASSUME NEW v \in Words, NEW j \in Bits, Spare(v, j), j \in words2[v]
               PROVE  \E u \in Threads :
                        fr2[u].pc = "undo" /\ fr2[u].w = v /\ fr2[u].bit = j
    BY DEF SpareBitsClaimed
  <2>1. j \in words[v] /\ ~ (v = w /\ j = i)
    BY <1>8
  <2>2. PICK u \in Threads :
          fr[u].pc = "undo" /\ fr[u].w = v /\ fr[u].bit = j
    BY <2>1 DEF Sound, SpareBitsClaimed
  <2> QED BY <1>6, <2>1, <2>2 DEF w, i
<1>12. ASSUME NEW u \in Threads
       PROVE  ThreadOK(fr2[u], words2, sp[u])
  <2>1. CASE u = t
    BY <1>4, <1>6, <2>1, IdleType DEF ThreadOK
  <2>2. CASE u # t
    <3>1. fr[u].pc = "undo" => ~ (fr[u].w = w /\ fr[u].bit = i)
      BY <1>2, <2>2 DEF Sound, UndosApart, w, i
    <3>2. fr2[u] = fr[u] /\ fr[u] \in Frame
          /\ ThreadOK(fr[u], words, sp[u]) /\ words \in [Words -> SUBSET Bits]
      BY <1>1, <1>6, <2>2 DEF Sound, Typed
    <3>3. ThreadOK(fr[u], [words EXCEPT ![w] = @ \ {i}], sp[u])
      BY <1>2, <3>1, <3>2, ClearingKeeps
    <3> QED BY <1>5, <3>2, <3>3
  <2> QED BY <2>1, <2>2
<1> QED BY <1>1, <1>9, <1>10, <1>11, <1>12 DEF Sound

\* A block is given back.
LEMMA ReturnStep ==
  ASSUME NEW words, NEW fr, NEW ow, NEW sp, Sound(words, fr, ow, sp),
         NEW t \in Threads, NEW b \in Blocks, NEW words2, NEW fr2, NEW ow2,
         Return(words, fr, ow, t, b, words2, fr2, ow2)
  PROVE  Sound(words2, fr2, ow2, sp)
<1> DEFINE w == WordIndex(b)
           i == BitIndex(b)
           f == ReturnFrame(b)
<1>1. w \in Words /\ i \in Bits /\ GlobalIndex(w, i) = b
  BY BlockBit
<1>2. /\ words2 = [words EXCEPT ![w] = @ \ {i}]
      /\ ow2 = [ow EXCEPT ![t] = @ \ {b}]
      /\ fr2 = [fr EXCEPT ![t] = f]
      /\ b \in ow[t] /\ fr[t].pc = "idle"
  BY DEF Return
<1> HIDE DEF w, i
<1>3. f \in Frame /\ f.pc = "dealloc_hint" /\ ~ f.failed
  BY <1>1, IdleType DEF Idle, Frame, PCs, ReturnFrame, w
<1> HIDE DEF f
<1>4. Typed(words, fr, ow, sp)
  BY DEF Sound
<1>5. Typed(words2, fr2, ow2, sp)
  BY <1>1, <1>2, <1>3, <1>4 DEF Typed
<1>6. \A u \in Threads : fr2[u] = IF u = t THEN f ELSE fr[u]
  BY <1>2, <1>4 DEF Typed
<1>7. \A v \in Words : words2[v] = IF v = w THEN words[v] \ {i} ELSE words[v]
  BY <1>1, <1>2, <1>4 DEF Typed
<1>8. \A u \in Threads : ow2[u] = IF u = t THEN ow[u] \ {b} ELSE ow[u]
  BY <1>2, <1>4 DEF Typed
<1>9. Matched(words2, ow2)
  <2>1. \A u \in Threads : u # t => b \notin ow[u]
    BY <1>2 DEF Sound, Matched
  <2>2. ASSUME NEW c \in Blocks
        PROVE  BitIndex(c) \in words2[WordIndex(c)] <=>
                 c # b /\ BitIndex(c) \in words[WordIndex(c)]
    <3>1. WordIndex(c) \in Words /\ (WordIndex(c) = w /\ BitIndex(c) = i <=> c = b)
      BY <1>1, BlockBit DEF w, i
    <3> QED BY <1>7, <3>1
  <2>3. \A u \in Threads, c \in Blocks : c \in ow2[u] <=> c # b /\ c \in ow[u]
    BY <1>8, <2>1
  <2>4. \A c \in Blocks : BitIndex(c) \in words[WordIndex(c)]
                            <=> \E u \in Threads : c \in ow[u]
    BY DEF Sound, Matched
  <2>5. \A c \in Blocks : BitIndex(c) \in words2[WordIndex(c)]
                            <=> \E u \in Threads : c \in ow2[u]
    BY <2>2, <2>3, <2>4
  <2>6. \A u, v \in Threads : u # v => ow2[u] \cap ow2[v] = {}
    BY <1>8 DEF Sound, Matched
  <2> QED BY <2>5, <2>6 DEF Matched
<1>10. UndosApart(fr2)
  BY <1>3, <1>6 DEF Sound, UndosApart
<1>11. SpareBitsClaimed(words2, fr2)
  <2> SUFFICES ASSUME NEW v \in Words, NEW j \in Bits, Spare(v, j), j \in words2[v]
               PROVE  \E u \in Threads :
                        fr2[u].pc = "undo" /\ fr2[u].w = v /\ fr2[u].bit = j
    BY DEF SpareBitsClaimed
  <2>1. j \in words[v]
    BY <1>7
  <2>2. PICK u \in Threads :
          fr[u].pc = "undo" /\ fr[u].w = v /\ fr[u].bit = j
    BY <2>1 DEF Sound, SpareBitsClaimed
  <2> QED BY <1>2, <1>6, <2>2
<1>12. ASSUME NEW u \in Threads
       PROVE  ThreadOK(fr2[u], words2, sp[u])
  <2>1. CASE u = t
    BY <1>3, <1>6, <2>1 DEF ThreadOK
  <2>2. CASE u # t
    <3>1. fr2[u] = fr[u] /\ fr[u] \in Frame
          /\ ThreadOK(fr[u], words, sp[u]) /\ words \in [Words -> SUBSET Bits]
      BY <1>4, <1>6, <2>2 DEF Sound, Typed
    <3>2. fr[u].pc = "undo" => ~ (fr[u].w = w /\ fr[u].bit = i)
      BY <1>1, <3>1 DEF ThreadOK, Spare
    <3>3. ThreadOK(fr[u], [words EXCEPT ![w] = @ \ {i}], sp[u])
      BY <1>1, <3>1, <3>2, ClearingKeeps
    <3> QED BY <1>2, <3>1, <3>3
  <2> QED BY <2>1, <2>2
<1> QED BY <1>5, <1>9, <1>10, <1>11, <1>12 DEF Sound

\* A block is passed on.
LEMMA PassOnStep ==
  ASSUME NEW words, NEW fr, NEW ow, NEW sp, Sound(words, fr, ow, sp),
         NEW t \in Threads, NEW u \in Threads, NEW b \in Blocks, NEW ow2,
         PassOn(ow, t, u, b, ow2)
  PROVE  Sound(words, fr, ow2, sp)
<1>1. Typed(words, fr, ow, sp) /\ Typed(words, fr, ow2, sp)
  BY DEF Sound, Typed, PassOn
<1>2. /\ \A v \in Threads, c \in Blocks :
           c \in ow2[v] <=> IF c = b THEN v = u ELSE c \in ow[v]
      /\ b \in ow[t] /\ t # u
  BY <1>1 DEF PassOn, Typed, Sound, Matched
<1>3. Matched(words, ow2)
  <2>1. \A c \in Blocks : (\E v \in Threads : c \in ow2[v])
                            <=> (\E v \in Threads : c \in ow[v])
    BY <1>2
  <2>2. \A c \in Blocks : BitIndex(c) \in words[WordIndex(c)]
                            <=> \E v \in Threads : c \in ow2[v]
    BY <2>1 DEF PassOn, Sound, Matched
  <2>3. ASSUME NEW v \in Threads, NEW x \in Threads, v # x
        PROVE  ow2[v] \cap ow2[x] = {}
    <3>1. ow2[v] \subseteq Blocks /\ ow[v] \cap ow[x] = {}
      BY <1>1, <2>3 DEF Typed, Sound, Matched
    <3> QED BY <1>2, <2>3, <3>1
  <2> QED BY <2>2, <2>3 DEF Matched
<1>4. UndosApart(fr) /\ SpareBitsClaimed(words, fr)
  BY DEF PassOn, Sound, UndosApart, SpareBitsClaimed
<1>5. \A v \in Threads : ThreadOK(fr[v], words, sp[v])
  BY DEF PassOn, Sound
<1> QED BY <1>1, <1>3, <1>4, <1>5 DEF Sound

-----------------------------------------------------------------------------
(* The theorems                                                            *)

\* The constructor establishes the invariant.
LEMMA InitIInv == Init => IInv
  BY SoundAtStart, WordCountFits DEF Init, IInv, Words

\* The scan of alloc, up to a failure.
LEMMA ScanKeeps ==
  ASSUME IInv, NEW t \in Threads, AllocStart(t) \/ AllocLoad(t) \/ AllocCasFail(t)
  PROVE  IInv'
<1>1. CASE AllocStart(t)
  BY <1>1, StartStep DEF IInv, AllocStart
<1>2. CASE AllocLoad(t) \/ AllocCasFail(t)
  <2>1. Looked(t, bitmap[WordAt(t)]) = Resumed(frame[t], bitmap[WordOf(frame[t])])
    BY DEF Looked, Resumed, WordAt, WordOf
  <2> QED BY <1>2, <2>1, ScanStep DEF IInv, AllocLoad, AllocCasFail
<1> QED BY <1>1, <1>2

\* The compare-and-swap is a claim.
LEMMA CasIsClaim ==
  ASSUME NEW t \in Threads, AllocCas(t)
  PROVE  Claim(bitmap, frame, owned, spent, t, WordAt(t), find_free_bit(frame[t].word),
               bitmap', frame', owned', spent')
  BY DEF AllocCas, Claim, ClaimFrame, WordAt, WordOf, Unchanged, Scanning

\* The steps that set or clear a bit.
LEMMA BitStepKeeps ==
  ASSUME IInv, NEW t \in Threads,
         AllocCas(t) \/ Undo(t) \/ \E b \in Blocks : Dealloc(t, b)
  PROVE  IInv'
<1>1. CASE AllocCas(t)
  BY <1>1, CasIsClaim, ClaimStep DEF IInv, AllocCas
<1>2. CASE Undo(t)
  BY <1>2, GiveUpStep DEF IInv, Undo, GiveUp
<1>3. ASSUME NEW b \in Blocks, Dealloc(t, b) PROVE IInv'
  BY <1>3, ReturnStep DEF IInv, Dealloc, Return, ReturnFrame
<1> QED BY <1>1, <1>2, <1>3

\* The stores to the hint.
LEMMA HintKeeps ==
  ASSUME IInv, NEW t \in Threads, AllocHint(t) \/ DeallocHint(t)
  PROVE  IInv'
<1>1. frame[t] \in Frame /\ spent[t] \in SUBSET Words
      /\ spent = [spent EXCEPT ![t] = spent[t]]
  BY DEF IInv, Sound, Typed
<1>2. hint' \in Words /\ frame[t].pc # "undo"
  BY <1>1 DEF AllocHint, DeallocHint, Frame
<1> QED BY <1>1, <1>2, IdleStep DEF IInv, AllocHint, DeallocHint

\* Blocks may be passed on at any time.
LEMMA HandoffKeeps ==
  ASSUME IInv, NEW t \in Threads, NEW u \in Threads, NEW b \in Blocks,
         Handoff(t, u, b)
  PROVE  IInv'
  BY PassOnStep DEF IInv, Handoff, PassOn

\* One step of the allocator or of a client.
LEMMA NextKeeps == IInv /\ [Next]_vars => IInv'
<1> SUFFICES ASSUME IInv, [Next]_vars PROVE IInv'
  OBVIOUS
<1>1. ASSUME NEW t \in Threads, Call(t) PROVE IInv'
  BY <1>1, ScanKeeps, BitStepKeeps, HandoffKeeps DEF Call
<1>2. ASSUME NEW t \in Threads, Step(t) PROVE IInv'
  BY <1>2, ScanKeeps, BitStepKeeps, HintKeeps DEF Step
<1>3. CASE UNCHANGED vars
  BY <1>3 DEF vars, IInv
<1> QED BY <1>1, <1>2, <1>3 DEF Next

\* The inductive invariant holds in every behaviour.
THEOREM Invariance == Spec => []IInv
BY InitIInv, NextKeeps, PTL DEF Spec

\* What the invariant says of a bitmap and its threads.
LEMMA SoundGives ==
  ASSUME NEW words, NEW fr, NEW ow, NEW sp, Sound(words, fr, ow, sp)
  PROVE  /\ Matched(words, ow)
         /\ \A w \in Words, i \in Bits : Spare(w, i) /\ i \in words[w] =>
              \E t \in Threads :
                /\ fr[t].pc = "undo" /\ fr[t].w = w /\ fr[t].bit = i
                /\ \A u \in Threads \ {t} :
                     fr[u].pc = "undo" => <<fr[u].w, fr[u].bit>> # <<w, i>>
         /\ \A t \in Threads : fr[t].failed =>
              sp[t] = Words \/ (Ragged /\ WordCount - 1 \in sp[t])
<1>1. ASSUME NEW w \in Words, NEW i \in Bits, Spare(w, i), i \in words[w]
      PROVE  \E t \in Threads :
               /\ fr[t].pc = "undo" /\ fr[t].w = w /\ fr[t].bit = i
               /\ \A u \in Threads \ {t} :
                    fr[u].pc = "undo" => <<fr[u].w, fr[u].bit>> # <<w, i>>
  BY <1>1 DEF Sound, UndosApart, SpareBitsClaimed
<1>2. \A t \in Threads : fr[t].failed =>
        sp[t] = Words \/ (Ragged /\ WordCount - 1 \in sp[t])
  BY DEF Sound, ThreadOK
<1> QED BY <1>1, <1>2 DEF Sound

\* The invariant implies the properties.
LEMMA Consequences ==
  ASSUME IInv
  PROVE  TypeOK /\ BitsMatchOwners /\ SpareBitsReturned /\ FailureJustified
<1>1. TypeOK
  BY DEF IInv, Sound, Typed, TypeOK
<1>2. BitsMatchOwners /\ SpareBitsReturned /\ FailureJustified
  BY SoundGives DEF IInv, Matched, BitsMatchOwners, SpareBitsReturned, FailureJustified
<1> QED BY <1>1, <1>2

\* Every variable keeps its type: no index leaves the bitmap.
THEOREM TypeCorrect == Spec => []TypeOK
BY Invariance, Consequences, PTL

\* A block's bit is set exactly while one thread holds the block, however the
\* calls of alloc and dealloc interleave.
THEOREM NoSharedBlock == Spec => []BitsMatchOwners
BY Invariance, Consequences, PTL

\* A bit beyond the last block is set only while the one call of alloc that
\* claimed it is about to give it back.
THEOREM SpareBits == Spec => []SpareBitsReturned
BY Invariance, Consequences, PTL

\* alloc returns nullptr only if each word, or the partial last word, had no
\* free block at some moment of the call.
THEOREM FailuresJustified == Spec => []FailureJustified
BY Invariance, Consequences, PTL

\* alloc takes effect at its successful compare-and-swap, dealloc when it
\* clears the bit; every other step is invisible to the clients.
LEMMA StepSimulates ==
  ASSUME IInv, [Next]_vars
  PROVE  [Pool!Next]_owned
<1>1. ASSUME NEW t \in Threads, AllocCas(t)
      PROVE  [Pool!Next]_owned
  <2> DEFINE g == GlobalIndex(WordAt(t), find_free_bit(frame[t].word))
  <2>1. owned' = IF InRange(g) THEN [owned EXCEPT ![t] = @ \cup {g}] ELSE owned
    BY <1>1 DEF AllocCas
  <2>2. InRange(g) => g \in Blocks /\ \A u \in Threads : g \notin owned[u]
    BY <1>1, CasIsClaim, CasClaims, BitBlock DEF IInv
  <2> HIDE DEF g
  <2> QED BY <2>1, <2>2 DEF Pool!Next, Pool!Alloc, Pool!Free
<1>2. ASSUME NEW t \in Threads, Call(t)
      PROVE  [Pool!Next]_owned
  BY <1>2 DEF Call, AllocStart, Dealloc, Handoff, Pool!Next, Pool!Dealloc, Pool!Handoff
<1>3. ASSUME NEW t \in Threads, Step(t)
      PROVE  [Pool!Next]_owned
  BY <1>1, <1>3 DEF Step, AllocLoad, AllocCasFail, Undo, AllocHint, DeallocHint
<1> QED BY <1>2, <1>3 DEF Next, vars

\* The bitmap implements the contract of an allocator: a block that is handed
\* out was held by nobody and stays with its holder.
THEOREM Refinement == Spec => ImplementsBlockPool
<1>1. Init => Pool!Init
  BY DEF Init, Pool!Init, Pool!Exclusive
<1>2. IInv /\ [Next]_vars => [Pool!Next]_owned
  BY StepSimulates
<1> QED BY <1>1, <1>2, Invariance, PTL DEF Spec, ImplementsBlockPool, Pool!Spec
=============================================================================
