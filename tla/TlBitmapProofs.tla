--------------------------- MODULE TlBitmapProofs ---------------------------
(***************************************************************************)
(* Theorems about ThreadLocalBitmapAllocator, for any number of threads,   *)
(* allocators and regions.  A region is a bitmap with the threads that are *)
(* in a call on it: what a step does to a bitmap is proved in BitmapProofs,*)
(* and used here, through WP, for the region of the call; no step disturbs *)
(* another region.                                                         *)
(***************************************************************************)
EXTENDS TlBitmap, FiniteSetTheorems, TLAPS

WP == INSTANCE BitmapProofs WITH BlockCount <- BlocksPerThread

USE RegionsAssumption

\* The frame of a thread that has read past the end of m_regions.
Undefined == [W!Idle EXCEPT !.pc = "undefined"]

\* The frames of the threads, the blocks they hold and what their scans have
\* seen, as far as region r is concerned.
FramesIn(r) ==
  [t \in Threads |-> IF region[t] = r /\ frame[t] # Undefined THEN frame[t] ELSE W!Idle]
BlocksIn(r) == [t \in Threads |-> IndexesIn(r, owned[t])]
SpentIn(r)  == [t \in Threads |-> IF region[t] = r THEN spent[t] ELSE {}]

\* Region r is a sound bitmap.
RegionOK(r) == WP!Sound(bitmap[r], FramesIn(r), BlocksIn(r), SpentIn(r))

\* A thread inside a call has a region.
Placed(t) ==
  frame[t] # Undefined /\ frame[t].pc # "idle" => region[t] \in Regions

\* The inductive invariant.
IInv ==
  /\ TypeOK
  /\ frame \in [Threads -> W!Frame \cup {Undefined}]
  /\ \A t \in Threads : Placed(t)
  /\ \A r \in Regions : RegionOK(r)

-----------------------------------------------------------------------------
(* Regions and pointers                                                    *)

\* BitmapProofs and the model speak of the same words and frames.
LEMMA Same ==
  /\ WP!Words = W!Words /\ WP!Bits = W!Bits /\ WP!Blocks = W!Blocks
  /\ WP!WordCount = W!WordCount /\ WP!Frame = W!Frame
  /\ WP!Idle = W!Idle /\ WP!Failed = W!Failed
<1>1. WP!WordCount = W!WordCount
  BY DEF WP!WordCount, W!WordCount
<1>2. WP!Words = W!Words /\ WP!Bits = W!Bits /\ WP!Blocks = W!Blocks
  BY <1>1 DEF WP!Words, W!Words, WP!Bits, W!Bits, WP!Blocks, W!Blocks
<1>3. WP!Idle = W!Idle
  BY DEF WP!Idle, W!Idle
<1>4. WP!Failed = W!Failed
  BY <1>3 DEF WP!Failed, W!Failed
<1>5. WP!Frame = W!Frame
  BY <1>2 DEF WP!Frame, W!Frame, WP!PCs, W!PCs
<1> QED BY <1>1, <1>2, <1>3, <1>4, <1>5

\* The frame of an idle thread, and the one outside every region.
LEMMA IdleFrames ==
  /\ W!Idle \in W!Frame /\ W!Failed \in W!Frame
  /\ W!Idle.pc = "idle" /\ ~ W!Idle.failed
  /\ Undefined \notin W!Frame /\ Undefined.pc = "undefined" /\ ~ Undefined.failed
<1>1. W!Idle \in W!Frame /\ W!Failed \in W!Frame /\ W!Idle.pc = "idle" /\ ~ W!Idle.failed
  BY Same, WP!IdleType
<1>2. Undefined.pc = "undefined" /\ ~ Undefined.failed
  BY DEF Undefined, W!Idle
<1>3. Undefined \notin W!Frame
  BY <1>2 DEF W!Frame, W!PCs
<1> QED BY <1>1, <1>2, <1>3

\* Different blocks have different addresses, in one region or in two.
LEMMA OnePlace ==
  ASSUME NEW q \in Regions, NEW r \in Regions, NEW i \in W!Blocks, NEW j \in W!Blocks,
         index_to_ptr(q, i) = index_to_ptr(r, j)
  PROVE  q = r /\ i = j
<1>1. /\ Memory[q] \in Nat /\ Memory[r] \in Nat
      /\ i \in 0..BlocksPerThread - 1 /\ j \in 0..BlocksPerThread - 1
      /\ Memory[q] + i = Memory[r] + j
  BY DEF W!Blocks, index_to_ptr
<1>2. q = r
  <2> SUFFICES ASSUME q # r PROVE FALSE
    OBVIOUS
  <2>1. \/ Memory[q] + BlocksPerThread <= Memory[r]
        \/ Memory[r] + BlocksPerThread <= Memory[q]
    OBVIOUS
  <2> QED BY <1>1, <2>1
<1> QED BY <1>1, <1>2

\* A block of a region has a pointer.
LEMMA PointerOf ==
  ASSUME NEW r \in Regions, NEW i \in W!Blocks
  PROVE  index_to_ptr(r, i) \in Pointers
<1>1. index_to_ptr(r, i) \in Memory[r]..Memory[r] + BlocksPerThread - 1
  <2>1. Memory[r] \in Nat /\ i \in 0..BlocksPerThread - 1
    BY DEF W!Blocks
  <2> QED BY <2>1 DEF index_to_ptr
<1> QED BY <1>1 DEF Pointers

\* dealloc finds the region and the block of a pointer.
LEMMA FindFinds ==
  ASSUME NEW a \in Allocators, NEW p \in Pointers, Find(a, p) # Nil
  PROVE  /\ Find(a, p) \in Regions
         /\ ptr_to_index(Find(a, p), p) \in W!Blocks
         /\ index_to_ptr(Find(a, p), ptr_to_index(Find(a, p), p)) = p
<1> DEFINE in == {i \in 0..MaxThreads[a] - 1 : Inside(<<a, i>>, p)}
<1>1. in # {} /\ Find(a, p) = <<a, Min(in)>>
  BY DEF Find
<1>2. p \in Nat
  <2>1. PICK r \in Regions : p \in Memory[r]..Memory[r] + BlocksPerThread - 1
    BY DEF Pointers
  <2> QED BY <2>1
<1>3. \A i \in in : <<a, i>> \in Regions
  BY DEF Regions
<1>4. ASSUME NEW i \in in PROVE in = {i}
  <2>1. ASSUME NEW j \in in, j # i PROVE FALSE
    <3>1. <<a, i>> # <<a, j>> /\ <<a, i>> \in Regions /\ <<a, j>> \in Regions
      BY <1>3, <2>1
    <3>2. /\ Memory[<<a, i>>] \in Nat /\ Memory[<<a, j>>] \in Nat
          /\ \/ Memory[<<a, i>>] + BlocksPerThread <= Memory[<<a, j>>]
             \/ Memory[<<a, j>>] + BlocksPerThread <= Memory[<<a, i>>]
      BY <3>1
    <3>3. Inside(<<a, i>>, p) /\ Inside(<<a, j>>, p)
      OBVIOUS
    <3> QED BY <1>2, <3>2, <3>3 DEF Inside
  <2> QED BY <2>1
<1>5. PICK i \in in : in = {i}
  BY <1>1, <1>4
<1>6. i \in Nat /\ Inside(<<a, i>>, p) /\ <<a, i>> \in Regions
  BY <1>3
<1> HIDE DEF in
<1>7. Min(in) = i
  BY <1>5, <1>6 DEF Min
<1>8. Find(a, p) = <<a, i>>
  BY <1>1, <1>7
<1>9. Memory[<<a, i>>] \in Nat
  BY <1>6
<1> QED BY <1>2, <1>6, <1>8, <1>9 DEF Inside, ptr_to_index, index_to_ptr, W!Blocks

-----------------------------------------------------------------------------
(* One step, seen from one region                                          *)

\* Thread t goes on with frame f in region q; its scan has seen the words s.
Goes(t, f, q) == frame' = [frame EXCEPT ![t] = f] /\ region' = [region EXCEPT ![t] = q]
Sees(t, s, q) == spent' = [spent EXCEPT ![t] = s] /\ region' = [region EXCEPT ![t] = q]

\* The frames of a region when thread t goes on with frame f in region q: t
\* is idle as far as the other regions are concerned.
LEMMA FramesMove ==
  ASSUME IInv, NEW t \in Threads, NEW f \in W!Frame, NEW q \in Regions \cup {Nil},
         Goes(t, f, q),
         NEW r \in Regions
  PROVE  /\ q = r => FramesIn(r)' = [FramesIn(r) EXCEPT ![t] = f]
         /\ q # r => FramesIn(r)' = [FramesIn(r) EXCEPT ![t] = W!Idle]
<1>1. \A u \in Threads : /\ frame'[u] = IF u = t THEN f ELSE frame[u]
                         /\ region'[u] = IF u = t THEN q ELSE region[u]
  BY DEF IInv, TypeOK, Goes
<1>2. f # Undefined
  BY IdleFrames
<1> DEFINE x == IF q = r THEN f ELSE W!Idle
           g == [FramesIn(r) EXCEPT ![t] = x]
<1>3. g = [u \in Threads |-> IF u = t THEN x ELSE FramesIn(r)[u]]
  BY DEF FramesIn
<1>4. \A u \in Threads : FramesIn(r)'[u] = IF u = t THEN x ELSE FramesIn(r)[u]
  BY <1>1, <1>2 DEF FramesIn
<1>5. FramesIn(r)' = [u \in Threads |-> FramesIn(r)'[u]]
  BY DEF FramesIn
<1> HIDE DEF x, g
<1>6. FramesIn(r)' = g
  BY <1>3, <1>4, <1>5
<1> QED BY <1>6 DEF g, x

\* The same for what the scans have seen.
LEMMA SpentMove ==
  ASSUME IInv, NEW t \in Threads, NEW s, NEW q \in Regions \cup {Nil},
         Sees(t, s, q),
         NEW r \in Regions
  PROVE  /\ q = r => SpentIn(r)' = [SpentIn(r) EXCEPT ![t] = s]
         /\ q # r => SpentIn(r)' = [SpentIn(r) EXCEPT ![t] = {}]
<1>1. \A u \in Threads : /\ spent'[u] = IF u = t THEN s ELSE spent[u]
                         /\ region'[u] = IF u = t THEN q ELSE region[u]
  BY DEF IInv, TypeOK, Sees
<1> DEFINE x == IF q = r THEN s ELSE {}
           g == [SpentIn(r) EXCEPT ![t] = x]
<1>2. g = [u \in Threads |-> IF u = t THEN x ELSE SpentIn(r)[u]]
  BY DEF SpentIn
<1>3. \A u \in Threads : SpentIn(r)'[u] = IF u = t THEN x ELSE SpentIn(r)[u]
  BY <1>1 DEF SpentIn
<1>4. SpentIn(r)' = [u \in Threads |-> SpentIn(r)'[u]]
  BY DEF SpentIn
<1> HIDE DEF x, g
<1>5. SpentIn(r)' = g
  BY <1>2, <1>3, <1>4
<1> QED BY <1>5 DEF g, x

\* A thread that stays where it is.
LEMMA Stays ==
  ASSUME IInv, NEW t \in Threads
  PROVE  /\ region = [region EXCEPT ![t] = region[t]]
         /\ spent = [spent EXCEPT ![t] = spent[t]]
         /\ region[t] \in Regions \cup {Nil} /\ spent[t] \in SUBSET W!Words
  BY DEF IInv, TypeOK

\* The frame of a thread inside a call, in the region of the call.
LEMMA InCall ==
  ASSUME IInv, NEW t \in Threads, frame[t].pc \notin {"idle", "undefined"}
  PROVE  /\ region[t] \in Regions /\ frame[t] \in W!Frame
         /\ FramesIn(region[t])[t] = frame[t]
         /\ RegionOK(region[t])
<1>1. frame[t] # Undefined
  BY IdleFrames
<1>2. frame[t] \in W!Frame /\ region[t] \in Regions
  BY <1>1 DEF IInv, Placed
<1> QED BY <1>1, <1>2 DEF IInv, FramesIn

\* An idle thread is idle in every region.
LEMMA IdleEverywhere ==
  ASSUME IInv, NEW t \in Threads, frame[t].pc = "idle", NEW r \in Regions
  PROVE  /\ frame[t] \in W!Frame
         /\ FramesIn(r)[t].pc = "idle"
<1>1. frame[t] # Undefined
  BY IdleFrames
<1> QED BY <1>1, IdleFrames DEF IInv, FramesIn

\* A step leaves the regions alone where it does not go.
LEMMA OtherRegion ==
  ASSUME IInv, NEW t \in Threads, NEW f \in W!Frame, NEW q \in Regions \cup {Nil},
         Goes(t, f, q),
         frame[t].pc = "idle" \/ region[t] = q,
         NEW r \in Regions, r # q,
         bitmap'[r] = bitmap[r], BlocksIn(r)' = BlocksIn(r),
         SpentIn(r)' = [SpentIn(r) EXCEPT ![t] = {}]
  PROVE  RegionOK(r)'
<1>1. FramesIn(r)' = [FramesIn(r) EXCEPT ![t] = WP!Idle]
  <2>1. FramesIn(r)' = [FramesIn(r) EXCEPT ![t] = W!Idle]
    BY FramesMove
  <2> QED BY <2>1, Same
<1>2. FramesIn(r)[t].pc # "undo"
  <2>1. CASE frame[t].pc = "idle"
    BY <2>1, IdleEverywhere
  <2>2. CASE region[t] = q
    BY <2>2, IdleFrames DEF FramesIn
  <2> QED BY <2>1, <2>2
<1>3. WP!Sound(bitmap[r], FramesIn(r), BlocksIn(r), SpentIn(r))
  BY DEF IInv, RegionOK
<1>4. {} \in SUBSET WP!Words
  OBVIOUS
<1>5. WP!Sound(bitmap[r], [FramesIn(r) EXCEPT ![t] = WP!Idle], BlocksIn(r),
               [SpentIn(r) EXCEPT ![t] = {}])
  BY <1>2, <1>3, <1>4, WP!IdleStep
<1> QED BY <1>1, <1>5 DEF RegionOK

\* The frames of a sound region have their type.
LEMMA SoundFrame ==
  ASSUME NEW words, NEW fr, NEW ow, NEW sp, NEW t \in Threads, NEW f,
         fr \in [Threads -> W!Frame],
         WP!Sound(words, [fr EXCEPT ![t] = f], ow, sp)
  PROVE  f \in W!Frame
<1>1. [fr EXCEPT ![t] = f] \in [Threads -> W!Frame]
  BY Same DEF WP!Sound, WP!Typed
<1> QED BY <1>1

\* What the invariant says of the types in a region.
LEMMA RegionTypes ==
  ASSUME IInv, NEW r \in Regions
  PROVE  /\ RegionOK(r)
         /\ bitmap[r] \in [W!Words -> SUBSET W!Bits]
         /\ FramesIn(r) \in [Threads -> W!Frame]
         /\ SpentIn(r) \in [Threads -> SUBSET W!Words]
         /\ BlocksIn(r) \in [Threads -> SUBSET W!Blocks]
<1>1. RegionOK(r)
  BY DEF IInv
<1> QED BY <1>1, Same DEF RegionOK, WP!Sound, WP!Typed

\* A step that keeps every region sound and the types keeps the invariant.
LEMMA Assemble ==
  ASSUME IInv, TypeOK', NEW t \in Threads, NEW f \in W!Frame,
         NEW q \in Regions \cup {Nil}, Goes(t, f, q), f.pc # "idle" => q \in Regions,
         \A r \in Regions : RegionOK(r)'
  PROVE  IInv'
<1>1. frame \in [Threads -> W!Frame \cup {Undefined}] /\ region \in [Threads -> Regions \cup {Nil}]
  BY DEF IInv, TypeOK
<1>2. \A u \in Threads : /\ frame'[u] = IF u = t THEN f ELSE frame[u]
                         /\ region'[u] = IF u = t THEN q ELSE region[u]
  BY <1>1 DEF Goes
<1>3. frame' \in [Threads -> W!Frame \cup {Undefined}]
  BY <1>1 DEF Goes
<1>4. \A u \in Threads : Placed(u)'
  BY <1>2 DEF IInv, Placed
<1> QED BY <1>3, <1>4 DEF IInv

\* A step inside region q of thread t, which leaves the other regions alone.
LEMMA StepInRegion ==
  ASSUME IInv, TypeOK', NEW t \in Threads, NEW f \in W!Frame,
         NEW q \in Regions, Goes(t, f, q), frame[t].pc = "idle" \/ region[t] = q,
         WP!Sound(bitmap'[q], [FramesIn(q) EXCEPT ![t] = f], BlocksIn(q)', SpentIn(q)'),
         \A r \in Regions \ {q} :
           /\ bitmap'[r] = bitmap[r] /\ BlocksIn(r)' = BlocksIn(r)
           /\ SpentIn(r)' = [SpentIn(r) EXCEPT ![t] = {}]
  PROVE  IInv'
<1>1. FramesIn(q)' = [FramesIn(q) EXCEPT ![t] = f]
  BY FramesMove
<1>2. RegionOK(q)'
  BY <1>1 DEF RegionOK
<1>3. ASSUME NEW r \in Regions, r # q PROVE RegionOK(r)'
  <2>1. /\ bitmap'[r] = bitmap[r] /\ BlocksIn(r)' = BlocksIn(r)
        /\ SpentIn(r)' = [SpentIn(r) EXCEPT ![t] = {}]
    BY <1>3
  <2> QED BY <1>3, <2>1, OtherRegion
<1> QED BY <1>2, <1>3, Assemble

\* A region keeps its blocks when nobody's blocks change.
LEMMA BlocksStay ==
  ASSUME UNCHANGED owned, NEW r \in Regions
  PROVE  BlocksIn(r)' = BlocksIn(r)
  BY DEF BlocksIn, IndexesIn, index_to_ptr, W!Blocks

-----------------------------------------------------------------------------
(* The steps of alloc                                                      *)

\* A call of alloc begins in a region of the allocator.
LEMMA StartKeeps ==
  ASSUME IInv, NEW t \in Threads, NEW a \in Allocators, AllocStart(t, a),
         <<a, IndexOf(t, a)>> \in Regions, TypeOK'
  PROVE  IInv'
<1>1. PICK q \in Regions : q = <<a, IndexOf(t, a)>>
  OBVIOUS
<1>2. PICK h \in HintRead(t, q) :
        /\ frame' = [frame EXCEPT ![t] = [W!Idle EXCEPT !.pc = "load", !.start = h]]
        /\ region' = [region EXCEPT ![t] = q]
        /\ spent' = [spent EXCEPT ![t] = {w \in W!Words : W!Exhausted(bitmap[q], w)}]
  BY <1>1 DEF AllocStart
<1>3. h \in W!Words
  BY DEF IInv, TypeOK, HintRead
<1>4. UNCHANGED <<bitmap, owned>> /\ frame[t].pc = "idle"
  BY DEF AllocStart
<1>5. PICK f : f = [WP!Idle EXCEPT !.pc = "load", !.start = h]
  OBVIOUS
<1>6. PICK s : s = {w \in WP!Words : WP!Exhausted(bitmap[q], w)}
  OBVIOUS
<1>7. s = {w \in W!Words : W!Exhausted(bitmap[q], w)}
  BY <1>6, Same
     DEF W!Exhausted, WP!Exhausted, W!WordIndex, WP!WordIndex, W!BitIndex, WP!BitIndex
<1>8. Goes(t, f, q) /\ Sees(t, s, q)
  BY <1>2, <1>5, <1>7, Same DEF Goes, Sees
<1>9. WP!Sound(bitmap[q], FramesIn(q), BlocksIn(q), SpentIn(q))
      /\ FramesIn(q)[t].pc = "idle" /\ FramesIn(q) \in [Threads -> W!Frame]
  BY <1>4, IdleEverywhere, RegionTypes DEF RegionOK
<1>10. WP!Sound(bitmap[q], [FramesIn(q) EXCEPT ![t] = f], BlocksIn(q),
                [SpentIn(q) EXCEPT ![t] = s])
  <2>1. h \in WP!Words
    BY <1>3, Same
  <2> QED BY <1>5, <1>6, <1>9, <2>1, WP!StartStep
<1>11. f \in W!Frame
  BY <1>9, <1>10, SoundFrame
<1>12. SpentIn(q)' = [SpentIn(q) EXCEPT ![t] = s]
  BY <1>8, SpentMove
<1>13. \A r \in Regions : bitmap'[r] = bitmap[r] /\ BlocksIn(r)' = BlocksIn(r)
  BY <1>4, BlocksStay
<1>14. \A r \in Regions \ {q} : SpentIn(r)' = [SpentIn(r) EXCEPT ![t] = {}]
  BY <1>8, SpentMove
<1>15. WP!Sound(bitmap'[q], [FramesIn(q) EXCEPT ![t] = f], BlocksIn(q)', SpentIn(q)')
  BY <1>10, <1>12, <1>13
<1> QED BY <1>4, <1>8, <1>11, <1>13, <1>14, <1>15, StepInRegion

\* An index that is no region of the allocator: the thread is lost, the
\* regions are not.
LEMMA LostKeeps ==
  ASSUME IInv, NEW t \in Threads, NEW a \in Allocators, AllocStart(t, a),
         <<a, IndexOf(t, a)>> \notin Regions, TypeOK'
  PROVE  IInv'
<1>1. /\ frame' = [frame EXCEPT ![t] = Undefined]
      /\ UNCHANGED <<bitmap, owned, region, spent>> /\ frame[t].pc = "idle"
  BY DEF AllocStart, Undefined
<1>2. frame \in [Threads -> W!Frame \cup {Undefined}]
  BY DEF IInv
<1>3. \A u \in Threads : frame'[u] = IF u = t THEN Undefined ELSE frame[u]
  BY <1>1, <1>2
<1>4. frame' \in [Threads -> W!Frame \cup {Undefined}] /\ \A u \in Threads : Placed(u)'
  BY <1>1, <1>2, <1>3 DEF IInv, Placed
<1>5. ASSUME NEW r \in Regions PROVE RegionOK(r)'
  <2>1. FramesIn(r)' = [u \in Threads |-> IF u = t THEN W!Idle ELSE FramesIn(r)[u]]
    BY <1>1, <1>3 DEF FramesIn
  <2>2. [FramesIn(r) EXCEPT ![t] = WP!Idle]
          = [u \in Threads |-> IF u = t THEN W!Idle ELSE FramesIn(r)[u]]
    BY Same DEF FramesIn
  <2>3. BlocksIn(r)' = BlocksIn(r) /\ bitmap'[r] = bitmap[r] /\ SpentIn(r)' = SpentIn(r)
    BY <1>1, BlocksStay DEF SpentIn
  <2>4. WP!Sound(bitmap[r], FramesIn(r), BlocksIn(r), SpentIn(r))
        /\ FramesIn(r)[t].pc # "undo"
    BY <1>1, RegionTypes, IdleEverywhere DEF RegionOK
  <2>5. PICK x \in SUBSET WP!Words : SpentIn(r) = [SpentIn(r) EXCEPT ![t] = x]
    <3>1. SpentIn(r)[t] \in SUBSET WP!Words
      BY RegionTypes, Same
    <3>2. SpentIn(r) = [SpentIn(r) EXCEPT ![t] = SpentIn(r)[t]]
      BY DEF SpentIn
    <3> QED BY <3>1, <3>2
  <2>6. WP!Sound(bitmap[r], [FramesIn(r) EXCEPT ![t] = WP!Idle], BlocksIn(r),
                 [SpentIn(r) EXCEPT ![t] = x])
    BY <2>4, WP!IdleStep
  <2> QED BY <2>1, <2>2, <2>3, <2>5, <2>6 DEF RegionOK
<1> QED BY <1>4, <1>5 DEF IInv

\* The word a thread looks at and how it goes on, in BitmapProofs' terms.
LEMMA SameScan ==
  /\ \A t \in Threads : W!WordAt(t) = WP!WordOf(frame[t])
  /\ \A t \in Threads : frame[t] \in W!Frame =>
       \A word : W!Looked(t, word) = WP!Resumed(frame[t], word)
<1>1. \A t \in Threads : W!WordAt(t) = WP!WordOf(frame[t])
  BY Same DEF W!WordAt, WP!WordOf
<1>2. ASSUME NEW t \in Threads, frame[t] \in W!Frame, NEW word
      PROVE  W!Looked(t, word) = WP!Resumed(frame[t], word)
  BY <1>2, Same DEF W!Looked, WP!Resumed, W!FULL, WP!FULL
<1> QED BY <1>1, <1>2

\* What the scans have seen when nobody moves.
LEMMA SpentStay ==
  ASSUME NEW t \in Threads, NEW q \in Regions, region[t] = q, UNCHANGED <<region, spent>>
  PROVE  /\ SpentIn(q)' = SpentIn(q)
         /\ \A r \in Regions \ {q} : SpentIn(r)' = [SpentIn(r) EXCEPT ![t] = {}]
<1>1. \A r \in Regions : SpentIn(r)' = SpentIn(r)
  BY DEF SpentIn
<1>2. ASSUME NEW r \in Regions \ {q} PROVE SpentIn(r) = [SpentIn(r) EXCEPT ![t] = {}]
  BY <1>2 DEF SpentIn
<1> QED BY <1>1, <1>2

\* A look at a word.
LEMMA LookKeeps ==
  ASSUME IInv, NEW t \in Threads, AllocLook(t), TypeOK'
  PROVE  IInv'
<1>1. frame[t].pc \in {"load", "cas"} /\ UNCHANGED <<bitmap, owned, region, spent>>
  BY DEF AllocLook
<1>2. /\ region[t] \in Regions /\ frame[t] \in W!Frame
      /\ FramesIn(region[t])[t] = frame[t]
  BY <1>1, InCall
<1>3. PICK q \in Regions : q = region[t]
  BY <1>2
<1>4. PICK f : f = WP!Resumed(frame[t], bitmap[q][WP!WordOf(frame[t])])
  OBVIOUS
<1>5. frame' = [frame EXCEPT ![t] = f]
  BY <1>2, <1>3, <1>4, SameScan DEF AllocLook
<1>6. Goes(t, f, q)
  BY <1>1, <1>3, <1>5, Stays DEF Goes
<1>7. WP!Sound(bitmap[q], FramesIn(q), BlocksIn(q), SpentIn(q))
      /\ FramesIn(q)[t] = frame[t] /\ FramesIn(q) \in [Threads -> W!Frame]
  BY <1>2, <1>3, RegionTypes DEF RegionOK
<1>8. WP!Sound(bitmap[q], [FramesIn(q) EXCEPT ![t] = f], BlocksIn(q), SpentIn(q))
  BY <1>1, <1>4, <1>7, WP!ScanStep
<1>9. f \in W!Frame
  BY <1>7, <1>8, SoundFrame
<1>10. \A r \in Regions : bitmap'[r] = bitmap[r] /\ BlocksIn(r)' = BlocksIn(r)
  BY <1>1, BlocksStay
<1>11. /\ SpentIn(q)' = SpentIn(q)
       /\ \A r \in Regions \ {q} : SpentIn(r)' = [SpentIn(r) EXCEPT ![t] = {}]
  BY <1>1, <1>3, SpentStay
<1>12. WP!Sound(bitmap'[q], [FramesIn(q) EXCEPT ![t] = f], BlocksIn(q)', SpentIn(q)')
  BY <1>8, <1>10, <1>11
<1> QED BY <1>3, <1>6, <1>9, <1>10, <1>11, <1>12, StepInRegion

\* The end of alloc and of dealloc.
LEMMA SetHintKeeps ==
  ASSUME IInv, NEW t \in Threads, SetHint(t), TypeOK'
  PROVE  IInv'
<1>1. /\ frame[t].pc \in {"alloc_hint", "dealloc_hint"}
      /\ frame' = [frame EXCEPT ![t] = W!Idle]
      /\ UNCHANGED <<bitmap, owned, region, spent>>
  BY DEF SetHint
<1>2. region[t] \in Regions /\ FramesIn(region[t])[t] = frame[t]
  BY <1>1, InCall
<1>3. PICK q \in Regions : q = region[t]
  BY <1>2
<1>4. PICK f : f = WP!Idle
  OBVIOUS
<1>5. Goes(t, f, q) /\ f \in W!Frame
  BY <1>1, <1>3, <1>4, Stays, Same, IdleFrames DEF Goes
<1>6. /\ WP!Sound(bitmap[q], FramesIn(q), BlocksIn(q), SpentIn(q))
      /\ FramesIn(q)[t].pc # "undo"
      /\ SpentIn(q)[t] \in SUBSET WP!Words
      /\ SpentIn(q) = [SpentIn(q) EXCEPT ![t] = SpentIn(q)[t]]
  BY <1>1, <1>2, <1>3, RegionTypes, Same DEF RegionOK
<1>7. WP!Sound(bitmap[q], [FramesIn(q) EXCEPT ![t] = f], BlocksIn(q), SpentIn(q))
  BY <1>4, <1>6, WP!IdleStep
<1>8. \A r \in Regions : bitmap'[r] = bitmap[r] /\ BlocksIn(r)' = BlocksIn(r)
  BY <1>1, BlocksStay
<1>9. /\ SpentIn(q)' = SpentIn(q)
      /\ \A r \in Regions \ {q} : SpentIn(r)' = [SpentIn(r) EXCEPT ![t] = {}]
  BY <1>1, <1>3, SpentStay
<1>10. WP!Sound(bitmap'[q], [FramesIn(q) EXCEPT ![t] = f], BlocksIn(q)', SpentIn(q)')
  BY <1>7, <1>8, <1>9
<1> QED BY <1>3, <1>5, <1>8, <1>9, <1>10, StepInRegion

\* The bit beyond the last block is cleared.
LEMMA UndoKeeps ==
  ASSUME IInv, NEW t \in Threads, Undo(t), TypeOK'
  PROVE  IInv'
<1>1. /\ frame[t].pc = "undo"
      /\ frame' = [frame EXCEPT ![t] = W!Failed]
      /\ bitmap' = [bitmap EXCEPT ![region[t]][frame[t].w] = @ \ {frame[t].bit}]
      /\ UNCHANGED <<owned, region, spent>>
  BY DEF Undo
<1>2. region[t] \in Regions /\ FramesIn(region[t])[t] = frame[t]
  BY <1>1, InCall
<1>3. PICK q \in Regions : q = region[t]
  BY <1>2
<1>4. PICK f : f = WP!Failed
  OBVIOUS
<1>5. Goes(t, f, q) /\ f \in W!Frame
  BY <1>1, <1>3, <1>4, Stays, Same, IdleFrames DEF Goes
<1>6. WP!Sound(bitmap[q], FramesIn(q), BlocksIn(q), SpentIn(q))
      /\ FramesIn(q)[t] = frame[t]
  BY <1>2, <1>3, RegionTypes DEF RegionOK
<1>7. /\ bitmap'[q] = [bitmap[q] EXCEPT ![frame[t].w] = @ \ {frame[t].bit}]
      /\ \A r \in Regions \ {q} : bitmap'[r] = bitmap[r]
  BY <1>1, <1>3 DEF IInv, TypeOK
<1>8. WP!GiveUp(bitmap[q], FramesIn(q), t, bitmap'[q], [FramesIn(q) EXCEPT ![t] = f])
  BY <1>1, <1>4, <1>6, <1>7 DEF WP!GiveUp
<1>9. WP!Sound(bitmap'[q], [FramesIn(q) EXCEPT ![t] = f], BlocksIn(q), SpentIn(q))
  BY <1>6, <1>8, WP!GiveUpStep
<1>10. \A r \in Regions : BlocksIn(r)' = BlocksIn(r)
  BY <1>1, BlocksStay
<1>11. /\ SpentIn(q)' = SpentIn(q)
       /\ \A r \in Regions \ {q} : SpentIn(r)' = [SpentIn(r) EXCEPT ![t] = {}]
  BY <1>1, <1>3, SpentStay
<1>12. WP!Sound(bitmap'[q], [FramesIn(q) EXCEPT ![t] = f], BlocksIn(q)', SpentIn(q)')
  BY <1>9, <1>10, <1>11
<1> QED BY <1>3, <1>5, <1>7, <1>10, <1>11, <1>12, StepInRegion

-----------------------------------------------------------------------------
(* The steps that hand out, take back or pass on a block                   *)

\* A pointer is a block of one region.
LEMMA BlockOf ==
  ASSUME NEW p \in Pointers
  PROVE  \E q \in Regions, i \in W!Blocks : p = index_to_ptr(q, i)
<1>1. PICK q \in Regions : p \in Memory[q]..Memory[q] + BlocksPerThread - 1
  BY DEF Pointers
<1>2. p - Memory[q] \in W!Blocks /\ p = Memory[q] + (p - Memory[q])
  BY <1>1 DEF W!Blocks
<1> QED BY <1>2 DEF index_to_ptr

\* The blocks of a region, one by one.
LEMMA BlocksHeld ==
  ASSUME NEW r \in Regions
  PROVE  /\ BlocksIn(r) \in [Threads -> SUBSET W!Blocks]
         /\ \A u \in Threads, j \in W!Blocks :
              j \in BlocksIn(r)[u] <=> index_to_ptr(r, j) \in owned[u]
  BY DEF BlocksIn, IndexesIn

\* The same in the next state.
LEMMA BlocksHeldNext ==
  ASSUME NEW r \in Regions
  PROVE  /\ BlocksIn(r)' \in [Threads -> SUBSET W!Blocks]
         /\ \A u \in Threads, j \in W!Blocks :
              j \in BlocksIn(r)'[u] <=> index_to_ptr(r, j) \in owned'[u]
<1>1. BlocksIn(r)' = [u \in Threads |-> {j \in W!Blocks : index_to_ptr(r, j) \in owned'[u]}]
  BY DEF BlocksIn, IndexesIn, index_to_ptr, W!Blocks
<1> QED BY <1>1

\* Two assignments of blocks to threads are the same if they agree on every
\* block.
LEMMA SameHolders ==
  ASSUME NEW F \in [Threads -> SUBSET W!Blocks], NEW G \in [Threads -> SUBSET W!Blocks],
         \A u \in Threads, j \in W!Blocks : j \in F[u] <=> j \in G[u]
  PROVE  F = G
<1> HIDE RegionsAssumption
<1>1. ASSUME NEW u \in Threads PROVE F[u] = G[u]
  <2>1. F[u] \subseteq W!Blocks /\ G[u] \subseteq W!Blocks
    OBVIOUS
  <2> QED BY <2>1
<1> QED BY <1>1

\* At most the holder of pointer p changes; the holders of block i of region
\* q, whose pointer is p, become those of G.
Moves(p) == \A u \in Threads, x \in Pointers : x # p => (x \in owned'[u] <=> x \in owned[u])
Become(q, i, p, G) ==
  /\ G \in [Threads -> SUBSET W!Blocks]
  /\ \A u \in Threads : i \in G[u] <=> p \in owned'[u]
  /\ \A u \in Threads, j \in W!Blocks : j # i => (j \in G[u] <=> j \in BlocksIn(q)[u])

\* A step that changes the holder of one pointer, a block of region q, changes
\* the blocks of q accordingly and those of no other region.
LEMMA OneBlockMoves ==
  ASSUME NEW q \in Regions, NEW i \in W!Blocks, NEW p, p = index_to_ptr(q, i),
         Moves(p), NEW G, Become(q, i, p, G)
  PROVE  /\ BlocksIn(q)' = G
         /\ \A r \in Regions \ {q} : BlocksIn(r)' = BlocksIn(r)
<1>1. ASSUME NEW j \in W!Blocks, j # i
      PROVE  index_to_ptr(q, j) # p /\ index_to_ptr(q, j) \in Pointers
  BY <1>1, OnePlace, PointerOf
<1>2. ASSUME NEW r \in Regions \ {q}, NEW j \in W!Blocks
      PROVE  index_to_ptr(r, j) # p /\ index_to_ptr(r, j) \in Pointers
  BY OnePlace, PointerOf
<1> HIDE RegionsAssumption
<1>3. \A u \in Threads, j \in W!Blocks : j \in BlocksIn(q)'[u] <=> j \in G[u]
  <2> SUFFICES ASSUME NEW u \in Threads, NEW j \in W!Blocks
               PROVE  j \in BlocksIn(q)'[u] <=> j \in G[u]
    OBVIOUS
  <2>1. j \in BlocksIn(q)'[u] <=> index_to_ptr(q, j) \in owned'[u]
    BY BlocksHeldNext
  <2>2. j \in BlocksIn(q)[u] <=> index_to_ptr(q, j) \in owned[u]
    BY BlocksHeld
  <2>3. CASE j = i
    BY <2>1, <2>3 DEF Become
  <2>4. CASE j # i
    BY <1>1, <2>1, <2>2, <2>4 DEF Become, Moves
  <2> QED BY <2>3, <2>4
<1>4. BlocksIn(q)' = G
  BY <1>3, BlocksHeldNext, SameHolders DEF Become
<1>5. ASSUME NEW r \in Regions \ {q} PROVE BlocksIn(r)' = BlocksIn(r)
  <2>1. ASSUME NEW u \in Threads, NEW j \in W!Blocks
        PROVE  j \in BlocksIn(r)'[u] <=> j \in BlocksIn(r)[u]
    BY <1>2, BlocksHeld, BlocksHeldNext DEF Moves
  <2> QED BY <2>1, BlocksHeld, BlocksHeldNext, SameHolders
<1> QED BY <1>4, <1>5

\* A thread gets a block of region q.
LEMMA BlocksGain ==
  ASSUME IInv, NEW t \in Threads, NEW q \in Regions, NEW i \in W!Blocks,
         NEW p, p = index_to_ptr(q, i), owned' = [owned EXCEPT ![t] = @ \cup {p}]
  PROVE  /\ BlocksIn(q)' = [BlocksIn(q) EXCEPT ![t] = @ \cup {i}]
         /\ \A r \in Regions \ {q} : BlocksIn(r)' = BlocksIn(r)
<1> HIDE RegionsAssumption
<1>1. \A u \in Threads : \A x :
        x \in owned'[u] <=> x \in owned[u] \/ (u = t /\ x = p)
  BY DEF IInv, TypeOK
<1>2. Moves(p)
  BY <1>1 DEF Moves
<1>3. PICK G : G = [BlocksIn(q) EXCEPT ![t] = @ \cup {i}]
  OBVIOUS
<1>4. /\ G \in [Threads -> SUBSET W!Blocks]
      /\ \A u \in Threads : \A j :
           j \in G[u] <=> j \in BlocksIn(q)[u] \/ (u = t /\ j = i)
  BY <1>3, BlocksHeld
<1>5. \A u \in Threads : i \in BlocksIn(q)[u] <=> p \in owned[u]
  BY BlocksHeld
<1>6. Become(q, i, p, G)
  BY <1>1, <1>4, <1>5 DEF Become
<1> QED BY <1>2, <1>3, <1>6, OneBlockMoves

\* A thread gives a block of region q away.
LEMMA BlocksLose ==
  ASSUME IInv, NEW t \in Threads, NEW q \in Regions, NEW i \in W!Blocks,
         NEW p, p = index_to_ptr(q, i), owned' = [owned EXCEPT ![t] = @ \ {p}]
  PROVE  /\ BlocksIn(q)' = [BlocksIn(q) EXCEPT ![t] = @ \ {i}]
         /\ \A r \in Regions \ {q} : BlocksIn(r)' = BlocksIn(r)
<1> HIDE RegionsAssumption
<1>1. \A u \in Threads : \A x :
        x \in owned'[u] <=> x \in owned[u] /\ ~ (u = t /\ x = p)
  BY DEF IInv, TypeOK
<1>2. Moves(p)
  BY <1>1 DEF Moves
<1>3. PICK G : G = [BlocksIn(q) EXCEPT ![t] = @ \ {i}]
  OBVIOUS
<1>4. /\ G \in [Threads -> SUBSET W!Blocks]
      /\ \A u \in Threads : \A j :
           j \in G[u] <=> j \in BlocksIn(q)[u] /\ ~ (u = t /\ j = i)
  BY <1>3, BlocksHeld
<1>5. \A u \in Threads : i \in BlocksIn(q)[u] <=> p \in owned[u]
  BY BlocksHeld
<1>6. Become(q, i, p, G)
  BY <1>1, <1>4, <1>5 DEF Become
<1> QED BY <1>2, <1>3, <1>6, OneBlockMoves

\* A thread passes a block of region q on.
LEMMA BlocksPass ==
  ASSUME IInv, NEW t \in Threads, NEW v \in Threads, t # v,
         NEW q \in Regions, NEW i \in W!Blocks,
         NEW p, p = index_to_ptr(q, i), owned' = [owned EXCEPT ![t] = @ \ {p}, ![v] = @ \cup {p}]
  PROVE  /\ BlocksIn(q)' = [BlocksIn(q) EXCEPT ![t] = @ \ {i}, ![v] = @ \cup {i}]
         /\ \A r \in Regions \ {q} : BlocksIn(r)' = BlocksIn(r)
<1> HIDE RegionsAssumption
<1>1. \A u \in Threads : \A x :
        x \in owned'[u] <=> (x \in owned[u] /\ ~ (u = t /\ x = p)) \/ (u = v /\ x = p)
  BY DEF IInv, TypeOK
<1>2. Moves(p)
  BY <1>1 DEF Moves
<1>3. PICK G : G = [BlocksIn(q) EXCEPT ![t] = @ \ {i}, ![v] = @ \cup {i}]
  OBVIOUS
<1>4. /\ G \in [Threads -> SUBSET W!Blocks]
      /\ \A u \in Threads : \A j :
           j \in G[u] <=> (j \in BlocksIn(q)[u] /\ ~ (u = t /\ j = i)) \/ (u = v /\ j = i)
  BY <1>3, BlocksHeld
<1>5. \A u \in Threads : i \in BlocksIn(q)[u] <=> p \in owned[u]
  BY BlocksHeld
<1>6. Become(q, i, p, G)
  BY <1>1, <1>4, <1>5 DEF Become
<1> QED BY <1>2, <1>3, <1>6, OneBlockMoves

\* A call of alloc hands out at most one block, which nobody holds.
HandsOut(t) ==
  \/ owned' = owned
  \/ \E p \in Pointers : /\ \A u \in Threads : p \notin owned[u]
                         /\ owned' = [owned EXCEPT ![t] = @ \cup {p}]

\* What a compare-and-swap adds to what the scans in its region have seen.
SpentAfter(q, words) ==
  [u \in Threads |->
     IF FramesIn(q)[u].pc \in {"load", "cas"}
     THEN SpentIn(q)[u] \cup {v \in WP!Words : WP!Exhausted(words, v)} ELSE SpentIn(q)[u]]

SpentStep(q, words) ==
  spent' = [u \in Threads |->
    IF region[u] = q /\ W!Scanning(u)
    THEN spent[u] \cup {v \in W!Words : W!Exhausted(words, v)} ELSE spent[u]]

\* The scans in other regions see nothing of it.
LEMMA SpentClaim ==
  ASSUME IInv, NEW t \in Threads, NEW q \in Regions, region[t] = q, UNCHANGED region,
         NEW words, SpentStep(q, words)
  PROVE  /\ SpentIn(q)' = SpentAfter(q, words)
         /\ \A r \in Regions \ {q} : SpentIn(r)' = [SpentIn(r) EXCEPT ![t] = {}]
<1>1. {v \in W!Words : W!Exhausted(words, v)} = {v \in WP!Words : WP!Exhausted(words, v)}
  BY Same
     DEF W!Exhausted, WP!Exhausted, W!WordIndex, WP!WordIndex, W!BitIndex, WP!BitIndex
<1>2. PICK E : E = {v \in W!Words : W!Exhausted(words, v)}
  OBVIOUS
<1> HIDE RegionsAssumption
<1>3. \A u \in Threads : spent'[u] = IF region[u] = q /\ W!Scanning(u)
                                     THEN spent[u] \cup E ELSE spent[u]
  BY <1>2 DEF SpentStep
<1>4. ASSUME NEW u \in Threads
      PROVE  region[u] = q /\ W!Scanning(u) <=> FramesIn(q)[u].pc \in {"load", "cas"}
  <2>1. CASE frame[u] = Undefined
    BY <2>1, IdleFrames DEF FramesIn, W!Scanning
  <2>2. CASE frame[u] # Undefined /\ region[u] = q
    BY <2>2 DEF FramesIn, W!Scanning
  <2>3. CASE frame[u] # Undefined /\ region[u] # q
    BY <2>3, IdleFrames DEF FramesIn
  <2> QED BY <2>1, <2>2, <2>3
<1>5. ASSUME NEW u \in Threads
      PROVE  SpentIn(q)'[u] = SpentAfter(q, words)[u]
  <2>1. SpentIn(q)'[u] = IF region[u] = q THEN spent'[u] ELSE {}
    BY DEF SpentIn
  <2>2. SpentIn(q)[u] = IF region[u] = q THEN spent[u] ELSE {}
    BY DEF SpentIn
  <2>3. SpentAfter(q, words)[u] = IF FramesIn(q)[u].pc \in {"load", "cas"}
                                  THEN SpentIn(q)[u] \cup E ELSE SpentIn(q)[u]
    BY <1>1, <1>2 DEF SpentAfter
  <2> QED BY <1>3, <1>4, <2>1, <2>2, <2>3
<1>6. SpentIn(q)' = [u \in Threads |-> SpentIn(q)'[u]]
      /\ SpentAfter(q, words) = [u \in Threads |-> SpentAfter(q, words)[u]]
  BY DEF SpentIn, SpentAfter
<1>7. ASSUME NEW r \in Regions \ {q}
      PROVE  SpentIn(r)' = [SpentIn(r) EXCEPT ![t] = {}]
  <2>1. \A u \in Threads : region[u] = r => spent'[u] = spent[u]
    BY <1>3
  <2>2. SpentIn(r)' = SpentIn(r)
    BY <2>1 DEF SpentIn
  <2>3. SpentIn(r) = [SpentIn(r) EXCEPT ![t] = {}]
    BY DEF SpentIn
  <2> QED BY <2>2, <2>3
<1> QED BY <1>5, <1>6, <1>7

\* A compare-and-swap that succeeds.
LEMMA CasKeeps ==
  ASSUME IInv, NEW t \in Threads, AllocCas(t)
  PROVE  IInv' /\ HandsOut(t)
<1>1. frame[t].pc = "cas" /\ UNCHANGED <<hint, thread_counter, region_index, region>>
  BY DEF AllocCas
<1>2. /\ region[t] \in Regions /\ frame[t] \in W!Frame
      /\ FramesIn(region[t])[t] = frame[t]
  BY <1>1, InCall
<1>3. PICK q \in Regions : q = region[t]
  BY <1>2
<1>4. PICK w : w = WP!WordOf(frame[t])
  OBVIOUS
<1>5. PICK bit : bit = WP!find_free_bit(frame[t].word)
  OBVIOUS
<1>6. PICK g : g = WP!GlobalIndex(w, bit)
  OBVIOUS
<1>7. PICK words : words = [bitmap[q] EXCEPT ![w] = frame[t].word \cup {bit}]
  OBVIOUS
<1>8. PICK f : f = WP!ClaimFrame(w, bit)
  OBVIOUS
<1>9. /\ W!WordAt(t) = w /\ W!find_free_bit(frame[t].word) = bit
      /\ W!GlobalIndex(w, bit) = g
      /\ InRange(g) <=> WP!InRange(g)
  <2>1. W!WordAt(t) = w
    BY <1>4, SameScan
  <2>2. W!find_free_bit(frame[t].word) = bit
    BY <1>5 DEF W!find_free_bit, WP!find_free_bit, W!FULL, WP!FULL, W!Bits, WP!Bits,
                W!Min, WP!Min
  <2>3. W!GlobalIndex(w, bit) = g
    BY <1>6 DEF W!GlobalIndex, WP!GlobalIndex
  <2> QED BY <2>1, <2>2, <2>3 DEF InRange, WP!InRange
<1>10. /\ bitmap[q][w] = frame[t].word
       /\ bitmap' = [bitmap EXCEPT ![q] = words]
       /\ owned' = IF InRange(g) THEN [owned EXCEPT ![t] = @ \cup {index_to_ptr(q, g)}]
                   ELSE owned
       /\ SpentStep(q, words)
  BY <1>3, <1>7, <1>9 DEF AllocCas, Unchanged, SpentStep
<1>11. frame' = [frame EXCEPT ![t] = f]
  BY <1>3, <1>6, <1>8, <1>9, Same DEF AllocCas, WP!ClaimFrame
<1>12. Goes(t, f, q)
  BY <1>1, <1>3, <1>11, Stays DEF Goes
<1>13. /\ bitmap'[q] = words
       /\ \A r \in Regions \ {q} : bitmap'[r] = bitmap[r]
  BY <1>10 DEF IInv, TypeOK
<1>14. /\ SpentIn(q)' = SpentAfter(q, words)
       /\ \A r \in Regions \ {q} : SpentIn(r)' = [SpentIn(r) EXCEPT ![t] = {}]
  BY <1>1, <1>3, <1>10, SpentClaim
<1>15. PICK held : held = IF WP!InRange(g)
                          THEN [BlocksIn(q) EXCEPT ![t] = @ \cup {g}] ELSE BlocksIn(q)
  OBVIOUS
<1>16. WP!Sound(bitmap[q], FramesIn(q), BlocksIn(q), SpentIn(q))
       /\ FramesIn(q)[t] = frame[t] /\ FramesIn(q) \in [Threads -> W!Frame]
  BY <1>2, <1>3, RegionTypes DEF RegionOK
<1>17. WP!Claim(bitmap[q], FramesIn(q), BlocksIn(q), SpentIn(q), t, w, bit, words,
                [FramesIn(q) EXCEPT ![t] = f], held, SpentAfter(q, words))
  BY <1>1, <1>4, <1>5, <1>6, <1>7, <1>8, <1>10, <1>15, <1>16
     DEF WP!Claim, SpentAfter
<1>18. WP!Sound(words, [FramesIn(q) EXCEPT ![t] = f], held, SpentAfter(q, words))
  BY <1>16, <1>17, WP!ClaimStep
<1>19. /\ w \in WP!Words /\ bit \in WP!Bits
       /\ \A b \in WP!Blocks : b = g => \A u \in Threads : b \notin BlocksIn(q)[u]
  BY <1>6, <1>16, <1>17, WP!CasClaims
<1>20. InRange(g) => g \in W!Blocks
  BY <1>6, <1>9, <1>19, WP!BitBlock, Same
<1>21. f \in W!Frame
  BY <1>16, <1>18, SoundFrame
<1>22. /\ BlocksIn(q)' = held
       /\ \A r \in Regions \ {q} : BlocksIn(r)' = BlocksIn(r)
  <2>1. CASE InRange(g)
    <3>1. PICK p : p = index_to_ptr(q, g)
      OBVIOUS
    <3>2. owned' = [owned EXCEPT ![t] = @ \cup {p}] /\ g \in W!Blocks
      BY <1>10, <1>20, <2>1, <3>1
    <3> QED BY <1>9, <1>15, <2>1, <3>1, <3>2, BlocksGain
  <2>2. CASE ~ InRange(g)
    <3>1. UNCHANGED owned
      BY <1>10, <2>2
    <3> QED BY <1>9, <1>15, <2>2, <3>1, BlocksStay
  <2> QED BY <2>1, <2>2
<1>23. HandsOut(t)
  <2>1. CASE InRange(g)
    <3>1. g \in W!Blocks /\ \A u \in Threads : g \notin BlocksIn(q)[u]
      BY <1>19, <1>20, <2>1, Same
    <3>2. /\ index_to_ptr(q, g) \in Pointers
          /\ \A u \in Threads : index_to_ptr(q, g) \notin owned[u]
      BY <3>1, PointerOf, BlocksHeld
    <3> QED BY <1>10, <2>1, <3>2 DEF HandsOut
  <2>2. CASE ~ InRange(g)
    BY <1>10, <2>2 DEF HandsOut
  <2> QED BY <2>1, <2>2
<1>24. TypeOK'
  <2>1. words \in [W!Words -> SUBSET W!Bits]
    BY <1>18, Same DEF WP!Sound, WP!Typed
  <2>2. bitmap' \in [Regions -> [W!Words -> SUBSET W!Bits]]
    BY <1>10, <2>1 DEF IInv, TypeOK
  <2>3. owned' \in [Threads -> SUBSET Pointers]
    <3>1. owned \in [Threads -> SUBSET Pointers]
      BY DEF IInv, TypeOK
    <3>2. ASSUME NEW p \in Pointers, owned' = [owned EXCEPT ![t] = @ \cup {p}]
          PROVE  owned' \in [Threads -> SUBSET Pointers]
      BY <3>1, <3>2
    <3> QED BY <1>23, <3>1, <3>2 DEF HandsOut
  <2>4. spent' \in [Threads -> SUBSET W!Words]
    BY <1>10 DEF IInv, TypeOK, SpentStep
  <2> QED BY <1>1, <2>2, <2>3, <2>4 DEF IInv, TypeOK
<1>25. WP!Sound(bitmap'[q], [FramesIn(q) EXCEPT ![t] = f], BlocksIn(q)', SpentIn(q)')
  BY <1>13, <1>14, <1>18, <1>22
<1> QED BY <1>3, <1>12, <1>13, <1>14, <1>21, <1>22, <1>23, <1>24, <1>25, StepInRegion

\* A block is given back, to whatever region it is from.
LEMMA DeallocKeeps ==
  ASSUME IInv, NEW t \in Threads, NEW a \in Allocators, NEW p \in Pointers,
         Dealloc(t, a, p), TypeOK'
  PROVE  IInv'
<1>1. /\ frame[t].pc = "idle" /\ p \in owned[t] /\ Find(a, p) # Nil
      /\ owned' = [owned EXCEPT ![t] = @ \ {p}] /\ UNCHANGED spent
  BY DEF Dealloc
<1>2. PICK q \in Regions : q = Find(a, p)
  BY <1>1, FindFinds
<1>3. PICK i \in W!Blocks : i = ptr_to_index(q, p)
  BY <1>1, <1>2, FindFinds
<1>4. p = index_to_ptr(q, i)
  BY <1>1, <1>2, <1>3, FindFinds
<1>5. W!WordIndex(i) = WP!WordIndex(i) /\ W!BitIndex(i) = WP!BitIndex(i) /\ i \in WP!Blocks
  BY Same DEF W!WordIndex, WP!WordIndex, W!BitIndex, WP!BitIndex
<1>6. PICK f : f = WP!ReturnFrame(i)
  OBVIOUS
<1>7. /\ bitmap' = [bitmap EXCEPT ![q][WP!WordIndex(i)] = @ \ {WP!BitIndex(i)}]
      /\ region' = [region EXCEPT ![t] = q]
      /\ frame' = [frame EXCEPT ![t] = f]
  BY <1>2, <1>3, <1>5, <1>6, Same DEF Dealloc, WP!ReturnFrame
<1>8. Goes(t, f, q) /\ Sees(t, spent[t], q)
  BY <1>1, <1>7, Stays DEF Goes, Sees
<1>9. PICK s : s = spent[t]
  OBVIOUS
<1>10. Sees(t, s, q) /\ s \in SUBSET WP!Words
  BY <1>8, <1>9, Stays, Same
<1>11. /\ WP!Sound(bitmap[q], FramesIn(q), BlocksIn(q), SpentIn(q))
       /\ FramesIn(q)[t].pc = "idle" /\ FramesIn(q) \in [Threads -> W!Frame]
  BY <1>1, IdleEverywhere, RegionTypes DEF RegionOK
<1>12. PICK fr : fr = [FramesIn(q) EXCEPT ![t] = WP!Idle]
  OBVIOUS
<1>13. WP!Sound(bitmap[q], fr, BlocksIn(q), [SpentIn(q) EXCEPT ![t] = s])
  BY <1>10, <1>11, <1>12, WP!IdleStep
<1>14. fr[t].pc = "idle" /\ [fr EXCEPT ![t] = f] = [FramesIn(q) EXCEPT ![t] = f]
       /\ fr \in [Threads -> W!Frame]
  BY <1>11, <1>12, IdleFrames, Same
<1>15. /\ bitmap'[q] = [bitmap[q] EXCEPT ![WP!WordIndex(i)] = @ \ {WP!BitIndex(i)}]
       /\ \A r \in Regions \ {q} : bitmap'[r] = bitmap[r]
  BY <1>7 DEF IInv, TypeOK
<1>16. /\ BlocksIn(q)' = [BlocksIn(q) EXCEPT ![t] = @ \ {i}]
       /\ \A r \in Regions \ {q} : BlocksIn(r)' = BlocksIn(r)
  BY <1>1, <1>4, BlocksLose
<1>17. i \in BlocksIn(q)[t]
  BY <1>1, <1>4, BlocksHeld
<1>18. WP!Return(bitmap[q], fr, BlocksIn(q), t, i, bitmap'[q], [fr EXCEPT ![t] = f],
                 BlocksIn(q)')
  BY <1>6, <1>14, <1>15, <1>16, <1>17 DEF WP!Return
<1>19. WP!Sound(bitmap'[q], [fr EXCEPT ![t] = f], BlocksIn(q)',
                [SpentIn(q) EXCEPT ![t] = s])
  BY <1>5, <1>13, <1>18, WP!ReturnStep
<1>20. f \in W!Frame
  BY <1>14, <1>19, SoundFrame
<1>21. /\ SpentIn(q)' = [SpentIn(q) EXCEPT ![t] = s]
       /\ \A r \in Regions \ {q} : SpentIn(r)' = [SpentIn(r) EXCEPT ![t] = {}]
  BY <1>10, SpentMove
<1>22. WP!Sound(bitmap'[q], [FramesIn(q) EXCEPT ![t] = f], BlocksIn(q)', SpentIn(q)')
  BY <1>14, <1>19, <1>21
<1> QED BY <1>1, <1>8, <1>15, <1>16, <1>20, <1>21, <1>22, StepInRegion

-----------------------------------------------------------------------------
(* The rest of the program                                                 *)

\* A block is passed on.
LEMMA HandoffKeeps ==
  ASSUME IInv, NEW t \in Threads, NEW v \in Threads, NEW p \in Pointers,
         Handoff(t, v, p), TypeOK'
  PROVE  IInv'
<1>1. /\ t # v /\ p \in owned[t]
      /\ owned' = [owned EXCEPT ![t] = @ \ {p}, ![v] = @ \cup {p}]
      /\ UNCHANGED <<bitmap, region, frame, spent>>
  BY DEF Handoff
<1>2. PICK q \in Regions, i \in W!Blocks : p = index_to_ptr(q, i)
  BY BlockOf
<1>3. /\ BlocksIn(q)' = [BlocksIn(q) EXCEPT ![t] = @ \ {i}, ![v] = @ \cup {i}]
      /\ \A r \in Regions \ {q} : BlocksIn(r)' = BlocksIn(r)
  BY <1>1, <1>2, BlocksPass
<1>4. \A r \in Regions : /\ FramesIn(r)' = FramesIn(r) /\ SpentIn(r)' = SpentIn(r)
                         /\ bitmap'[r] = bitmap[r] /\ RegionOK(r)
  BY <1>1 DEF FramesIn, SpentIn, IInv
<1>5. WP!PassOn(BlocksIn(q), t, v, i, BlocksIn(q)')
  BY <1>1, <1>2, <1>3, BlocksHeld DEF WP!PassOn
<1>6. WP!Sound(bitmap[q], FramesIn(q), BlocksIn(q)', SpentIn(q))
  <2>1. i \in WP!Blocks /\ WP!Sound(bitmap[q], FramesIn(q), BlocksIn(q), SpentIn(q))
    BY <1>4, Same DEF RegionOK
  <2> QED BY <1>5, <2>1, WP!PassOnStep
<1>7. RegionOK(q)'
  BY <1>4, <1>6 DEF RegionOK
<1>8. \A r \in Regions \ {q} : RegionOK(r)'
  BY <1>3, <1>4 DEF RegionOK
<1>9. \A u \in Threads : Placed(u)'
  BY <1>1 DEF IInv, Placed
<1> QED BY <1>1, <1>7, <1>8, <1>9 DEF IInv

\* A thread ends.
LEMMA ExitKeeps ==
  ASSUME IInv, NEW t \in Threads, Exit(t), TypeOK'
  PROVE  IInv'
<1>1. frame[t].pc = "idle" /\ UNCHANGED <<bitmap, owned>>
  BY DEF Exit
<1>2. Goes(t, W!Idle, Nil) /\ Sees(t, {}, Nil)
  BY DEF Exit, Goes, Sees
<1>3. PICK f \in W!Frame : f = W!Idle
  BY IdleFrames
<1>4. PICK q \in Regions \cup {Nil} : q = Nil
  OBVIOUS
<1>5. Goes(t, f, q) /\ Sees(t, {}, q) /\ f.pc = "idle" /\ q \notin Regions
  BY <1>2, <1>3, <1>4, IdleFrames
<1>6. ASSUME NEW r \in Regions PROVE RegionOK(r)'
  <2>1. r # q
    BY <1>5
  <2>2. SpentIn(r)' = [SpentIn(r) EXCEPT ![t] = {}]
    BY <1>5, <2>1, SpentMove
  <2>3. bitmap'[r] = bitmap[r] /\ BlocksIn(r)' = BlocksIn(r)
    BY <1>1, BlocksStay
  <2> QED BY <1>1, <1>5, <2>1, <2>2, <2>3, OtherRegion
<1> QED BY <1>5, <1>6, Assemble

\* The bitmaps g are f with bit x of word e of region d clear.
Cleared(f, d, e, x, g) == g = [f EXCEPT ![d][e] = @ \ {x}]

\* Clearing a bit of a word of a region keeps the type of the bitmaps.
LEMMA ClearedType ==
  ASSUME NEW D, NEW E, NEW B, NEW f \in [D -> [E -> SUBSET B]], NEW d \in D, NEW e, NEW x,
         NEW g, Cleared(f, d, e, x, g)
  PROVE  g \in [D -> [E -> SUBSET B]]
<1> HIDE RegionsAssumption
<1>1. f[d] \in [E -> SUBSET B]
  OBVIOUS
<1>2. PICK h : h = [f[d] EXCEPT ![e] = @ \ {x}]
  OBVIOUS
<1>3. h \in [E -> SUBSET B]
  BY <1>1, <1>2
<1>4. g = [f EXCEPT ![d] = h]
  BY <1>2 DEF Cleared
<1> QED BY <1>3, <1>4

\* Every step but the compare-and-swap keeps the types: the hint stays the
\* index of a word although reads of it race with writes.
LEMMA TypesKept ==
  ASSUME IInv, NEW t \in Threads
  PROVE  /\ \A a \in Allocators : AllocStart(t, a) => TypeOK'
         /\ AllocLook(t) => TypeOK'
         /\ Undo(t) => TypeOK'
         /\ SetHint(t) => TypeOK'
         /\ \A a \in Allocators, p \in Pointers : Dealloc(t, a, p) => TypeOK'
         /\ \A v \in Threads, p \in Pointers : Handoff(t, v, p) => TypeOK'
         /\ Exit(t) => TypeOK'
<1>0. TypeOK
  BY DEF IInv
<1>1. ASSUME NEW a \in Allocators, AllocStart(t, a) PROVE TypeOK'
  <2>1. IndexOf(t, a) \in Nat \cup {Nil}
    <3>1. thread_counter[a] \in Nat /\ MaxThreads[a] \in Nat \ {0}
      BY <1>0 DEF TypeOK
    <3>2. assign_region(a) \in Nat
      BY <3>1 DEF assign_region
    <3> QED BY <1>0, <3>2 DEF IndexOf, TypeOK
  <2>2. thread_counter' \in [Allocators -> Nat]
    <3>1. \/ thread_counter' = thread_counter
          \/ thread_counter' = [thread_counter EXCEPT ![a] = @ + 1]
      BY <1>1 DEF AllocStart, CountThread
    <3> QED BY <1>0, <3>1 DEF TypeOK
  <2>3. region_index' \in [Threads -> Nat \cup {Nil}]
    BY <1>0, <1>1, <2>1 DEF TypeOK, AllocStart
  <2>4. region' \in [Threads -> Regions \cup {Nil}]
    BY <1>0, <1>1 DEF TypeOK, AllocStart
  <2>5. spent' \in [Threads -> SUBSET W!Words]
    <3>1. \/ spent' = spent
          \/ \E s \in SUBSET W!Words : spent' = [spent EXCEPT ![t] = s]
      BY <1>1 DEF AllocStart
    <3> QED BY <1>0, <3>1 DEF TypeOK
  <2> QED BY <1>0, <1>1, <2>2, <2>3, <2>4, <2>5 DEF TypeOK, AllocStart
<1>2. ASSUME AllocLook(t) PROVE TypeOK'
  BY <1>0, <1>2 DEF TypeOK, AllocLook
<1>3. ASSUME Undo(t) PROVE TypeOK'
  <2>1. PICK q \in Regions : q = region[t]
    BY <1>3, InCall DEF Undo
  <2>2. Cleared(bitmap, q, frame[t].w, frame[t].bit, bitmap')
    BY <1>3, <2>1 DEF Undo, Cleared
  <2>3. bitmap' \in [Regions -> [W!Words -> SUBSET W!Bits]]
    BY <1>0, <2>2, ClearedType DEF TypeOK
  <2> QED BY <1>0, <1>3, <2>3 DEF TypeOK, Undo
<1>4. ASSUME SetHint(t) PROVE TypeOK'
  <2>1. frame[t].w \in W!Words
    <3>1. frame[t] \in W!Frame
      BY <1>4, InCall DEF SetHint
    <3> QED BY <3>1 DEF W!Frame
  <2> QED BY <1>0, <1>4, <2>1 DEF TypeOK, SetHint
<1>5. ASSUME NEW a \in Allocators, NEW p \in Pointers, Dealloc(t, a, p) PROVE TypeOK'
  <2>1. PICK q \in Regions : q = Find(a, p)
    BY <1>5, FindFinds DEF Dealloc
  <2>2. PICK i : i = ptr_to_index(q, p)
    OBVIOUS
  <2>3. Cleared(bitmap, q, W!WordIndex(i), W!BitIndex(i), bitmap')
    BY <1>5, <2>1, <2>2 DEF Dealloc, Cleared
  <2>4. bitmap' \in [Regions -> [W!Words -> SUBSET W!Bits]]
    BY <1>0, <2>3, ClearedType DEF TypeOK
  <2>5. region' = [region EXCEPT ![t] = q]
    BY <1>5, <2>1 DEF Dealloc
  <2> QED BY <1>0, <1>5, <2>4, <2>5 DEF TypeOK, Dealloc
<1>6. ASSUME NEW v \in Threads, NEW p \in Pointers, Handoff(t, v, p) PROVE TypeOK'
  BY <1>0, <1>6 DEF TypeOK, Handoff
<1>7. ASSUME Exit(t) PROVE TypeOK'
  BY <1>0, <1>7 DEF TypeOK, Exit
<1> QED BY <1>1, <1>2, <1>3, <1>4, <1>5, <1>6, <1>7

-----------------------------------------------------------------------------
(* The invariant                                                           *)

\* The invariant holds before any call.
LEMMA InitIInv == Init => IInv
<1> SUFFICES ASSUME Init PROVE IInv
  OBVIOUS
<1>1. W!Words # {} /\ 0 \in W!Words
  BY WP!WordCountFits, Same DEF W!Words, WP!Words
<1>2. TypeOK
  BY <1>1 DEF Init, TypeOK
<1>3. \A t \in Threads : frame[t] = W!Idle /\ frame[t] # Undefined
  BY IdleFrames DEF Init
<1>4. frame \in [Threads -> W!Frame \cup {Undefined}]
  BY IdleFrames DEF Init
<1>5. \A t \in Threads : Placed(t)
  BY <1>3, IdleFrames DEF Placed
<1>6. ASSUME NEW r \in Regions PROVE RegionOK(r)
  <2>1. bitmap[r] = [w \in WP!Words |-> {}]
    BY Same DEF Init
  <2>2. FramesIn(r) = [t \in Threads |-> WP!Idle]
    BY <1>3, Same DEF FramesIn
  <2>3. SpentIn(r) = [t \in Threads |-> {}]
    BY DEF SpentIn, Init
  <2>4. BlocksIn(r) = [t \in Threads |-> {}]
    BY DEF BlocksIn, IndexesIn, Init
  <2> QED BY <2>1, <2>2, <2>3, <2>4, WP!SoundAtStart DEF RegionOK
<1> QED BY <1>2, <1>4, <1>5, <1>6 DEF IInv

\* Every step keeps the invariant.
LEMMA NextKeeps == ASSUME IInv, [Next]_vars PROVE IInv'
<1>1. ASSUME NEW t \in Threads, NEW a \in Allocators, AllocStart(t, a)
      PROVE  IInv'
  <2>1. TypeOK'
    BY <1>1, TypesKept
  <2>2. CASE <<a, IndexOf(t, a)>> \in Regions
    BY <1>1, <2>1, <2>2, StartKeeps
  <2>3. CASE <<a, IndexOf(t, a)>> \notin Regions
    BY <1>1, <2>1, <2>3, LostKeeps
  <2> QED BY <2>2, <2>3
<1>2. ASSUME NEW t \in Threads, AllocLook(t) PROVE IInv'
  BY <1>2, TypesKept, LookKeeps
<1>3. ASSUME NEW t \in Threads, AllocCas(t) PROVE IInv'
  BY <1>3, CasKeeps
<1>4. ASSUME NEW t \in Threads, Undo(t) PROVE IInv'
  BY <1>4, TypesKept, UndoKeeps
<1>5. ASSUME NEW t \in Threads, SetHint(t) PROVE IInv'
  BY <1>5, TypesKept, SetHintKeeps
<1>6. ASSUME NEW t \in Threads, NEW a \in Allocators, NEW p \in Pointers, Dealloc(t, a, p)
      PROVE  IInv'
  BY <1>6, TypesKept, DeallocKeeps
<1>7. ASSUME NEW t \in Threads, NEW u \in Threads, NEW p \in Pointers, Handoff(t, u, p)
      PROVE  IInv'
  BY <1>7, TypesKept, HandoffKeeps
<1>8. ASSUME NEW t \in Threads, Exit(t) PROVE IInv'
  BY <1>8, TypesKept, ExitKeeps
<1>9. ASSUME UNCHANGED vars PROVE IInv'
  <2>1. TypeOK'
    BY <1>9 DEF IInv, TypeOK, vars
  <2>2. ASSUME NEW r \in Regions PROVE RegionOK(r)'
    <3>1. /\ bitmap'[r] = bitmap[r] /\ FramesIn(r)' = FramesIn(r)
          /\ SpentIn(r)' = SpentIn(r)
      BY <1>9 DEF vars, FramesIn, SpentIn
    <3>2. BlocksIn(r)' = BlocksIn(r)
      BY <1>9, BlocksStay DEF vars
    <3> QED BY <3>1, <3>2, RegionTypes DEF RegionOK
  <2>3. /\ frame' \in [Threads -> W!Frame \cup {Undefined}]
        /\ \A t \in Threads : Placed(t)'
    BY <1>9 DEF IInv, vars, Placed
  <2> QED BY <2>1, <2>2, <2>3 DEF IInv
<1> QED BY <1>1, <1>2, <1>3, <1>4, <1>5, <1>6, <1>7, <1>8, <1>9 DEF Next

\* The invariant holds always, whatever the threads call and in which order.
THEOREM Invariance == Spec => []IInv
<1>1. IInv /\ [Next]_vars => IInv'
  BY NextKeeps
<1> QED BY <1>1, InitIInv, PTL DEF Spec

\* Every variable keeps its type: in particular the hint stays the index of a
\* word, although it is neither atomic nor protected.
THEOREM TypeCorrect == Spec => []TypeOK
<1>1. IInv => TypeOK
  BY DEF IInv
<1> QED BY <1>1, Invariance, PTL

-----------------------------------------------------------------------------
(* What the invariant says                                                 *)

\* The frame of a thread in region r as the properties see it: like the one
\* above but for a thread past the end of m_regions.
LEMMA SeenFrame ==
  ASSUME NEW r \in Regions, NEW t \in Threads,
         NEW f, f = IF region[t] = r THEN frame[t] ELSE W!Idle
  PROVE  /\ f.pc = "undo" => FramesIn(r)[t] = f
         /\ FramesIn(r)[t].pc = "undo" => FramesIn(r)[t] = f
         /\ f.failed => FramesIn(r)[t] = f
<1>1. FramesIn(r)[t] = IF region[t] = r /\ frame[t] # Undefined THEN frame[t] ELSE W!Idle
  BY DEF FramesIn
<1>2. W!Idle.pc = "idle" /\ ~ W!Idle.failed
      /\ Undefined.pc = "undefined" /\ ~ Undefined.failed
  BY IdleFrames
<1> QED BY <1>1, <1>2

\* A region of the allocator keeps what a bitmap keeps.
LEMMA RegionGives ==
  ASSUME IInv, NEW r \in Regions
  PROVE  /\ Reg(r)!BitsMatchOwners
         /\ Reg(r)!SpareBitsReturned
         /\ Reg(r)!FailureJustified
<1>1. WP!Sound(bitmap[r], FramesIn(r), BlocksIn(r), SpentIn(r))
  BY RegionTypes DEF RegionOK
<1>2. WP!Matched(bitmap[r], BlocksIn(r))
  BY <1>1, WP!SoundGives
<1>3. Reg(r)!BitsMatchOwners
  BY <1>2, SMT DEF WP!Matched, BlocksIn, IndexesIn, Reg!BitsMatchOwners, Reg!Blocks,
     Reg!BitIndex, Reg!WordIndex, WP!Blocks, WP!BitIndex, WP!WordIndex
<1> DEFINE fr == [t \in Threads |-> IF region[t] = r THEN frame[t] ELSE W!Idle]
<1>4. ASSUME NEW t \in Threads
      PROVE  /\ fr[t].pc = "undo" => FramesIn(r)[t] = fr[t]
             /\ FramesIn(r)[t].pc = "undo" => FramesIn(r)[t] = fr[t]
             /\ fr[t].failed => FramesIn(r)[t] = fr[t]
  <2>1. fr[t] = IF region[t] = r THEN frame[t] ELSE W!Idle
    OBVIOUS
  <2> HIDE DEF fr
  <2> QED BY <2>1, SeenFrame
<1>5. Reg(r)!SpareBitsReturned
  <2>1. ASSUME NEW w \in W!Words, NEW i \in W!Bits, WP!Spare(w, i), i \in bitmap[r][w]
        PROVE  \E t \in Threads :
                 /\ fr[t].pc = "undo" /\ fr[t].w = w /\ fr[t].bit = i
                 /\ \A u \in Threads \ {t} :
                      fr[u].pc = "undo" => <<fr[u].w, fr[u].bit>> # <<w, i>>
    <3> HIDE DEF fr
    <3>1. PICK t \in Threads :
            /\ FramesIn(r)[t].pc = "undo" /\ FramesIn(r)[t].w = w /\ FramesIn(r)[t].bit = i
            /\ \A u \in Threads \ {t} :
                 FramesIn(r)[u].pc = "undo" =>
                   <<FramesIn(r)[u].w, FramesIn(r)[u].bit>> # <<w, i>>
      BY <1>1, <2>1, Same, WP!SoundGives
    <3>2. fr[t].pc = "undo" /\ fr[t].w = w /\ fr[t].bit = i
      BY <1>4, <3>1
    <3>3. ASSUME NEW u \in Threads \ {t}, fr[u].pc = "undo"
          PROVE  <<fr[u].w, fr[u].bit>> # <<w, i>>
      BY <1>4, <3>1, <3>3
    <3> QED BY <3>2, <3>3
  <2> QED BY <2>1, SMT DEF Reg!SpareBitsReturned, Reg!Words, Reg!WordCount, Reg!Bits, Reg!Spare,
     Reg!GlobalIndex, Reg!Blocks, W!Words, W!WordCount, W!Bits, WP!Spare, WP!GlobalIndex,
     WP!Blocks
<1>6. Reg(r)!FailureJustified
  <2>1. ASSUME NEW t \in Threads, fr[t].failed
        PROVE  \/ SpentIn(r)[t] = W!Words
               \/ WP!Ragged /\ W!WordCount - 1 \in SpentIn(r)[t]
    <3> HIDE DEF fr
    <3>1. FramesIn(r)[t].failed
      BY <1>4, <2>1
    <3> QED BY <1>1, <3>1, Same, WP!SoundGives
  <2> QED BY <2>1, SMT DEF Reg!FailureJustified, Reg!Words, Reg!WordCount, Reg!Ragged, SpentIn,
     W!Words, W!WordCount, WP!Ragged
<1> QED BY <1>3, <1>5, <1>6

\* However many threads share a region and its racing hint, and whichever of
\* them frees its blocks: a bit is set exactly while one thread holds the
\* block, and a bit beyond the last block only while its alloc clears it.
THEOREM NoSharedBlock == Spec => []RegionsSound
<1>1. IInv => RegionsSound
  BY RegionGives DEF RegionsSound
<1> QED BY <1>1, Invariance, PTL

\* A nullptr of alloc has its reason in the thread's own region.
THEOREM FailuresJustified == Spec => []FailureJustified
<1>1. IInv => FailureJustified
  BY RegionGives DEF FailureJustified
<1> QED BY <1>1, Invariance, PTL

\* A step on blocks is one of the contract's.
LEMMA StepSimulates == ASSUME IInv, [Next]_vars PROVE [Contract!Next]_owned
<1>1. ASSUME NEW t \in Threads, AllocCas(t) PROVE [Contract!Next]_owned
  <2>1. HandsOut(t)
    BY <1>1, CasKeeps
  <2> QED BY <2>1 DEF HandsOut, Contract!Next, Contract!Alloc, Contract!Free
<1>2. ASSUME NEW t \in Threads, NEW a \in Allocators, NEW p \in Pointers, Dealloc(t, a, p)
      PROVE  Contract!Next
  BY <1>2 DEF Dealloc, Contract!Next, Contract!Dealloc
<1>3. ASSUME NEW t \in Threads, NEW u \in Threads, NEW p \in Pointers, Handoff(t, u, p)
      PROVE  Contract!Next
  BY <1>3 DEF Handoff, Contract!Next, Contract!Handoff
<1>4. ASSUME NEW t \in Threads,
             \/ \E a \in Allocators : AllocStart(t, a)
             \/ AllocLook(t) \/ Undo(t) \/ SetHint(t) \/ Exit(t)
      PROVE  UNCHANGED owned
  BY <1>4 DEF AllocStart, AllocLook, Undo, SetHint, Exit
<1>5. UNCHANGED vars => UNCHANGED owned
  BY DEF vars
<1> QED BY <1>1, <1>2, <1>3, <1>4, <1>5 DEF Next

\* The allocator implements the contract: a block that is handed out was held
\* by nobody and stays with its holder, across all regions and allocators.
THEOREM Refinement == Spec => ImplementsBlockPool
<1>1. Init => Contract!Init
  BY DEF Init, Contract!Init, Contract!Exclusive
<1>2. IInv /\ [Next]_vars => [Contract!Next]_owned
  BY StepSimulates
<1> QED BY <1>1, <1>2, Invariance, PTL DEF Spec, ImplementsBlockPool, Contract!Spec

-----------------------------------------------------------------------------
(* The indexes of a program with one allocator                             *)

\* The threads that allocate from index i, and how often round-robin over n
\* indexes has come to i after c assignments.
Sharers(i)     == {t \in Threads : region_index[t] = i}
Turns(c, n, i) == (c + n - 1 - i) \div n

\* Even sharing for allocator a.
Even(a) ==
  \A i \in 0..MaxThreads[a] - 1 :
    Cardinality(Sharers(i)) <= Turns(thread_counter[a], MaxThreads[a], i)

\* Thread t has, after a step, index i, and c indexes are assigned.
Assigns(t, a, i, c) ==
  region_index' = [region_index EXCEPT ![t] = i] /\ thread_counter'[a] = c

\* A step assigns an index, takes one away or leaves the indexes alone.
LEMMA IndexSteps ==
  ASSUME IInv, [Next]_vars, NEW a \in Allocators, Allocators = {a}
  PROVE  \/ UNCHANGED <<thread_counter, region_index>>
         \/ \E t \in Threads :
              \/ Assigns(t, a, Nil, thread_counter[a])
              \/ /\ region_index[t] # Nil
                 /\ Assigns(t, a, region_index[t], thread_counter[a])
              \/ /\ region_index[t] = Nil
                 /\ Assigns(t, a, thread_counter[a] % MaxThreads[a], thread_counter[a] + 1)
<1>1. ASSUME NEW t \in Threads, AllocStart(t, a), region_index[t] # Nil
      PROVE  Assigns(t, a, region_index[t], thread_counter[a])
  BY <1>1 DEF AllocStart, CountThread, IndexOf, Assigns
<1>2. ASSUME NEW t \in Threads, AllocStart(t, a), region_index[t] = Nil
      PROVE  Assigns(t, a, thread_counter[a] % MaxThreads[a], thread_counter[a] + 1)
  BY <1>2 DEF IInv, TypeOK, AllocStart, CountThread, IndexOf, assign_region, Assigns
<1>3. ASSUME NEW t \in Threads, Exit(t) PROVE Assigns(t, a, Nil, thread_counter[a])
  BY <1>3 DEF Exit, Assigns
<1>4. ASSUME NEW t \in Threads,
             \/ AllocLook(t) \/ AllocCas(t) \/ Undo(t) \/ SetHint(t)
             \/ \E b \in Allocators, p \in Pointers : Dealloc(t, b, p)
             \/ \E u \in Threads, p \in Pointers : Handoff(t, u, p)
      PROVE  UNCHANGED <<thread_counter, region_index>>
  BY <1>4 DEF AllocLook, AllocCas, Undo, SetHint, Dealloc, Handoff
<1>5. UNCHANGED vars => UNCHANGED <<thread_counter, region_index>>
  BY DEF vars
<1> QED BY <1>1, <1>2, <1>3, <1>4, <1>5 DEF Next

\* One more assignment is one more turn for its index, and none less for any
\* other.
LEMMA TurnsGrow ==
  ASSUME NEW c \in Nat, NEW n \in Nat \ {0}, NEW i \in 0..n - 1
  PROVE  /\ Turns(c, n, i) \in Nat /\ Turns(c + 1, n, i) \in Nat
         /\ Turns(c, n, i) <= Turns(c + 1, n, i)
         /\ i = c % n => Turns(c + 1, n, i) = Turns(c, n, i) + 1
<1>1. PICK x \in Nat : x = c + n - 1 - i
  OBVIOUS
<1>2. Turns(c, n, i) = x \div n /\ Turns(c + 1, n, i) = (x + 1) \div n
  <2>1. (c + 1) + n - 1 - i = x + 1
    BY <1>1
  <2> QED BY <1>1, <2>1 DEF Turns
<1>3. PICK q \in Nat, r \in 0..n - 1 : x = q * n + r /\ x \div n = q
  BY <1>1, WP!DivMod
<1>4. CASE r < n - 1
  <2>1. r + 1 \in 0..n - 1 /\ x + 1 = q * n + (r + 1)
    BY <1>3, <1>4
  <2>2. (x + 1) \div n = q
    BY <2>1, WP!DivModUnique
  <2>3. i # c % n
    <3> SUFFICES ASSUME i = c % n PROVE FALSE
      OBVIOUS
    <3>1. PICK k \in Nat : c = k * n + i
      BY WP!DivMod
    <3>2. n - 1 \in 0..n - 1 /\ x = k * n + (n - 1)
      BY <1>1, <3>1
    <3>3. x % n = n - 1
      BY <3>2, WP!DivModUnique
    <3>4. x % n = r
      BY <1>3, WP!DivModUnique
    <3> QED BY <1>4, <3>3, <3>4
  <2> QED BY <1>2, <1>3, <2>2, <2>3
<1>5. CASE r = n - 1
  <2>1. PICK y \in Nat : y = q + 1
    OBVIOUS
  <2>2. 0 \in 0..n - 1 /\ x + 1 = y * n + 0
    BY <1>3, <1>5, <2>1
  <2>3. (y * n + 0) \div n = y
    BY <2>2, WP!DivModUnique
  <2> QED BY <1>2, <1>3, <2>1, <2>2, <2>3
<1> QED BY <1>3, <1>4, <1>5

\* The threads of an index are finitely many; when thread t gets index j or
\* loses its index, no other index has more threads.
LEMMA SharersMove ==
  ASSUME region_index \in [Threads -> Nat \cup {Nil}], NEW t \in Threads, NEW j,
         region_index' = [region_index EXCEPT ![t] = j], NEW i \in Nat
  PROVE  /\ Cardinality(Sharers(i)) \in Nat /\ Cardinality(Sharers(i)') \in Nat
         /\ i # j => Cardinality(Sharers(i)') <= Cardinality(Sharers(i))
         /\ Cardinality(Sharers(i)') <= Cardinality(Sharers(i)) + 1
<1>1. IsFiniteSet(Sharers(i)) /\ IsFiniteSet(Sharers(i) \cup {t})
  <2>1. Sharers(i) \subseteq Threads /\ Sharers(i) \cup {t} \subseteq Threads
    BY DEF Sharers
  <2> QED BY <2>1, ThreadsAssumption, FS_Subset
<1>2. \A u \in Threads : region_index'[u] = IF u = t THEN j ELSE region_index[u]
  OBVIOUS
<1>3. /\ Sharers(i)' \subseteq Sharers(i) \cup {t}
      /\ i # j => Sharers(i)' \subseteq Sharers(i)
  BY <1>2 DEF Sharers
<1>4. Cardinality(Sharers(i)) \in Nat
  BY <1>1, FS_CardinalityType
<1>5. i # j => Cardinality(Sharers(i)') <= Cardinality(Sharers(i))
  BY <1>1, <1>3, FS_Subset
<1>6. /\ Cardinality(Sharers(i)') \in Nat
      /\ Cardinality(Sharers(i)') <= Cardinality(Sharers(i) \cup {t})
  BY <1>1, <1>3, FS_Subset, FS_CardinalityType
<1>7. Cardinality(Sharers(i) \cup {t}) <= Cardinality(Sharers(i)) + 1
  BY <1>1, <1>4, FS_AddElement
<1> QED BY <1>1, <1>4, <1>5, <1>6, <1>7, FS_CardinalityType

\* A step that assigns an index, or takes one away, keeps the sharing even.
LEMMA EvenKept ==
  ASSUME IInv, [Next]_vars, NEW a \in Allocators, Allocators = {a}, Even(a)
  PROVE  Even(a)'
<1>1. PICK c \in Nat : c = thread_counter[a]
  BY DEF IInv, TypeOK
<1>2. PICK n \in Nat \ {0} : n = MaxThreads[a]
  OBVIOUS
<1>3. region_index \in [Threads -> Nat \cup {Nil}]
  BY DEF IInv, TypeOK
<1>4. CASE UNCHANGED <<thread_counter, region_index>>
  BY <1>4 DEF Even, Sharers
<1>5. ASSUME NEW t \in Threads, NEW j, NEW d, Assigns(t, a, j, d),
             \/ j = Nil /\ d = c
             \/ j = region_index[t] /\ d = c
             \/ j = c % n /\ d = c + 1
      PROVE  Even(a)'
  <2> SUFFICES ASSUME NEW i \in 0..n - 1
               PROVE  Cardinality(Sharers(i)') <= Turns(d, n, i)
    BY <1>2, <1>5 DEF Even, Assigns
  <2>1. Cardinality(Sharers(i)) <= Turns(c, n, i)
    BY <1>1, <1>2 DEF Even
  <2>2. region_index' = [region_index EXCEPT ![t] = j] /\ i \in Nat
    BY <1>5 DEF Assigns
  <2>3. /\ Cardinality(Sharers(i)) \in Nat /\ Cardinality(Sharers(i)') \in Nat
        /\ i # j => Cardinality(Sharers(i)') <= Cardinality(Sharers(i))
        /\ Cardinality(Sharers(i)') <= Cardinality(Sharers(i)) + 1
    BY <1>3, <2>2, SharersMove
  <2>4. /\ Turns(c, n, i) \in Nat /\ Turns(c + 1, n, i) \in Nat
        /\ Turns(c, n, i) <= Turns(c + 1, n, i)
        /\ i = c % n => Turns(c + 1, n, i) = Turns(c, n, i) + 1
    BY TurnsGrow
  <2>5. CASE j = Nil /\ d = c
    BY <2>1, <2>3, <2>4, <2>5
  <2>6. CASE j = region_index[t] /\ d = c
    <3>1. region_index' = region_index
      BY <1>3, <2>2, <2>6
    <3>2. Sharers(i)' = Sharers(i)
      BY <3>1 DEF Sharers
    <3> QED BY <2>1, <2>6, <3>2
  <2>7. CASE j = c % n /\ d = c + 1
    BY <2>1, <2>3, <2>4, <2>7
  <2> QED BY <1>5, <2>5, <2>6, <2>7
<1> QED BY <1>1, <1>2, <1>4, <1>5, IndexSteps

\* The only allocator of a program gives a region to no more of its running
\* threads than round-robin over its regions accounts for, however many
\* threads have come and gone.
THEOREM SharedEvenly == Spec => []EvenSharing
<1> DEFINE Balanced == \A a \in Allocators : Allocators = {a} => Even(a)
<1>1. Init => Balanced
  <2> SUFFICES ASSUME Init, NEW a \in Allocators, NEW i \in 0..MaxThreads[a] - 1
               PROVE  Cardinality(Sharers(i)) <= Turns(thread_counter[a], MaxThreads[a], i)
    BY DEF Even
  <2>1. Sharers(i) = {}
    BY DEF Init, Sharers
  <2>2. Turns(0, MaxThreads[a], i) \in Nat /\ thread_counter[a] = 0
    <3>1. MaxThreads[a] \in Nat \ {0}
      OBVIOUS
    <3>2. thread_counter[a] = 0
      BY DEF Init
    <3> QED BY <3>1, <3>2, TurnsGrow
  <2> QED BY <2>1, <2>2, FS_EmptySet
<1>2. IInv /\ Balanced /\ [Next]_vars => Balanced'
  BY EvenKept
<1>3. Balanced => EvenSharing
  BY DEF Even, Sharers, Turns, EvenSharing
<1> HIDE DEF Balanced
<1> QED BY <1>1, <1>2, <1>3, Invariance, PTL DEF Spec
=============================================================================
