----------------------------- MODULE AllocStats -----------------------------
(***************************************************************************)
(* The instrumentation of include/alloc_stats.hpp, compiled in with        *)
(* ALLOC_INSTRUMENTATION and ALLOC_DEBUG, around ThreadCache: counters and *)
(* a set of live pointers, both thread_local.  alloc puts a block into the *)
(* set of its thread; dealloc takes it out of the set of ITS thread, and   *)
(* reports an error if it is not there, but frees the block all the same.  *)
(***************************************************************************)
EXTENDS TlFreelist

CONSTANT MaxCount   \* bound: the allocs and deallocs that a thread may count

ASSUME MaxCountAssumption == MaxCount \in Nat

VARIABLES
  stats,     \* stats[t]: tl_alloc_stats
  live,      \* live[t]: tl_debug_state.live
  count,     \* count[t]: count in flush, the blocks that it is returning
  reported,  \* the blocks of which an error was reported
  issued,    \* auxiliary: issued[t]: the blocks that alloc gave to thread t and
             \* that nobody has freed since
  strayed    \* auxiliary: the blocks that were ever freed by a thread other
             \* than the one alloc gave them to

svars == <<stats, live, count, reported, issued, strayed>>

Zero == [allocs |-> 0, deallocs |-> 0, refills |-> 0, flushes |-> 0,
         refill_blocks |-> 0, flush_blocks |-> 0]

SInit ==
  /\ Init
  /\ stats = [t \in Threads |-> Zero]
  /\ live = [t \in Threads |-> {}]
  /\ count = [t \in Threads |-> 0]
  /\ reported = {} /\ strayed = {}
  /\ issued = [t \in Threads |-> {}]

\* alloc_debug_on_alloc and the counter, if a block is handed out.
OnAlloc(t, st) ==
  LET new == owned'[t] \ owned[t] IN
  /\ stats' = [stats EXCEPT ![t] = [st EXCEPT !.allocs = st.allocs + Cardinality(new)]]
  /\ live' = [live EXCEPT ![t] = @ \cup new]
  /\ issued' = [issued EXCEPT ![t] = @ \cup new]
  /\ UNCHANGED <<count, reported, strayed>>

SAlloc(t, p) ==
  /\ stats[t].allocs < MaxCount
  /\ Alloc(t, <<p>>)
  /\ OnAlloc(t, stats[t])

\* Mutant of AfterRefill: no early return, so an empty batch counts as one block.
AfterRefillAlways(t) ==
  [stats[t] EXCEPT !.refills = @ + 1, !.refill_blocks = @ + Max({1, Len(frame[t].batch)})]

\* The counters at the end of refill, which returns early without a batch.
AfterRefill(t) ==
  IF frame[t].batch = <<>> THEN stats[t]
  ELSE [stats[t] EXCEPT !.refills = @ + 1, !.refill_blocks = @ + Len(frame[t].batch)]

SRefillUnlock(t) == RefillUnlock(t) /\ OnAlloc(t, AfterRefill(t))

\* Mutant of Erased: the pointer stays in the set.
ErasedNot(t, b) == live

\* alloc_debug_on_dealloc.
Erased(t, b) == [live EXCEPT ![t] = @ \ {b}]

SDealloc(t, b) ==
  /\ stats[t].deallocs < MaxCount
  /\ Dealloc(t, b, source[b])
  /\ stats' = [stats EXCEPT ![t].deallocs = @ + 1]
  /\ count' = [count EXCEPT ![t] = Len(frame'[t].batch)]
  /\ live' = Erased(t, b)
  /\ reported' = IF b \in live[t] THEN reported ELSE reported \cup {b}
  /\ issued' = [u \in Threads |-> issued[u] \ {b}]
  /\ strayed' = IF b \in issued[t] THEN strayed ELSE strayed \cup {b}

\* The counters at the end of flush.
AfterFlush(t) ==
  [stats[t] EXCEPT !.flushes = @ + 1, !.flush_blocks = @ + count[t]]

SFlushUnlock(t) ==
  /\ FlushUnlock(t)
  /\ stats' = [stats EXCEPT ![t] = AfterFlush(t)]
  /\ count' = [count EXCEPT ![t] = 0]
  /\ UNCHANGED <<live, reported, issued, strayed>>

SHandoff(t, u, b) ==
  /\ Handoff(t, u, b)
  /\ UNCHANGED svars

SExit(t) ==
  /\ Exit(t)
  /\ stats' = [stats EXCEPT ![t] = Zero]
  /\ live' = [live EXCEPT ![t] = {}]
  /\ issued' = [issued EXCEPT ![t] = {}]
  /\ UNCHANGED <<count, reported, strayed>>

\* The steps that the instrumentation does not see.
Silent ==
  /\ \/ \E t \in Threads : \/ RefillLock(t) \/ RefillPop(t) \/ RefillEmpty(t)
                           \/ FlushLock(t) \/ FlushPush(t)
     \/ \E p \in Pools : Destroy({p})
     \/ Ended
  /\ UNCHANGED svars

SNext ==
  \/ \E t \in Threads :
       \/ \E p \in Pools : SAlloc(t, p)
       \/ SRefillUnlock(t) \/ SFlushUnlock(t)
       \/ \E b \in Blocks : SDealloc(t, b) \/ \E u \in Threads : SHandoff(t, u, b)
       \/ SExit(t)
  \/ Silent

SSpec == SInit /\ [][SNext]_<<vars, svars>>
-----------------------------------------------------------------------------
(* Properties                                                              *)

\* The books balance at every moment: what came into a thread's cache by
\* refills and deallocs and did not leave it by allocs and flushes, those still
\* to be counted included, is there.
StatsBalance ==
  \A t \in Threads, s \in Slots :
    cache[t][s].size + stats[t].allocs + stats[t].flush_blocks + count[t]
      = stats[t].refill_blocks + stats[t].deallocs

\* The detector knows every block of its thread's allocs until somebody frees
\* it, whoever holds it meanwhile and whatever was freed elsewhere before: the
\* thread's own dealloc of it is never reported.  A pointer left behind in the
\* set, which hides a double free, and a report of a correct dealloc need a
\* block that was freed by a thread other than the one that allocated it.
DetectorExact ==
  /\ \A t \in Threads : issued[t] \subseteq live[t] /\ live[t] \ issued[t] \subseteq strayed
  /\ reported \subseteq strayed

\* An error is reported only for a double free or an invalid pointer.  (All
\* calls of dealloc here are correct.)
ReportsGenuine == reported = {}
=============================================================================
