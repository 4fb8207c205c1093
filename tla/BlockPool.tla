----------------------------- MODULE BlockPool ------------------------------
(***************************************************************************)
(* What every allocator of the library promises its clients, whatever it   *)
(* is built from: a block that is handed out was held by nobody, and stays *)
(* with its holder until the holder gives it back or passes it on.  An     *)
(* allocator may refuse a request: that changes nothing here.              *)
(***************************************************************************)
CONSTANTS Threads, Blocks

VARIABLE owned   \* owned[t]: the blocks thread t holds

Exclusive == \A t, u \in Threads : t # u => owned[t] \cap owned[u] = {}

Free == {b \in Blocks : \A t \in Threads : b \notin owned[t]}

\* Every block is free, or the creator still has to put some into the pool.
Init == owned \in [Threads -> SUBSET Blocks] /\ Exclusive

Alloc(t, b) ==
  /\ b \in Free
  /\ owned' = [owned EXCEPT ![t] = @ \cup {b}]

Dealloc(t, b) ==
  /\ b \in owned[t]
  /\ owned' = [owned EXCEPT ![t] = @ \ {b}]

Handoff(t, u, b) ==
  /\ b \in owned[t] /\ t # u
  /\ owned' = [owned EXCEPT ![t] = @ \ {b}, ![u] = @ \cup {b}]

Next ==
  \/ \E t \in Threads, b \in Blocks : Alloc(t, b) \/ Dealloc(t, b)
  \/ \E t, u \in Threads, b \in Blocks : Handoff(t, u, b)

Spec == Init /\ [][Next]_owned
=============================================================================
