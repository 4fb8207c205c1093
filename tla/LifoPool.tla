------------------------------ MODULE LifoPool ------------------------------
(***************************************************************************)
(* What the global freelist promises its callers.  Every block is either   *)
(* free, in a stack, or held by exactly one thread; a push adds a block    *)
(* the caller holds on top of the stack, a pop hands the top of the stack  *)
(* to the caller.  Each of these is one indivisible step.  Freelist.tla    *)
(* is shown to implement this module.                                      *)
(***************************************************************************)
EXTENDS Sequences

CONSTANTS Threads, Blocks

VARIABLES
  stack,   \* the free blocks, most recently pushed first
  owned    \* owned[t]: the blocks thread t holds

vars == <<stack, owned>>

\* A pool starts empty: the thread that created it holds its whole region.
Init ==
  /\ stack = <<>>
  /\ \E creator \in Threads :
       owned = [t \in Threads |-> IF t = creator THEN Blocks ELSE {}]

Push(t, b) ==
  /\ b \in owned[t]
  /\ stack' = <<b>> \o stack
  /\ owned' = [owned EXCEPT ![t] = @ \ {b}]

Pop(t) ==
  /\ stack # <<>>
  /\ stack' = Tail(stack)
  /\ owned' = [owned EXCEPT ![t] = @ \cup {Head(stack)}]

\* A client passes a block it holds to another thread.
Handoff(t, u, b) ==
  /\ b \in owned[t]
  /\ t # u
  /\ owned' = [owned EXCEPT ![t] = @ \ {b}, ![u] = @ \cup {b}]
  /\ UNCHANGED stack

Next ==
  \/ \E t \in Threads, b \in Blocks : Push(t, b)
  \/ \E t \in Threads : Pop(t)
  \/ \E t, u \in Threads, b \in Blocks : Handoff(t, u, b)

Spec == Init /\ [][Next]_vars
=============================================================================
