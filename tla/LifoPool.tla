------------------------------ MODULE LifoPool ------------------------------
(***************************************************************************)
(* What the lists of ink_queue.cc promise their callers: a last-in         *)
(* first-out store of blocks.  A block is in the store, outside it (handed *)
(* out, or on its way in or out), or not known to the store yet.  The free *)
(* list grows the store and pushes and pops; the atomic list also takes    *)
(* everything at once and removes a given block.                           *)
(*                                                                         *)
(* stk    the blocks of the store, top first                               *)
(* out    the blocks obtained from malloc that are not in the store        *)
(***************************************************************************)
EXTENDS Naturals, Sequences

CONSTANT Items          \* the blocks malloc can hand out

VARIABLES stk, out

poolVars == <<stk, out>>

InStore == {stk[i] : i \in 1..Len(stk)}

PoolInit == stk = <<>> /\ out = {}

\* Blocks nobody has seen before arrive outside the store.
Grow(C) ==
    /\ C \subseteq Items \ (out \union InStore)
    /\ out' = out \union C
    /\ UNCHANGED stk

Push(i) ==
    /\ i \in out
    /\ stk' = <<i>> \o stk
    /\ out' = out \ {i}

Pop ==
    /\ stk # <<>>
    /\ stk' = Tail(stk)
    /\ out' = out \union {Head(stk)}

PopAll ==
    /\ stk # <<>>
    /\ stk' = <<>>
    /\ out' = out \union InStore

\* The block at place k leaves; the others keep their order.
Remove(k) ==
    /\ stk' = SubSeq(stk, 1, k - 1) \o SubSeq(stk, k + 1, Len(stk))
    /\ out' = out \union {stk[k]}

PoolNext ==
    \/ Pop
    \/ PopAll
    \/ \E k \in 1..Len(stk) : Remove(k)
    \/ \E i \in Items : Push(i)
    \/ \E C \in SUBSET Items : Grow(C)

PoolSpec == PoolInit /\ [][PoolNext]_poolVars
=============================================================================
