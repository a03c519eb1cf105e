-------------------------- MODULE MCInkAtomicList ---------------------------
(*****************************************************************************)
(* InkAtomicList for TLC: two threads that both pop, or one that pops and    *)
(* removes while the other pushes; three items, so that a removed item has a *)
(* neighbour on both sides; and the progress of InkFreeList. The last two    *)
(* use no model value, so that the symmetry of the first leaves their        *)
(* liveness alone.                                                           *)
(*****************************************************************************)
EXTENDS InkAtomicList, TLC

VARIABLES part,   \* the component that runs
          l_head, l_next, l_owned, l_pc, l_snap, l_nxt, l_cur, l_prev, l_batch, l_fixed, l_lag, l_stack, l_used,
          l_allocated, l_fresh, l_chunk, l_filling, l_fatal


ItemPerms == Permutations(Items)
LiveThreads == {"t1", "t2"}

-----------------------------------------------------------------------------
Remover == INSTANCE InkAtomicList WITH
    head <- l_head, next <- l_next, owned <- l_owned, pc <- l_pc, snap <- l_snap, nxt <- l_nxt, cur <- l_cur,
    prev <- l_prev, batch <- l_batch, fixed <- l_fixed, lag <- l_lag, stack <- l_stack, Threads <- LiveThreads,
    Poppers <- {"t1"}, Removers <- {"t1"}, Items <- {"a", "b", "c"}, NULL <- "null", VersionMod <- 3
FreeList == INSTANCE InkFreeList WITH
    head <- l_head, next <- l_next, used <- l_used, allocated <- l_allocated, fresh <- l_fresh,
    owned <- l_owned, pc <- l_pc, snap <- l_snap, nxt <- l_nxt, cur <- l_cur, chunk <- l_chunk,
    filling <- l_filling, fatal <- l_fatal, lag <- l_lag, stack <- l_stack, Threads <- LiveThreads,
    Items <- {"a", "b"}, NULL <- "null", ChunkSize <- 2, VersionMod <- 3, UIntMod <- 8

(* the variables of the components that do not run are idle, those of InkAtomicList in an initial state *)
IdleInkAtomicList == l_head = "idle" /\ l_next = "idle" /\ l_owned = "idle" /\ l_pc = "idle" /\ l_snap = "idle" /\ l_nxt = "idle"
    /\ l_cur = "idle" /\ l_prev = "idle" /\ l_batch = "idle" /\ l_fixed = "idle" /\ l_lag = "idle"
    /\ l_stack = "idle" /\ l_used = "idle" /\ l_allocated = "idle" /\ l_fresh = "idle" /\ l_chunk = "idle"
    /\ l_filling = "idle" /\ l_fatal = "idle"
KeepInkAtomicList == UNCHANGED <<part, l_head, l_next, l_owned, l_pc, l_snap, l_nxt, l_cur, l_prev, l_batch, l_fixed, l_lag, l_stack, l_used,
    l_allocated, l_fresh, l_chunk, l_filling, l_fatal>>
IdleInkAtomicList2 == Init /\ l_used = "idle" /\ l_allocated = "idle" /\ l_fresh = "idle" /\ l_chunk = "idle" /\ l_filling = "idle"
    /\ l_fatal = "idle"
KeepInkAtomicList2 == UNCHANGED <<part, head, next, owned, pc, snap, nxt, cur, prev, batch, fixed, lag, stack, l_used, l_allocated, l_fresh,
    l_chunk, l_filling, l_fatal>>
IdleInkFreeList == Init /\ l_prev = "idle" /\ l_batch = "idle" /\ l_fixed = "idle"
KeepInkFreeList == UNCHANGED <<part, head, next, owned, pc, snap, nxt, cur, prev, batch, fixed, lag, stack, l_prev, l_batch, l_fixed>>

MCInit ==
    \/ part = "pop" /\ Init /\ IdleInkAtomicList
    \/ part = "remove" /\ Remover!Init /\ IdleInkAtomicList2
    \/ part = "freelist" /\ FreeList!Init /\ IdleInkFreeList
MCNext ==
    \/ part = "pop" /\ Next /\ KeepInkAtomicList
    \/ part = "remove" /\ Remover!Next /\ KeepInkAtomicList2
    \/ part = "freelist" /\ FreeList!Next /\ KeepInkFreeList
mcvars == <<part, head, next, owned, pc, snap, nxt, cur, prev, batch, fixed, lag, stack, l_head, l_next,
            l_owned, l_pc, l_snap, l_nxt, l_cur, l_prev, l_batch, l_fixed, l_lag, l_stack, l_used, l_allocated,
            l_fresh, l_chunk, l_filling, l_fatal>>
(* A thread inside a call goes on. *)
ListStep(t) == part = "remove" /\ Remover!ThreadStep(t) /\ KeepInkAtomicList2
FreeListStep(t) == part = "freelist" /\ FreeList!ThreadStep(t) /\ KeepInkFreeList
MCFair == \A t \in LiveThreads : WF_mcvars(ListStep(t)) /\ WF_mcvars(FreeListStep(t))
MCSpec == MCInit /\ [][MCNext]_mcvars /\ MCFair

-----------------------------------------------------------------------------
(* Under either contract what a thread inside a call relies on stays true (IndInv): what it loaded is the
   head's version minus the pops it missed, and the place a remove has reached is still on the list while
   the other thread keeps pushing in front of it; and no ink_assert of push or remove fails. *)
RemoveSafe == /\ part = "pop" => IndInv
              /\ part = "remove" => Remover!IndInv /\ Remover!AssertsHold
(* A remove ends: its walk goes down a list that only its own thread shortens.  And the free list is lock
   free: a compare-and-swap fails only because another went through. *)
ListsProgress ==
    /\ (part = "remove" /\ l_pc["t1"] = "rem_walk") ~> (part = "remove" /\ l_pc["t1"] = "idle")
    /\ \/ <>(part # "freelist" \/ l_fatal)
       \/ <>[](part = "freelist" /\ \A t \in LiveThreads : l_pc[t] = "idle")
       \/ []<><<part = "freelist" /\ \E t \in LiveThreads : FreeList!NewReturn(t) \/ FreeList!FreeReturn(t)>>_mcvars
=============================================================================
