--------------------------- MODULE InkAtomicList ---------------------------
(***************************************************************************)
(* The atomic list of src/ts/ink_queue.cc: ink_atomiclist_push, _pop,      *)
(* _popall and _remove on items that carry their own next pointer.  As in  *)
(* InkFreeList a step is one access to shared memory, the head is a        *)
(* (pointer, version) pair, and lag with NoVersionWrap states the          *)
(* assumption on the width of the version.                                 *)
(*                                                                         *)
(* ink_queue.h allows remove only when one thread does all the pops and    *)
(* removes: Removers is empty, or it is Poppers and has one member.  The   *)
(* item given to remove is on the list, or with the calling thread.        *)
(*                                                                         *)
(* Spec uses no definition marked as a mutant.                             *)
(***************************************************************************)
EXTENDS Integers, Sequences, FiniteSets, SequencesExt

CONSTANTS Threads, Poppers, Removers, Items, NULL, VersionMod

ASSUME NullAssumption == NULL \notin Items
ASSUME VersionAssumption == VersionMod \in Nat /\ VersionMod >= 2
ASSUME RemoveAssumption ==
    /\ Poppers \subseteq Threads
    /\ Removers # {} => \E t \in Threads : Removers = {t} /\ Poppers = {t}

VARIABLES
    head,       \* l->head
    next,       \* the next pointer of every item
    owned,      \* items with the callers
    pc, snap, nxt,
    cur,        \* per thread: the item pushed, popped or to be removed
    prev,       \* per thread: where the walk of remove stands
    batch,      \* per thread: the list that popall took
    fixed,      \* per thread: the items its fix-up loop has passed
    lag,        \* per thread: pops since it loaded the head (history)
    stack       \* the items on the list, top first (history)

vars == <<head, next, owned, pc, snap, nxt, cur, prev, batch, fixed, lag, stack>>
locals == <<snap, nxt, cur, prev, batch, fixed, lag>>

Pointer == Items \union {NULL}
HeadP == [ptr : Pointer, ver : 0..(VersionMod - 1)]
NoHead == [ptr |-> NULL, ver |-> 0]
Steps == {"idle", "push_ld", "push_store", "push_cas",
          "pop_ld", "pop_next", "pop_cas", "pop_clear",
          "all_ld", "all_cas", "all_fix",
          "rem_next", "rem_ld", "rem_cas", "rem_walk", "rem_unlink", "rem_clear"}

NextVersion(v) == IF v = VersionMod - 1 THEN 0 ELSE v + 1

Init ==
    /\ head = NoHead
    /\ next = [i \in Items |-> NULL]
    /\ owned = Items
    /\ pc = [t \in Threads |-> "idle"]
    /\ snap = [t \in Threads |-> NoHead]
    /\ nxt = [t \in Threads |-> NULL]
    /\ cur = [t \in Threads |-> NULL]
    /\ prev = [t \in Threads |-> NULL]
    /\ batch = [t \in Threads |-> <<>>]
    /\ fixed = [t \in Threads |-> {}]
    /\ lag = [t \in Threads |-> 0]
    /\ stack = <<>>

Goto(t, from, to) == pc[t] = from /\ pc' = [pc EXCEPT ![t] = to]

\* A thread that will compare its loaded head with l->head to take items.
Taking(t) == pc[t] \in {"pop_next", "pop_cas", "all_cas", "rem_cas"}

NoVersionWrap(t) == \A u \in Threads \ {t} : Taking(u) => lag[u] < VersionMod - 1

\* The load of the head by a thread that wants to take items.
LoadHead(t) ==
    /\ snap' = [snap EXCEPT ![t] = head]
    /\ lag' = [lag EXCEPT ![t] = 0]

\* Mutant: only the pointer is compared, not the version.
SwapHeadByPointer(t, p) ==
    /\ head.ptr = snap[t].ptr
    /\ NoVersionWrap(t)
    /\ head' = [ptr |-> p, ver |-> NextVersion(snap[t].ver)]
    /\ lag' = [u \in Threads |-> IF u # t /\ Taking(u) THEN lag[u] + 1 ELSE 0]

\* The compare-and-swap of a take: the version moves on.
SwapHead(t, p) ==
    /\ head = snap[t]
    /\ NoVersionWrap(t)
    /\ head' = [ptr |-> p, ver |-> NextVersion(snap[t].ver)]
    /\ lag' = [u \in Threads |-> IF u # t /\ Taking(u) THEN lag[u] + 1 ELSE 0]

-----------------------------------------------------------------------------
(* ink_atomiclist_push *)

PushCall(t) ==
    /\ Goto(t, "idle", "push_ld")
    /\ \E i \in owned :
          /\ owned' = owned \ {i}
          /\ cur' = [cur EXCEPT ![t] = i]
    /\ UNCHANGED <<head, next, snap, nxt, prev, batch, fixed, lag, stack>>

PushLoad(t) ==
    /\ Goto(t, "push_ld", "push_store")
    /\ snap' = [snap EXCEPT ![t] = head]
    /\ UNCHANGED <<head, next, owned, nxt, cur, prev, batch, fixed, lag, stack>>

PushStore(t) ==
    /\ Goto(t, "push_store", "push_cas")
    /\ next' = [next EXCEPT ![cur[t]] = snap[t].ptr]
    /\ UNCHANGED <<head, owned, locals, stack>>

PushCas(t) ==
    /\ pc[t] = "push_cas"
    /\ IF head = snap[t]
         THEN /\ head' = [ptr |-> cur[t], ver |-> snap[t].ver]
              /\ stack' = <<cur[t]>> \o stack
              /\ pc' = [pc EXCEPT ![t] = "idle"]
              /\ cur' = [cur EXCEPT ![t] = NULL]
         ELSE /\ pc' = [pc EXCEPT ![t] = "push_ld"]
              /\ UNCHANGED <<head, stack, cur>>
    /\ snap' = [snap EXCEPT ![t] = NoHead]
    /\ UNCHANGED <<next, owned, nxt, prev, batch, fixed, lag>>

-----------------------------------------------------------------------------
(* ink_atomiclist_pop *)

PopCall(t) ==
    /\ t \in Poppers
    /\ Goto(t, "idle", "pop_ld")
    /\ UNCHANGED <<head, next, owned, locals, stack>>

\* An empty list ends the call with NULL.
PopLoad(t) ==
    /\ pc[t] = "pop_ld"
    /\ IF head.ptr = NULL
         THEN /\ pc' = [pc EXCEPT ![t] = "idle"]
              /\ UNCHANGED <<snap, lag>>
         ELSE /\ pc' = [pc EXCEPT ![t] = "pop_next"]
              /\ LoadHead(t)
    /\ UNCHANGED <<head, next, owned, nxt, cur, prev, batch, fixed, stack>>

PopNext(t) ==
    /\ Goto(t, "pop_next", "pop_cas")
    /\ nxt' = [nxt EXCEPT ![t] = next[snap[t].ptr]]
    /\ UNCHANGED <<head, next, owned, snap, cur, prev, batch, fixed, lag, stack>>

\* Mutant: the result of the compare-and-swap is not looked at.
PopCasUnchecked(t) ==
    /\ Goto(t, "pop_cas", "pop_clear")
    /\ \/ SwapHead(t, nxt[t]) /\ stack' = Tail(stack)
       \/ head # snap[t] /\ UNCHANGED <<head, lag, stack>>
    /\ cur' = [cur EXCEPT ![t] = snap[t].ptr]
    /\ snap' = [snap EXCEPT ![t] = NoHead]
    /\ nxt' = [nxt EXCEPT ![t] = NULL]
    /\ UNCHANGED <<next, owned, prev, batch, fixed>>

PopCas(t) ==
    /\ pc[t] = "pop_cas"
    /\ \/ /\ SwapHead(t, nxt[t])
          /\ cur' = [cur EXCEPT ![t] = snap[t].ptr]
          /\ stack' = Tail(stack)
          /\ pc' = [pc EXCEPT ![t] = "pop_clear"]
       \/ /\ head # snap[t]
          /\ pc' = [pc EXCEPT ![t] = "pop_ld"]
          /\ UNCHANGED <<head, lag, cur, stack>>
    /\ snap' = [snap EXCEPT ![t] = NoHead]
    /\ nxt' = [nxt EXCEPT ![t] = NULL]
    /\ UNCHANGED <<next, owned, prev, batch, fixed>>

\* The next pointer of a popped or removed item is cleared before the return.
Clear(t) ==
    /\ pc[t] \in {"pop_clear", "rem_clear"}
    /\ pc' = [pc EXCEPT ![t] = "idle"]
    /\ next' = [next EXCEPT ![cur[t]] = NULL]
    /\ owned' = owned \union {cur[t]}
    /\ cur' = [cur EXCEPT ![t] = NULL]
    /\ UNCHANGED <<head, snap, nxt, prev, batch, fixed, lag, stack>>

-----------------------------------------------------------------------------
(* ink_atomiclist_popall *)

AllCall(t) ==
    /\ t \in Poppers
    /\ Goto(t, "idle", "all_ld")
    /\ UNCHANGED <<head, next, owned, locals, stack>>

AllLoad(t) ==
    /\ pc[t] = "all_ld"
    /\ IF head.ptr = NULL
         THEN /\ pc' = [pc EXCEPT ![t] = "idle"]
              /\ UNCHANGED <<snap, lag>>
         ELSE /\ pc' = [pc EXCEPT ![t] = "all_cas"]
              /\ LoadHead(t)
    /\ UNCHANGED <<head, next, owned, nxt, cur, prev, batch, fixed, stack>>

AllCas(t) ==
    /\ pc[t] = "all_cas"
    /\ \/ /\ SwapHead(t, NULL)
          /\ cur' = [cur EXCEPT ![t] = snap[t].ptr]
          /\ batch' = [batch EXCEPT ![t] = stack]
          /\ stack' = <<>>
          /\ pc' = [pc EXCEPT ![t] = "all_fix"]
       \/ /\ head # snap[t]
          /\ pc' = [pc EXCEPT ![t] = "all_ld"]
          /\ UNCHANGED <<head, lag, cur, batch, stack>>
    /\ snap' = [snap EXCEPT ![t] = NoHead]
    /\ UNCHANGED <<next, owned, nxt, prev, fixed>>

\* One turn of the fix-up loop (in a release build it rewrites the pointer it
\* reads); at the end of the chain the items go to the caller.
AllFix(t) ==
    /\ pc[t] = "all_fix"
    /\ IF cur[t] = NULL
         THEN /\ pc' = [pc EXCEPT ![t] = "idle"]
              /\ owned' = owned \union fixed[t]
              /\ fixed' = [fixed EXCEPT ![t] = {}]
              /\ batch' = [batch EXCEPT ![t] = <<>>]
              /\ UNCHANGED cur
         ELSE /\ cur' = [cur EXCEPT ![t] = next[cur[t]]]
              /\ fixed' = [fixed EXCEPT ![t] = @ \union {cur[t]}]
              /\ UNCHANGED <<pc, owned, batch>>
    /\ UNCHANGED <<head, next, snap, nxt, prev, lag, stack>>

-----------------------------------------------------------------------------
(* ink_atomiclist_remove *)

Listed == {stack[i] : i \in 1..Len(stack)}

RemoveCall(t) ==
    /\ t \in Removers
    /\ Goto(t, "idle", "rem_next")
    /\ \E i \in Listed \union owned :
          /\ cur' = [cur EXCEPT ![t] = i]
          /\ owned' = owned \ {i}
    /\ UNCHANGED <<head, next, snap, nxt, prev, batch, fixed, lag, stack>>

\* item_next = *addr_next, read once, before anything else
RemoveNext(t) ==
    /\ Goto(t, "rem_next", "rem_ld")
    /\ nxt' = [nxt EXCEPT ![t] = next[cur[t]]]
    /\ UNCHANGED <<head, next, owned, snap, cur, prev, batch, fixed, lag, stack>>

\* While the item is first it is popped; otherwise the list is walked.
RemoveLoad(t) ==
    /\ pc[t] = "rem_ld"
    /\ IF head.ptr = cur[t]
         THEN /\ pc' = [pc EXCEPT ![t] = "rem_cas"]
              /\ LoadHead(t)
              /\ UNCHANGED prev
         ELSE /\ pc' = [pc EXCEPT ![t] = "rem_walk"]
              /\ prev' = [prev EXCEPT ![t] = head.ptr]
              /\ UNCHANGED <<snap, lag>>
    /\ UNCHANGED <<head, next, owned, nxt, cur, batch, fixed, stack>>

RemoveCas(t) ==
    /\ pc[t] = "rem_cas"
    /\ \/ /\ SwapHead(t, nxt[t])
          /\ stack' = Tail(stack)
          /\ pc' = [pc EXCEPT ![t] = "rem_clear"]
          /\ nxt' = [nxt EXCEPT ![t] = NULL]
       \/ /\ head # snap[t]
          /\ pc' = [pc EXCEPT ![t] = "rem_ld"]
          /\ UNCHANGED <<head, lag, nxt, stack>>
    /\ snap' = [snap EXCEPT ![t] = NoHead]
    /\ UNCHANGED <<next, owned, cur, prev, batch, fixed>>

\* Mutant: the walk returns to the head each time.
WalkFromHead(t) ==
    /\ pc[t] = "rem_walk"
    /\ IF prev[t] # NULL /\ next[prev[t]] = cur[t]
         THEN pc' = [pc EXCEPT ![t] = "rem_unlink"] /\ UNCHANGED prev
         ELSE prev' = [prev EXCEPT ![t] = head.ptr] /\ UNCHANGED pc
    /\ UNCHANGED <<head, next, owned, snap, nxt, cur, batch, fixed, lag, stack>>

\* One turn of the walk: the read of prev's next pointer.  Past the end of
\* the list the item was not there and stays with its holder.
RemoveWalk(t) ==
    /\ pc[t] = "rem_walk"
    /\ \/ /\ prev[t] = NULL
          /\ pc' = [pc EXCEPT ![t] = "idle"]
          /\ owned' = owned \union {cur[t]}
          /\ cur' = [cur EXCEPT ![t] = NULL]
          /\ nxt' = [nxt EXCEPT ![t] = NULL]
          /\ UNCHANGED prev
       \/ /\ prev[t] # NULL
          /\ next[prev[t]] = cur[t]
          /\ pc' = [pc EXCEPT ![t] = "rem_unlink"]
          /\ UNCHANGED <<owned, cur, nxt, prev>>
       \/ /\ prev[t] # NULL
          /\ next[prev[t]] # cur[t]
          /\ prev' = [prev EXCEPT ![t] = next[prev[t]]]
          /\ UNCHANGED <<pc, owned, cur, nxt>>
    /\ UNCHANGED <<head, next, snap, batch, fixed, lag, stack>>

Without(s, x) ==
    LET k == CHOOSE j \in 1..Len(s) : s[j] = x
    IN  [j \in 1..(Len(s) - 1) |-> IF j < k THEN s[j] ELSE s[j + 1]]

\* Mutant: the rest of the list is cut off.
UnlinkCutsList(t) ==
    /\ Goto(t, "rem_unlink", "rem_clear")
    /\ next' = [next EXCEPT ![prev[t]] = NULL]
    /\ stack' = Without(stack, cur[t])
    /\ prev' = [prev EXCEPT ![t] = NULL]
    /\ nxt' = [nxt EXCEPT ![t] = NULL]
    /\ UNCHANGED <<head, owned, snap, cur, batch, fixed, lag>>

RemoveUnlink(t) ==
    /\ Goto(t, "rem_unlink", "rem_clear")
    /\ next' = [next EXCEPT ![prev[t]] = nxt[t]]
    /\ stack' = Without(stack, cur[t])
    /\ prev' = [prev EXCEPT ![t] = NULL]
    /\ nxt' = [nxt EXCEPT ![t] = NULL]
    /\ UNCHANGED <<head, owned, snap, cur, batch, fixed, lag>>

-----------------------------------------------------------------------------
\* The holder of an item uses its next pointer for lists of its own.
HolderWrite(i) ==
    /\ i \in owned
    /\ \E p \in Pointer : next' = [next EXCEPT ![i] = p]
    /\ UNCHANGED <<head, owned, pc, locals, stack>>

Caller(t) == PushCall(t) \/ PopCall(t) \/ AllCall(t) \/ RemoveCall(t)
ThreadStep(t) ==
    \/ PushLoad(t) \/ PushStore(t) \/ PushCas(t)
    \/ PopLoad(t) \/ PopNext(t) \/ PopCas(t) \/ Clear(t)
    \/ AllLoad(t) \/ AllCas(t) \/ AllFix(t)
    \/ RemoveNext(t) \/ RemoveLoad(t) \/ RemoveCas(t) \/ RemoveWalk(t)
    \/ RemoveUnlink(t)

Next ==
    \/ \E t \in Threads : Caller(t) \/ ThreadStep(t)
    \/ \E i \in Items : HolderWrite(i)

Spec == Init /\ [][Next]_vars

-----------------------------------------------------------------------------
(* Properties *)

TypeOK ==
    /\ head \in HeadP
    /\ next \in [Items -> Pointer]
    /\ owned \subseteq Items
    /\ pc \in [Threads -> Steps]
    /\ snap \in [Threads -> HeadP]
    /\ nxt \in [Threads -> Pointer]
    /\ cur \in [Threads -> Pointer]
    /\ prev \in [Threads -> Pointer]
    /\ batch \in [Threads -> Seq(Items)]
    /\ fixed \in [Threads -> SUBSET Items]
    /\ lag \in [Threads -> 0..(VersionMod - 1)]
    /\ stack \in Seq(Items)

At(s, i) == IF i \in 1..Len(s) THEN s[i] ELSE NULL
IsChain(s) == \A i \in 1..Len(s) : next[s[i]] = At(s, i + 1)

\* From l->head the next pointers visit exactly the items pushed and not
\* taken since, last pushed first, each once, and end in NULL.  A pop with an
\* outdated next pointer, or a remove that overtakes a push, would lose items.
ListIntact ==
    /\ head.ptr = At(stack, 1)
    /\ IsChain(stack)
    /\ IsInjective(stack)

\* What popall took stays a private list: nobody changes it while the fix-up
\* loop runs, and the loop has passed a prefix of it.
BatchIntact ==
    \A t \in Threads : pc[t] = "all_fix" =>
       /\ IsChain(batch[t])
       /\ \E k \in 0..Len(batch[t]) :
             /\ fixed[t] = {batch[t][i] : i \in 1..k}
             /\ cur[t] = At(batch[t], k + 1)

\* The items in the hands of a thread inside a call.
Removing(t) ==
    pc[t] \in {"rem_next", "rem_ld", "rem_cas", "rem_walk", "rem_unlink"}
Private(t) ==
    {batch[t][i] : i \in 1..Len(batch[t])}
    \union IF \/ pc[t] \in {"push_ld", "push_store", "push_cas", "pop_clear",
                            "rem_clear"}
              \/ Removing(t) /\ cur[t] \notin Listed
             THEN {cur[t]} ELSE {}

\* No item is in two places, and none is lost: the list, the callers and the
\* hands of the threads hold every item exactly once.
ItemsPartitioned ==
    /\ \A t \in Threads : Private(t) \intersect (owned \union Listed) = {}
    /\ \A t, u \in Threads : t # u => Private(t) \intersect Private(u) = {}
    /\ owned \intersect Listed = {}
    /\ owned \union Listed \union UNION {Private(t) : t \in Threads} = Items

ListSafe == ListIntact /\ BatchIntact /\ ItemsPartitioned

\* The two ink_asserts: a push never finds its item on top, and a remove never
\* finds the item's successor in front of it.
AssertsHold ==
    \A t \in Threads :
       /\ pc[t] \in {"push_store", "push_cas"} => snap[t].ptr # cur[t]
       /\ pc[t] = "rem_unlink" => prev[t] # nxt[t]

\* What a thread inside a call relies on.  Only poppers take items and only
\* the remover removes; the version tells a thread how many takes it missed
\* since it loaded the head, and while it missed none the item it loaded is
\* listed with the next pointer it read; the item a remove looks for keeps
\* the next pointer the remove began with, and does not lie behind its walk.
PopSteps == {"pop_ld", "pop_next", "pop_cas", "pop_clear", "all_ld", "all_cas", "all_fix"}
RemSteps == {"rem_next", "rem_ld", "rem_cas", "rem_walk", "rem_unlink", "rem_clear"}

InCall(t) ==
    /\ pc[t] \in PopSteps => t \in Poppers
    /\ pc[t] \in RemSteps => t \in Removers
    /\ pc[t] # "all_fix" => batch[t] = <<>> /\ fixed[t] = {}
    /\ pc[t] \in {"push_ld", "push_store", "push_cas", "pop_clear"} \union RemSteps
          => cur[t] # NULL

HeadValid(t) ==
    /\ Taking(t) =>
          /\ snap[t].ptr # NULL
          /\ head.ver = IF snap[t].ver + lag[t] >= VersionMod
                          THEN snap[t].ver + lag[t] - VersionMod
                          ELSE snap[t].ver + lag[t]
          /\ lag[t] = 0 => snap[t].ptr \in Listed
    /\ pc[t] = "pop_cas" /\ lag[t] = 0 => nxt[t] = next[snap[t].ptr]
    /\ pc[t] \in {"push_store", "push_cas"} => snap[t].ptr # cur[t]
    /\ pc[t] = "push_cas" => next[cur[t]] = snap[t].ptr

WalkValid(t) ==
    /\ pc[t] \in {"rem_ld", "rem_cas", "rem_walk", "rem_unlink"} => nxt[t] = next[cur[t]]
    /\ pc[t] = "rem_cas" => snap[t].ptr = cur[t]
    /\ pc[t] = "rem_walk" /\ prev[t] = NULL => cur[t] \notin Listed
    /\ pc[t] = "rem_walk" /\ prev[t] # NULL =>
          \E i \in 1..Len(stack) : /\ stack[i] = prev[t]
                                   /\ \A j \in 1..i : stack[j] # cur[t]
    /\ pc[t] = "rem_unlink" =>
          \E i \in 1..Len(stack) : /\ i + 1 \in 1..Len(stack)
                                   /\ stack[i] = prev[t] /\ stack[i + 1] = cur[t]

\* The inductive invariant of the proofs.
IndInv ==
    /\ TypeOK
    /\ ListSafe
    /\ \A t \in Threads : InCall(t) /\ HeadValid(t) /\ WalkValid(t)

\* Every call is an atomic push, pop, popall or remove of the pool.
Outside == owned \union UNION {Private(t) : t \in Threads}
PoolStep == INSTANCE LifoPool WITH stk <- stack, out <- Outside
ImplementsPool == [][PoolStep!PoolNext]_<<stack, Outside>>
=============================================================================
