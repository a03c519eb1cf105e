---------------------------- MODULE InkFreeList ----------------------------
(***************************************************************************)
(* The lock-free free list of src/ts/ink_queue.cc (ink_freelist_new and    *)
(* ink_freelist_free, built with TS_USE_FREELIST and without               *)
(* TS_USE_RECLAIMABLE_FREELIST): a linked stack of memory blocks whose     *)
(* head is a (pointer, version) pair changed only by compare-and-swap.     *)
(*                                                                         *)
(* Each step of a thread is one access to shared memory: the load of the   *)
(* head, the load or the store of a block's next pointer (the block's      *)
(* first word), the compare-and-swap, an atomic increment of a counter.    *)
(* A caller that holds a block writes what it likes into it, so the word   *)
(* that a slow thread takes for a next pointer may be anything.            *)
(*                                                                         *)
(* The version has a finite width (16 bits of the head word on x86-64, 32  *)
(* or 64 elsewhere): VersionMod is the number of versions.  The algorithm  *)
(* needs a scheduler that never lets VersionMod pops happen between a      *)
(* thread's load of the head and its compare-and-swap; lag counts them and *)
(* NoVersionWrap states that assumption.                                   *)
(*                                                                         *)
(* Spec uses no definition marked as a mutant.                             *)
(***************************************************************************)
EXTENDS Integers, Sequences, FiniteSets, TLC

CONSTANTS
    Threads,
    Items,          \* the addresses of the blocks malloc can return
    NULL,           \* the null pointer
    ChunkSize,      \* f->chunk_size
    VersionMod,     \* number of values of the version field
    UIntMod         \* number of values of the counters (2^32 in the code)

ASSUME NullAssumption == NULL \notin Items
ASSUME ChunkAssumption == ChunkSize \in Nat \ {0}
ASSUME VersionAssumption == VersionMod \in Nat /\ VersionMod >= 2
ASSUME UIntAssumption == UIntMod \in Nat \ {0}

VARIABLES
    head,       \* f->head: pointer and version
    next,       \* first word of every block
    used,       \* f->used
    allocated,  \* f->allocated
    fresh,      \* blocks malloc has not returned yet
    owned,      \* blocks in the hands of the callers
    pc,         \* per thread: the next shared-memory access
    snap,       \* per thread: the head it loaded (item in new, h in free)
    nxt,        \* per thread: the next pointer it loaded (next.pointer)
    cur,        \* per thread: the block it pushes or has just popped
    chunk,      \* per thread: blocks of a new chunk still to be pushed
    filling,    \* per thread: inside the loop that frees a new chunk
    fatal,      \* malloc failed and ink_fatal ended the process
    lag,        \* per thread: pops since it loaded the head (history)
    stack       \* the blocks on the list, top first (history)

vars == <<head, next, used, allocated, fresh, owned, pc, snap, nxt, cur,
          chunk, filling, fatal, lag, stack>>

locals == <<snap, nxt, cur, chunk, filling, lag>>

Pointer == Items \union {NULL}
HeadP == [ptr : Pointer, ver : 0..(VersionMod - 1)]
NoHead == [ptr |-> NULL, ver |-> 0]     \* of a local that is not in use
Steps == {"idle", "new_ld", "new_malloc", "new_fill", "new_next", "new_cas",
          "new_ret", "free_ld", "free_store", "free_cas", "free_ret"}

\* The version field's +1 and the counters' increments wrap around.
NextVersion(v) == IF v = VersionMod - 1 THEN 0 ELSE v + 1
AddUInt(x, d) == (x + d) % UIntMod

Init ==
    /\ head = NoHead
    /\ next \in [Items -> Pointer]      \* memory before malloc returns it
    /\ used = 0 /\ allocated = 0
    /\ fresh = Items /\ owned = {}
    /\ pc = [t \in Threads |-> "idle"]
    /\ snap = [t \in Threads |-> NoHead]
    /\ nxt = [t \in Threads |-> NULL]
    /\ cur = [t \in Threads |-> NULL]
    /\ chunk = [t \in Threads |-> {}]
    /\ filling = [t \in Threads |-> FALSE]
    /\ fatal = FALSE
    /\ lag = [t \in Threads |-> 0]
    /\ stack = <<>>

Goto(t, from, to) == pc[t] = from /\ pc' = [pc EXCEPT ![t] = to]

-----------------------------------------------------------------------------
(* ink_freelist_new *)

NewCall(t) ==
    /\ Goto(t, "idle", "new_ld")
    /\ UNCHANGED <<head, next, used, allocated, fresh, owned, locals, stack>>

\* INK_QUEUE_LD(item, f->head), and the test of the loaded pointer.
NewLoad(t) ==
    /\ Goto(t, "new_ld", IF head.ptr = NULL THEN "new_malloc" ELSE "new_next")
    /\ snap' = [snap EXCEPT ![t] = head]
    /\ lag' = [lag EXCEPT ![t] = 0]
    /\ UNCHANGED <<head, next, used, allocated, fresh, owned, nxt, cur, chunk,
                   filling, stack>>

\* The list was empty: a chunk is allocated and counted.
NewMalloc(t) ==
    /\ Goto(t, "new_malloc", "new_fill")
    /\ \E C \in SUBSET fresh :
          /\ Cardinality(C) = ChunkSize
          /\ chunk' = [chunk EXCEPT ![t] = C]
          /\ fresh' = fresh \ C
    /\ allocated' = AddUInt(allocated, ChunkSize)
    /\ filling' = [filling EXCEPT ![t] = TRUE]
    /\ UNCHANGED <<head, next, used, owned, snap, nxt, cur, lag, stack>>

\* No memory for a chunk: ats_malloc and ats_memalign end the process.
NewMallocFails(t) ==
    /\ pc[t] = "new_malloc"
    /\ Cardinality(fresh) < ChunkSize
    /\ fatal' = TRUE
    /\ UNCHANGED <<head, next, used, allocated, fresh, owned, pc, locals, stack>>

\* One turn of the loop over the chunk: ink_freelist_free(f, a).
NewFill(t) ==
    /\ Goto(t, "new_fill", "free_ld")
    /\ \E i \in chunk[t] :
          /\ cur' = [cur EXCEPT ![t] = i]
          /\ chunk' = [chunk EXCEPT ![t] = @ \ {i}]
    /\ UNCHANGED <<head, next, used, allocated, fresh, owned, snap, nxt,
                   filling, lag, stack>>

\* Mutant: used is not put back after the chunk was filled.
FilledUncounted(t) ==
    /\ Goto(t, "new_fill", "new_ld")
    /\ chunk[t] = {}
    /\ filling' = [filling EXCEPT ![t] = FALSE]
    /\ UNCHANGED <<head, next, used, allocated, fresh, owned, snap, nxt, cur, chunk,
                   lag, stack>>

\* The frees of the loop each took 1 from used: it is put back, and the
\* head is loaded again (result is still 0).
NewFilled(t) ==
    /\ Goto(t, "new_fill", "new_ld")
    /\ chunk[t] = {}
    /\ used' = AddUInt(used, ChunkSize)
    /\ filling' = [filling EXCEPT ![t] = FALSE]
    /\ UNCHANGED <<head, next, allocated, fresh, owned, snap, nxt, cur, chunk,
                   lag, stack>>

\* The read of the block's first word, whoever owns the block by now.
NewNext(t) ==
    /\ Goto(t, "new_next", "new_cas")
    /\ nxt' = [nxt EXCEPT ![t] = next[snap[t].ptr]]
    /\ UNCHANGED <<head, next, used, allocated, fresh, owned, snap, cur, chunk,
                   filling, lag, stack>>

\* Mutant: a pop leaves the version alone.
PoppedHeadSameVersion(t) == [ptr |-> nxt[t], ver |-> snap[t].ver]

\* The head a successful pop of t leaves: the version moves on.
PoppedHead(t) == [ptr |-> nxt[t], ver |-> NextVersion(snap[t].ver)]

Popping(t) == pc[t] \in {"new_next", "new_cas"}

\* Scheduling assumption: no other thread sleeps through VersionMod pops.
NoVersionWrap(t) ==
    \A u \in Threads \ {t} : Popping(u) => lag[u] < VersionMod - 1

\* Mutant: the result of the compare-and-swap is not looked at.
CasUnchecked(t) ==
    /\ Goto(t, "new_cas", "new_ret") /\ NoVersionWrap(t)
    /\ head' = IF head = snap[t] THEN PoppedHead(t) ELSE head
    /\ stack' = IF head = snap[t] THEN Tail(stack) ELSE stack
    /\ cur' = [cur EXCEPT ![t] = snap[t].ptr]
    /\ lag' = [u \in Threads |->
                  IF u # t /\ Popping(u) /\ head = snap[t] THEN lag[u] + 1 ELSE lag[u]]
    /\ snap' = [snap EXCEPT ![t] = NoHead]
    /\ nxt' = [nxt EXCEPT ![t] = NULL]
    /\ UNCHANGED <<next, used, allocated, fresh, owned, chunk, filling>>

NewCas(t) ==
    /\ pc[t] = "new_cas"
    /\ IF head = snap[t]
         THEN /\ NoVersionWrap(t)
              /\ head' = PoppedHead(t)
              /\ cur' = [cur EXCEPT ![t] = snap[t].ptr]
              /\ stack' = Tail(stack)
              /\ lag' = [u \in Threads |->
                            IF u # t /\ Popping(u) THEN lag[u] + 1 ELSE 0]
              /\ pc' = [pc EXCEPT ![t] = "new_ret"]
         ELSE /\ pc' = [pc EXCEPT ![t] = "new_ld"]
              /\ UNCHANGED <<head, cur, stack, lag>>
    /\ snap' = [snap EXCEPT ![t] = NoHead]
    /\ nxt' = [nxt EXCEPT ![t] = NULL]
    /\ UNCHANGED <<next, used, allocated, fresh, owned, chunk, filling>>

\* used is incremented and the block goes to the caller.
NewReturn(t) ==
    /\ Goto(t, "new_ret", "idle")
    /\ used' = AddUInt(used, 1)
    /\ owned' = owned \union {cur[t]}
    /\ cur' = [cur EXCEPT ![t] = NULL]
    /\ UNCHANGED <<head, next, allocated, fresh, snap, nxt, chunk, filling, lag,
                   stack>>

-----------------------------------------------------------------------------
(* ink_freelist_free *)

\* Any thread may free a block some caller holds.
FreeCall(t) ==
    /\ Goto(t, "idle", "free_ld")
    /\ \E i \in owned :
          /\ owned' = owned \ {i}
          /\ cur' = [cur EXCEPT ![t] = i]
    /\ UNCHANGED <<head, next, used, allocated, fresh, snap, nxt, chunk,
                   filling, lag, stack>>

FreeLoad(t) ==
    /\ Goto(t, "free_ld", "free_store")
    /\ snap' = [snap EXCEPT ![t] = head]
    /\ UNCHANGED <<head, next, used, allocated, fresh, owned, nxt, cur, chunk,
                   filling, lag, stack>>

\* *adr_of_next = FREELIST_POINTER(h)
FreeStore(t) ==
    /\ Goto(t, "free_store", "free_cas")
    /\ next' = [next EXCEPT ![cur[t]] = snap[t].ptr]
    /\ UNCHANGED <<head, used, allocated, fresh, owned, locals, stack>>

\* A push leaves the version alone.
FreeCas(t) ==
    /\ pc[t] = "free_cas"
    /\ IF head = snap[t]
         THEN /\ head' = [ptr |-> cur[t], ver |-> snap[t].ver]
              /\ stack' = <<cur[t]>> \o stack
              /\ pc' = [pc EXCEPT ![t] = "free_ret"]
         ELSE /\ pc' = [pc EXCEPT ![t] = "free_ld"]
              /\ UNCHANGED <<head, stack>>
    /\ snap' = [snap EXCEPT ![t] = NoHead]
    /\ UNCHANGED <<next, used, allocated, fresh, owned, nxt, cur, chunk, filling,
                   lag>>

\* used is decremented; a free made for a new chunk returns to its loop.
FreeReturn(t) ==
    /\ Goto(t, "free_ret", IF filling[t] THEN "new_fill" ELSE "idle")
    /\ used' = AddUInt(used, UIntMod - 1)
    /\ cur' = [cur EXCEPT ![t] = NULL]
    /\ UNCHANGED <<head, next, allocated, fresh, owned, snap, nxt, chunk, filling,
                   lag, stack>>

-----------------------------------------------------------------------------
(* A caller writes into a block it holds. *)
CallerWrite(i) ==
    /\ i \in owned
    /\ \E p \in Pointer : next' = [next EXCEPT ![i] = p]
    /\ UNCHANGED <<head, used, allocated, fresh, owned, pc, locals, stack>>

\* Between calls, in a call of new, in a call of free.
Caller(t) == NewCall(t) \/ FreeCall(t)
NewStep(t) == NewLoad(t) \/ NewMalloc(t) \/ NewFill(t) \/ NewFilled(t)
              \/ NewNext(t) \/ NewCas(t) \/ NewReturn(t)
FreeStep(t) == FreeLoad(t) \/ FreeStore(t) \/ FreeCas(t) \/ FreeReturn(t)

Running == ~fatal /\ fatal' = FALSE

ThreadStep(t) ==
    \/ Running /\ (NewStep(t) \/ FreeStep(t))
    \/ ~fatal /\ NewMallocFails(t)

Ended == fatal /\ UNCHANGED vars

Next ==
    \/ \E t \in Threads : ThreadStep(t)
    \/ Running /\ \E t \in Threads : Caller(t)
    \/ Running /\ \E i \in Items : CallerWrite(i)
    \/ Ended

Spec == Init /\ [][Next]_vars

\* A thread inside new or free is scheduled again; callers may stay away.
Fairness == \A t \in Threads : WF_vars(ThreadStep(t))

-----------------------------------------------------------------------------
(* Properties *)

\* Every variable stays in its domain.
TypeOK ==
    /\ head \in HeadP
    /\ next \in [Items -> Pointer]
    /\ used \in 0..(UIntMod - 1)
    /\ allocated \in 0..(UIntMod - 1)
    /\ fresh \in SUBSET Items
    /\ owned \in SUBSET Items
    /\ pc \in [Threads -> Steps]
    /\ snap \in [Threads -> HeadP]
    /\ nxt \in [Threads -> Pointer]
    /\ cur \in [Threads -> Pointer]
    /\ chunk \in [Threads -> SUBSET Items]
    /\ filling \in [Threads -> BOOLEAN]
    /\ lag \in [Threads -> 0..(VersionMod - 1)]
    /\ fatal \in BOOLEAN
    /\ stack \in Seq(Items)

\* The pointer found at place i of a list: NULL past its end.
At(s, i) == IF i \in 1..Len(s) THEN s[i] ELSE NULL

Listed == {stack[i] : i \in 1..Len(stack)}

\* The blocks a thread inside new or free has in its hands: the rest of a
\* new chunk, a block being pushed, a block just popped.
Pushing(t) == pc[t] \in {"free_ld", "free_store", "free_cas"}
Private(t) ==
    chunk[t] \union IF Pushing(t) \/ pc[t] = "new_ret" THEN {cur[t]} ELSE {}

\* The memory is a list: from f->head, the next pointers visit exactly the
\* blocks pushed and not popped since, each once, last pushed first, and end
\* in NULL.  This is what a pop with an outdated next pointer (the A-B-A
\* case that ink_queue.h describes) destroys.
ListIntact ==
    /\ head.ptr = At(stack, 1)
    /\ \A i \in 1..Len(stack) : next[stack[i]] = At(stack, i + 1)
    /\ \A i, j \in 1..Len(stack) : stack[i] = stack[j] => i = j

\* No block is in two places: on the list, with a caller, in the hands of a
\* thread, or still unknown to the free list.  In particular new never gives
\* out a block that somebody holds.
OneHolder ==
    /\ \A t \in Threads : Private(t) \intersect (owned \union fresh) = {}
    /\ \A t, u \in Threads : t # u => Private(t) \intersect Private(u) = {}
    /\ \A t \in Threads : Private(t) \intersect Listed = {}
    /\ \A t \in Threads : Pushing(t) \/ pc[t] = "new_ret" => cur[t] \notin chunk[t]
    /\ Listed \intersect (owned \union fresh) = {}
    /\ owned \intersect fresh = {}

\* What a thread between the load of the head and its compare-and-swap may
\* rely on: the version tells how many pops it missed, and while it missed
\* none the block it loaded is still listed with the next pointer it read.
ThreadHeadValid(t) ==
    /\ Popping(t) =>
          /\ snap[t].ptr # NULL
          /\ head.ver = IF snap[t].ver + lag[t] >= VersionMod
                          THEN snap[t].ver + lag[t] - VersionMod
                          ELSE snap[t].ver + lag[t]
          /\ lag[t] = 0 => snap[t].ptr \in Listed
    /\ pc[t] = "new_cas" /\ lag[t] = 0 => nxt[t] = next[snap[t].ptr]
    /\ Pushing(t) \/ pc[t] = "new_ret" => cur[t] # NULL
    /\ pc[t] = "free_cas" => next[cur[t]] = snap[t].ptr

LoadedHeadValid == \A t \in Threads : ThreadHeadValid(t)

\* The inductive invariant of the proofs.
IndInv == TypeOK /\ ListIntact /\ OneHolder /\ LoadedHeadValid

\* With no call in progress f->used is the number of blocks the callers hold
\* and f->allocated the number malloc returned, although used is decremented
\* below its value, even below zero, while a new chunk is being filled.
CountersAtRest ==
    (\A t \in Threads : pc[t] = "idle") =>
        /\ used = Cardinality(owned)
        /\ allocated = Cardinality(Items \ fresh)

\* What the counters are at any time: a block that is being freed still counts
\* as used; a chunk that is being filled takes one away for every block already
\* freed into the list, until the whole is put back.
Freeing == {t \in Threads : pc[t] \in {"free_ld", "free_store", "free_cas", "free_ret"}}
Filling == {t \in Threads : filling[t]}
InChunks == UNION {chunk[t] : t \in Threads}
InUse == Cardinality(owned) + Cardinality(Freeing) + Cardinality(InChunks)
         - ChunkSize * Cardinality(Filling)
Counted ==
    /\ used = InUse % UIntMod
    /\ allocated = Cardinality(Items \ fresh) % UIntMod

\* The counters of the free list are exact at any time, wrapped to their width,
\* and without wrapping whenever no call is in progress.
CountersExact == Counted /\ CountersAtRest

\* The free list implements the last-in first-out pool: every step of a
\* thread is an atomic push, pop or growth, or changes nothing in the pool.
Outside == owned \union UNION {Private(t) : t \in Threads}

Pool == INSTANCE LifoPool WITH stk <- stack, out <- Outside

ImplementsPool == Pool!PoolSpec

-----------------------------------------------------------------------------
(* For TLC: two threads, three blocks and chunks of one, so that the list  *)
(* runs empty, both threads may grow it at once, and one can pop, pop and  *)
(* push back the block the other has loaded.  Threads and blocks are       *)
(* interchangeable.                                                        *)
Perms == Permutations(Threads) \union Permutations(Items)

=============================================================================
