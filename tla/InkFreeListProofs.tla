------------------------- MODULE InkFreeListProofs -------------------------
(***************************************************************************)
(* Proofs about InkFreeList, for any number of threads, blocks, versions   *)
(* and any chunk size.  IndInv is inductive: one lemma per action, each    *)
(* with one step per conjunct of the invariant.                            *)
(***************************************************************************)
EXTENDS InkFreeList, FiniteSetTheorems, TLAPS

\* The counters stay in their width.
LEMMA AddUIntRange ==
    ASSUME NEW x \in Int, NEW d \in Int
    PROVE  AddUInt(x, d) \in 0..(UIntMod - 1)
  BY UIntAssumption DEF AddUInt

\* The heads the algorithm builds, and the fields of those it reads.
LEMMA HeadTypes ==
    /\ NoHead \in HeadP
    /\ \A p \in Pointer, v \in 0..(VersionMod - 1) :
          [ptr |-> p, ver |-> v] \in HeadP
    /\ \A h \in HeadP : h.ptr \in Pointer /\ h.ver \in 0..(VersionMod - 1)
    /\ \A v \in 0..(VersionMod - 1) : NextVersion(v) \in 0..(VersionMod - 1)
    /\ NULL \in Pointer
    /\ \A i \in Items : i \in Pointer
  BY VersionAssumption DEF NoHead, HeadP, Pointer, NextVersion

\* Everything on the list is a block.
LEMMA ListedItems == TypeOK => Listed \subseteq Items
  BY DEF TypeOK, Listed

\* The initial state: an empty list and no call in progress.
LEMMA InitIndInv == Init => IndInv
<1> SUFFICES ASSUME Init PROVE IndInv
  OBVIOUS
<1>1. TypeOK
  <2>1. filling \in [Threads -> BOOLEAN] /\ fatal \in BOOLEAN
    BY DEF Init
  <2>2. pc \in [Threads -> Steps]
    BY DEF Init, Steps
  <2> QED
    BY <2>1, <2>2, HeadTypes, VersionAssumption, UIntAssumption
       DEF Init, TypeOK
<1>2. ListIntact
  BY DEF Init, ListIntact, At, NoHead
<1>3. OneHolder
  BY DEF Init, OneHolder, Private, Pushing, Listed
<1>4. LoadedHeadValid
  BY DEF Init, LoadedHeadValid, ThreadHeadValid, Popping, Pushing
<1> QED
  BY <1>1, <1>2, <1>3, <1>4 DEF IndInv

\* A call of new touches nothing shared.
LEMMA NewCallIndInv ==
    ASSUME NEW t \in Threads, IndInv, NewCall(t), fatal' = FALSE
    PROVE  IndInv'
<1> USE DEF Goto, locals
<1>1. TypeOK'
  <2>1. pc' \in [Threads -> Steps]
    BY DEF IndInv, TypeOK, NewCall, Steps
  <2> QED
    BY <2>1, HeadTypes DEF IndInv, TypeOK, NewCall
<1>2. ListIntact'
  BY DEF IndInv, ListIntact, At, NewCall
<1>3. OneHolder'
  <2>1. \A u \in Threads : Private(u)' = Private(u)
    BY DEF IndInv, TypeOK, Private, Pushing, NewCall
  <2> QED
    BY <2>1 DEF IndInv, TypeOK, OneHolder, Pushing, Listed, NewCall
<1>4. LoadedHeadValid'
  BY DEF IndInv, TypeOK, LoadedHeadValid, ThreadHeadValid, Popping, Pushing, Listed, NewCall
<1> QED
  BY <1>1, <1>2, <1>3, <1>4 DEF IndInv

\* The load of the head starts a window in which no pop was missed.
LEMMA NewLoadIndInv ==
    ASSUME NEW t \in Threads, IndInv, NewLoad(t), fatal' = FALSE
    PROVE  IndInv'
<1> USE DEF Goto, locals
<1>1. TypeOK'
  <2>1. pc' \in [Threads -> Steps]
    BY DEF IndInv, TypeOK, NewLoad, Steps
  <2>2. lag' \in [Threads -> 0..(VersionMod - 1)]
    BY VersionAssumption DEF IndInv, TypeOK, NewLoad
  <2> QED
    BY <2>1, HeadTypes, <2>2 DEF IndInv, TypeOK, NewLoad
<1>2. ListIntact'
  BY DEF IndInv, ListIntact, At, NewLoad
<1>3. OneHolder'
  <2>1. \A u \in Threads : Private(u)' = Private(u)
    BY DEF IndInv, TypeOK, Private, Pushing, NewLoad
  <2> QED
    BY <2>1 DEF IndInv, TypeOK, OneHolder, Pushing, Listed, NewLoad
<1>4. LoadedHeadValid'
  <2>1. head.ptr # NULL => head.ptr \in Listed
    BY DEF IndInv, ListIntact, At, Listed
  <2>2. Listed' = Listed
    BY DEF Listed, NewLoad
  <2>3. head.ver \in 0..(VersionMod - 1)
    BY HeadTypes DEF IndInv, TypeOK
  <2>4. /\ snap'[t] = head /\ lag'[t] = 0
        /\ pc'[t] = "new_next" => head.ptr # NULL
        /\ pc'[t] \in {"new_next", "new_malloc"}
    BY DEF IndInv, TypeOK, NewLoad
  <2>5. \A u \in Threads \ {t} : /\ snap'[u] = snap[u] /\ lag'[u] = lag[u]
                                 /\ pc'[u] = pc[u] /\ nxt'[u] = nxt[u]
                                 /\ cur'[u] = cur[u]
    BY DEF IndInv, TypeOK, NewLoad
  <2> QED
    BY <2>1, <2>2, <2>3, <2>4, <2>5, VersionAssumption
       DEF IndInv, LoadedHeadValid, ThreadHeadValid, Popping, Pushing, NewLoad
<1> QED
  BY <1>1, <1>2, <1>3, <1>4 DEF IndInv

\* A new chunk was in nobody else's hands.
LEMMA NewMallocIndInv ==
    ASSUME NEW t \in Threads, IndInv, NewMalloc(t), fatal' = FALSE
    PROVE  IndInv'
<1> USE DEF Goto, locals
<1>1. TypeOK'
  <2>1. pc' \in [Threads -> Steps]
    BY DEF IndInv, TypeOK, NewMalloc, Steps
  <2>2. allocated' \in 0..(UIntMod - 1)
    BY AddUIntRange, ChunkAssumption DEF IndInv, TypeOK, NewMalloc
  <2>3. filling' \in [Threads -> BOOLEAN]
    BY DEF IndInv, TypeOK, NewMalloc
  <2>4. chunk' \in [Threads -> SUBSET Items] /\ fresh' \in SUBSET Items
    BY DEF IndInv, TypeOK, NewMalloc
  <2> QED
    BY <2>1, HeadTypes, <2>2, <2>3, <2>4 DEF IndInv, TypeOK, NewMalloc
<1>2. ListIntact'
  BY DEF IndInv, ListIntact, At, NewMalloc
<1>3. OneHolder'
  <2>1. PICK C \in SUBSET fresh : chunk' = [chunk EXCEPT ![t] = C]
                                  /\ fresh' = fresh \ C
    BY DEF NewMalloc
  <2>2. /\ \A u \in Threads \ {t} : Private(u)' = Private(u)
        /\ Private(t)' = C
    BY <2>1 DEF IndInv, TypeOK, Private, Pushing, NewMalloc
  <2>cur. (\A u \in Threads : Pushing(u) \/ pc[u] = "new_ret"
                               => cur[u] \notin chunk[u])'
    BY <2>1 DEF IndInv, TypeOK, OneHolder, Pushing, Private, NewMalloc
  <2> QED
    BY <2>1, <2>2, <2>cur DEF IndInv, OneHolder, Listed, NewMalloc
<1>4. LoadedHeadValid'
  BY DEF IndInv, TypeOK, LoadedHeadValid, ThreadHeadValid, Popping, Pushing, Listed, NewMalloc
<1> QED
  BY <1>1, <1>2, <1>3, <1>4 DEF IndInv

\* The end of the process changes nothing in the list.
LEMMA NewMallocFailsIndInv ==
    ASSUME NEW t \in Threads, IndInv, NewMallocFails(t)
    PROVE  IndInv'
<1> USE DEF Goto, locals
<1>1. TypeOK'
  BY DEF IndInv, TypeOK, NewMallocFails
<1>2. ListIntact'
  BY DEF IndInv, ListIntact, At, NewMallocFails
<1>3. OneHolder'
  <2>1. \A u \in Threads : Private(u)' = Private(u)
    BY DEF IndInv, TypeOK, Private, Pushing, NewMallocFails
  <2> QED
    BY <2>1 DEF IndInv, TypeOK, OneHolder, Pushing, Listed, NewMallocFails
<1>4. LoadedHeadValid'
  BY DEF IndInv, TypeOK, LoadedHeadValid, ThreadHeadValid, Popping, Pushing, Listed, NewMallocFails
<1> QED
  BY <1>1, <1>2, <1>3, <1>4 DEF IndInv

\* A block of the chunk goes from the chunk to the push.
LEMMA NewFillIndInv ==
    ASSUME NEW t \in Threads, IndInv, NewFill(t), fatal' = FALSE
    PROVE  IndInv'
<1> USE DEF Goto, locals
<1>1. TypeOK'
  <2>1. pc' \in [Threads -> Steps]
    BY DEF IndInv, TypeOK, NewFill, Steps
  <2> QED
    BY <2>1, HeadTypes DEF IndInv, TypeOK, NewFill
<1>2. ListIntact'
  BY DEF IndInv, ListIntact, At, NewFill
<1>3. OneHolder'
  <2>1. PICK i \in chunk[t] : /\ cur' = [cur EXCEPT ![t] = i]
                               /\ chunk' = [chunk EXCEPT ![t] = @ \ {i}]
    BY DEF NewFill
  <2>2. \A u \in Threads : Private(u)' = Private(u)
    BY <2>1 DEF IndInv, TypeOK, Private, Pushing, NewFill
  <2>cur. (\A u \in Threads : Pushing(u) \/ pc[u] = "new_ret"
                               => cur[u] \notin chunk[u])'
    BY <2>1 DEF IndInv, TypeOK, OneHolder, Pushing, Private, NewFill
  <2> QED
    BY <2>2, <2>cur DEF IndInv, OneHolder, Listed, NewFill
<1>4. LoadedHeadValid'
  <2>1. \A i \in chunk[t] : i # NULL
    BY NullAssumption DEF IndInv, TypeOK
  <2> QED
    BY <2>1 DEF IndInv, TypeOK, LoadedHeadValid, ThreadHeadValid, Popping, Pushing, Listed,
                NewFill
<1> QED
  BY <1>1, <1>2, <1>3, <1>4 DEF IndInv

\* The end of the fill loop touches only a counter.
LEMMA NewFilledIndInv ==
    ASSUME NEW t \in Threads, IndInv, NewFilled(t), fatal' = FALSE
    PROVE  IndInv'
<1> USE DEF Goto, locals
<1>1. TypeOK'
  <2>1. pc' \in [Threads -> Steps]
    BY DEF IndInv, TypeOK, NewFilled, Steps
  <2>2. used' \in 0..(UIntMod - 1)
    BY AddUIntRange, ChunkAssumption DEF IndInv, TypeOK, NewFilled
  <2>3. filling' \in [Threads -> BOOLEAN]
    BY DEF IndInv, TypeOK, NewFilled
  <2> QED
    BY <2>1, HeadTypes, <2>2, <2>3 DEF IndInv, TypeOK, NewFilled
<1>2. ListIntact'
  BY DEF IndInv, ListIntact, At, NewFilled
<1>3. OneHolder'
  <2>1. \A u \in Threads : Private(u)' = Private(u)
    BY DEF IndInv, TypeOK, Private, Pushing, NewFilled
  <2> QED
    BY <2>1 DEF IndInv, TypeOK, OneHolder, Pushing, Listed, NewFilled
<1>4. LoadedHeadValid'
  BY DEF IndInv, TypeOK, LoadedHeadValid, ThreadHeadValid, Popping, Pushing, Listed, NewFilled
<1> QED
  BY <1>1, <1>2, <1>3, <1>4 DEF IndInv

\* The next pointer read is the current one if no pop was missed.
LEMMA NewNextIndInv ==
    ASSUME NEW t \in Threads, IndInv, NewNext(t), fatal' = FALSE
    PROVE  IndInv'
<1> USE DEF Goto, locals
<1>1. TypeOK'
  <2>1. pc' \in [Threads -> Steps]
    BY DEF IndInv, TypeOK, NewNext, Steps
  <2>2. snap[t].ptr \in Items
    BY HeadTypes DEF IndInv, TypeOK, LoadedHeadValid, ThreadHeadValid, Popping, Pointer, NewNext
  <2> QED
    BY <2>1, HeadTypes, <2>2 DEF IndInv, TypeOK, NewNext
<1>2. ListIntact'
  BY DEF IndInv, ListIntact, At, NewNext
<1>3. OneHolder'
  <2>1. \A u \in Threads : Private(u)' = Private(u)
    BY DEF IndInv, TypeOK, Private, Pushing, NewNext
  <2> QED
    BY <2>1 DEF IndInv, TypeOK, OneHolder, Pushing, Listed, NewNext
<1>4. LoadedHeadValid'
  <2>1. /\ nxt'[t] = next[snap[t].ptr] /\ pc'[t] = "new_cas"
        /\ pc[t] = "new_next"
        /\ \A u \in Threads \ {t} : nxt'[u] = nxt[u] /\ pc'[u] = pc[u]
        /\ UNCHANGED <<head, next, snap, lag, cur, Listed>>
    BY DEF IndInv, TypeOK, NewNext, Listed
  <2> QED
    BY <2>1 DEF IndInv, LoadedHeadValid, ThreadHeadValid, Popping, Pushing
<1> QED
  BY <1>1, <1>2, <1>3, <1>4 DEF IndInv

\* A block leaves the callers for the hands of a thread.
LEMMA FreeCallIndInv ==
    ASSUME NEW t \in Threads, IndInv, FreeCall(t), fatal' = FALSE
    PROVE  IndInv'
<1> USE DEF Goto, locals
<1>1. TypeOK'
  <2>1. pc' \in [Threads -> Steps]
    BY DEF IndInv, TypeOK, FreeCall, Steps
  <2> QED
    BY <2>1, HeadTypes DEF IndInv, TypeOK, FreeCall
<1>2. ListIntact'
  BY DEF IndInv, ListIntact, At, FreeCall
<1>3. OneHolder'
  <2>1. PICK i \in owned : /\ cur' = [cur EXCEPT ![t] = i]
                            /\ owned' = owned \ {i}
    BY DEF FreeCall
  <2>2. /\ \A u \in Threads \ {t} : Private(u)' = Private(u)
        /\ Private(t)' = Private(t) \union {i}
    BY <2>1 DEF IndInv, TypeOK, Private, Pushing, FreeCall
  <2>cur. (\A u \in Threads : Pushing(u) \/ pc[u] = "new_ret"
                               => cur[u] \notin chunk[u])'
    BY <2>1 DEF IndInv, TypeOK, OneHolder, Pushing, Private, FreeCall
  <2> QED
    BY <2>1, <2>2, <2>cur DEF IndInv, OneHolder, Listed, FreeCall
<1>4. LoadedHeadValid'
  <2>1. \A i \in owned : i # NULL
    BY NullAssumption DEF IndInv, TypeOK
  <2> QED
    BY <2>1 DEF IndInv, TypeOK, LoadedHeadValid, ThreadHeadValid, Popping, Pushing, Listed,
                FreeCall
<1> QED
  BY <1>1, <1>2, <1>3, <1>4 DEF IndInv

\* The load of the head in free touches nothing shared.
LEMMA FreeLoadIndInv ==
    ASSUME NEW t \in Threads, IndInv, FreeLoad(t), fatal' = FALSE
    PROVE  IndInv'
<1> USE DEF Goto, locals
<1>1. TypeOK'
  <2>1. pc' \in [Threads -> Steps]
    BY DEF IndInv, TypeOK, FreeLoad, Steps
  <2> QED
    BY <2>1, HeadTypes DEF IndInv, TypeOK, FreeLoad
<1>2. ListIntact'
  BY DEF IndInv, ListIntact, At, FreeLoad
<1>3. OneHolder'
  <2>1. \A u \in Threads : Private(u)' = Private(u)
    BY DEF IndInv, TypeOK, Private, Pushing, FreeLoad
  <2> QED
    BY <2>1 DEF IndInv, TypeOK, OneHolder, Pushing, Listed, FreeLoad
<1>4. LoadedHeadValid'
  BY DEF IndInv, TypeOK, LoadedHeadValid, ThreadHeadValid, Popping, Pushing, Listed, FreeLoad
<1> QED
  BY <1>1, <1>2, <1>3, <1>4 DEF IndInv

\* The return of free touches only a counter.
LEMMA FreeReturnIndInv ==
    ASSUME NEW t \in Threads, IndInv, FreeReturn(t), fatal' = FALSE
    PROVE  IndInv'
<1> USE DEF Goto, locals
<1>1. TypeOK'
  <2>1. pc' \in [Threads -> Steps]
    BY DEF IndInv, TypeOK, FreeReturn, Steps
  <2>2. used' \in 0..(UIntMod - 1)
    BY AddUIntRange, UIntAssumption DEF IndInv, TypeOK, FreeReturn
  <2> QED
    BY <2>1, HeadTypes, <2>2 DEF IndInv, TypeOK, FreeReturn
<1>2. ListIntact'
  BY DEF IndInv, ListIntact, At, FreeReturn
<1>3. OneHolder'
  <2>1. \A u \in Threads : Private(u)' = Private(u)
    BY DEF IndInv, TypeOK, Private, Pushing, FreeReturn
  <2> QED
    BY <2>1 DEF IndInv, TypeOK, OneHolder, Pushing, Listed, FreeReturn
<1>4. LoadedHeadValid'
  BY DEF IndInv, TypeOK, LoadedHeadValid, ThreadHeadValid, Popping, Pushing, Listed, FreeReturn
<1> QED
  BY <1>1, <1>2, <1>3, <1>4 DEF IndInv

\* The popped block goes from the thread to the callers.
LEMMA NewReturnIndInv ==
    ASSUME NEW t \in Threads, IndInv, NewReturn(t), fatal' = FALSE
    PROVE  IndInv'
<1> USE DEF Goto, locals
<1>1. TypeOK'
  <2>1. pc' \in [Threads -> Steps]
    BY DEF IndInv, TypeOK, NewReturn, Steps
  <2>2. used' \in 0..(UIntMod - 1)
    BY AddUIntRange DEF IndInv, TypeOK, NewReturn
  <2>3. cur[t] \in Items
    BY DEF IndInv, TypeOK, LoadedHeadValid, ThreadHeadValid, Pointer, NewReturn
  <2> QED
    BY <2>1, HeadTypes, <2>2, <2>3 DEF IndInv, TypeOK, NewReturn
<1>2. ListIntact'
  BY DEF IndInv, ListIntact, At, NewReturn
<1>3. OneHolder'
  <2>1. /\ \A u \in Threads \ {t} : Private(u)' = Private(u)
        /\ Private(t)' = chunk[t]
        /\ Private(t) = chunk[t] \union {cur[t]}
    BY DEF IndInv, TypeOK, Private, Pushing, NewReturn
  <2>2. owned' = owned \union {cur[t]} /\ fresh' = fresh
    BY DEF NewReturn
  <2>3. cur[t] \notin chunk[t]
    BY DEF IndInv, OneHolder, NewReturn
  <2>cur. (\A u \in Threads : Pushing(u) \/ pc[u] = "new_ret"
                               => cur[u] \notin chunk[u])'
    BY <2>1 DEF IndInv, TypeOK, OneHolder, Pushing, Private, NewReturn
  <2> QED
    BY <2>1, <2>2, <2>3, <2>cur DEF IndInv, OneHolder, Listed, NewReturn
<1>4. LoadedHeadValid'
  BY DEF IndInv, TypeOK, LoadedHeadValid, ThreadHeadValid, Popping, Pushing, Listed, NewReturn
<1> QED
  BY <1>1, <1>2, <1>3, <1>4 DEF IndInv

\* A caller's write hits no listed block and no block being pushed.
LEMMA CallerWriteIndInv ==
    ASSUME NEW k \in Items, IndInv, CallerWrite(k), fatal' = FALSE
    PROVE  IndInv'
<1> USE DEF locals
<1>0. PICK p \in Pointer : next' = [next EXCEPT ![k] = p]
  BY DEF CallerWrite
<1>a. k \notin Listed /\ \A u \in Threads : k \notin Private(u)
  BY DEF IndInv, OneHolder, CallerWrite
<1>b. /\ Listed' = Listed
      /\ \A u \in Threads : /\ Private(u)' = Private(u)
                            /\ Pushing(u)' <=> Pushing(u)
                            /\ Popping(u)' <=> Popping(u)
  BY DEF CallerWrite, Listed, Private, Pushing, Popping
<1>1. TypeOK'
  BY <1>0 DEF IndInv, TypeOK, CallerWrite
<1>2. ListIntact'
  BY <1>0, <1>a DEF IndInv, TypeOK, ListIntact, At, Listed, CallerWrite
<1>3. OneHolder'
  BY <1>b DEF IndInv, OneHolder, CallerWrite
<1>4. LoadedHeadValid'
  <2>1. \A i \in Items : i # k => next'[i] = next[i]
    BY <1>0 DEF IndInv, TypeOK
  <2>2. \A u \in Threads : Popping(u) /\ lag[u] = 0
                             => next'[snap[u].ptr] = next[snap[u].ptr]
    BY <2>1, <1>a, ListedItems DEF IndInv, LoadedHeadValid, ThreadHeadValid
  <2>3. \A u \in Threads : pc[u] = "free_cas" => next'[cur[u]] = next[cur[u]]
    BY <2>1, <1>a, HeadTypes
       DEF IndInv, TypeOK, LoadedHeadValid, ThreadHeadValid, Private, Pushing, Pointer
  <2>4. UNCHANGED <<head, snap, nxt, lag, pc, cur>>
    BY DEF CallerWrite
  <2> QED
    BY <1>b, <2>2, <2>3, <2>4 DEF IndInv, LoadedHeadValid, ThreadHeadValid, Popping
<1> QED
  BY <1>1, <1>2, <1>3, <1>4 DEF IndInv

\* The store of the next pointer goes to a block nobody else reads validly.
LEMMA FreeStoreIndInv ==
    ASSUME NEW t \in Threads, IndInv, FreeStore(t), fatal' = FALSE
    PROVE  IndInv'
<1> USE DEF Goto, locals
<1>0. /\ cur[t] \in Items /\ cur[t] \in Private(t) /\ cur[t] \notin Listed
      /\ \A u \in Threads \ {t} : cur[t] \notin Private(u)
  BY DEF IndInv, TypeOK, LoadedHeadValid, ThreadHeadValid, OneHolder, Pointer, Private, Pushing,
         FreeStore
<1>b. /\ Listed' = Listed
      /\ \A u \in Threads : /\ Private(u)' = Private(u)
                            /\ Pushing(u)' <=> Pushing(u)
                            /\ Popping(u)' <=> Popping(u)
      /\ \A u \in Threads \ {t} : pc'[u] = pc[u]
      /\ pc'[t] = "free_cas"
  BY DEF IndInv, TypeOK, FreeStore, Listed, Private, Pushing, Popping
<1>c. /\ next' \in [Items -> Pointer]
      /\ next'[cur[t]] = snap[t].ptr
      /\ \A i \in Items : i # cur[t] => next'[i] = next[i]
  BY <1>0, HeadTypes DEF IndInv, TypeOK, FreeStore
<1>1. TypeOK'
  <2>1. pc' \in [Threads -> Steps]
    BY DEF IndInv, TypeOK, FreeStore, Steps
  <2> QED
    BY <2>1, <1>c DEF IndInv, TypeOK, FreeStore
<1>2. ListIntact'
  BY <1>0, <1>c DEF IndInv, TypeOK, ListIntact, At, Listed, FreeStore
<1>3. OneHolder'
  BY <1>b DEF IndInv, OneHolder, Pushing, FreeStore
<1>4. LoadedHeadValid'
  <2>1. \A u \in Threads : Popping(u) /\ lag[u] = 0
                             => next'[snap[u].ptr] = next[snap[u].ptr]
    BY <1>0, <1>c, ListedItems DEF IndInv, LoadedHeadValid, ThreadHeadValid
  <2>2. \A u \in Threads \ {t} :
           pc[u] = "free_cas" => next'[cur[u]] = next[cur[u]]
    BY <1>0, <1>c
       DEF IndInv, TypeOK, LoadedHeadValid, ThreadHeadValid, Private, Pushing, Pointer
  <2>3. UNCHANGED <<head, snap, nxt, lag, cur>>
    BY DEF FreeStore
  <2>4. pc[t] = "free_store"
    BY DEF FreeStore
  <2> QED
    BY <1>b, <1>c, <2>1, <2>2, <2>3, <2>4
       DEF IndInv, LoadedHeadValid, ThreadHeadValid, Popping, Pushing
<1> QED
  BY <1>1, <1>2, <1>3, <1>4 DEF IndInv

\* The compare-and-swap of free: one that fails changes only locals, one that
\* succeeds puts the block, whose next pointer is the old head, on the list.
LEMMA FreeCasIndInv ==
    ASSUME NEW t \in Threads, IndInv, FreeCas(t), fatal' = FALSE
    PROVE  IndInv'
<1> USE DEF Goto, locals
<1>t. pc' \in [Threads -> Steps] /\ snap' \in [Threads -> HeadP]
  BY HeadTypes DEF IndInv, TypeOK, FreeCas, Steps
<1>0. /\ cur[t] \in Items /\ cur[t] \in Private(t) /\ cur[t] \notin Listed
      /\ \A u \in Threads \ {t} : cur[t] \notin Private(u)
      /\ cur[t] \notin owned \union fresh
      /\ cur[t] \notin chunk[t]
      /\ next[cur[t]] = snap[t].ptr
  BY DEF IndInv, TypeOK, LoadedHeadValid, ThreadHeadValid, OneHolder, Pointer, Private, Pushing,
         FreeCas
<1>o. \A u \in Threads \ {t} : /\ Private(u)' = Private(u)
                               /\ pc'[u] = pc[u]
                               /\ snap'[u] = snap[u]
  BY <1>t DEF IndInv, TypeOK, FreeCas, Private, Pushing
<1>1. CASE head # snap[t]
  <2>1. TypeOK'
    BY <1>1, <1>t DEF IndInv, TypeOK, FreeCas
  <2>2. ListIntact'
    BY <1>1 DEF IndInv, ListIntact, At, FreeCas
  <2>b. /\ pc'[t] = "free_ld" /\ Listed' = Listed
        /\ Private(t)' = Private(t)
    BY <1>1 DEF IndInv, TypeOK, FreeCas, Listed, Private, Pushing
  <2>3. OneHolder'
    BY <1>1, <2>b, <1>o DEF IndInv, OneHolder, FreeCas, Pushing
  <2>4. LoadedHeadValid'
    BY <1>1, <1>o, <2>b DEF IndInv, LoadedHeadValid, ThreadHeadValid, FreeCas, Popping, Pushing
  <2> QED
    BY <2>1, <2>2, <2>3, <2>4 DEF IndInv
<1>2. CASE head = snap[t]
  <2>a. /\ head' = [ptr |-> cur[t], ver |-> snap[t].ver]
        /\ stack' = <<cur[t]>> \o stack
        /\ pc'[t] = "free_ret"
        /\ UNCHANGED <<next, owned, fresh, lag, cur, nxt, chunk>>
    BY <1>2 DEF IndInv, TypeOK, FreeCas
  <2>b. /\ stack' \in Seq(Items)
        /\ Len(stack') = Len(stack) + 1
        /\ stack'[1] = cur[t]
        /\ \A i \in 1..Len(stack) : stack'[i + 1] = stack[i]
        /\ \A i \in 2..Len(stack') : stack'[i] = stack[i - 1]
    BY <2>a, <1>0 DEF IndInv, TypeOK
  <2>c. Listed' = Listed \union {cur[t]}
    <3>1. \A i \in 1..Len(stack') : stack'[i] \in Listed \union {cur[t]}
      <4> TAKE i \in 1..Len(stack')
      <4>1. i = 1 \/ (i \in 2..Len(stack') /\ i - 1 \in 1..Len(stack))
        BY <2>b DEF IndInv, TypeOK
      <4> QED
        BY <4>1, <2>b DEF Listed
    <3>2. \A i \in 1..Len(stack) : i + 1 \in 1..Len(stack')
      BY <2>b DEF IndInv, TypeOK
    <3>3. 1 \in 1..Len(stack')
      BY <2>b DEF IndInv, TypeOK
    <3> QED
      <4>1. Listed' \subseteq Listed \union {cur[t]}
        BY <3>1 DEF Listed
      <4>2. cur[t] \in Listed'
        BY <2>b, <3>3 DEF Listed
      <4>3. ASSUME NEW i \in 1..Len(stack) PROVE stack[i] \in Listed'
        BY <2>b, <3>2 DEF Listed
      <4>4. Listed \subseteq Listed'
        BY <4>3 DEF Listed
      <4> QED
        BY <4>1, <4>2, <4>4
  <2>1. TypeOK'
    BY <1>2, <1>t, <2>a, <2>b, HeadTypes DEF IndInv, TypeOK, FreeCas
  <2>2. ListIntact'
    <3>1. head'.ptr = At(stack, 1)'
      BY <2>a, <2>b DEF At, IndInv, TypeOK
    <3>2. next'[stack'[1]] = At(stack', 2)
      <4>1. next'[stack'[1]] = head.ptr
        BY <2>a, <2>b, <1>0, <1>2
      <4>2. At(stack', 2) = At(stack, 1)
        BY <2>b DEF At, IndInv, TypeOK
      <4> QED
        BY <4>1, <4>2 DEF IndInv, ListIntact
    <3>3. \A i \in 2..Len(stack') : next'[stack'[i]] = At(stack', i + 1)
      <4> TAKE i \in 2..Len(stack')
      <4>1. i - 1 \in 1..Len(stack) /\ (i - 1) + 1 = i
        BY <2>b DEF IndInv, TypeOK
      <4>2. next'[stack'[i]] = At(stack, i)
        BY <4>1, <2>a, <2>b DEF IndInv, ListIntact
      <4>3. At(stack', i + 1) = At(stack, i)
        BY <4>1, <2>b DEF At, IndInv, TypeOK
      <4> QED
        BY <4>2, <4>3
    <3>4. ASSUME NEW i \in 1..Len(stack'), NEW j \in 1..Len(stack'),
                 stack'[i] = stack'[j]
          PROVE  i = j
      <4>1. \A k \in 1..Len(stack') : k # 1 =>
               k - 1 \in 1..Len(stack) /\ stack'[k] = stack[k - 1]
        BY <2>b DEF IndInv, TypeOK
      <4>2. \A k \in 1..Len(stack) : stack[k] # cur[t]
        BY <1>0 DEF Listed
      <4>3. i # 1 /\ j # 1 => i - 1 = j - 1
        BY <4>1, <3>4 DEF IndInv, ListIntact
      <4>4. i = 1 <=> j = 1
        BY <4>1, <4>2, <3>4, <2>b
      <4>5. i \in Int /\ j \in Int
        OBVIOUS
      <4> QED
        BY <4>3, <4>4, <4>5
    <3>5. \A i \in 1..Len(stack') : i = 1 \/ i \in 2..Len(stack')
      BY <2>b DEF IndInv, TypeOK
    <3> QED
      BY <3>1, <3>2, <3>3, <3>4, <3>5 DEF ListIntact
  <2>3. OneHolder'
    <3>1. Private(t)' = chunk[t]
      BY <2>a DEF Private, Pushing
    <3> QED
      BY <3>1, <1>0, <1>o, <2>a, <2>c DEF IndInv, OneHolder, Pushing, Private
  <2>4. LoadedHeadValid'
    BY <1>2, <1>o, <2>a, <2>c DEF IndInv, LoadedHeadValid, ThreadHeadValid, Popping, Pushing
  <2> QED
    BY <2>1, <2>2, <2>3, <2>4 DEF IndInv
<1> QED
  BY <1>1, <1>2

\* A compare-and-swap of new that succeeds missed no pop: the version would
\* differ.  So it takes the top of the list and installs the second block.
LEMMA PopTakesTop ==
    ASSUME NEW t \in Threads, IndInv, pc[t] = "new_cas", head = snap[t]
    PROVE  /\ lag[t] = 0
           /\ stack # <<>> /\ Head(stack) = snap[t].ptr
           /\ stack[1] = snap[t].ptr
           /\ nxt[t] = At(stack, 2)
           /\ Len(stack) \in Nat \ {0}
<1>1. lag[t] = 0
  <2>1. /\ snap[t].ver \in 0..(VersionMod - 1)
        /\ lag[t] \in 0..(VersionMod - 1)
    BY HeadTypes DEF IndInv, TypeOK
  <2>2. snap[t].ver = IF snap[t].ver + lag[t] >= VersionMod
                        THEN snap[t].ver + lag[t] - VersionMod
                        ELSE snap[t].ver + lag[t]
    BY DEF IndInv, LoadedHeadValid, ThreadHeadValid, Popping
  <2> QED
    BY <2>1, <2>2, VersionAssumption
<1>2. snap[t].ptr # NULL /\ nxt[t] = next[snap[t].ptr]
  BY <1>1 DEF IndInv, LoadedHeadValid, ThreadHeadValid, Popping
<1>3. 1 \in 1..Len(stack) /\ stack[1] = snap[t].ptr
  BY <1>2 DEF IndInv, ListIntact, At
<1>4. Len(stack) \in Nat \ {0} /\ stack # <<>> /\ Head(stack) = stack[1]
  BY <1>3 DEF IndInv, TypeOK
<1> QED
  BY <1>1, <1>2, <1>3, <1>4 DEF IndInv, ListIntact

\* A pop moves the top block from the list to the thread, and makes every
\* other thread that loaded the head one pop late.
LEMMA NewCasIndInv ==
    ASSUME NEW t \in Threads, IndInv, NewCas(t), fatal' = FALSE
    PROVE  IndInv'
<1>t. /\ pc' \in [Threads -> Steps] /\ snap' \in [Threads -> HeadP]
      /\ nxt' \in [Threads -> Pointer]
  BY HeadTypes DEF IndInv, TypeOK, NewCas, Steps
<1>o. /\ \A u \in Threads \ {t} : /\ pc'[u] = pc[u] /\ snap'[u] = snap[u]
                                  /\ nxt'[u] = nxt[u]
      /\ pc[t] = "new_cas"
  BY DEF IndInv, TypeOK, NewCas
<1>1. CASE head # snap[t]
  <2>a. /\ UNCHANGED <<head, next, stack, lag, cur, chunk, owned, fresh>>
        /\ pc'[t] = "new_ld"
    BY <1>1 DEF IndInv, TypeOK, NewCas
  <2>1. TypeOK'
    BY <1>1, <1>t DEF IndInv, TypeOK, NewCas
  <2>2. ListIntact'
    BY <2>a DEF IndInv, ListIntact, At
  <2>b. Listed' = Listed /\ \A u \in Threads : Private(u)' = Private(u)
    BY <1>o, <2>a DEF Listed, Private, Pushing
  <2>3. OneHolder'
    BY <1>o, <2>a, <2>b DEF IndInv, OneHolder, Pushing
  <2>4. LoadedHeadValid'
    BY <1>o, <2>a, <2>b DEF IndInv, LoadedHeadValid, ThreadHeadValid, Popping, Pushing
  <2> QED
    BY <2>1, <2>2, <2>3, <2>4 DEF IndInv
<1>2. CASE head = snap[t]
  <2>p. /\ lag[t] = 0 /\ stack # <<>> /\ stack[1] = snap[t].ptr
        /\ nxt[t] = At(stack, 2) /\ Len(stack) \in Nat \ {0}
    BY <1>2, <1>o, PopTakesTop
  <2>i. snap[t].ptr \in Items
    BY <2>p DEF IndInv, TypeOK
  <2>a. /\ head' = [ptr |-> nxt[t], ver |-> NextVersion(head.ver)]
        /\ stack' = Tail(stack)
        /\ cur' = [cur EXCEPT ![t] = snap[t].ptr]
        /\ pc'[t] = "new_ret"
        /\ UNCHANGED <<next, owned, fresh, chunk>>
        /\ \A u \in Threads \ {t} : Popping(u) => lag[u] < VersionMod - 1
        /\ lag' = [u \in Threads |->
                      IF u # t /\ Popping(u) THEN lag[u] + 1 ELSE 0]
    BY <1>2 DEF IndInv, TypeOK, NewCas, PoppedHead, NoVersionWrap
  <2>b. /\ stack' \in Seq(Items)
        /\ Len(stack') = Len(stack) - 1
        /\ \A i \in 1..Len(stack') : stack'[i] = stack[i + 1]
    BY <2>a, <2>p DEF IndInv, TypeOK
  <2>c. \A i \in 1..Len(stack') : i + 1 \in 1..Len(stack)
    BY <2>b, <2>p
  <2>d. Listed' \subseteq Listed /\ snap[t].ptr \in Listed
    <3>1. 1 \in 1..Len(stack)
      BY <2>p
    <3>2. \A i \in 1..Len(stack') : stack'[i] \in Listed
      BY <2>b, <2>c DEF Listed
    <3> QED
      BY <3>1, <3>2, <2>p DEF Listed
  <2>e. snap[t].ptr \notin Listed'
    <3>1. \A i \in 1..Len(stack') : stack'[i] # stack[1]
      <4> TAKE i \in 1..Len(stack')
      <4>1. i + 1 \in 1..Len(stack) /\ 1 \in 1..Len(stack) /\ i + 1 # 1
        BY <2>c, <2>p
      <4> QED
        BY <4>1, <2>b DEF IndInv, ListIntact
    <3> QED
      BY <3>1, <2>p DEF Listed
  <2>1. TypeOK'
    <3>1. head' \in HeadP
      BY <2>a, HeadTypes DEF IndInv, TypeOK
    <3>2. lag' \in [Threads -> 0..(VersionMod - 1)]
      BY <2>a, VersionAssumption DEF IndInv, TypeOK
    <3>3. cur' \in [Threads -> Pointer]
      BY <2>a, <2>i, HeadTypes DEF IndInv, TypeOK
    <3> QED
      BY <1>t, <2>a, <2>b, <3>1, <3>2, <3>3 DEF IndInv, TypeOK, NewCas
  <2>2. ListIntact'
    <3>1. At(stack', 1) = At(stack, 2)
      BY <2>b, <2>p DEF At
    <3>2. \A i \in 1..Len(stack') : next'[stack'[i]] = At(stack', i + 1)
      <4> TAKE i \in 1..Len(stack')
      <4>1. next'[stack'[i]] = At(stack, (i + 1) + 1)
        BY <2>a, <2>b, <2>c DEF IndInv, ListIntact
      <4>2. At(stack, (i + 1) + 1) = At(stack', i + 1)
        BY <2>b, <2>p DEF At
      <4> QED
        BY <4>1, <4>2
    <3>3. ASSUME NEW i \in 1..Len(stack'), NEW j \in 1..Len(stack'),
                 stack'[i] = stack'[j]
          PROVE  i = j
      <4>1. i + 1 = j + 1
        BY <2>b, <2>c, <3>3 DEF IndInv, ListIntact
      <4>2. i \in Int /\ j \in Int
        OBVIOUS
      <4> QED
        BY <4>1, <4>2
    <3> QED
      BY <2>a, <2>p, <3>1, <3>2, <3>3 DEF ListIntact
  <2>3. OneHolder'
    <3>1. /\ \A u \in Threads \ {t} : /\ Private(u)' = Private(u)
                                      /\ cur'[u] = cur[u]
          /\ Private(t)' = Private(t) \union {snap[t].ptr}
          /\ cur'[t] = snap[t].ptr
      BY <1>o, <2>a DEF IndInv, TypeOK, Private, Pushing
    <3>2. chunk[t] \subseteq Private(t)
      BY DEF Private
    <3>3. snap[t].ptr \notin chunk[t]
      BY <3>2, <2>d DEF IndInv, OneHolder
    <3>4. (\A u \in Threads : Pushing(u) \/ pc[u] = "new_ret"
                                => cur[u] \notin chunk[u])'
      BY <1>o, <2>a, <3>1, <3>3 DEF IndInv, OneHolder, Pushing
    <3> QED
      BY <2>a, <2>d, <2>e, <3>1, <3>4 DEF IndInv, OneHolder
  <2>4. LoadedHeadValid'
    <3> SUFFICES ASSUME NEW u \in Threads
                 PROVE  ThreadHeadValid(u)'
      BY DEF LoadedHeadValid
    <3>1. CASE u = t
      BY <3>1, <2>a, <2>i, NullAssumption
         DEF IndInv, TypeOK, ThreadHeadValid, Popping, Pushing
    <3>2. CASE u # t /\ Popping(u)
      <4>1. /\ snap[u].ver \in 0..(VersionMod - 1)
            /\ lag[u] \in 0..(VersionMod - 1) /\ lag[u] < VersionMod - 1
            /\ head.ver \in 0..(VersionMod - 1)
            /\ lag'[u] = lag[u] + 1
            /\ head'.ver = NextVersion(head.ver)
            /\ snap'[u] = snap[u] /\ pc'[u] = pc[u]
        BY <3>2, <1>o, <2>a, HeadTypes DEF IndInv, TypeOK
      <4>2. /\ snap[u].ptr # NULL
            /\ head.ver = IF snap[u].ver + lag[u] >= VersionMod
                            THEN snap[u].ver + lag[u] - VersionMod
                            ELSE snap[u].ver + lag[u]
        BY <3>2 DEF IndInv, LoadedHeadValid, ThreadHeadValid
      <4>3. head'.ver = IF snap[u].ver + lag'[u] >= VersionMod
                          THEN snap[u].ver + lag'[u] - VersionMod
                          ELSE snap[u].ver + lag'[u]
        BY <4>1, <4>2, VersionAssumption DEF NextVersion
      <4>4. lag'[u] # 0
        BY <4>1
      <4> QED
        BY <3>2, <4>1, <4>2, <4>3, <4>4 DEF ThreadHeadValid, Popping, Pushing
    <3>3. CASE u # t /\ ~Popping(u)
      BY <3>3, <1>o, <2>a DEF IndInv, TypeOK, LoadedHeadValid, ThreadHeadValid, Popping, Pushing
    <3> QED
      BY <3>1, <3>2, <3>3
  <2> QED
    BY <2>1, <2>2, <2>3, <2>4 DEF IndInv
<1> QED
  BY <1>1, <1>2

\* Every step preserves the invariant.
LEMMA StepIndInv == IndInv /\ [Next]_vars => IndInv'
<1> SUFFICES ASSUME IndInv, [Next]_vars PROVE IndInv'
  OBVIOUS
<1>1. CASE UNCHANGED vars
  <2>1. TypeOK'
    BY <1>1 DEF vars, IndInv, TypeOK
  <2>2. ListIntact'
    BY <1>1 DEF vars, IndInv, ListIntact, At
  <2>3. OneHolder'
    BY <1>1 DEF vars, IndInv, OneHolder, Listed, Private, Pushing
  <2>4. LoadedHeadValid'
    BY <1>1 DEF vars, IndInv, LoadedHeadValid, ThreadHeadValid, Listed,
                Pushing, Popping
  <2> QED
    BY <2>1, <2>2, <2>3, <2>4 DEF IndInv
<1> QED
  BY <1>1, NewCallIndInv, NewLoadIndInv, NewMallocIndInv, NewMallocFailsIndInv,
     NewFillIndInv, NewFilledIndInv, NewNextIndInv, NewCasIndInv,
     NewReturnIndInv, FreeCallIndInv, FreeLoadIndInv, FreeStoreIndInv,
     FreeCasIndInv, FreeReturnIndInv, CallerWriteIndInv
     DEF Next, Running, ThreadStep, NewStep, FreeStep, Caller, Ended

\* In every reachable state of the free list the invariant holds: the next
\* pointers form the list of the blocks pushed and not popped, and no block
\* is in two places, however the threads interleave.
THEOREM FreeListInvariant == Spec => []IndInv
  BY InitIndInv, StepIndInv, PTL DEF Spec

\* The two consequences a user of the free list relies on.
COROLLARY ListAlwaysIntact == Spec => [](ListIntact /\ OneHolder)
  BY FreeListInvariant, PTL DEF IndInv

-----------------------------------------------------------------------------
(* Refinement: the successful compare-and-swaps are the pushes and pops of *)
(* the pool, malloc is its growth, and every other step leaves it alone.   *)

\* A thread has a chunk in its hands only inside the loop that frees it.
FillLoop ==
    \A t \in Threads :
       /\ filling[t] = FALSE => chunk[t] = {}
       /\ filling[t] = TRUE => pc[t] \in {"new_fill", "free_ld", "free_store",
                                         "free_cas", "free_ret"}

\* filling is set exactly in the calls of free made by the fill loop of new.
LEMMA FillLoopInvariant == Spec => []FillLoop
<1>1. Init => FillLoop
  BY DEF Init, FillLoop
<1>2. IndInv /\ FillLoop /\ [Next]_vars => FillLoop'
  <2> SUFFICES ASSUME IndInv, FillLoop, [Next]_vars PROVE FillLoop'
    OBVIOUS
  <2> USE DEF IndInv, TypeOK, FillLoop, Goto, locals
  <2>1. CASE UNCHANGED vars
    BY <2>1 DEF vars
  <2>2. ASSUME NEW i \in Items, CallerWrite(i) PROVE FillLoop'
    BY <2>2 DEF CallerWrite
  <2>3. ASSUME NEW t \in Threads, NewCall(t) \/ FreeCall(t) PROVE FillLoop'
    BY <2>3 DEF NewCall, FreeCall
  <2>4. ASSUME NEW t \in Threads, NewLoad(t) \/ NewNext(t) \/ NewCas(t)
                                  \/ NewReturn(t) \/ NewMallocFails(t)
        PROVE  FillLoop'
    BY <2>4 DEF NewLoad, NewNext, NewCas, NewReturn, NewMallocFails
  <2>5. ASSUME NEW t \in Threads, NewMalloc(t) PROVE FillLoop'
    BY <2>5 DEF NewMalloc
  <2>6. ASSUME NEW t \in Threads, NewFill(t) PROVE FillLoop'
    BY <2>6 DEF NewFill
  <2>7. ASSUME NEW t \in Threads, NewFilled(t) PROVE FillLoop'
    BY <2>7 DEF NewFilled
  <2>8. ASSUME NEW t \in Threads, FreeLoad(t) \/ FreeStore(t) \/ FreeCas(t)
        PROVE  FillLoop'
    BY <2>8 DEF FreeLoad, FreeStore, FreeCas
  <2>9. ASSUME NEW t \in Threads, FreeReturn(t) PROVE FillLoop'
    BY <2>9 DEF FreeReturn
  <2> QED
    BY <2>1, <2>2, <2>3, <2>4, <2>5, <2>6, <2>7, <2>8, <2>9
       DEF Next, Running, ThreadStep, NewStep, FreeStep, Caller, Ended
<1> QED
  BY <1>1, <1>2, FreeListInvariant, PTL DEF Spec

\* A set of blocks that changes hands inside Outside leaves it unchanged.
LEMMA OutsideSame ==
    ASSUME owned' = owned, \A u \in Threads : Private(u)' = Private(u)
    PROVE  Outside' = Outside
  BY DEF Outside

\* A new chunk is a growth of the pool.
LEMMA RefineNewMalloc ==
    ASSUME NEW t \in Threads, IndInv, FillLoop, NewMalloc(t)
    PROVE  \E C \in SUBSET Items : Pool!Grow(C)
<1>1. PICK C \in SUBSET fresh : chunk' = [chunk EXCEPT ![t] = C]
  BY DEF NewMalloc
<1>2. /\ \A u \in Threads \ {t} : Private(u)' = Private(u)
      /\ Private(t)' = C /\ Private(t) = chunk[t]
      /\ owned' = owned /\ stack' = stack
  BY <1>1 DEF IndInv, TypeOK, Private, Pushing, NewMalloc, Goto
<1>3. C \subseteq Items \ (Outside \union Pool!InStore)
  BY DEF IndInv, TypeOK, OneHolder, Outside, Listed, Pool!InStore
<1>4. chunk[t] = {}
  BY DEF IndInv, TypeOK, FillLoop, NewMalloc, Goto
<1>5. Outside' = Outside \union C
  BY <1>2, <1>4 DEF Outside
<1> QED
  BY <1>2, <1>3, <1>5 DEF Pool!Grow, IndInv, TypeOK

\* The compare-and-swap of new is a pop, or changes nothing in the pool.
LEMMA RefineNewCas ==
    ASSUME NEW t \in Threads, IndInv, NewCas(t)
    PROVE  Pool!Pop \/ UNCHANGED <<stack, Outside>>
<1>1. CASE head # snap[t]
  <2>1. \A u \in Threads : Private(u)' = Private(u)
    BY <1>1 DEF IndInv, TypeOK, NewCas, Private, Pushing
  <2> QED
    BY <1>1, <2>1, OutsideSame DEF NewCas
<1>2. CASE head = snap[t]
  <2>1. /\ \A u \in Threads \ {t} : Private(u)' = Private(u)
        /\ Private(t)' = Private(t) \union {snap[t].ptr}
        /\ owned' = owned /\ stack' = Tail(stack)
    BY <1>2 DEF IndInv, TypeOK, NewCas, Private, Pushing
  <2>2. stack # <<>> /\ Head(stack) = snap[t].ptr
    BY <1>2, PopTakesTop DEF NewCas
  <2>3. Outside' = Outside \union {Head(stack)}
    BY <2>1, <2>2 DEF Outside
  <2> QED
    BY <2>1, <2>2, <2>3 DEF Pool!Pop
<1> QED
  BY <1>1, <1>2

\* The compare-and-swap of free is a push, or changes nothing in the pool.
LEMMA RefineFreeCas ==
    ASSUME NEW t \in Threads, IndInv, FreeCas(t)
    PROVE  (\E i \in Items : Pool!Push(i)) \/ UNCHANGED <<stack, Outside>>
<1>1. CASE head # snap[t]
  <2>1. \A u \in Threads : Private(u)' = Private(u)
    BY <1>1 DEF IndInv, TypeOK, FreeCas, Private, Pushing
  <2> QED
    BY <1>1, <2>1, OutsideSame DEF FreeCas
<1>2. CASE head = snap[t]
  <2>1. /\ \A u \in Threads \ {t} : Private(u)' = Private(u)
        /\ Private(t)' = chunk[t]
        /\ Private(t) = chunk[t] \union {cur[t]}
        /\ owned' = owned /\ stack' = <<cur[t]>> \o stack
    BY <1>2 DEF IndInv, TypeOK, FreeCas, Private, Pushing
  <2>2. /\ cur[t] \in Items /\ cur[t] \notin chunk[t]
        /\ cur[t] \notin owned
        /\ \A u \in Threads \ {t} : cur[t] \notin Private(u)
    BY <2>1 DEF IndInv, TypeOK, OneHolder, LoadedHeadValid, ThreadHeadValid,
                Pointer, Pushing, FreeCas
  <2>3. cur[t] \in Outside
    BY <2>1 DEF Outside
  <2>4. Outside' = Outside \ {cur[t]}
    BY <2>1, <2>2 DEF Outside
  <2> QED
    BY <2>1, <2>2, <2>3, <2>4 DEF Pool!Push
<1> QED
  BY <1>1, <1>2

\* The steps that are neither: blocks only move between the thread and its
\* callers.
LEMMA RefineOther ==
    ASSUME NEW t \in Threads, IndInv,
           \/ NewCall(t) \/ FreeCall(t) \/ NewLoad(t) \/ NewMallocFails(t)
           \/ NewFill(t) \/ NewFilled(t) \/ NewNext(t) \/ NewReturn(t)
           \/ FreeLoad(t) \/ FreeStore(t) \/ FreeReturn(t)
    PROVE  UNCHANGED <<stack, Outside>>
<1> USE DEF Goto, locals
<1>1. CASE \/ NewCall(t) \/ NewLoad(t) \/ NewMallocFails(t) \/ NewFilled(t)
           \/ NewNext(t) \/ FreeLoad(t) \/ FreeStore(t) \/ FreeReturn(t)
  <2>1. \A u \in Threads : Private(u)' = Private(u)
    BY <1>1 DEF IndInv, TypeOK, Private, Pushing, NewCall, NewLoad,
                NewMallocFails, NewFilled, NewNext, FreeLoad, FreeStore,
                FreeReturn
  <2>2. owned' = owned /\ stack' = stack
    BY <1>1 DEF NewCall, NewLoad, NewMallocFails, NewFilled, NewNext, FreeLoad,
                FreeStore, FreeReturn
  <2> QED
    BY <2>1, <2>2, OutsideSame
<1>2. CASE NewFill(t)
  <2>1. \A u \in Threads : Private(u)' = Private(u)
    BY <1>2 DEF IndInv, TypeOK, Private, Pushing, NewFill
  <2> QED
    BY <1>2, <2>1, OutsideSame DEF NewFill
<1>3. CASE FreeCall(t)
  <2>1. PICK i \in owned : /\ cur' = [cur EXCEPT ![t] = i]
                           /\ owned' = owned \ {i}
    BY <1>3 DEF FreeCall
  <2>2. /\ \A u \in Threads \ {t} : Private(u)' = Private(u)
        /\ Private(t)' = Private(t) \union {i}
    BY <1>3, <2>1 DEF IndInv, TypeOK, Private, Pushing, FreeCall
  <2>3. Outside' = Outside
    BY <2>1, <2>2 DEF Outside
  <2> QED
    BY <1>3, <2>3 DEF FreeCall
<1>4. CASE NewReturn(t)
  <2>1. /\ \A u \in Threads \ {t} : Private(u)' = Private(u)
        /\ Private(t)' = chunk[t]
        /\ Private(t) = chunk[t] \union {cur[t]}
        /\ owned' = owned \union {cur[t]}
    BY <1>4 DEF IndInv, TypeOK, Private, Pushing, NewReturn
  <2>2. Outside' = Outside
    BY <2>1 DEF Outside
  <2> QED
    BY <1>4, <2>2 DEF NewReturn
<1> QED
  BY <1>1, <1>2, <1>3, <1>4

\* The lock-free list is a last-in first-out pool with atomic operations.
THEOREM FreeListImplementsPool == Spec => ImplementsPool
<1>1. Init => Pool!PoolInit
  BY DEF Init, Pool!PoolInit, Outside, Private, Pushing
<1>2. IndInv /\ FillLoop /\ [Next]_vars => [Pool!PoolNext]_(Pool!poolVars)
  <2> SUFFICES ASSUME IndInv, FillLoop, [Next]_vars
               PROVE  Pool!PoolNext \/ UNCHANGED <<stack, Outside>>
    BY DEF Pool!poolVars
  <2>1. CASE UNCHANGED vars
    BY <2>1 DEF vars, Outside, Private, Pushing
  <2>2. ASSUME NEW i \in Items, CallerWrite(i)
        PROVE  UNCHANGED <<stack, Outside>>
    BY <2>2 DEF CallerWrite, locals, Outside, Private, Pushing
  <2> QED
    BY <2>1, <2>2, RefineNewMalloc, RefineNewCas, RefineFreeCas, RefineOther
       DEF Next, Running, ThreadStep, NewStep, FreeStep, Caller, Ended,
           Pool!PoolNext
<1> QED
  BY <1>1, <1>2, FreeListInvariant, FillLoopInvariant, PTL
     DEF Spec, ImplementsPool, Pool!PoolSpec

-----------------------------------------------------------------------------
(* The counters.  They are machine words, so what holds of them at any time   *)
(* is an equation modulo their width; at rest it is an equation of numbers.   *)

\* A number, its quotient and its remainder.
LEMMA ModFacts ==
    ASSUME NEW a \in Int
    PROVE  /\ a % UIntMod \in 0..(UIntMod - 1) /\ a \div UIntMod \in Int
           /\ a = UIntMod * (a \div UIntMod) + (a % UIntMod)
  BY UIntAssumption

\* Two remainders that differ by a multiple of the width are equal.
LEMMA ModUnique ==
    ASSUME NEW r \in 0..(UIntMod - 1), NEW s \in 0..(UIntMod - 1), NEW k \in Int,
           r = s + k * UIntMod
    PROVE  r = s
<1>1. \A j \in Int : j >= 1 => j * UIntMod >= UIntMod
  BY UIntAssumption
<1>2. CASE k >= 1
  <2>1. k * UIntMod >= UIntMod
    BY <1>1, <1>2
  <2> QED
    BY <2>1, UIntAssumption
<1>3. CASE k <= -1
  <2>1. (-k) * UIntMod >= UIntMod
    BY <1>1, <1>3
  <2>2. (-k) * UIntMod = -(k * UIntMod)
    BY UIntAssumption
  <2> QED
    BY <2>1, <2>2, UIntAssumption
<1>4. CASE k = 0
  BY <1>4, UIntAssumption
<1> QED
  BY <1>2, <1>3, <1>4

\* Numbers that differ by a multiple of the width have the same remainder.
LEMMA ModSame ==
    ASSUME NEW a \in Int, NEW b \in Int, NEW k \in Int, a = b + k * UIntMod
    PROVE  a % UIntMod = b % UIntMod
<1> DEFINE q == a \div UIntMod
           p == b \div UIntMod
           x == a % UIntMod
           y == b % UIntMod
<1>1. q \in Int /\ x \in 0..(UIntMod - 1) /\ a = UIntMod * q + x
  BY ModFacts
<1>2. p \in Int /\ y \in 0..(UIntMod - 1) /\ b = UIntMod * p + y
  BY ModFacts
<1> HIDE DEF q, p, x, y
<1>3. x = y + (p + k - q) * UIntMod
  BY <1>1, <1>2, UIntAssumption
<1>4. x = y
  BY <1>1, <1>2, <1>3, ModUnique
<1> QED
  BY <1>4 DEF x, y

\* What is added to a wrapped number may be added before wrapping.
LEMMA AddUIntWraps ==
    ASSUME NEW x \in Int, NEW d \in Int
    PROVE  AddUInt(x % UIntMod, d) = (x + d) % UIntMod
<1>1. x \div UIntMod \in Int /\ x % UIntMod \in Int
      /\ x = UIntMod * (x \div UIntMod) + (x % UIntMod)
  BY ModFacts
<1> DEFINE q == x \div UIntMod
           r == x % UIntMod
<1> HIDE DEF q, r
<1>2. x + d = (r + d) + q * UIntMod /\ q \in Int /\ r \in Int
  BY <1>1, UIntAssumption DEF q, r
<1>3. (x + d) % UIntMod = (r + d) % UIntMod
  BY <1>2, ModSame
<1> QED
  BY <1>3 DEF r, AddUInt

\* Adding the largest word takes one away.
LEMMA TakeOneWraps ==
    ASSUME NEW x \in Int
    PROVE  AddUInt(x % UIntMod, UIntMod - 1) = (x - 1) % UIntMod
<1> DEFINE d == UIntMod - 1
<1>d. d \in Int
  BY UIntAssumption
<1> HIDE DEF d
<1>1. AddUInt(x % UIntMod, d) = (x + d) % UIntMod
  BY <1>d, AddUIntWraps
<1>2. x + (UIntMod - 1) \in Int /\ x - 1 \in Int /\ x + (UIntMod - 1) = (x - 1) + 1 * UIntMod
  BY UIntAssumption
<1>3. (x + (UIntMod - 1)) % UIntMod = (x - 1) % UIntMod
  BY <1>2, ModSame
<1> QED
  BY <1>1, <1>3 DEF d

\* The machine has finitely many threads and blocks.
FiniteMachine == IsFiniteSet(Threads) /\ IsFiniteSet(Items)

\* The sets that are counted are finite.
LEMMA CountsFinite ==
    ASSUME FiniteMachine, TypeOK
    PROVE  /\ IsFiniteSet(owned) /\ Cardinality(owned) \in Nat
           /\ IsFiniteSet(Freeing) /\ Cardinality(Freeing) \in Nat
           /\ IsFiniteSet(InChunks) /\ Cardinality(InChunks) \in Nat
           /\ IsFiniteSet(Filling) /\ Cardinality(Filling) \in Nat
           /\ IsFiniteSet(Items \ fresh) /\ Cardinality(Items \ fresh) \in Nat
           /\ InUse \in Int
<1>1. owned \in SUBSET Items /\ InChunks \in SUBSET Items /\ (Items \ fresh) \in SUBSET Items
  BY DEF TypeOK, InChunks
<1>2. Freeing \in SUBSET Threads /\ Filling \in SUBSET Threads
  BY DEF Freeing, Filling
<1>3. IsFiniteSet(owned) /\ IsFiniteSet(InChunks) /\ IsFiniteSet(Items \ fresh)
      /\ IsFiniteSet(Freeing) /\ IsFiniteSet(Filling)
  BY <1>1, <1>2, FS_Subset DEF FiniteMachine
<1>4. /\ Cardinality(owned) \in Nat /\ Cardinality(InChunks) \in Nat
      /\ Cardinality(Items \ fresh) \in Nat
      /\ Cardinality(Freeing) \in Nat /\ Cardinality(Filling) \in Nat
  BY <1>3, FS_CardinalityType
<1>5. InUse \in Int
  BY <1>4, ChunkAssumption DEF InUse
<1> QED
  BY <1>3, <1>4, <1>5

\* A step that leaves the counters and what they count alone.
LEMMA CountedSame ==
    ASSUME Counted, used' = used, allocated' = allocated, fresh' = fresh,
           owned' = owned, Freeing' = Freeing, InChunks' = InChunks, Filling' = Filling
    PROVE  Counted'
  BY DEF Counted, InUse

\* A thread goes on without a change to its chunk or to being in free.
LEMMA PlainSteps ==
    ASSUME NEW t \in Threads, IndInv, Counted,
           \/ NewCall(t) \/ NewLoad(t) \/ NewMallocFails(t) \/ NewNext(t) \/ NewCas(t)
           \/ FreeLoad(t) \/ FreeStore(t) \/ FreeCas(t)
    PROVE  Counted'
<1> USE DEF Goto, locals
<1>1. /\ used' = used /\ allocated' = allocated /\ fresh' = fresh /\ owned' = owned
      /\ chunk' = chunk /\ filling' = filling
  BY DEF NewCall, NewLoad, NewMallocFails, NewNext, NewCas, FreeLoad, FreeStore, FreeCas
<1>2. \A u \in Threads : pc'[u] \in {"free_ld", "free_store", "free_cas", "free_ret"}
                         <=> pc[u] \in {"free_ld", "free_store", "free_cas", "free_ret"}
  BY DEF IndInv, TypeOK, NewCall, NewLoad, NewMallocFails, NewNext, NewCas, FreeLoad,
         FreeStore, FreeCas
<1>3. Freeing' = Freeing /\ InChunks' = InChunks /\ Filling' = Filling
  BY <1>1, <1>2 DEF Freeing, InChunks, Filling
<1> QED
  BY <1>1, <1>3, CountedSame

\* A chunk is allocated: its blocks are counted as allocated, and what the loop
\* will take away is taken into account.
LEMMA MallocCounted ==
    ASSUME NEW t \in Threads, IndInv, IndInv', FillLoop, FiniteMachine, Counted, NewMalloc(t)
    PROVE  Counted'
<1>1. PICK C \in SUBSET fresh : /\ Cardinality(C) = ChunkSize
                                /\ chunk' = [chunk EXCEPT ![t] = C]
                                /\ fresh' = fresh \ C
  BY DEF NewMalloc
<1>2. /\ pc[t] = "new_malloc" /\ pc' = [pc EXCEPT ![t] = "new_fill"]
      /\ filling' = [filling EXCEPT ![t] = TRUE] /\ used' = used /\ owned' = owned
      /\ allocated' = AddUInt(allocated, ChunkSize)
  BY DEF NewMalloc, Goto
<1>3. TypeOK /\ TypeOK' /\ OneHolder
  BY DEF IndInv
<1>4. C \in SUBSET Items /\ IsFiniteSet(C)
  <2>1. C \in SUBSET Items
    BY <1>3 DEF TypeOK
  <2> QED
    BY <2>1, FS_Subset DEF FiniteMachine
<1>5. Freeing' = Freeing
  BY <1>2, <1>3 DEF Freeing, TypeOK
<1>6. filling[t] = FALSE /\ chunk[t] = {}
  <2>1. filling[t] \in BOOLEAN /\ filling[t] # TRUE
    BY <1>2, <1>3 DEF FillLoop, TypeOK
  <2> QED
    BY <2>1 DEF FillLoop
<1>7. Filling' = Filling \union {t} /\ t \notin Filling
  BY <1>2, <1>3, <1>6 DEF Filling, TypeOK
<1>8. InChunks' = InChunks \union C /\ InChunks \intersect C = {}
  <2>1. \A u \in Threads : chunk[u] \subseteq Private(u)
    BY DEF Private
  <2>2. \A u \in Threads : chunk[u] \intersect fresh = {}
    BY <1>3, <2>1 DEF OneHolder
  <2>3. \A u \in Threads : chunk'[u] = IF u = t THEN C ELSE chunk[u]
    BY <1>1, <1>3 DEF TypeOK
  <2> QED
    BY <1>6, <2>2, <2>3 DEF InChunks
<1>9. (Items \ fresh)' = (Items \ fresh) \union C /\ (Items \ fresh) \intersect C = {}
  BY <1>1, <1>4
<1>10. Cardinality(Filling') = Cardinality(Filling) + 1
  BY <1>3, <1>7, CountsFinite, FS_AddElement
<1>11. Cardinality(InChunks') = Cardinality(InChunks) + ChunkSize
  <2>1. Cardinality(InChunks \intersect C) = 0
    BY <1>8, FS_EmptySet
  <2>2. Cardinality(InChunks \union C) = Cardinality(InChunks) + Cardinality(C) - 0
    BY <1>3, <1>4, <2>1, CountsFinite, FS_Union
  <2> QED
    BY <1>1, <1>3, <1>8, <2>2, CountsFinite, ChunkAssumption
<1>12. Cardinality((Items \ fresh)') = Cardinality(Items \ fresh) + ChunkSize
  <2>1. Cardinality((Items \ fresh) \intersect C) = 0
    BY <1>9, FS_EmptySet
  <2>2. Cardinality((Items \ fresh) \union C) = Cardinality(Items \ fresh) + Cardinality(C) - 0
    BY <1>3, <1>4, <2>1, CountsFinite, FS_Union
  <2> QED
    BY <1>1, <1>3, <1>9, <2>2, CountsFinite, ChunkAssumption
<1>13. InUse' = InUse
  <2> DEFINE o == Cardinality(owned)
             f == Cardinality(Freeing)
             i == Cardinality(InChunks)
             l == Cardinality(Filling)
  <2>1. o \in Nat /\ f \in Nat /\ i \in Nat /\ l \in Nat
    BY <1>3, CountsFinite
  <2>2. InUse = o + f + i - ChunkSize * l
    BY DEF InUse
  <2>3. InUse' = o + f + (i + ChunkSize) - ChunkSize * (l + 1)
    BY <1>2, <1>5, <1>10, <1>11 DEF InUse
  <2> HIDE DEF o, f, i, l
  <2> QED
    BY <2>1, <2>2, <2>3, ChunkAssumption
<1>14. used' = InUse' % UIntMod
  BY <1>2, <1>13 DEF Counted
<1>15. allocated' = (Cardinality(Items \ fresh) + ChunkSize) % UIntMod
  BY <1>2, <1>3, CountsFinite, AddUIntWraps, ChunkAssumption DEF Counted
<1> QED
  BY <1>12, <1>14, <1>15 DEF Counted

\* The loop over the chunk frees its next block.
LEMMA FillCounted ==
    ASSUME NEW t \in Threads, IndInv, IndInv', FiniteMachine, Counted, NewFill(t)
    PROVE  Counted'
<1>1. PICK b \in chunk[t] : chunk' = [chunk EXCEPT ![t] = @ \ {b}]
  BY DEF NewFill
<1>2. /\ pc[t] = "new_fill" /\ pc' = [pc EXCEPT ![t] = "free_ld"]
      /\ UNCHANGED <<used, allocated, fresh, owned, filling>>
  BY DEF NewFill, Goto
<1>3. TypeOK /\ OneHolder
  BY DEF IndInv
<1>4. Freeing' = Freeing \union {t} /\ t \notin Freeing
  BY <1>2, <1>3 DEF Freeing, TypeOK
<1>5. Filling' = Filling
  BY <1>2 DEF Filling
<1>6. InChunks' = InChunks \ {b} /\ b \in InChunks
  <2>1. \A u \in Threads : chunk[u] \subseteq Private(u)
    BY DEF Private
  <2>2. \A u \in Threads : u # t => b \notin chunk[u]
    BY <1>3, <2>1 DEF OneHolder
  <2>3. \A u \in Threads : chunk'[u] = IF u = t THEN chunk[t] \ {b} ELSE chunk[u]
    BY <1>1, <1>3 DEF TypeOK
  <2> QED
    BY <2>2, <2>3 DEF InChunks
<1>7. Cardinality(Freeing') = Cardinality(Freeing) + 1
  BY <1>3, <1>4, CountsFinite, FS_AddElement
<1>8. Cardinality(InChunks') = Cardinality(InChunks) - 1
  BY <1>3, <1>6, CountsFinite, FS_RemoveElement
<1>9. InUse' = InUse
  <2> DEFINE o == Cardinality(owned)
             f == Cardinality(Freeing)
             i == Cardinality(InChunks)
             l == ChunkSize * Cardinality(Filling)
  <2>1. o \in Nat /\ f \in Nat /\ i \in Nat /\ l \in Int
    BY <1>3, CountsFinite, ChunkAssumption
  <2>2. InUse = o + f + i - l
    BY DEF InUse
  <2>3. InUse' = o + (f + 1) + (i - 1) - l
    BY <1>2, <1>5, <1>7, <1>8 DEF InUse
  <2> HIDE DEF o, f, i, l
  <2> QED
    BY <2>1, <2>2, <2>3
<1> QED
  BY <1>2, <1>9 DEF Counted

\* The chunk is filled, and used is put back.
LEMMA FilledCounted ==
    ASSUME NEW t \in Threads, IndInv, FillLoop, FiniteMachine, Counted, NewFilled(t),
           filling[t] = TRUE
    PROVE  Counted'
<1>1. /\ pc[t] = "new_fill" /\ pc' = [pc EXCEPT ![t] = "new_ld"]
      /\ UNCHANGED <<allocated, fresh, owned, chunk>>
      /\ used' = AddUInt(used, ChunkSize) /\ filling' = [filling EXCEPT ![t] = FALSE]
  BY DEF NewFilled, Goto
<1>2. TypeOK
  BY DEF IndInv
<1>3. Freeing' = Freeing /\ InChunks' = InChunks
  BY <1>1, <1>2 DEF Freeing, InChunks, TypeOK
<1>4. Filling' = Filling \ {t} /\ t \in Filling
  BY <1>1, <1>2 DEF Filling, TypeOK
<1>5. Cardinality(Filling') = Cardinality(Filling) - 1
  BY <1>2, <1>4, CountsFinite, FS_RemoveElement
<1>6. InUse' = InUse + ChunkSize
  <2> DEFINE o == Cardinality(owned)
             f == Cardinality(Freeing)
             i == Cardinality(InChunks)
             l == Cardinality(Filling)
  <2>1. o \in Nat /\ f \in Nat /\ i \in Nat /\ l \in Nat
    BY <1>2, CountsFinite
  <2>2. InUse = o + f + i - ChunkSize * l
    BY DEF InUse
  <2>3. InUse' = o + f + i - ChunkSize * (l - 1)
    BY <1>1, <1>3, <1>5 DEF InUse
  <2> HIDE DEF o, f, i, l
  <2> QED
    BY <2>1, <2>2, <2>3, ChunkAssumption
<1>7. used' = (InUse + ChunkSize) % UIntMod
  BY <1>1, <1>2, CountsFinite, AddUIntWraps, ChunkAssumption DEF Counted
<1> QED
  BY <1>1, <1>6, <1>7 DEF Counted

\* A popped block goes to the caller.
LEMMA ReturnCounted ==
    ASSUME NEW t \in Threads, IndInv, FiniteMachine, Counted, NewReturn(t)
    PROVE  Counted'
<1>1. /\ pc[t] = "new_ret" /\ pc' = [pc EXCEPT ![t] = "idle"]
      /\ UNCHANGED <<allocated, fresh, chunk, filling>>
      /\ used' = AddUInt(used, 1) /\ owned' = owned \union {cur[t]}
  BY DEF NewReturn, Goto
<1>2. TypeOK /\ OneHolder
  BY DEF IndInv
<1>3. Freeing' = Freeing /\ InChunks' = InChunks /\ Filling' = Filling
  BY <1>1, <1>2 DEF Freeing, InChunks, Filling, TypeOK
<1>4. cur[t] \notin owned
  <2>1. cur[t] \in Private(t)
    BY <1>1 DEF Private
  <2> QED
    BY <1>2, <2>1 DEF OneHolder
<1>5. Cardinality(owned') = Cardinality(owned) + 1
  BY <1>1, <1>2, <1>4, CountsFinite, FS_AddElement
<1>6. InUse' = InUse + 1
  <2> DEFINE o == Cardinality(owned)
             f == Cardinality(Freeing)
             i == Cardinality(InChunks)
             l == ChunkSize * Cardinality(Filling)
  <2>1. o \in Nat /\ f \in Nat /\ i \in Nat /\ l \in Int
    BY <1>2, CountsFinite, ChunkAssumption
  <2>2. InUse = o + f + i - l
    BY DEF InUse
  <2>3. InUse' = (o + 1) + f + i - l
    BY <1>3, <1>5 DEF InUse
  <2> HIDE DEF o, f, i, l
  <2> QED
    BY <2>1, <2>2, <2>3
<1>7. used' = (InUse + 1) % UIntMod
  BY <1>1, <1>2, CountsFinite, AddUIntWraps DEF Counted
<1> QED
  BY <1>1, <1>6, <1>7 DEF Counted

\* A caller gives a block back: until the call ends it counts as used.
LEMMA FreeCallCounted ==
    ASSUME NEW t \in Threads, IndInv, FiniteMachine, Counted, FreeCall(t)
    PROVE  Counted'
<1>1. PICK b \in owned : owned' = owned \ {b}
  BY DEF FreeCall
<1>2. /\ pc[t] = "idle" /\ pc' = [pc EXCEPT ![t] = "free_ld"]
      /\ UNCHANGED <<used, allocated, fresh, chunk, filling>>
  BY DEF FreeCall, Goto
<1>3. TypeOK
  BY DEF IndInv
<1>4. Freeing' = Freeing \union {t} /\ t \notin Freeing
  BY <1>2, <1>3 DEF Freeing, TypeOK
<1>5. InChunks' = InChunks /\ Filling' = Filling
  BY <1>2 DEF InChunks, Filling
<1>6. Cardinality(Freeing') = Cardinality(Freeing) + 1
  BY <1>3, <1>4, CountsFinite, FS_AddElement
<1>7. Cardinality(owned') = Cardinality(owned) - 1
  BY <1>1, <1>3, CountsFinite, FS_RemoveElement
<1>8. InUse' = InUse
  <2> DEFINE o == Cardinality(owned)
             f == Cardinality(Freeing)
             i == Cardinality(InChunks)
             l == ChunkSize * Cardinality(Filling)
  <2>1. o \in Nat /\ f \in Nat /\ i \in Nat /\ l \in Int
    BY <1>3, CountsFinite, ChunkAssumption
  <2>2. InUse = o + f + i - l
    BY DEF InUse
  <2>3. InUse' = (o - 1) + (f + 1) + i - l
    BY <1>5, <1>6, <1>7 DEF InUse
  <2> HIDE DEF o, f, i, l
  <2> QED
    BY <2>1, <2>2, <2>3
<1> QED
  BY <1>2, <1>8 DEF Counted

\* A free ends, and used is decremented.
LEMMA FreeReturnCounted ==
    ASSUME NEW t \in Threads, IndInv, FiniteMachine, Counted, FreeReturn(t)
    PROVE  Counted'
<1>1. /\ pc[t] = "free_ret" /\ pc' = [pc EXCEPT ![t] = IF filling[t] THEN "new_fill" ELSE "idle"]
      /\ UNCHANGED <<allocated, fresh, owned, chunk, filling>>
      /\ used' = AddUInt(used, UIntMod - 1)
  BY DEF FreeReturn, Goto
<1>2. TypeOK
  BY DEF IndInv
<1>3. pc'[t] \in {"new_fill", "idle"} /\ \A u \in Threads : u # t => pc'[u] = pc[u]
  BY <1>1, <1>2 DEF TypeOK
<1>4. Freeing' = Freeing \ {t} /\ t \in Freeing
  BY <1>1, <1>3 DEF Freeing
<1>5. InChunks' = InChunks /\ Filling' = Filling
  BY <1>1 DEF InChunks, Filling
<1>6. Cardinality(Freeing') = Cardinality(Freeing) - 1
  BY <1>2, <1>4, CountsFinite, FS_RemoveElement
<1>7. InUse' = InUse - 1
  <2> DEFINE o == Cardinality(owned)
             f == Cardinality(Freeing)
             i == Cardinality(InChunks)
             l == ChunkSize * Cardinality(Filling)
  <2>1. o \in Nat /\ f \in Nat /\ i \in Nat /\ l \in Int
    BY <1>2, CountsFinite, ChunkAssumption
  <2>2. InUse = o + f + i - l
    BY DEF InUse
  <2>3. InUse' = o + (f - 1) + i - l
    BY <1>1, <1>5, <1>6 DEF InUse
  <2> HIDE DEF o, f, i, l
  <2> QED
    BY <2>1, <2>2, <2>3
<1>8. used' = (InUse - 1) % UIntMod
  BY <1>1, <1>2, CountsFinite, TakeOneWraps DEF Counted
<1> QED
  BY <1>1, <1>7, <1>8 DEF Counted

\* No thread is at the end of the loop over a chunk without being in it.
LEMMA FillHasChunk == Spec => [](\A t \in Threads : pc[t] = "new_fill" => filling[t] = TRUE)
<1> DEFINE InLoop == \A t \in Threads : pc[t] = "new_fill" => filling[t] = TRUE
<1>1. Init => InLoop
  BY DEF Init
<1>2. IndInv /\ InLoop /\ [Next]_vars => InLoop'
  <2> SUFFICES ASSUME IndInv, InLoop, [Next]_vars PROVE InLoop'
    OBVIOUS
  <2> USE DEF IndInv, TypeOK, Goto, locals
  <2>1. CASE UNCHANGED vars
    BY <2>1 DEF vars
  <2>2. ASSUME NEW i \in Items, CallerWrite(i) PROVE InLoop'
    BY <2>2 DEF CallerWrite
  <2>3. ASSUME NEW t \in Threads, NewCall(t) \/ FreeCall(t) PROVE InLoop'
    BY <2>3 DEF NewCall, FreeCall
  <2>4. ASSUME NEW t \in Threads, NewLoad(t) \/ NewNext(t) \/ NewCas(t)
                                  \/ NewReturn(t) \/ NewMallocFails(t)
        PROVE  InLoop'
    BY <2>4 DEF NewLoad, NewNext, NewCas, NewReturn, NewMallocFails
  <2>5. ASSUME NEW t \in Threads, NewMalloc(t) PROVE InLoop'
    BY <2>5 DEF NewMalloc
  <2>6. ASSUME NEW t \in Threads, NewFill(t) \/ NewFilled(t) PROVE InLoop'
    BY <2>6 DEF NewFill, NewFilled
  <2>7. ASSUME NEW t \in Threads, FreeLoad(t) \/ FreeStore(t) \/ FreeCas(t) \/ FreeReturn(t)
        PROVE  InLoop'
    BY <2>7 DEF FreeLoad, FreeStore, FreeCas, FreeReturn
  <2> QED
    BY <2>1, <2>2, <2>3, <2>4, <2>5, <2>6, <2>7
       DEF Next, Running, ThreadStep, NewStep, FreeStep, Caller, Ended
<1> QED
  BY <1>1, <1>2, FreeListInvariant, PTL DEF Spec

\* At the start nothing is counted.
LEMMA InitCounted == Init => Counted
<1> SUFFICES ASSUME Init PROVE Counted
  OBVIOUS
<1>1. owned = {} /\ Freeing = {} /\ InChunks = {} /\ Filling = {} /\ Items \ fresh = {}
  BY DEF Init, Freeing, InChunks, Filling
<1>2. Cardinality({}) = 0
  BY FS_EmptySet
<1>3. 0 % UIntMod = 0
  BY UIntAssumption
<1>4. InUse = 0
  BY <1>1, <1>2, ChunkAssumption DEF InUse
<1> QED
  BY <1>1, <1>2, <1>3, <1>4 DEF Counted, Init

\* Every step keeps the counters exact modulo their width.
LEMMA StepCounted ==
    ASSUME FiniteMachine, IndInv, IndInv', FillLoop, Counted, [Next]_vars,
           \A t \in Threads : pc[t] = "new_fill" => filling[t] = TRUE
    PROVE  Counted'
<1>1. CASE UNCHANGED vars
  BY <1>1, CountedSame DEF vars, Freeing, InChunks, Filling
<1>2. ASSUME NEW i \in Items, CallerWrite(i) PROVE Counted'
  BY <1>2, CountedSame DEF CallerWrite, locals, Freeing, InChunks, Filling
<1>3. ASSUME NEW t \in Threads, NewFilled(t) PROVE Counted'
  <2>1. filling[t] = TRUE
    BY <1>3 DEF NewFilled, Goto
  <2> QED
    BY <1>3, <2>1, FilledCounted
<1> QED
  BY <1>1, <1>2, <1>3, PlainSteps, MallocCounted, FillCounted, ReturnCounted, FreeCallCounted,
     FreeReturnCounted
     DEF Next, Running, ThreadStep, NewStep, FreeStep, Caller, Ended

\* Where no call is in progress, what is counted are the blocks of the callers,
\* and fewer blocks than a word has values are counted without wrapping.
LEMMA AtRest ==
    ASSUME FiniteMachine, Cardinality(Items) < UIntMod, TypeOK, FillLoop, Counted
    PROVE  CountersAtRest
<1> SUFFICES ASSUME \A t \in Threads : pc[t] = "idle"
             PROVE  used = Cardinality(owned) /\ allocated = Cardinality(Items \ fresh)
  BY DEF CountersAtRest
<1>1. Freeing = {} /\ Filling = {} /\ InChunks = {}
  <2>1. \A t \in Threads : filling[t] = FALSE
    BY DEF FillLoop, TypeOK
  <2> QED
    BY <2>1 DEF Freeing, Filling, InChunks, FillLoop
<1>2. Cardinality({}) = 0
  BY FS_EmptySet
<1>3. Cardinality(owned) \in Nat /\ Cardinality(Items \ fresh) \in Nat
  BY CountsFinite
<1>4. InUse = Cardinality(owned)
  BY <1>1, <1>2, <1>3, ChunkAssumption DEF InUse
<1>5. Cardinality(owned) <= Cardinality(Items) /\ Cardinality(Items \ fresh) <= Cardinality(Items)
  <2>1. owned \in SUBSET Items /\ (Items \ fresh) \in SUBSET Items
    BY DEF TypeOK
  <2> QED
    BY <2>1, FS_Subset DEF FiniteMachine
<1>6. Cardinality(Items) \in Nat
  BY FS_CardinalityType DEF FiniteMachine
<1>7. \A x \in 0..(UIntMod - 1) : x % UIntMod = x
  BY UIntAssumption
<1>8. Cardinality(owned) \in 0..(UIntMod - 1) /\ Cardinality(Items \ fresh) \in 0..(UIntMod - 1)
  BY <1>3, <1>5, <1>6, UIntAssumption
<1> QED
  BY <1>4, <1>7, <1>8 DEF Counted

\* f->used and f->allocated are exact at any time modulo their width, and exact
\* numbers whenever no call of ink_freelist_new or ink_freelist_free is in
\* progress, for any finite number of threads and fewer blocks than a counter
\* has values, although the fill loop takes used below what the callers hold.
THEOREM CountersAlwaysExact ==
    ASSUME FiniteMachine, Cardinality(Items) < UIntMod
    PROVE  Spec => []CountersExact
<1>1. Init => Counted
  BY InitCounted
<1>2. IndInv /\ IndInv' /\ FillLoop /\ (\A t \in Threads : pc[t] = "new_fill" => filling[t] = TRUE)
      /\ Counted /\ [Next]_vars => Counted'
  BY StepCounted
<1>3. IndInv /\ FillLoop /\ Counted => CountersExact
  BY AtRest DEF IndInv, CountersExact
<1> QED
  BY <1>1, <1>2, <1>3, FreeListInvariant, FillLoopInvariant, FillHasChunk, PTL DEF Spec
=============================================================================
