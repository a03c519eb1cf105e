------------------------ MODULE InkAtomicListProofs ------------------------
(***************************************************************************)
(* Proofs about InkAtomicList, for any number of threads, items and        *)
(* versions.  IndInv is inductive.  Most steps of a thread are local: they *)
(* leave the head and the list alone, and one lemma carries the invariant  *)
(* over all of them.  What is left are the five steps that change the list *)
(* (push, pop, popall, and the two ends of remove), each with what it does *)
(* to the chain, to the holders and to the threads that loaded the head.   *)
(***************************************************************************)
EXTENDS InkAtomicList, SequenceTheorems, TLAPS

\* What popall took, seen by one thread.
BatchOK(t) ==
    pc[t] = "all_fix" =>
       /\ IsChain(batch[t])
       /\ \E k \in 0..Len(batch[t]) :
             /\ fixed[t] = {batch[t][i] : i \in 1..k}
             /\ cur[t] = At(batch[t], k + 1)

\* Everything the invariant says of one thread.
ThreadOK(t) == InCall(t) /\ HeadValid(t) /\ WalkValid(t) /\ BatchOK(t)

\* The step leaves the locals of a thread alone.
SameThread(u) ==
    /\ pc'[u] = pc[u] /\ snap'[u] = snap[u] /\ nxt'[u] = nxt[u] /\ cur'[u] = cur[u]
    /\ prev'[u] = prev[u] /\ batch'[u] = batch[u] /\ fixed'[u] = fixed[u]

\* The invariant, thread by thread.
LEMMA IndInvParts ==
    IndInv <=> TypeOK /\ ListIntact /\ ItemsPartitioned /\ \A t \in Threads : ThreadOK(t)
  BY DEF IndInv, ListSafe, BatchIntact, ThreadOK, BatchOK

\* The same for the state after a step.
LEMMA IndInvNext ==
    TypeOK' /\ ListIntact' /\ ItemsPartitioned' /\ (\A t \in Threads : ThreadOK(t)') => IndInv'
  BY DEF IndInv, ListSafe, BatchIntact, ThreadOK, BatchOK

\* The heads the algorithm builds, and the fields of those it reads.
LEMMA HeadTypes ==
    /\ NoHead \in HeadP
    /\ \A p \in Pointer, v \in 0..(VersionMod - 1) :
          [ptr |-> p, ver |-> v] \in HeadP
    /\ \A h \in HeadP : h.ptr \in Pointer /\ h.ver \in 0..(VersionMod - 1)
    /\ \A v \in 0..(VersionMod - 1) : NextVersion(v) \in 0..(VersionMod - 1)
    /\ NULL \in Pointer
    /\ \A i \in Items : i \in Pointer
  BY VersionAssumption DEF NoHead, HeadP, Pointer, NextVersion

\* Everything on the list is an item, and so is what a thread holds.
LEMMA ListedItems == TypeOK => Listed \subseteq Items
  BY DEF TypeOK, Listed

\* A remover is the only thread that takes items.
LEMMA SoleTaker ==
    ASSUME NEW t \in Removers, NEW u \in Poppers \union Removers
    PROVE  u = t /\ t \in Poppers
  BY RemoveAssumption

\* Items change hands between the list, the callers and one thread.
LEMMA PartitionStep ==
    ASSUME ItemsPartitioned, NEW t \in Threads,
           \A u \in Threads \ {t} : Private(u)' = Private(u),
           owned' \union Listed' \union Private(t)' = owned \union Listed \union Private(t),
           owned' \intersect Listed' = {},
           Private(t)' \intersect (owned' \union Listed') = {}
    PROVE  ItemsPartitioned'
<1> DEFINE P == [u \in Threads |-> Private(u)]
           Q == [u \in Threads |-> Private(u)']
<1>1. /\ \A u \in Threads : P[u] \intersect (owned \union Listed) = {}
      /\ \A u, v \in Threads : u # v => P[u] \intersect P[v] = {}
      /\ \A x : x \in Items <=> x \in owned \/ x \in Listed \/ \E u \in Threads : x \in P[u]
  BY DEF ItemsPartitioned
<1>2. /\ \A u \in Threads \ {t} : Q[u] = P[u]
      /\ owned' \union Listed' \union Q[t] = owned \union Listed \union P[t]
      /\ Q[t] \intersect (owned' \union Listed') = {}
  OBVIOUS
<1> HIDE DEF P, Q
<1>3. \A u \in Threads \ {t} : Q[u] \intersect (owned' \union Listed' \union Q[t]) = {}
  BY <1>1, <1>2
<1>4. /\ \A u \in Threads : Q[u] \intersect (owned' \union Listed') = {}
      /\ \A u, v \in Threads : u # v => Q[u] \intersect Q[v] = {}
  BY <1>1, <1>2, <1>3
<1>5. \A x : x \in Items <=> x \in owned' \/ x \in Listed' \/ \E u \in Threads : x \in Q[u]
  BY <1>1, <1>2
<1>6. Items = owned' \union Listed' \union UNION {Private(u)' : u \in Threads}
  BY <1>5 DEF Q
<1> QED
  BY <1>4, <1>6 DEF Q, ItemsPartitioned

\* A thread that is not the actor, over a step that leaves the list alone.
LEMMA ThreadFrame ==
    ASSUME TypeOK, ListIntact, NEW u \in Threads, ThreadOK(u), SameThread(u),
           lag'[u] = lag[u], head' = head, stack' = stack,
           \A x \in Listed \union Private(u) : next'[x] = next[x]
    PROVE  ThreadOK(u)'
<1>1. Listed' = Listed
  BY DEF Listed
<1>2. InCall(u)'
  BY DEF ThreadOK, InCall, SameThread
<1>3. HeadValid(u)'
  <2>1. pc[u] = "push_cas" => cur[u] \in Private(u)
    BY DEF Private
  <2> QED
    BY <1>1, <2>1 DEF ThreadOK, HeadValid, SameThread, Taking
<1>4. WalkValid(u)'
  <2>1. Removing(u) => cur[u] \in Listed \union Private(u)
    BY DEF Private
  <2> QED
    BY <1>1, <2>1 DEF ThreadOK, WalkValid, SameThread, Removing
<1>5. BatchOK(u)'
  <2>1. \A i \in 1..Len(batch[u]) : batch[u][i] \in Private(u)
    BY DEF Private
  <2> QED
    BY <2>1 DEF ThreadOK, BatchOK, SameThread, IsChain, At
<1> QED
  BY <1>2, <1>3, <1>4, <1>5 DEF ThreadOK

\* A step that leaves the list alone: only the actor, its items and its
\* callers are concerned.
LEMMA LocalStep ==
    ASSUME IndInv, TypeOK', NEW t \in Threads, head' = head, stack' = stack,
           \A u \in Threads \ {t} : SameThread(u) /\ lag'[u] = lag[u],
           \A x \in Items : x \notin owned \union Private(t) => next'[x] = next[x],
           owned' \union Private(t)' = owned \union Private(t),
           owned' \intersect Private(t)' = {},
           ThreadOK(t)'
    PROVE  IndInv'
<1> USE IndInvParts
<1>1. Listed' = Listed
  BY DEF Listed
<1>2. \A u \in Threads \ {t} : Private(u)' = Private(u)
  BY <1>1 DEF Private, SameThread, Removing
<1>3. \A x \in Listed : next'[x] = next[x]
  BY ListedItems DEF ItemsPartitioned
<1>4. \A u \in Threads \ {t} : \A x \in Private(u) : next'[x] = next[x]
  BY DEF ItemsPartitioned
<1>5. ListIntact'
  <2>1. \A i \in 1..Len(stack) : stack[i] \in Listed
    BY DEF Listed
  <2> QED
    BY <1>3, <2>1 DEF ListIntact, IsChain, At
<1>6. ItemsPartitioned'
  <2>1. owned' \intersect Listed' = {} /\ Private(t)' \intersect Listed' = {}
    BY <1>1 DEF ItemsPartitioned
  <2> QED
    BY <1>1, <1>2, <2>1, PartitionStep
<1>7. \A u \in Threads \ {t} : ThreadOK(u)'
  BY <1>3, <1>4, ThreadFrame
<1> QED
  BY <1>5, <1>6, <1>7, IndInvNext

\* A caller gives an item to the thread that pushes it.
LEMMA PushCallInd ==
    ASSUME NEW t \in Threads, IndInv, PushCall(t)
    PROVE  IndInv'
<1> USE IndInvParts DEF Goto, locals
<1>1. TypeOK'
  <2>1. pc' \in [Threads -> Steps]
    BY DEF TypeOK, PushCall, Steps
  <2> QED
    BY <2>1, HeadTypes DEF TypeOK, PushCall
<1>2. \A u \in Threads \ {t} : SameThread(u) /\ lag'[u] = lag[u]
  BY DEF TypeOK, SameThread, PushCall
<1>3. head' = head /\ stack' = stack /\ Listed' = Listed
  BY DEF Listed, PushCall
<1>4. \A x \in Items : x \notin owned \union Private(t) => next'[x] = next[x]
  BY DEF PushCall
<1>5. owned' \union Private(t)' = owned \union Private(t) /\ owned' \intersect Private(t)' = {}
  <2>0. PICK i \in owned : owned' = owned \ {i} /\ cur' = [cur EXCEPT ![t] = i]
    BY DEF PushCall
  <2>1. Private(t) = {} /\ Private(t)' = {i}
    BY <2>0, <1>3 DEF TypeOK, ThreadOK, InCall, Private, Removing, PushCall
  <2> QED
    BY <2>0, <2>1
<1>6. ThreadOK(t)'
  <2>1. pc[t] # "all_fix" /\ pc'[t] # "all_fix"
    BY DEF TypeOK, PushCall
  <2>2. InCall(t)'
    BY <2>1, NullAssumption DEF TypeOK, ThreadOK, InCall, PushCall, PopSteps, RemSteps
  <2>3. HeadValid(t)'
    BY <2>1, <1>3 DEF TypeOK, ThreadOK, HeadValid, PushCall, Taking
  <2>4. WalkValid(t)'
    BY <2>1, <1>3 DEF TypeOK, ThreadOK, WalkValid, PushCall
  <2> QED
    BY <2>1, <2>2, <2>3, <2>4 DEF ThreadOK, BatchOK
<1> QED
  BY <1>1, <1>2, <1>3, <1>4, <1>5, <1>6, LocalStep

\* The item on top is not the one that is pushed.
LEMMA PushLoadInd ==
    ASSUME NEW t \in Threads, IndInv, PushLoad(t)
    PROVE  IndInv'
<1> USE IndInvParts DEF Goto, locals
<1>1. TypeOK'
  <2>1. pc' \in [Threads -> Steps]
    BY DEF TypeOK, PushLoad, Steps
  <2> QED
    BY <2>1, HeadTypes DEF TypeOK, PushLoad
<1>2. \A u \in Threads \ {t} : SameThread(u) /\ lag'[u] = lag[u]
  BY DEF TypeOK, SameThread, PushLoad
<1>3. head' = head /\ stack' = stack /\ Listed' = Listed
  BY DEF Listed, PushLoad
<1>4. \A x \in Items : x \notin owned \union Private(t) => next'[x] = next[x]
  BY DEF PushLoad
<1>5. owned' \union Private(t)' = owned \union Private(t) /\ owned' \intersect Private(t)' = {}
  <2>1. Private(t)' = Private(t) /\ owned' = owned
    BY <1>3 DEF TypeOK, Private, Removing, PushLoad
  <2> QED
    BY <2>1 DEF ItemsPartitioned
<1>6. ThreadOK(t)'
  <2>1. pc[t] # "all_fix" /\ pc'[t] # "all_fix"
    BY DEF TypeOK, PushLoad
  <2>2. InCall(t)'
    BY <2>1 DEF TypeOK, ThreadOK, InCall, PushLoad, PopSteps, RemSteps
  <2>h. head.ptr # cur[t]
    <3>1. cur[t] \in Private(t) /\ cur[t] # NULL
      BY DEF ThreadOK, InCall, Private, PushLoad
    <3>2. head.ptr = NULL \/ head.ptr \in Listed
      BY DEF ListIntact, At, Listed
    <3> QED
      BY <3>1, <3>2 DEF ItemsPartitioned
  <2>3. HeadValid(t)'
    BY <2>1, <2>h, <1>3 DEF TypeOK, ThreadOK, HeadValid, PushLoad, Taking
  <2>4. WalkValid(t)'
    BY <2>1, <1>3 DEF TypeOK, ThreadOK, WalkValid, PushLoad
  <2> QED
    BY <2>1, <2>2, <2>3, <2>4 DEF ThreadOK, BatchOK
<1> QED
  BY <1>1, <1>2, <1>3, <1>4, <1>5, <1>6, LocalStep

\* The store goes to an item that only its thread holds.
LEMMA PushStoreInd ==
    ASSUME NEW t \in Threads, IndInv, PushStore(t)
    PROVE  IndInv'
<1> USE IndInvParts DEF Goto, locals
<1>0. cur[t] \in Items /\ cur[t] \in Private(t)
  BY DEF TypeOK, ThreadOK, InCall, Private, Pointer, PushStore
<1>1. TypeOK'
  <2>1. pc' \in [Threads -> Steps]
    BY DEF TypeOK, PushStore, Steps
  <2> QED
    BY <2>1, HeadTypes, <1>0 DEF TypeOK, PushStore
<1>2. \A u \in Threads \ {t} : SameThread(u) /\ lag'[u] = lag[u]
  BY DEF TypeOK, SameThread, PushStore
<1>3. head' = head /\ stack' = stack /\ Listed' = Listed
  BY DEF Listed, PushStore
<1>4. \A x \in Items : x \notin owned \union Private(t) => next'[x] = next[x]
  BY <1>0 DEF TypeOK, PushStore
<1>5. owned' \union Private(t)' = owned \union Private(t) /\ owned' \intersect Private(t)' = {}
  <2>1. Private(t)' = Private(t) /\ owned' = owned
    BY <1>3 DEF TypeOK, Private, Removing, PushStore
  <2> QED
    BY <2>1 DEF ItemsPartitioned
<1>6. ThreadOK(t)'
  <2>1. pc[t] # "all_fix" /\ pc'[t] # "all_fix"
    BY DEF TypeOK, PushStore
  <2>2. InCall(t)'
    BY <2>1 DEF TypeOK, ThreadOK, InCall, PushStore, PopSteps, RemSteps
  <2>3. HeadValid(t)'
    BY <2>1, <1>3, <1>0 DEF TypeOK, ThreadOK, HeadValid, PushStore, Taking
  <2>4. WalkValid(t)'
    BY <2>1, <1>3, <1>0 DEF TypeOK, ThreadOK, WalkValid, PushStore
  <2> QED
    BY <2>1, <2>2, <2>3, <2>4 DEF ThreadOK, BatchOK
<1> QED
  BY <1>1, <1>2, <1>3, <1>4, <1>5, <1>6, LocalStep

\* A pop begins with nothing in hand.
LEMMA PopCallInd ==
    ASSUME NEW t \in Threads, IndInv, PopCall(t)
    PROVE  IndInv'
<1> USE IndInvParts DEF Goto, locals
<1>1. TypeOK'
  <2>1. pc' \in [Threads -> Steps]
    BY DEF TypeOK, PopCall, Steps
  <2> QED
    BY <2>1, HeadTypes DEF TypeOK, PopCall
<1>2. \A u \in Threads \ {t} : SameThread(u) /\ lag'[u] = lag[u]
  BY DEF TypeOK, SameThread, PopCall
<1>3. head' = head /\ stack' = stack /\ Listed' = Listed
  BY DEF Listed, PopCall
<1>4. \A x \in Items : x \notin owned \union Private(t) => next'[x] = next[x]
  BY DEF PopCall
<1>5. owned' \union Private(t)' = owned \union Private(t) /\ owned' \intersect Private(t)' = {}
  <2>1. Private(t)' = Private(t) /\ owned' = owned
    BY <1>3 DEF TypeOK, Private, Removing, PopCall
  <2> QED
    BY <2>1 DEF ItemsPartitioned
<1>6. ThreadOK(t)'
  <2>1. pc[t] # "all_fix" /\ pc'[t] # "all_fix"
    BY DEF TypeOK, PopCall
  <2>2. InCall(t)'
    BY <2>1 DEF TypeOK, ThreadOK, InCall, PopCall, PopSteps, RemSteps
  <2>3. HeadValid(t)'
    BY <2>1, <1>3 DEF TypeOK, ThreadOK, HeadValid, PopCall, Taking
  <2>4. WalkValid(t)'
    BY <2>1, <1>3 DEF TypeOK, ThreadOK, WalkValid, PopCall
  <2> QED
    BY <2>1, <2>2, <2>3, <2>4 DEF ThreadOK, BatchOK
<1> QED
  BY <1>1, <1>2, <1>3, <1>4, <1>5, <1>6, LocalStep

\* So does popall.
LEMMA AllCallInd ==
    ASSUME NEW t \in Threads, IndInv, AllCall(t)
    PROVE  IndInv'
<1> USE IndInvParts DEF Goto, locals
<1>1. TypeOK'
  <2>1. pc' \in [Threads -> Steps]
    BY DEF TypeOK, AllCall, Steps
  <2> QED
    BY <2>1, HeadTypes DEF TypeOK, AllCall
<1>2. \A u \in Threads \ {t} : SameThread(u) /\ lag'[u] = lag[u]
  BY DEF TypeOK, SameThread, AllCall
<1>3. head' = head /\ stack' = stack /\ Listed' = Listed
  BY DEF Listed, AllCall
<1>4. \A x \in Items : x \notin owned \union Private(t) => next'[x] = next[x]
  BY DEF AllCall
<1>5. owned' \union Private(t)' = owned \union Private(t) /\ owned' \intersect Private(t)' = {}
  <2>1. Private(t)' = Private(t) /\ owned' = owned
    BY <1>3 DEF TypeOK, Private, Removing, AllCall
  <2> QED
    BY <2>1 DEF ItemsPartitioned
<1>6. ThreadOK(t)'
  <2>1. pc[t] # "all_fix" /\ pc'[t] # "all_fix"
    BY DEF TypeOK, AllCall
  <2>2. InCall(t)'
    BY <2>1 DEF TypeOK, ThreadOK, InCall, AllCall, PopSteps, RemSteps
  <2>3. HeadValid(t)'
    BY <2>1, <1>3 DEF TypeOK, ThreadOK, HeadValid, AllCall, Taking
  <2>4. WalkValid(t)'
    BY <2>1, <1>3 DEF TypeOK, ThreadOK, WalkValid, AllCall
  <2> QED
    BY <2>1, <2>2, <2>3, <2>4 DEF ThreadOK, BatchOK
<1> QED
  BY <1>1, <1>2, <1>3, <1>4, <1>5, <1>6, LocalStep

\* The load of the head starts a window in which no take was missed.
LEMMA PopLoadInd ==
    ASSUME NEW t \in Threads, IndInv, PopLoad(t)
    PROVE  IndInv'
<1> USE IndInvParts DEF Goto, locals, LoadHead
<1>1. TypeOK'
  <2>1. pc' \in [Threads -> Steps]
    BY DEF TypeOK, PopLoad, Steps
  <2>2. lag' \in [Threads -> 0..(VersionMod - 1)]
    <3>1. lag' = lag \/ lag' = [lag EXCEPT ![t] = 0]
      BY DEF PopLoad
    <3>2. 0 \in 0..(VersionMod - 1)
      BY VersionAssumption
    <3> QED
      BY <3>1, <3>2 DEF TypeOK
  <2> QED
    BY <2>1, HeadTypes, <2>2 DEF TypeOK, PopLoad
<1>2. \A u \in Threads \ {t} : SameThread(u) /\ lag'[u] = lag[u]
  BY DEF TypeOK, SameThread, PopLoad
<1>3. head' = head /\ stack' = stack /\ Listed' = Listed
  BY DEF Listed, PopLoad
<1>4. \A x \in Items : x \notin owned \union Private(t) => next'[x] = next[x]
  BY DEF PopLoad
<1>5. owned' \union Private(t)' = owned \union Private(t) /\ owned' \intersect Private(t)' = {}
  <2>1. Private(t)' = Private(t) /\ owned' = owned
    BY <1>3 DEF TypeOK, Private, Removing, PopLoad
  <2> QED
    BY <2>1 DEF ItemsPartitioned
<1>6. ThreadOK(t)'
  <2>1. pc[t] # "all_fix" /\ pc'[t] # "all_fix"
    BY DEF TypeOK, PopLoad
  <2>2. InCall(t)'
    BY <2>1 DEF TypeOK, ThreadOK, InCall, PopLoad, PopSteps, RemSteps
  <2>h. head.ptr # NULL => head.ptr \in Listed
    BY DEF ListIntact, At, Listed
  <2>v. head.ver \in 0..(VersionMod - 1)
    BY HeadTypes DEF TypeOK
  <2>s. pc'[t] = "idle" \/ (pc'[t] = "pop_next" /\ snap'[t] = head /\ lag'[t] = 0 /\ head.ptr # NULL)
    BY DEF TypeOK, PopLoad
  <2>3. HeadValid(t)'
    BY <2>s, <2>h, <2>v, <1>3, VersionAssumption DEF HeadValid, Taking
  <2>4. WalkValid(t)'
    BY <2>1, <1>3 DEF TypeOK, ThreadOK, WalkValid, PopLoad
  <2> QED
    BY <2>1, <2>2, <2>3, <2>4 DEF ThreadOK, BatchOK
<1> QED
  BY <1>1, <1>2, <1>3, <1>4, <1>5, <1>6, LocalStep

\* The load of the head starts a window in which no take was missed.
LEMMA AllLoadInd ==
    ASSUME NEW t \in Threads, IndInv, AllLoad(t)
    PROVE  IndInv'
<1> USE IndInvParts DEF Goto, locals, LoadHead
<1>1. TypeOK'
  <2>1. pc' \in [Threads -> Steps]
    BY DEF TypeOK, AllLoad, Steps
  <2>2. lag' \in [Threads -> 0..(VersionMod - 1)]
    <3>1. lag' = lag \/ lag' = [lag EXCEPT ![t] = 0]
      BY DEF AllLoad
    <3>2. 0 \in 0..(VersionMod - 1)
      BY VersionAssumption
    <3> QED
      BY <3>1, <3>2 DEF TypeOK
  <2> QED
    BY <2>1, HeadTypes, <2>2 DEF TypeOK, AllLoad
<1>2. \A u \in Threads \ {t} : SameThread(u) /\ lag'[u] = lag[u]
  BY DEF TypeOK, SameThread, AllLoad
<1>3. head' = head /\ stack' = stack /\ Listed' = Listed
  BY DEF Listed, AllLoad
<1>4. \A x \in Items : x \notin owned \union Private(t) => next'[x] = next[x]
  BY DEF AllLoad
<1>5. owned' \union Private(t)' = owned \union Private(t) /\ owned' \intersect Private(t)' = {}
  <2>1. Private(t)' = Private(t) /\ owned' = owned
    BY <1>3 DEF TypeOK, Private, Removing, AllLoad
  <2> QED
    BY <2>1 DEF ItemsPartitioned
<1>6. ThreadOK(t)'
  <2>1. pc[t] # "all_fix" /\ pc'[t] # "all_fix"
    BY DEF TypeOK, AllLoad
  <2>2. InCall(t)'
    BY <2>1 DEF TypeOK, ThreadOK, InCall, AllLoad, PopSteps, RemSteps
  <2>h. head.ptr # NULL => head.ptr \in Listed
    BY DEF ListIntact, At, Listed
  <2>v. head.ver \in 0..(VersionMod - 1)
    BY HeadTypes DEF TypeOK
  <2>s. pc'[t] = "idle" \/ (pc'[t] = "all_cas" /\ snap'[t] = head /\ lag'[t] = 0 /\ head.ptr # NULL)
    BY DEF TypeOK, AllLoad
  <2>3. HeadValid(t)'
    BY <2>s, <2>h, <2>v, <1>3, VersionAssumption DEF HeadValid, Taking
  <2>4. WalkValid(t)'
    BY <2>1, <1>3 DEF TypeOK, ThreadOK, WalkValid, AllLoad
  <2> QED
    BY <2>1, <2>2, <2>3, <2>4 DEF ThreadOK, BatchOK
<1> QED
  BY <1>1, <1>2, <1>3, <1>4, <1>5, <1>6, LocalStep

\* The next pointer read is the current one if no take was missed.
LEMMA PopNextInd ==
    ASSUME NEW t \in Threads, IndInv, PopNext(t)
    PROVE  IndInv'
<1> USE IndInvParts DEF Goto, locals
<1>0. snap[t].ptr \in Items
  BY HeadTypes DEF TypeOK, ThreadOK, HeadValid, Taking, Pointer, PopNext
<1>1. TypeOK'
  <2>1. pc' \in [Threads -> Steps]
    BY DEF TypeOK, PopNext, Steps
  <2> QED
    BY <2>1, HeadTypes, <1>0 DEF TypeOK, PopNext
<1>2. \A u \in Threads \ {t} : SameThread(u) /\ lag'[u] = lag[u]
  BY DEF TypeOK, SameThread, PopNext
<1>3. head' = head /\ stack' = stack /\ Listed' = Listed
  BY DEF Listed, PopNext
<1>4. \A x \in Items : x \notin owned \union Private(t) => next'[x] = next[x]
  BY DEF PopNext
<1>5. owned' \union Private(t)' = owned \union Private(t) /\ owned' \intersect Private(t)' = {}
  <2>1. Private(t)' = Private(t) /\ owned' = owned
    BY <1>3 DEF TypeOK, Private, Removing, PopNext
  <2> QED
    BY <2>1 DEF ItemsPartitioned
<1>6. ThreadOK(t)'
  <2>1. pc[t] # "all_fix" /\ pc'[t] # "all_fix"
    BY DEF TypeOK, PopNext
  <2>2. InCall(t)'
    BY <2>1 DEF TypeOK, ThreadOK, InCall, PopNext, PopSteps, RemSteps
  <2>3. HeadValid(t)'
    BY <2>1, <1>3 DEF TypeOK, ThreadOK, HeadValid, PopNext, Taking
  <2>4. WalkValid(t)'
    BY <2>1, <1>3 DEF TypeOK, ThreadOK, WalkValid, PopNext
  <2> QED
    BY <2>1, <2>2, <2>3, <2>4 DEF ThreadOK, BatchOK
<1> QED
  BY <1>1, <1>2, <1>3, <1>4, <1>5, <1>6, LocalStep

\* The item that was taken goes to the caller with its next pointer cleared.
LEMMA ClearInd ==
    ASSUME NEW t \in Threads, IndInv, Clear(t)
    PROVE  IndInv'
<1> USE IndInvParts DEF Goto, locals
<1>0. cur[t] \in Items /\ cur[t] \in Private(t)
  BY DEF TypeOK, ThreadOK, InCall, RemSteps, Private, Pointer, Clear
<1>1. TypeOK'
  <2>1. pc' \in [Threads -> Steps]
    BY DEF TypeOK, Clear, Steps
  <2> QED
    BY <2>1, HeadTypes, <1>0 DEF TypeOK, Clear
<1>2. \A u \in Threads \ {t} : SameThread(u) /\ lag'[u] = lag[u]
  BY DEF TypeOK, SameThread, Clear
<1>3. head' = head /\ stack' = stack /\ Listed' = Listed
  BY DEF Listed, Clear
<1>4. \A x \in Items : x \notin owned \union Private(t) => next'[x] = next[x]
  BY <1>0 DEF TypeOK, Clear
<1>5. owned' \union Private(t)' = owned \union Private(t) /\ owned' \intersect Private(t)' = {}
  <2>1. Private(t) = {cur[t]} /\ Private(t)' = {} /\ owned' = owned \union {cur[t]}
    BY <1>3 DEF TypeOK, ThreadOK, InCall, Private, Removing, Clear
  <2> QED
    BY <2>1
<1>6. ThreadOK(t)'
  <2>1. pc[t] # "all_fix" /\ pc'[t] # "all_fix"
    BY DEF TypeOK, Clear
  <2>2. InCall(t)'
    BY <2>1 DEF TypeOK, ThreadOK, InCall, Clear, PopSteps, RemSteps
  <2>3. HeadValid(t)'
    BY <2>1, <1>3 DEF TypeOK, ThreadOK, HeadValid, Clear, Taking
  <2>4. WalkValid(t)'
    BY <2>1, <1>3 DEF TypeOK, ThreadOK, WalkValid, Clear
  <2> QED
    BY <2>1, <2>2, <2>3, <2>4 DEF ThreadOK, BatchOK
<1> QED
  BY <1>1, <1>2, <1>3, <1>4, <1>5, <1>6, LocalStep

\* The item to be removed is listed, or comes from the caller.
LEMMA RemoveCallInd ==
    ASSUME NEW t \in Threads, IndInv, RemoveCall(t)
    PROVE  IndInv'
<1> USE IndInvParts DEF Goto, locals
<1>0. Listed \union owned \subseteq Items
  BY ListedItems DEF TypeOK
<1>1. TypeOK'
  <2>1. pc' \in [Threads -> Steps]
    BY DEF TypeOK, RemoveCall, Steps
  <2> QED
    BY <2>1, HeadTypes, <1>0 DEF TypeOK, RemoveCall
<1>2. \A u \in Threads \ {t} : SameThread(u) /\ lag'[u] = lag[u]
  BY DEF TypeOK, SameThread, RemoveCall
<1>3. head' = head /\ stack' = stack /\ Listed' = Listed
  BY DEF Listed, RemoveCall
<1>4. \A x \in Items : x \notin owned \union Private(t) => next'[x] = next[x]
  BY DEF RemoveCall
<1>5. owned' \union Private(t)' = owned \union Private(t) /\ owned' \intersect Private(t)' = {}
  <2>0. PICK i \in Listed \union owned : owned' = owned \ {i} /\ cur' = [cur EXCEPT ![t] = i]
    BY DEF RemoveCall
  <2>1. Private(t) = {} /\ Private(t)' = IF i \in Listed THEN {} ELSE {i}
    BY <2>0, <1>3 DEF TypeOK, ThreadOK, InCall, Private, Removing, RemoveCall
  <2> QED
    BY <2>0, <2>1 DEF ItemsPartitioned
<1>6. ThreadOK(t)'
  <2>1. pc[t] # "all_fix" /\ pc'[t] # "all_fix"
    BY DEF TypeOK, RemoveCall
  <2>2. InCall(t)'
    BY <2>1, <1>0, NullAssumption DEF TypeOK, ThreadOK, InCall, RemoveCall, PopSteps, RemSteps
  <2>3. HeadValid(t)'
    BY <2>1, <1>3 DEF TypeOK, ThreadOK, HeadValid, RemoveCall, Taking
  <2>4. WalkValid(t)'
    BY <2>1, <1>3 DEF TypeOK, ThreadOK, WalkValid, RemoveCall
  <2> QED
    BY <2>1, <2>2, <2>3, <2>4 DEF ThreadOK, BatchOK
<1> QED
  BY <1>1, <1>2, <1>3, <1>4, <1>5, <1>6, LocalStep

\* The next pointer of the item is read once, at the start.
LEMMA RemoveNextInd ==
    ASSUME NEW t \in Threads, IndInv, RemoveNext(t)
    PROVE  IndInv'
<1> USE IndInvParts DEF Goto, locals
<1>0. cur[t] \in Items
  BY DEF TypeOK, ThreadOK, InCall, RemSteps, Pointer, RemoveNext
<1>1. TypeOK'
  <2>1. pc' \in [Threads -> Steps]
    BY DEF TypeOK, RemoveNext, Steps
  <2> QED
    BY <2>1, HeadTypes, <1>0 DEF TypeOK, RemoveNext
<1>2. \A u \in Threads \ {t} : SameThread(u) /\ lag'[u] = lag[u]
  BY DEF TypeOK, SameThread, RemoveNext
<1>3. head' = head /\ stack' = stack /\ Listed' = Listed
  BY DEF Listed, RemoveNext
<1>4. \A x \in Items : x \notin owned \union Private(t) => next'[x] = next[x]
  BY DEF RemoveNext
<1>5. owned' \union Private(t)' = owned \union Private(t) /\ owned' \intersect Private(t)' = {}
  <2>1. Private(t)' = Private(t) /\ owned' = owned
    BY <1>3 DEF TypeOK, Private, Removing, RemoveNext
  <2> QED
    BY <2>1 DEF ItemsPartitioned
<1>6. ThreadOK(t)'
  <2>1. pc[t] # "all_fix" /\ pc'[t] # "all_fix"
    BY DEF TypeOK, RemoveNext
  <2>2. InCall(t)'
    BY <2>1 DEF TypeOK, ThreadOK, InCall, RemoveNext, PopSteps, RemSteps
  <2>3. HeadValid(t)'
    BY <2>1, <1>3 DEF TypeOK, ThreadOK, HeadValid, RemoveNext, Taking
  <2>4. WalkValid(t)'
    BY <2>1, <1>3 DEF TypeOK, ThreadOK, WalkValid, RemoveNext
  <2> QED
    BY <2>1, <2>2, <2>3, <2>4 DEF ThreadOK, BatchOK
<1> QED
  BY <1>1, <1>2, <1>3, <1>4, <1>5, <1>6, LocalStep

\* The item is first, or the walk starts in front of it.
LEMMA RemoveLoadInd ==
    ASSUME NEW t \in Threads, IndInv, RemoveLoad(t)
    PROVE  IndInv'
<1> USE IndInvParts DEF Goto, locals, LoadHead
<1>1. TypeOK'
  <2>1. pc' \in [Threads -> Steps]
    BY DEF TypeOK, RemoveLoad, Steps
  <2>2. lag' \in [Threads -> 0..(VersionMod - 1)]
    <3>1. lag' = lag \/ lag' = [lag EXCEPT ![t] = 0]
      BY DEF RemoveLoad
    <3>2. 0 \in 0..(VersionMod - 1)
      BY VersionAssumption
    <3> QED
      BY <3>1, <3>2 DEF TypeOK
  <2> QED
    BY <2>1, HeadTypes, <2>2 DEF TypeOK, RemoveLoad
<1>2. \A u \in Threads \ {t} : SameThread(u) /\ lag'[u] = lag[u]
  BY DEF TypeOK, SameThread, RemoveLoad
<1>3. head' = head /\ stack' = stack /\ Listed' = Listed
  BY DEF Listed, RemoveLoad
<1>4. \A x \in Items : x \notin owned \union Private(t) => next'[x] = next[x]
  BY DEF RemoveLoad
<1>5. owned' \union Private(t)' = owned \union Private(t) /\ owned' \intersect Private(t)' = {}
  <2>1. Private(t)' = Private(t) /\ owned' = owned
    BY <1>3 DEF TypeOK, Private, Removing, RemoveLoad
  <2> QED
    BY <2>1 DEF ItemsPartitioned
<1>6. ThreadOK(t)'
  <2>0. pc[t] = "rem_ld" /\ cur'[t] = cur[t] /\ nxt'[t] = nxt[t] /\ next' = next
    BY DEF TypeOK, RemoveLoad
  <2>1. \/ pc'[t] = "rem_cas" /\ snap'[t] = head /\ lag'[t] = 0 /\ head.ptr = cur[t]
        \/ pc'[t] = "rem_walk" /\ prev'[t] = head.ptr /\ head.ptr # cur[t]
    BY DEF TypeOK, RemoveLoad
  <2>2. InCall(t)'
    BY <2>0, <2>1 DEF TypeOK, ThreadOK, InCall, RemoveLoad, PopSteps, RemSteps
  <2>h. \/ head.ptr = NULL /\ Listed = {}
        \/ head.ptr # NULL /\ head.ptr \in Listed /\ 1 \in 1..Len(stack) /\ stack[1] = head.ptr
    BY NullAssumption, ListedItems DEF TypeOK, ListIntact, At, Listed
  <2>v. head.ver \in 0..(VersionMod - 1)
    BY HeadTypes DEF TypeOK
  <2>3. HeadValid(t)'
    <3>1. cur[t] # NULL
      BY <2>0 DEF ThreadOK, InCall, RemSteps
    <3> QED
      BY <3>1, <2>1, <2>h, <2>v, <1>3, VersionAssumption DEF HeadValid, Taking
  <2>4. WalkValid(t)'
    <3>1. nxt'[t] = next'[cur'[t]]
      BY <2>0 DEF ThreadOK, WalkValid
    <3>2. ASSUME pc'[t] = "rem_walk", prev'[t] # NULL
          PROVE  \E i \in 1..Len(stack') : /\ stack'[i] = prev'[t]
                                           /\ \A j \in 1..i : stack'[j] # cur'[t]
      <4>1. 1 \in 1..Len(stack) /\ stack[1] = prev'[t] /\ \A j \in 1..1 : stack[j] # cur[t]
        BY <2>0, <2>1, <2>h, <3>2
      <4> QED
        BY <4>1, <1>3, <2>0
    <3>3. pc'[t] = "rem_walk" /\ prev'[t] = NULL => cur'[t] \notin Listed'
      BY <2>0, <2>1, <2>h, <1>3
    <3>4. pc'[t] = "rem_cas" => snap'[t].ptr = cur'[t]
      BY <2>0, <2>1
    <3>5. pc'[t] # "rem_unlink"
      BY <2>1
    <3> QED
      BY <3>1, <3>2, <3>3, <3>4, <3>5 DEF WalkValid
  <2>5. pc'[t] # "all_fix"
    BY <2>1
  <2> QED
    BY <2>2, <2>3, <2>4, <2>5 DEF ThreadOK, BatchOK
<1> QED
  BY <1>1, <1>2, <1>3, <1>4, <1>5, <1>6, LocalStep

\* The walk moves down a list that only its own thread shortens.
LEMMA RemoveWalkInd ==
    ASSUME NEW t \in Threads, IndInv, RemoveWalk(t)
    PROVE  IndInv'
<1> USE IndInvParts DEF Goto, locals
<1>0. cur[t] \in Items
  BY DEF TypeOK, ThreadOK, InCall, RemSteps, Pointer, RemoveWalk
<1>1. TypeOK'
  <2>1. pc' \in [Threads -> Steps]
    BY DEF TypeOK, RemoveWalk, Steps
  <2>2. prev' \in [Threads -> Pointer]
    BY DEF TypeOK, Pointer, RemoveWalk
  <2> QED
    BY <2>1, HeadTypes, <1>0, <2>2 DEF TypeOK, RemoveWalk
<1>2. \A u \in Threads \ {t} : SameThread(u) /\ lag'[u] = lag[u]
  BY DEF TypeOK, SameThread, RemoveWalk
<1>3. head' = head /\ stack' = stack /\ Listed' = Listed
  BY DEF Listed, RemoveWalk
<1>4. \A x \in Items : x \notin owned \union Private(t) => next'[x] = next[x]
  BY DEF RemoveWalk
<1>5. owned' \union Private(t)' = owned \union Private(t) /\ owned' \intersect Private(t)' = {}
  <2>1. CASE prev[t] = NULL
    <3>1. cur[t] \notin Listed
      BY <2>1 DEF ThreadOK, WalkValid, RemoveWalk
    <3>2. Private(t) = {cur[t]} /\ Private(t)' = {} /\ owned' = owned \union {cur[t]}
      BY <3>1, <2>1, <1>3 DEF TypeOK, ThreadOK, InCall, Private, Removing, RemoveWalk
    <3> QED
      BY <3>2
  <2>2. CASE prev[t] # NULL
    <3>1. Private(t)' = Private(t) /\ owned' = owned
      BY <2>2, <1>3 DEF TypeOK, Private, Removing, RemoveWalk
    <3> QED
      BY <3>1 DEF ItemsPartitioned
  <2> QED
    BY <2>1, <2>2
<1>6. ThreadOK(t)'
  <2>0. pc[t] = "rem_walk" /\ next' = next /\ stack' = stack
    BY DEF RemoveWalk
  <2>1. CASE prev[t] = NULL
    <3>1. pc'[t] = "idle" /\ batch'[t] = batch[t] /\ fixed'[t] = fixed[t]
      BY <2>1 DEF TypeOK, RemoveWalk
    <3> QED
      BY <3>1, <2>0 DEF ThreadOK, InCall, HeadValid, WalkValid, BatchOK, Taking, PopSteps, RemSteps
  <2>2. CASE prev[t] # NULL
    <3>0. PICK i \in 1..Len(stack) : /\ stack[i] = prev[t]
                                     /\ \A j \in 1..i : stack[j] # cur[t]
      BY <2>0, <2>2 DEF ThreadOK, WalkValid
    <3>1. next[prev[t]] = At(stack, i + 1)
      BY <3>0 DEF ListIntact, IsChain
    <3>2. /\ cur'[t] = cur[t] /\ nxt'[t] = nxt[t]
          /\ batch'[t] = batch[t] /\ fixed'[t] = fixed[t]
      BY <2>2 DEF RemoveWalk
    <3>3. \/ pc'[t] = "rem_unlink" /\ prev'[t] = prev[t] /\ next[prev[t]] = cur[t]
          \/ pc'[t] = "rem_walk" /\ prev'[t] = next[prev[t]] /\ next[prev[t]] # cur[t]
      BY <2>2, <2>0 DEF TypeOK, RemoveWalk
    <3>4. cur[t] # NULL /\ t \in Removers /\ batch[t] = <<>> /\ fixed[t] = {}
      BY <2>0 DEF ThreadOK, InCall, RemSteps
    <3>5. InCall(t)'
      BY <3>2, <3>3, <3>4 DEF InCall, PopSteps
    <3>6. HeadValid(t)'
      BY <3>3 DEF HeadValid, Taking
    <3>n. nxt'[t] = next'[cur'[t]]
      BY <2>0, <3>2 DEF ThreadOK, WalkValid
    <3>l. Len(stack) \in Nat
      BY DEF TypeOK
    <3>7. CASE pc'[t] = "rem_unlink"
      <4>1. i + 1 \in 1..Len(stack) /\ stack[i + 1] = cur[t]
        BY <3>1, <3>3, <3>4, <3>7 DEF At
      <4> QED
        BY <4>1, <3>0, <3>n, <3>5, <3>6, <3>3, <3>7, <2>0, <3>2 DEF ThreadOK, WalkValid, BatchOK
    <3>8. CASE pc'[t] = "rem_walk" /\ prev'[t] = NULL
      <4>1. ~(i + 1 \in 1..Len(stack))
        BY <3>1, <3>3, <3>8, NullAssumption DEF At, TypeOK
      <4>2. i = Len(stack)
        BY <4>1, <3>l
      <4>3. cur'[t] \notin Listed'
        BY <4>2, <3>0, <3>2, <2>0 DEF Listed
      <4> QED
        BY <4>3, <3>n, <3>5, <3>6, <3>8 DEF ThreadOK, WalkValid, BatchOK
    <3>9. CASE pc'[t] = "rem_walk" /\ prev'[t] # NULL
      <4>1. i + 1 \in 1..Len(stack) /\ stack[i + 1] = prev'[t] /\ prev'[t] # cur[t]
        BY <3>1, <3>3, <3>9 DEF At
      <4>2. \A j \in 1..(i + 1) : stack[j] # cur[t]
        <5> TAKE j \in 1..(i + 1)
        <5>1. j \in 1..i \/ j = i + 1
          BY <3>l
        <5> QED
          BY <5>1, <4>1, <3>0
      <4> QED
        BY <4>1, <4>2, <3>n, <3>5, <3>6, <3>9, <2>0, <3>2 DEF ThreadOK, WalkValid, BatchOK
    <3> QED
      BY <3>3, <3>7, <3>8, <3>9
  <2> QED
    BY <2>1, <2>2
<1> QED
  BY <1>1, <1>2, <1>3, <1>4, <1>5, <1>6, LocalStep

\* The fix-up loop passes the items of the batch one by one and hands over all of them.
LEMMA AllFixInd ==
    ASSUME NEW t \in Threads, IndInv, AllFix(t)
    PROVE  IndInv'
<1> USE IndInvParts DEF Goto, locals
<1>f. pc[t] = "all_fix"
  BY DEF AllFix
<1>k. PICK k \in 0..Len(batch[t]) :
         /\ IsChain(batch[t])
         /\ fixed[t] = {batch[t][i] : i \in 1..k}
         /\ cur[t] = At(batch[t], k + 1)
  BY <1>f DEF ThreadOK, BatchOK
<1>b. batch[t] \in Seq(Items) /\ Len(batch[t]) \in Nat /\ k \in Nat
  BY DEF TypeOK
<1>1. TypeOK'
  <2>1. pc' \in [Threads -> Steps]
    BY DEF TypeOK, AllFix, Steps
  <2>2. cur' \in [Threads -> Pointer]
    BY DEF TypeOK, Pointer, AllFix
  <2>3. fixed' \in [Threads -> SUBSET Items] /\ owned' \subseteq Items
    <3>1. fixed[t] \subseteq Items /\ cur[t] \in Items \union {NULL}
      BY DEF TypeOK, Pointer
    <3>2. PICK F \in SUBSET Items : fixed' = [fixed EXCEPT ![t] = F]
      <4>1. CASE cur[t] = NULL
        BY <4>1 DEF AllFix
      <4>2. CASE cur[t] # NULL
        <5>1. fixed[t] \union {cur[t]} \in SUBSET Items
          BY <3>1, <4>2
        <5> QED
          BY <5>1, <4>2 DEF AllFix
      <4> QED
        BY <4>1, <4>2
    <3>3. owned' = owned \/ owned' = owned \union fixed[t]
      BY DEF AllFix
    <3> QED
      BY <3>1, <3>2, <3>3 DEF TypeOK
  <2>4. batch' \in [Threads -> Seq(Items)]
    <3>1. <<>> \in Seq(Items)
      OBVIOUS
    <3> QED
      BY <3>1 DEF TypeOK, AllFix
  <2> QED
    BY <2>1, HeadTypes, <1>f, <2>2, <2>3, <2>4 DEF TypeOK, AllFix
<1>2. \A u \in Threads \ {t} : SameThread(u) /\ lag'[u] = lag[u]
  BY DEF TypeOK, SameThread, AllFix
<1>3. head' = head /\ stack' = stack /\ Listed' = Listed
  BY DEF Listed, AllFix
<1>4. \A x \in Items : x \notin owned \union Private(t) => next'[x] = next[x]
  BY DEF AllFix
<1>5. owned' \union Private(t)' = owned \union Private(t) /\ owned' \intersect Private(t)' = {}
  <2>1. CASE cur[t] = NULL
    <3>1. ~(k + 1 \in 1..Len(batch[t]))
      BY <2>1, <1>k, <1>b, NullAssumption DEF At
    <3>2. k = Len(batch[t])
      BY <3>1, <1>k, <1>b
    <3>3. Private(t) = fixed[t]
      BY <3>2, <1>k, <1>f DEF Private, Removing
    <3>4. Private(t)' = {} /\ owned' = owned \union fixed[t]
      BY <2>1, <1>f DEF TypeOK, Private, Removing, AllFix
    <3> QED
      BY <3>3, <3>4
  <2>2. CASE cur[t] # NULL
    <3>1. Private(t)' = Private(t) /\ owned' = owned
      BY <2>2, <1>f DEF TypeOK, Private, Removing, AllFix
    <3> QED
      BY <3>1 DEF ItemsPartitioned
  <2> QED
    BY <2>1, <2>2
<1>6. ThreadOK(t)'
  <2>1. CASE cur[t] = NULL
    <3>1. pc'[t] = "idle" /\ batch'[t] = <<>> /\ fixed'[t] = {}
      BY <2>1 DEF TypeOK, AllFix
    <3> QED
      BY <3>1 DEF ThreadOK, InCall, HeadValid, WalkValid, BatchOK, Taking, PopSteps, RemSteps
  <2>2. CASE cur[t] # NULL
    <3>1. /\ pc'[t] = "all_fix" /\ batch'[t] = batch[t] /\ next' = next
          /\ fixed'[t] = fixed[t] \union {cur[t]} /\ cur'[t] = next[cur[t]]
      BY <2>2, <1>f DEF TypeOK, AllFix
    <3>2. k + 1 \in 1..Len(batch[t]) /\ cur[t] = batch[t][k + 1]
      BY <2>2, <1>k DEF At
    <3>3. next[cur[t]] = At(batch[t], (k + 1) + 1)
      BY <3>2, <1>k DEF IsChain
    <3>4. fixed'[t] = {batch[t][i] : i \in 1..(k + 1)}
      <4>1. \A i : i \in 1..(k + 1) <=> i \in 1..k \/ i = k + 1
        BY <1>b
      <4> QED
        BY <4>1, <3>1, <3>2, <1>k
    <3>5. k + 1 \in 0..Len(batch[t])
      BY <3>2
    <3>6. BatchOK(t)'
      <4>1. IsChain(batch[t])'
        BY <3>1, <1>k DEF IsChain, At
      <4>2. cur'[t] = At(batch[t], (k + 1) + 1)'
        BY <3>1, <3>3 DEF At
      <4>3. k + 1 \in 0..Len(batch'[t]) /\ fixed'[t] = {batch'[t][i] : i \in 1..(k + 1)}
        BY <3>1, <3>4, <3>5
      <4> QED
        BY <4>1, <4>2, <4>3 DEF BatchOK
    <3>7. InCall(t)'
      BY <3>1, <1>f DEF ThreadOK, InCall, PopSteps, RemSteps
    <3> QED
      BY <3>1, <3>6, <3>7 DEF ThreadOK, HeadValid, WalkValid, Taking
  <2> QED
    BY <2>1, <2>2
<1> QED
  BY <1>1, <1>2, <1>3, <1>4, <1>5, <1>6, LocalStep

\* The holder of an item writes to no item that is listed or in a thread's hands.
LEMMA HolderWriteInd ==
    ASSUME NEW k \in Items, IndInv, HolderWrite(k)
    PROVE  IndInv'
<1> USE IndInvParts DEF locals
<1>0. PICK p \in Pointer : next' = [next EXCEPT ![k] = p]
  BY DEF HolderWrite
<1>1. TypeOK'
  BY <1>0 DEF TypeOK, HolderWrite
<1>2. \A u \in Threads : SameThread(u) /\ lag'[u] = lag[u]
  BY DEF SameThread, HolderWrite
<1>3. head' = head /\ stack' = stack /\ owned' = owned /\ Listed' = Listed
  BY DEF HolderWrite, Listed
<1>4. \A u \in Threads : Private(u)' = Private(u)
  BY <1>2, <1>3 DEF Private, SameThread, Removing
<1>5. \A x \in Items : x \notin owned => next'[x] = next[x]
  BY <1>0 DEF TypeOK, HolderWrite
<1>6. \A x \in Listed : next'[x] = next[x]
  BY <1>5, ListedItems DEF ItemsPartitioned
<1>7. \A u \in Threads : \A x \in Private(u) : next'[x] = next[x]
  BY <1>5 DEF ItemsPartitioned
<1>8. ListIntact'
  <2>1. \A i \in 1..Len(stack) : stack[i] \in Listed
    BY DEF Listed
  <2> QED
    BY <1>3, <1>6, <2>1 DEF ListIntact, IsChain, At
<1>9. ItemsPartitioned'
  BY <1>3, <1>4 DEF ItemsPartitioned
<1>10. \A u \in Threads : ThreadOK(u)'
  BY <1>2, <1>3, <1>6, <1>7, ThreadFrame
<1> QED
  BY <1>1, <1>8, <1>9, <1>10, IndInvNext

\* A compare-and-swap that fails changes nothing but the locals of its thread.
LEMMA PushCasFailsInd ==
    ASSUME NEW t \in Threads, IndInv, PushCas(t), head # snap[t]
    PROVE  IndInv'
<1> USE IndInvParts DEF Goto, locals, SwapHead
<1>1. TypeOK'
  <2>1. pc' \in [Threads -> Steps]
    BY DEF TypeOK, PushCas, Steps
  <2> QED
    BY <2>1, HeadTypes DEF TypeOK, PushCas
<1>2. \A u \in Threads \ {t} : SameThread(u) /\ lag'[u] = lag[u]
  BY DEF TypeOK, SameThread, PushCas, SwapHead
<1>3. head' = head /\ stack' = stack /\ Listed' = Listed
  BY DEF Listed, PushCas, SwapHead
<1>4. \A x \in Items : x \notin owned \union Private(t) => next'[x] = next[x]
  BY DEF PushCas
<1>5. owned' \union Private(t)' = owned \union Private(t) /\ owned' \intersect Private(t)' = {}
  <2>1. Private(t)' = Private(t) /\ owned' = owned
    BY <1>3 DEF TypeOK, Private, Removing, PushCas
  <2> QED
    BY <2>1 DEF ItemsPartitioned
<1>6. ThreadOK(t)'
  <2>1. pc[t] # "all_fix" /\ pc'[t] # "all_fix"
    BY DEF TypeOK, PushCas
  <2>2. InCall(t)'
    BY <2>1 DEF TypeOK, ThreadOK, InCall, PushCas, PopSteps, RemSteps
  <2>3. HeadValid(t)'
    BY <2>1, <1>3 DEF TypeOK, ThreadOK, HeadValid, PushCas, Taking
  <2>4. WalkValid(t)'
    BY <2>1, <1>3 DEF TypeOK, ThreadOK, WalkValid, PushCas
  <2> QED
    BY <2>1, <2>2, <2>3, <2>4 DEF ThreadOK, BatchOK
<1> QED
  BY <1>1, <1>2, <1>3, <1>4, <1>5, <1>6, LocalStep

\* A compare-and-swap that fails changes nothing but the locals of its thread.
LEMMA PopCasFailsInd ==
    ASSUME NEW t \in Threads, IndInv, PopCas(t), head # snap[t]
    PROVE  IndInv'
<1> USE IndInvParts DEF Goto, locals, SwapHead
<1>1. TypeOK'
  <2>1. pc' \in [Threads -> Steps]
    BY DEF TypeOK, PopCas, Steps
  <2> QED
    BY <2>1, HeadTypes DEF TypeOK, PopCas
<1>2. \A u \in Threads \ {t} : SameThread(u) /\ lag'[u] = lag[u]
  BY DEF TypeOK, SameThread, PopCas, SwapHead
<1>3. head' = head /\ stack' = stack /\ Listed' = Listed
  BY DEF Listed, PopCas, SwapHead
<1>4. \A x \in Items : x \notin owned \union Private(t) => next'[x] = next[x]
  BY DEF PopCas
<1>5. owned' \union Private(t)' = owned \union Private(t) /\ owned' \intersect Private(t)' = {}
  <2>1. Private(t)' = Private(t) /\ owned' = owned
    BY <1>3 DEF TypeOK, Private, Removing, PopCas
  <2> QED
    BY <2>1 DEF ItemsPartitioned
<1>6. ThreadOK(t)'
  <2>1. pc[t] # "all_fix" /\ pc'[t] # "all_fix"
    BY DEF TypeOK, PopCas
  <2>2. InCall(t)'
    BY <2>1 DEF TypeOK, ThreadOK, InCall, PopCas, PopSteps, RemSteps
  <2>3. HeadValid(t)'
    BY <2>1, <1>3 DEF TypeOK, ThreadOK, HeadValid, PopCas, Taking
  <2>4. WalkValid(t)'
    BY <2>1, <1>3 DEF TypeOK, ThreadOK, WalkValid, PopCas
  <2> QED
    BY <2>1, <2>2, <2>3, <2>4 DEF ThreadOK, BatchOK
<1> QED
  BY <1>1, <1>2, <1>3, <1>4, <1>5, <1>6, LocalStep

\* A compare-and-swap that fails changes nothing but the locals of its thread.
LEMMA AllCasFailsInd ==
    ASSUME NEW t \in Threads, IndInv, AllCas(t), head # snap[t]
    PROVE  IndInv'
<1> USE IndInvParts DEF Goto, locals, SwapHead
<1>1. TypeOK'
  <2>1. pc' \in [Threads -> Steps]
    BY DEF TypeOK, AllCas, Steps
  <2> QED
    BY <2>1, HeadTypes DEF TypeOK, AllCas
<1>2. \A u \in Threads \ {t} : SameThread(u) /\ lag'[u] = lag[u]
  BY DEF TypeOK, SameThread, AllCas, SwapHead
<1>3. head' = head /\ stack' = stack /\ Listed' = Listed
  BY DEF Listed, AllCas, SwapHead
<1>4. \A x \in Items : x \notin owned \union Private(t) => next'[x] = next[x]
  BY DEF AllCas
<1>5. owned' \union Private(t)' = owned \union Private(t) /\ owned' \intersect Private(t)' = {}
  <2>1. Private(t)' = Private(t) /\ owned' = owned
    BY <1>3 DEF TypeOK, Private, Removing, AllCas
  <2> QED
    BY <2>1 DEF ItemsPartitioned
<1>6. ThreadOK(t)'
  <2>1. pc[t] # "all_fix" /\ pc'[t] # "all_fix"
    BY DEF TypeOK, AllCas
  <2>2. InCall(t)'
    BY <2>1 DEF TypeOK, ThreadOK, InCall, AllCas, PopSteps, RemSteps
  <2>3. HeadValid(t)'
    BY <2>1, <1>3 DEF TypeOK, ThreadOK, HeadValid, AllCas, Taking
  <2>4. WalkValid(t)'
    BY <2>1, <1>3 DEF TypeOK, ThreadOK, WalkValid, AllCas
  <2> QED
    BY <2>1, <2>2, <2>3, <2>4 DEF ThreadOK, BatchOK
<1> QED
  BY <1>1, <1>2, <1>3, <1>4, <1>5, <1>6, LocalStep

\* A compare-and-swap that fails changes nothing but the locals of its thread.
LEMMA RemoveCasFailsInd ==
    ASSUME NEW t \in Threads, IndInv, RemoveCas(t), head # snap[t]
    PROVE  IndInv'
<1> USE IndInvParts DEF Goto, locals, SwapHead
<1>1. TypeOK'
  <2>1. pc' \in [Threads -> Steps]
    BY DEF TypeOK, RemoveCas, Steps
  <2> QED
    BY <2>1, HeadTypes DEF TypeOK, RemoveCas
<1>2. \A u \in Threads \ {t} : SameThread(u) /\ lag'[u] = lag[u]
  BY DEF TypeOK, SameThread, RemoveCas, SwapHead
<1>3. head' = head /\ stack' = stack /\ Listed' = Listed
  BY DEF Listed, RemoveCas, SwapHead
<1>4. \A x \in Items : x \notin owned \union Private(t) => next'[x] = next[x]
  BY DEF RemoveCas
<1>5. owned' \union Private(t)' = owned \union Private(t) /\ owned' \intersect Private(t)' = {}
  <2>1. Private(t)' = Private(t) /\ owned' = owned
    BY <1>3 DEF TypeOK, Private, Removing, RemoveCas
  <2> QED
    BY <2>1 DEF ItemsPartitioned
<1>6. ThreadOK(t)'
  <2>1. pc[t] # "all_fix" /\ pc'[t] # "all_fix"
    BY DEF TypeOK, RemoveCas
  <2>2. InCall(t)'
    BY <2>1 DEF TypeOK, ThreadOK, InCall, RemoveCas, PopSteps, RemSteps
  <2>3. HeadValid(t)'
    BY <2>1, <1>3 DEF TypeOK, ThreadOK, HeadValid, RemoveCas, Taking
  <2>4. WalkValid(t)'
    BY <2>1, <1>3 DEF TypeOK, ThreadOK, WalkValid, RemoveCas
  <2> QED
    BY <2>1, <2>2, <2>3, <2>4 DEF ThreadOK, BatchOK
<1> QED
  BY <1>1, <1>2, <1>3, <1>4, <1>5, <1>6, LocalStep

-----------------------------------------------------------------------------
(* The steps that change the list *)

\* A push puts an item whose next pointer is the old head in front.
LEMMA PushedList ==
    ASSUME TypeOK, ListIntact, NEW x \in Items, x \notin Listed, next[x] = head.ptr,
           head'.ptr = x, next' = next, stack' = <<x>> \o stack
    PROVE  /\ ListIntact' /\ Listed' = Listed \union {x}
           /\ stack' \in Seq(Items) /\ Len(stack') = Len(stack) + 1
           /\ stack'[1] = x /\ \A i \in 1..Len(stack) : stack'[i + 1] = stack[i]
<1>0. Len(stack) \in Nat
  BY DEF TypeOK
<1>1. /\ stack' \in Seq(Items) /\ Len(stack') = Len(stack) + 1
      /\ stack'[1] = x
      /\ \A i \in 1..Len(stack) : stack'[i + 1] = stack[i]
  BY DEF TypeOK
<1>2. \A i \in 1..Len(stack') : i = 1 \/ (i - 1 \in 1..Len(stack) /\ stack'[i] = stack[i - 1])
  <2> TAKE i \in 1..Len(stack')
  <2>1. i = 1 \/ (i - 1 \in 1..Len(stack) /\ (i - 1) + 1 = i)
    BY <1>0, <1>1
  <2> QED
    BY <2>1, <1>1
<1>3. Listed' = Listed \union {x}
  <2>1. Listed' \subseteq Listed \union {x}
    BY <1>1, <1>2 DEF Listed
  <2>2. 1 \in 1..Len(stack') /\ \A i \in 1..Len(stack) : i + 1 \in 1..Len(stack')
    BY <1>0, <1>1
  <2>3. x \in Listed'
    BY <1>1, <2>2 DEF Listed
  <2>4. ASSUME NEW i \in 1..Len(stack) PROVE stack[i] \in Listed'
    BY <1>1, <2>2 DEF Listed
  <2>5. Listed \subseteq Listed'
    BY <2>4 DEF Listed
  <2> QED
    BY <2>1, <2>3, <2>5
<1>4. \A i \in 1..(Len(stack) + 1) : At(stack', i + 1) = At(stack, i)
  BY <1>0, <1>1 DEF At
<1>5. IsChain(stack)'
  <2> SUFFICES ASSUME NEW i \in 1..Len(stack') PROVE next[stack'[i]] = At(stack', i + 1)
    BY DEF IsChain, At
  <2>1. CASE i = 1
    <3>1. next[stack'[i]] = At(stack, 1)
      BY <2>1, <1>1 DEF ListIntact
    <3>2. At(stack', i + 1) = At(stack, i)
      BY <1>4, <1>1
    <3> QED
      BY <3>1, <3>2, <2>1
  <2>2. CASE i # 1
    <3>1. i - 1 \in 1..Len(stack) /\ stack'[i] = stack[i - 1]
      BY <2>2, <1>2
    <3>2. next[stack[i - 1]] = At(stack, (i - 1) + 1)
      BY <3>1 DEF ListIntact, IsChain
    <3>3. (i - 1) + 1 = i /\ i \in 1..(Len(stack) + 1)
      BY <1>0, <1>1
    <3> QED
      BY <3>1, <3>2, <3>3, <1>4
  <2> QED
    BY <2>1, <2>2
<1>6. IsInjective(stack')
  <2> SUFFICES ASSUME NEW i \in 1..Len(stack'), NEW j \in 1..Len(stack'), stack'[i] = stack'[j]
               PROVE  i = j
    BY <1>1 DEF IsInjective
  <2>1. \A k \in 1..Len(stack) : stack[k] # x
    BY DEF Listed
  <2>2. i = 1 <=> j = 1
    BY <2>1, <1>1, <1>2
  <2>3. i # 1 => i - 1 = j - 1
    <3>1. DOMAIN stack = 1..Len(stack)
      BY DEF TypeOK
    <3> QED
      BY <2>2, <1>2, <3>1 DEF ListIntact, IsInjective
  <2>4. i \in Int /\ j \in Int
    OBVIOUS
  <2> QED
    BY <2>2, <2>3, <2>4
<1>7. head'.ptr = At(stack', 1)
  BY <1>0, <1>1 DEF At
<1>8. ListIntact'
  BY <1>5, <1>6, <1>7 DEF ListIntact, At
<1> QED
  BY <1>1, <1>3, <1>8

\* A take from the top leaves the rest of the chain.
LEMMA TailList ==
    ASSUME TypeOK, ListIntact, 1 \in 1..Len(stack),
           head'.ptr = At(stack, 2), next' = next, stack' = Tail(stack)
    PROVE  /\ ListIntact' /\ Listed' = Listed \ {stack[1]} /\ stack[1] \in Listed
           /\ stack' \in Seq(Items)
<1>0. Len(stack) \in Nat \ {0} /\ DOMAIN stack = 1..Len(stack)
  BY DEF TypeOK
<1>1. /\ stack' \in Seq(Items) /\ Len(stack') = Len(stack) - 1
      /\ \A i \in 1..Len(stack') : stack'[i] = stack[i + 1]
  BY <1>0 DEF TypeOK
<1>2. \A i \in 1..Len(stack') : i + 1 \in 1..Len(stack) /\ i + 1 # 1
  BY <1>0, <1>1
<1>3. \A i \in 1..Len(stack) : i = 1 \/ (i - 1 \in 1..Len(stack') /\ stack'[i - 1] = stack[i])
  <2> TAKE i \in 1..Len(stack)
  <2>1. i = 1 \/ (i - 1 \in 1..Len(stack') /\ (i - 1) + 1 = i)
    BY <1>0, <1>1
  <2> QED
    BY <2>1, <1>1
<1>4. stack[1] \in Listed
  BY DEF Listed
<1>5. Listed' = Listed \ {stack[1]}
  <2>1. ASSUME NEW i \in 1..Len(stack') PROVE stack'[i] \in Listed /\ stack'[i] # stack[1]
    BY <1>0, <1>1, <1>2 DEF Listed, ListIntact, IsInjective
  <2>2. ASSUME NEW i \in 1..Len(stack), stack[i] # stack[1] PROVE stack[i] \in Listed'
    BY <1>3, <2>2 DEF Listed
  <2>3. Listed' \subseteq Listed \ {stack[1]}
    BY <2>1 DEF Listed
  <2>4. Listed \ {stack[1]} \subseteq Listed'
    BY <2>2 DEF Listed
  <2> QED
    BY <2>3, <2>4
<1>6. \A i \in 1..(Len(stack') + 1) : At(stack', i) = At(stack, i + 1)
  BY <1>0, <1>1 DEF At
<1>7. IsChain(stack)'
  <2> SUFFICES ASSUME NEW i \in 1..Len(stack') PROVE next[stack'[i]] = At(stack', i + 1)
    BY DEF IsChain, At
  <2>1. next[stack'[i]] = At(stack, (i + 1) + 1)
    BY <1>1, <1>2 DEF ListIntact, IsChain
  <2>2. i + 1 \in 1..(Len(stack') + 1)
    BY <1>0, <1>1
  <2> QED
    BY <2>1, <2>2, <1>6
<1>8. IsInjective(stack')
  <2> SUFFICES ASSUME NEW i \in 1..Len(stack'), NEW j \in 1..Len(stack'), stack'[i] = stack'[j]
               PROVE  i = j
    BY <1>1 DEF IsInjective
  <2>1. i + 1 = j + 1
    BY <1>0, <1>1, <1>2 DEF ListIntact, IsInjective
  <2>2. i \in Int /\ j \in Int
    OBVIOUS
  <2> QED
    BY <2>1, <2>2
<1>9. head'.ptr = At(stack', 1)
  <2>1. 1 \in 1..(Len(stack') + 1)
    BY <1>0, <1>1
  <2> QED
    BY <2>1, <1>6
<1>10. ListIntact'
  BY <1>7, <1>8, <1>9 DEF ListIntact, At
<1> QED
  BY <1>1, <1>4, <1>5, <1>10

\* A removal from the middle joins the two ends of the chain.
LEMMA UnlinkedList ==
    ASSUME TypeOK, ListIntact, NEW k \in 1..Len(stack), k + 1 \in 1..Len(stack),
           head' = head, stack' = Without(stack, stack[k + 1]),
           next' = [next EXCEPT ![stack[k]] = next[stack[k + 1]]]
    PROVE  /\ ListIntact' /\ Listed' = Listed \ {stack[k + 1]}
           /\ stack' \in Seq(Items) /\ Len(stack') = Len(stack) - 1
           /\ \A i \in 1..k : i \in 1..Len(stack') /\ stack'[i] = stack[i]
           /\ \A i \in (k + 1)..Len(stack') : stack'[i] = stack[i + 1]
<1>0. PICK n \in Nat : Len(stack) = n
  BY DEF TypeOK
<1>a. /\ DOMAIN stack = 1..n /\ k \in Nat /\ 1 <= k /\ k + 1 <= n
      /\ stack \in Seq(Items) /\ next \in [Items -> Pointer]
  BY <1>0 DEF TypeOK
<1>i. \A i, j \in 1..n : stack[i] = stack[j] => i = j
  BY <1>a DEF ListIntact, IsInjective
<1>t. \A i \in 1..n : stack[i] \in Items
  BY <1>a
<1>c. \A i \in 1..n : next[stack[i]] = At(stack, i + 1)
  BY <1>0 DEF ListIntact, IsChain
<1>1. (CHOOSE j \in 1..Len(stack) : stack[j] = stack[k + 1]) = k + 1
  BY <1>i, <1>0
<1>2. stack' = [i \in 1..(n - 1) |-> IF i < k + 1 THEN stack[i] ELSE stack[i + 1]]
  BY <1>1, <1>0 DEF Without
<1>3. \A i \in 1..(n - 1) : i \in 1..n /\ i + 1 \in 1..n
  OBVIOUS
<1>4. stack' \in Seq(Items) /\ Len(stack') = n - 1
  <2>1. \A i \in 1..(n - 1) : (IF i < k + 1 THEN stack[i] ELSE stack[i + 1]) \in Items
    BY <1>t, <1>3
  <2>2. n - 1 \in Nat
    BY <1>a
  <2> QED
    BY <1>2, <2>1, <2>2
<1>l. \A i \in 1..k : i \in 1..n /\ i \in 1..(n - 1) /\ stack'[i] = stack[i]
  <2> SUFFICES ASSUME NEW i \in 1..k PROVE i \in 1..n /\ i \in 1..(n - 1) /\ stack'[i] = stack[i]
    OBVIOUS
  <2>1. i \in 1..n /\ i \in 1..(n - 1) /\ i < k + 1
    BY <1>a
  <2> QED
    BY <2>1, <1>2
<1>r. \A i \in (k + 1)..(n - 1) : i \in 1..n /\ i \in 1..(n - 1) /\ i + 1 \in 1..n /\ stack'[i] = stack[i + 1]
  <2> SUFFICES ASSUME NEW i \in (k + 1)..(n - 1)
               PROVE  i \in 1..n /\ i \in 1..(n - 1) /\ i + 1 \in 1..n /\ stack'[i] = stack[i + 1]
    OBVIOUS
  <2>1. i \in 1..n /\ i \in 1..(n - 1) /\ i + 1 \in 1..n /\ ~(i < k + 1)
    BY <1>a
  <2> QED
    BY <2>1, <1>2
<1>s. \A i \in 1..(n - 1) : i \in 1..k \/ i \in (k + 1)..(n - 1)
  BY <1>a
<1> DEFINE S == stack'
           N == next'
<1>n. /\ DOMAIN S = 1..(n - 1) /\ Len(S) = n - 1
      /\ N[stack[k]] = next[stack[k + 1]]
      /\ \A m \in 1..n : m # k => N[stack[m]] = next[stack[m]]
  <2>1. k \in 1..n
    BY <1>a
  <2> QED
    BY <1>2, <1>4, <1>a, <1>t, <1>i, <2>1
<1>5. Listed' = Listed \ {stack[k + 1]}
  <2>1. ASSUME NEW i \in 1..(n - 1) PROVE S[i] \in Listed /\ S[i] # stack[k + 1]
    <3>1. CASE i \in 1..k
      <4>1. i \in 1..n /\ k + 1 \in 1..n /\ i # k + 1 /\ S[i] = stack[i]
        BY <3>1, <1>l, <1>a
      <4> QED
        BY <4>1, <1>i, <1>0 DEF Listed
    <3>2. CASE i \in (k + 1)..(n - 1)
      <4>1. i + 1 \in 1..n /\ k + 1 \in 1..n /\ i + 1 # k + 1 /\ S[i] = stack[i + 1]
        BY <3>2, <1>r, <1>a
      <4> QED
        BY <4>1, <1>i, <1>0 DEF Listed
    <3> QED
      BY <3>1, <3>2, <1>s
  <2>2. ASSUME NEW i \in 1..n, i # k + 1 PROVE \E j \in 1..(n - 1) : S[j] = stack[i]
    <3>1. CASE i \in 1..k
      BY <3>1, <1>l
    <3>2. CASE i \notin 1..k
      <4>1. i - 1 \in (k + 1)..(n - 1) /\ (i - 1) + 1 = i
        BY <3>2, <2>2, <1>a
      <4> QED
        BY <4>1, <1>r
    <3> QED
      BY <3>1, <3>2
  <2>3. Listed' = {S[i] : i \in 1..(n - 1)} /\ Listed = {stack[i] : i \in 1..n}
    BY <1>n, <1>0 DEF Listed
  <2> HIDE DEF S
  <2>4. Listed' \subseteq Listed \ {stack[k + 1]}
    BY <2>1, <2>3
  <2>5. \A i \in 1..n : stack[i] # stack[k + 1] => stack[i] \in Listed'
    BY <2>2, <2>3
  <2>6. Listed \ {stack[k + 1]} \subseteq Listed'
    BY <2>3, <2>5
  <2> QED
    BY <2>4, <2>6
<1> HIDE DEF S, N
<1>7. \A i \in 1..(n - 1) : N[S[i]] = At(S, i + 1)
  <2> TAKE i \in 1..(n - 1)
  <2>0. i \in Nat /\ i \in 1..n /\ i + 1 \in 1..n
    BY <1>a
  <2>1. CASE i \in 1..(k - 1)
    <3>1. i \in 1..k /\ i + 1 \in 1..k /\ i # k
      BY <2>1, <1>a
    <3>2. S[i] = stack[i] /\ S[i + 1] = stack[i + 1] /\ i + 1 \in 1..(n - 1)
      BY <3>1, <1>l DEF S
    <3>3. N[stack[i]] = At(stack, i + 1)
      BY <3>1, <2>0, <1>n, <1>c
    <3> QED
      BY <3>2, <3>3, <2>0, <1>0, <1>n DEF At
  <2>2. CASE i = k
    <3>1. S[i] = stack[k] /\ k + 1 \in 1..n
      BY <2>2, <1>l, <1>a DEF S
    <3>2. N[S[i]] = At(stack, (k + 1) + 1)
      BY <3>1, <1>n, <1>c
    <3>3. At(stack, (k + 1) + 1) = At(S, k + 1)
      <4>1. CASE k + 1 \in (k + 1)..(n - 1)
        <5>1. S[k + 1] = stack[(k + 1) + 1] /\ k + 1 \in 1..(n - 1) /\ (k + 1) + 1 \in 1..n
          BY <4>1, <1>r DEF S
        <5> QED
          BY <5>1, <1>0, <1>n DEF At
      <4>2. CASE k + 1 \notin (k + 1)..(n - 1)
        <5>1. k + 1 \notin 1..(n - 1) /\ (k + 1) + 1 \notin 1..n
          BY <4>2, <1>a
        <5> QED
          BY <5>1, <1>0, <1>n DEF At
      <4> QED
        BY <4>1, <4>2
    <3> QED
      BY <3>2, <3>3, <2>2
  <2>3. CASE i \in (k + 1)..(n - 1)
    <3>1. S[i] = stack[i + 1] /\ i + 1 # k
      BY <2>3, <1>r, <1>a DEF S
    <3>2. N[S[i]] = At(stack, (i + 1) + 1)
      BY <3>1, <2>0, <1>n, <1>c
    <3>3. At(stack, (i + 1) + 1) = At(S, i + 1)
      <4>1. CASE i + 1 \in (k + 1)..(n - 1)
        <5>1. S[i + 1] = stack[(i + 1) + 1] /\ i + 1 \in 1..(n - 1) /\ (i + 1) + 1 \in 1..n
          BY <4>1, <1>r DEF S
        <5> QED
          BY <5>1, <1>0, <1>n DEF At
      <4>2. CASE i + 1 \notin (k + 1)..(n - 1)
        <5>1. i + 1 \notin 1..(n - 1) /\ (i + 1) + 1 \notin 1..n
          BY <4>2, <2>3, <1>a
        <5> QED
          BY <5>1, <1>0, <1>n DEF At
      <4> QED
        BY <4>1, <4>2
    <3> QED
      BY <3>2, <3>3
  <2> QED
    BY <2>0, <1>a, <2>1, <2>2, <2>3
<1>8. \A i, j \in 1..(n - 1) : S[i] = S[j] => i = j
  <2> SUFFICES ASSUME NEW i \in 1..(n - 1), NEW j \in 1..(n - 1), S[i] = S[j] PROVE i = j
    OBVIOUS
  <2> DEFINE p == IF i \in 1..k THEN i ELSE i + 1
             q == IF j \in 1..k THEN j ELSE j + 1
  <2>1. S[i] = stack[p] /\ p \in 1..n /\ S[j] = stack[q] /\ q \in 1..n
    BY <1>s, <1>l, <1>r DEF S
  <2>2. p = q
    BY <2>1, <1>i
  <2> QED
    BY <2>2, <1>a
<1>9. head.ptr = At(S, 1)
  <2>1. 1 \in 1..k /\ 1 \in 1..(n - 1) /\ 1 \in 1..n
    BY <1>a
  <2> QED
    BY <2>1, <1>l, <1>n, <1>0 DEF S, ListIntact, At
<1>10. ListIntact'
  <2>1. IsChain(stack)'
    BY <1>7, <1>n DEF S, N, IsChain, At
  <2>2. IsInjective(stack')
    BY <1>8, <1>n DEF S, IsInjective
  <2> QED
    BY <2>1, <2>2, <1>9 DEF S, ListIntact, At
<1> QED
  BY <1>4, <1>5, <1>l, <1>r, <1>10, <1>0

\* A thread whose lag, at most, changed: what does not depend on the list.
LEMMA OthersBatch ==
    ASSUME NEW u \in Threads, ThreadOK(u), SameThread(u),
           \A x \in Private(u) : next'[x] = next[x]
    PROVE  InCall(u)' /\ BatchOK(u)'
<1>1. \A i \in 1..Len(batch[u]) : batch[u][i] \in Private(u)
  BY DEF Private
<1>2. InCall(u)'
  BY DEF ThreadOK, InCall, SameThread
<1>3. BatchOK(u)'
  <2>1. IsChain(batch[u]) => IsChain(batch[u])'
    <3>1. \A i \in 1..Len(batch[u]) : next'[batch[u][i]] = next[batch[u][i]]
      BY <1>1
    <3>2. batch'[u] = batch[u]
      BY DEF SameThread
    <3> QED
      BY <3>1, <3>2 DEF IsChain, At
  <2> QED
    BY <2>1 DEF ThreadOK, BatchOK, SameThread, At
<1> QED
  BY <1>2, <1>3

\* A thread that is not the actor, over a push.
LEMMA PushFrame ==
    ASSUME TypeOK, ItemsPartitioned, NEW t \in Threads, NEW u \in Threads \ {t},
           ThreadOK(u), SameThread(u), lag'[u] = lag[u],
           NEW x \in Private(t), head' = [ptr |-> x, ver |-> head.ver], next' = next,
           Listed' = Listed \union {x}, Len(stack') = Len(stack) + 1, stack'[1] = x,
           \A i \in 1..Len(stack) : stack'[i + 1] = stack[i]
    PROVE  ThreadOK(u)'
<1>0. Len(stack) \in Nat
  BY DEF TypeOK
<1>1. InCall(u)' /\ BatchOK(u)'
  BY OthersBatch
<1>2. HeadValid(u)'
  BY DEF ThreadOK, HeadValid, SameThread, Taking
<1>3. Removing(u) => cur[u] # x
  BY DEF ItemsPartitioned, Private
<1>4. WalkValid(u)'
  <2>1. /\ pc'[u] \in {"rem_ld", "rem_cas", "rem_walk", "rem_unlink"} => nxt'[u] = next'[cur'[u]]
        /\ pc'[u] = "rem_cas" => snap'[u].ptr = cur'[u]
        /\ pc'[u] = "rem_walk" /\ prev'[u] = NULL => cur'[u] \notin Listed'
    BY <1>3 DEF ThreadOK, WalkValid, SameThread, Removing
  <2>2. ASSUME pc'[u] = "rem_walk", prev'[u] # NULL
        PROVE  \E i \in 1..Len(stack') : /\ stack'[i] = prev'[u]
                                         /\ \A j \in 1..i : stack'[j] # cur'[u]
    <3>1. PICK i \in 1..Len(stack) : stack[i] = prev[u] /\ \A j \in 1..i : stack[j] # cur[u]
      BY <2>2 DEF ThreadOK, WalkValid, SameThread
    <3>2. i + 1 \in 1..Len(stack') /\ stack'[i + 1] = prev'[u]
      BY <3>1, <1>0 DEF SameThread
    <3>3. \A j \in 1..(i + 1) : stack'[j] # cur'[u]
      <4> TAKE j \in 1..(i + 1)
      <4>1. j = 1 \/ (j - 1 \in 1..i /\ j - 1 \in 1..Len(stack) /\ (j - 1) + 1 = j)
        BY <1>0
      <4>2. CASE j = 1
        BY <4>2, <2>2, <1>3 DEF Removing, SameThread
      <4>3. CASE j - 1 \in 1..i /\ j - 1 \in 1..Len(stack) /\ (j - 1) + 1 = j
        <5>1. stack'[j] = stack[j - 1]
          BY <4>3
        <5> QED
          BY <5>1, <4>3, <3>1 DEF SameThread
      <4> QED
        BY <4>1, <4>2, <4>3
    <3> QED
      BY <3>2, <3>3
  <2>3. ASSUME pc'[u] = "rem_unlink"
        PROVE  \E i \in 1..Len(stack') : /\ i + 1 \in 1..Len(stack')
                                         /\ stack'[i] = prev'[u] /\ stack'[i + 1] = cur'[u]
    <3>1. PICK i \in 1..Len(stack) : /\ i + 1 \in 1..Len(stack)
                                     /\ stack[i] = prev[u] /\ stack[i + 1] = cur[u]
      BY <2>3 DEF ThreadOK, WalkValid, SameThread
    <3>2. i + 1 \in 1..Len(stack') /\ (i + 1) + 1 \in 1..Len(stack')
      BY <1>0, <3>1
    <3>3. stack'[i + 1] = prev'[u] /\ stack'[(i + 1) + 1] = cur'[u]
      BY <3>1 DEF SameThread
    <3> QED
      BY <3>2, <3>3
  <2> QED
    BY <2>1, <2>2, <2>3 DEF WalkValid
<1> QED
  BY <1>1, <1>2, <1>4 DEF ThreadOK

\* A thread that is not the actor, over a take: it is one take late, and it
\* is not the remover.
LEMMA TakeFrame ==
    ASSUME TypeOK, NEW t \in Poppers, NEW u \in Threads \ {t},
           ThreadOK(u), SameThread(u), next' = next,
           head'.ver = NextVersion(head.ver),
           Taking(u) => lag[u] < VersionMod - 1,
           lag'[u] = IF Taking(u) THEN lag[u] + 1 ELSE 0
    PROVE  ThreadOK(u)'
<1>1. InCall(u)' /\ BatchOK(u)'
  BY OthersBatch
<1>2. pc[u] \notin RemSteps
  BY SoleTaker DEF ThreadOK, InCall
<1>3. WalkValid(u)'
  BY <1>2 DEF WalkValid, SameThread, RemSteps
<1>4. HeadValid(u)'
  <2>1. CASE Taking(u)
    <3>1. /\ snap[u].ver \in 0..(VersionMod - 1) /\ head.ver \in 0..(VersionMod - 1)
          /\ lag[u] \in 0..(VersionMod - 1)
      BY HeadTypes DEF TypeOK
    <3>2. /\ snap[u].ptr # NULL
          /\ head.ver = IF snap[u].ver + lag[u] >= VersionMod
                          THEN snap[u].ver + lag[u] - VersionMod
                          ELSE snap[u].ver + lag[u]
      BY <2>1 DEF ThreadOK, HeadValid
    <3>3. /\ lag[u] < VersionMod - 1 /\ lag'[u] = lag[u] + 1
      BY <2>1
    <3>4. head'.ver = IF snap[u].ver + lag'[u] >= VersionMod
                        THEN snap[u].ver + lag'[u] - VersionMod
                        ELSE snap[u].ver + lag'[u]
      BY <3>1, <3>2, <3>3, VersionAssumption DEF NextVersion
    <3>5. lag'[u] # 0
      BY <3>1, <3>3
    <3> QED
      BY <2>1, <3>2, <3>4, <3>5 DEF HeadValid, Taking, SameThread
  <2>2. CASE ~Taking(u)
    BY <2>2 DEF ThreadOK, HeadValid, Taking, SameThread
  <2> QED
    BY <2>1, <2>2
<1> QED
  BY <1>1, <1>3, <1>4 DEF ThreadOK

\* A compare-and-swap that succeeds missed no take: the version would differ.
\* So it takes the top of the list, and the next pointer the thread has read
\* is that of the top.
LEMMA TakesTop ==
    ASSUME NEW t \in Threads, IndInv, pc[t] \in {"pop_cas", "all_cas", "rem_cas"}, head = snap[t]
    PROVE  /\ 1 \in 1..Len(stack) /\ stack[1] = snap[t].ptr
           /\ pc[t] # "all_cas" => nxt[t] = At(stack, 2)
           /\ stack # <<>> /\ Head(stack) = snap[t].ptr /\ snap[t].ptr \in Items
<1> USE IndInvParts
<1>1. lag[t] = 0
  <2>1. /\ snap[t].ver \in 0..(VersionMod - 1)
        /\ lag[t] \in 0..(VersionMod - 1)
    BY HeadTypes DEF TypeOK
  <2>2. snap[t].ver = IF snap[t].ver + lag[t] >= VersionMod
                        THEN snap[t].ver + lag[t] - VersionMod
                        ELSE snap[t].ver + lag[t]
    BY DEF ThreadOK, HeadValid, Taking
  <2>3. ASSUME NEW v \in 0..(VersionMod - 1), NEW l \in 0..(VersionMod - 1),
               v = IF v + l >= VersionMod THEN v + l - VersionMod ELSE v + l
        PROVE  l = 0
    BY <2>3, VersionAssumption
  <2> QED
    BY <2>1, <2>2, <2>3
<1>2. snap[t].ptr # NULL
  BY DEF ThreadOK, HeadValid, Taking
<1>3. 1 \in 1..Len(stack) /\ stack[1] = snap[t].ptr
  BY <1>2 DEF ListIntact, At
<1>4. stack # <<>> /\ Head(stack) = stack[1] /\ stack[1] \in Items
  BY <1>3 DEF TypeOK
<1>5. pc[t] # "all_cas" => nxt[t] = next[snap[t].ptr]
  BY <1>1 DEF ThreadOK, HeadValid, WalkValid
<1>6. next[stack[1]] = At(stack, 1 + 1)
  BY <1>3 DEF ListIntact, IsChain
<1> QED
  BY <1>3, <1>4, <1>5, <1>6

\* The compare-and-swap of push that succeeds: the item goes on top.
LEMMA PushCasInd ==
    ASSUME NEW t \in Threads, IndInv, PushCas(t), head = snap[t]
    PROVE  IndInv'
<1> USE IndInvParts
<1>0. pc[t] = "push_cas" /\ cur[t] \in Items
  BY DEF TypeOK, ThreadOK, InCall, Pointer, PushCas
<1>1. Private(t) = {cur[t]} /\ cur[t] \notin Listed \union owned
  BY <1>0 DEF ThreadOK, InCall, Private, Removing, ItemsPartitioned
<1>2. next[cur[t]] = head.ptr
  BY <1>0 DEF ThreadOK, HeadValid
<1>3. /\ head' = [ptr |-> cur[t], ver |-> head.ver] /\ stack' = <<cur[t]>> \o stack
      /\ next' = next /\ owned' = owned /\ lag' = lag
      /\ pc'[t] = "idle" /\ batch'[t] = batch[t] /\ fixed'[t] = fixed[t]
  BY DEF TypeOK, PushCas
<1>4. /\ ListIntact' /\ Listed' = Listed \union {cur[t]}
      /\ stack' \in Seq(Items) /\ Len(stack') = Len(stack) + 1
      /\ stack'[1] = cur[t] /\ \A i \in 1..Len(stack) : stack'[i + 1] = stack[i]
  BY <1>0, <1>1, <1>2, <1>3, PushedList
<1>5. \A u \in Threads \ {t} : SameThread(u) /\ lag'[u] = lag[u]
  BY DEF TypeOK, SameThread, PushCas
<1>6. TypeOK'
  <2>1. pc' \in [Threads -> Steps]
    BY DEF TypeOK, PushCas, Steps
  <2>2. head' \in HeadP
    BY <1>0, <1>3, HeadTypes DEF TypeOK
  <2>3. snap' \in [Threads -> HeadP] /\ cur' \in [Threads -> Pointer]
    BY HeadTypes DEF TypeOK, PushCas
  <2> QED
    BY <2>1, <2>2, <2>3, <1>4 DEF TypeOK, PushCas
<1>7. ItemsPartitioned'
  <2>1. \A u \in Threads \ {t} : Removing(u) => cur[u] # cur[t]
    BY <1>1 DEF ItemsPartitioned, Private
  <2>2. \A u \in Threads \ {t} : Private(u)' = Private(u)
    BY <2>1, <1>4, <1>5 DEF Private, SameThread, Removing
  <2>3. Private(t)' = {}
    BY <1>0, <1>3 DEF ThreadOK, InCall, Private, Removing
  <2>4. owned \intersect Listed = {}
    BY DEF ItemsPartitioned
  <2> QED
    BY <2>2, <2>3, <2>4, <1>1, <1>3, <1>4, PartitionStep
<1>8. ThreadOK(t)'
  BY <1>0, <1>3 DEF ThreadOK, InCall, HeadValid, WalkValid, BatchOK, Taking, PopSteps, RemSteps
<1>9. \A u \in Threads \ {t} : ThreadOK(u)'
  BY <1>1, <1>3, <1>4, <1>5, PushFrame
<1> QED
  BY <1>4, <1>6, <1>7, <1>8, <1>9, IndInvNext

\* What every take does to the head and to the other threads.
LEMMA TakeEffect ==
    ASSUME NEW t \in Threads, IndInv, NEW p, SwapHead(t, p)
    PROVE  /\ head = snap[t] /\ head' = [ptr |-> p, ver |-> NextVersion(head.ver)]
           /\ lag' \in [Threads -> 0..(VersionMod - 1)]
           /\ \A u \in Threads \ {t} : /\ Taking(u) => lag[u] < VersionMod - 1
                                       /\ lag'[u] = IF Taking(u) THEN lag[u] + 1 ELSE 0
<1>1. /\ head = snap[t] /\ head' = [ptr |-> p, ver |-> NextVersion(head.ver)]
      /\ \A u \in Threads \ {t} : Taking(u) => lag[u] < VersionMod - 1
      /\ lag' = [u \in Threads |-> IF u # t /\ Taking(u) THEN lag[u] + 1 ELSE 0]
  BY DEF SwapHead, NoVersionWrap
<1>2. \A u \in Threads : lag[u] \in 0..(VersionMod - 1)
  BY DEF IndInv, TypeOK
<1>3. \A u \in Threads : (IF u # t /\ Taking(u) THEN lag[u] + 1 ELSE 0) \in 0..(VersionMod - 1)
  BY <1>1, <1>2, VersionAssumption
<1> QED
  BY <1>1, <1>3

\* The compare-and-swap of pop that succeeds: the top goes to the thread.
LEMMA PopCasInd ==
    ASSUME NEW t \in Threads, IndInv, PopCas(t), head = snap[t]
    PROVE  IndInv'
<1> USE IndInvParts
<1>0. /\ pc[t] = "pop_cas" /\ SwapHead(t, nxt[t]) /\ stack' = Tail(stack) /\ next' = next
      /\ owned' = owned
  BY DEF PopCas
<1>1. /\ pc'[t] = "pop_clear" /\ cur'[t] = snap[t].ptr
      /\ batch'[t] = batch[t] /\ fixed'[t] = fixed[t]
  BY DEF TypeOK, PopCas
<1>2. /\ 1 \in 1..Len(stack) /\ stack[1] = snap[t].ptr /\ nxt[t] = At(stack, 2)
      /\ snap[t].ptr \in Items
  BY <1>0, TakesTop
<1>3. /\ head' = [ptr |-> nxt[t], ver |-> NextVersion(head.ver)]
      /\ lag' \in [Threads -> 0..(VersionMod - 1)]
      /\ \A u \in Threads \ {t} : /\ Taking(u) => lag[u] < VersionMod - 1
                                  /\ lag'[u] = IF Taking(u) THEN lag[u] + 1 ELSE 0
  BY <1>0, TakeEffect
<1>4. /\ ListIntact' /\ Listed' = Listed \ {snap[t].ptr} /\ snap[t].ptr \in Listed
      /\ stack' \in Seq(Items)
  BY <1>0, <1>2, <1>3, TailList
<1>5. t \in Poppers
  BY <1>0 DEF ThreadOK, InCall, PopSteps
<1>6. \A u \in Threads \ {t} : SameThread(u)
  BY DEF TypeOK, SameThread, PopCas
<1>7. TypeOK'
  <2>1. pc' \in [Threads -> Steps]
    BY DEF TypeOK, PopCas, Steps
  <2>2. head' \in HeadP
    BY <1>3, HeadTypes DEF TypeOK
  <2>3. /\ snap' \in [Threads -> HeadP] /\ nxt' \in [Threads -> Pointer]
        /\ cur' \in [Threads -> Pointer]
    BY <1>2, HeadTypes DEF TypeOK, PopCas
  <2> QED
    BY <2>1, <2>2, <2>3, <1>3, <1>4 DEF TypeOK, PopCas
<1>8. ItemsPartitioned'
  <2>1. \A u \in Threads \ {t} : ~Removing(u)
    BY <1>5, SoleTaker DEF ThreadOK, InCall, RemSteps, Removing
  <2>2. \A u \in Threads \ {t} : Private(u)' = Private(u)
    BY <2>1, <1>6 DEF Private, SameThread, Removing
  <2>3. Private(t) = {} /\ Private(t)' = {snap[t].ptr}
    BY <1>0, <1>1 DEF ThreadOK, InCall, Private, Removing
  <2>4. owned \intersect Listed = {}
    BY DEF ItemsPartitioned
  <2> QED
    BY <2>2, <2>3, <2>4, <1>0, <1>4, PartitionStep
<1>9. ThreadOK(t)'
  <2>1. InCall(t)'
    BY <1>0, <1>1, <1>2, <1>5, NullAssumption DEF ThreadOK, InCall, PopSteps, RemSteps
  <2> QED
    BY <2>1, <1>1 DEF ThreadOK, HeadValid, WalkValid, BatchOK, Taking
<1>10. \A u \in Threads \ {t} : ThreadOK(u)'
  <2> SUFFICES ASSUME NEW u \in Threads \ {t} PROVE ThreadOK(u)'
    OBVIOUS
  <2>1. head'.ver = NextVersion(head.ver)
    BY <1>3
  <2> QED
    BY <2>1, <1>0, <1>3, <1>5, <1>6, TakeFrame
<1> QED
  BY <1>4, <1>7, <1>8, <1>9, <1>10, IndInvNext

\* The compare-and-swap of popall that succeeds: the whole list goes to the thread.
LEMMA AllCasInd ==
    ASSUME NEW t \in Threads, IndInv, AllCas(t), head = snap[t]
    PROVE  IndInv'
<1> USE IndInvParts
<1>0. /\ pc[t] = "all_cas" /\ SwapHead(t, NULL) /\ stack' = <<>> /\ next' = next
      /\ owned' = owned
  BY DEF AllCas
<1>1. /\ pc'[t] = "all_fix" /\ cur'[t] = snap[t].ptr
      /\ batch'[t] = stack /\ fixed'[t] = fixed[t]
  BY DEF TypeOK, AllCas
<1>2. 1 \in 1..Len(stack) /\ stack[1] = snap[t].ptr /\ snap[t].ptr \in Items
  BY <1>0, TakesTop
<1>3. /\ head' = [ptr |-> NULL, ver |-> NextVersion(head.ver)]
      /\ lag' \in [Threads -> 0..(VersionMod - 1)]
      /\ \A u \in Threads \ {t} : /\ Taking(u) => lag[u] < VersionMod - 1
                                  /\ lag'[u] = IF Taking(u) THEN lag[u] + 1 ELSE 0
  BY <1>0, TakeEffect
<1>4. ListIntact' /\ Listed' = {} /\ stack' \in Seq(Items)
  BY <1>0, <1>3 DEF ListIntact, IsChain, IsInjective, At, Listed
<1>5. t \in Poppers
  BY <1>0 DEF ThreadOK, InCall, PopSteps
<1>6. \A u \in Threads \ {t} : SameThread(u)
  BY DEF TypeOK, SameThread, AllCas
<1>7. TypeOK'
  <2>1. pc' \in [Threads -> Steps]
    BY DEF TypeOK, AllCas, Steps
  <2>2. head' \in HeadP
    BY <1>3, HeadTypes DEF TypeOK
  <2>3. /\ snap' \in [Threads -> HeadP] /\ batch' \in [Threads -> Seq(Items)]
        /\ cur' \in [Threads -> Pointer]
    BY <1>2, HeadTypes DEF TypeOK, AllCas
  <2> QED
    BY <2>1, <2>2, <2>3, <1>3, <1>4 DEF TypeOK, AllCas
<1>8. ItemsPartitioned'
  <2>1. \A u \in Threads \ {t} : ~Removing(u)
    BY <1>5, SoleTaker DEF ThreadOK, InCall, RemSteps, Removing
  <2>2. \A u \in Threads \ {t} : Private(u)' = Private(u)
    BY <2>1, <1>6 DEF Private, SameThread, Removing
  <2>3. Private(t) = {} /\ Private(t)' = Listed
    BY <1>0, <1>1 DEF ThreadOK, InCall, Private, Removing, Listed
  <2>4. owned \intersect Listed = {}
    BY DEF ItemsPartitioned
  <2> QED
    BY <2>2, <2>3, <2>4, <1>0, <1>4, PartitionStep
<1>9. ThreadOK(t)'
  <2>1. InCall(t)'
    BY <1>1, <1>5 DEF InCall, PopSteps, RemSteps
  <2>2. BatchOK(t)'
    <3>1. IsChain(batch[t])'
      BY <1>0, <1>1 DEF ListIntact, IsChain, At
    <3>2. fixed'[t] = {} /\ {batch'[t][i] : i \in 1..0} = {}
      BY <1>0, <1>1 DEF ThreadOK, InCall
    <3>3. cur'[t] = At(batch[t], 0 + 1)'
      BY <1>1, <1>2 DEF At
    <3>4. 0 \in 0..Len(batch'[t])
      BY <1>1 DEF TypeOK
    <3> QED
      BY <3>1, <3>2, <3>3, <3>4 DEF BatchOK
  <2> QED
    BY <2>1, <2>2, <1>1 DEF ThreadOK, HeadValid, WalkValid, Taking
<1>10. \A u \in Threads \ {t} : ThreadOK(u)'
  <2> SUFFICES ASSUME NEW u \in Threads \ {t} PROVE ThreadOK(u)'
    OBVIOUS
  <2>1. head'.ver = NextVersion(head.ver)
    BY <1>3
  <2> QED
    BY <2>1, <1>0, <1>3, <1>5, <1>6, TakeFrame
<1> QED
  BY <1>4, <1>7, <1>8, <1>9, <1>10, IndInvNext

\* The compare-and-swap of remove that succeeds: the item was on top.
LEMMA RemoveCasInd ==
    ASSUME NEW t \in Threads, IndInv, RemoveCas(t), head = snap[t]
    PROVE  IndInv'
<1> USE IndInvParts
<1>0. /\ pc[t] = "rem_cas" /\ SwapHead(t, nxt[t]) /\ stack' = Tail(stack) /\ next' = next
      /\ owned' = owned
  BY DEF RemoveCas
<1>1. /\ pc'[t] = "rem_clear" /\ cur'[t] = cur[t]
      /\ batch'[t] = batch[t] /\ fixed'[t] = fixed[t]
  BY DEF TypeOK, RemoveCas
<1>2. /\ 1 \in 1..Len(stack) /\ stack[1] = cur[t] /\ nxt[t] = At(stack, 2)
      /\ cur[t] \in Items
  BY <1>0, TakesTop DEF ThreadOK, WalkValid
<1>3. /\ head' = [ptr |-> nxt[t], ver |-> NextVersion(head.ver)]
      /\ lag' \in [Threads -> 0..(VersionMod - 1)]
      /\ \A u \in Threads \ {t} : /\ Taking(u) => lag[u] < VersionMod - 1
                                  /\ lag'[u] = IF Taking(u) THEN lag[u] + 1 ELSE 0
  BY <1>0, TakeEffect
<1>4. /\ ListIntact' /\ Listed' = Listed \ {cur[t]} /\ cur[t] \in Listed
      /\ stack' \in Seq(Items)
  BY <1>0, <1>2, <1>3, TailList
<1>5. t \in Removers /\ t \in Poppers
  BY <1>0, SoleTaker DEF ThreadOK, InCall, RemSteps
<1>6. \A u \in Threads \ {t} : SameThread(u)
  BY DEF TypeOK, SameThread, RemoveCas
<1>7. TypeOK'
  <2>1. pc' \in [Threads -> Steps]
    BY DEF TypeOK, RemoveCas, Steps
  <2>2. head' \in HeadP
    BY <1>3, HeadTypes DEF TypeOK
  <2>3. snap' \in [Threads -> HeadP] /\ nxt' \in [Threads -> Pointer]
    BY HeadTypes DEF TypeOK, RemoveCas
  <2> QED
    BY <2>1, <2>2, <2>3, <1>3, <1>4 DEF TypeOK, RemoveCas
<1>8. ItemsPartitioned'
  <2>1. \A u \in Threads \ {t} : ~Removing(u)
    BY <1>5, SoleTaker DEF ThreadOK, InCall, RemSteps, Removing
  <2>2. \A u \in Threads \ {t} : Private(u)' = Private(u)
    BY <2>1, <1>6 DEF Private, SameThread, Removing
  <2>3. Private(t) = {} /\ Private(t)' = {cur[t]}
    BY <1>0, <1>1, <1>4 DEF ThreadOK, InCall, Private, Removing
  <2>4. owned \intersect Listed = {}
    BY DEF ItemsPartitioned
  <2> QED
    BY <2>2, <2>3, <2>4, <1>0, <1>4, PartitionStep
<1>9. ThreadOK(t)'
  <2>1. InCall(t)'
    BY <1>0, <1>1, <1>2, <1>5, NullAssumption DEF ThreadOK, InCall, PopSteps, RemSteps
  <2> QED
    BY <2>1, <1>1 DEF ThreadOK, HeadValid, WalkValid, BatchOK, Taking
<1>10. \A u \in Threads \ {t} : ThreadOK(u)'
  <2> SUFFICES ASSUME NEW u \in Threads \ {t} PROVE ThreadOK(u)'
    OBVIOUS
  <2>1. head'.ver = NextVersion(head.ver)
    BY <1>3
  <2> QED
    BY <2>1, <1>0, <1>3, <1>5, <1>6, TakeFrame
<1> QED
  BY <1>4, <1>7, <1>8, <1>9, <1>10, IndInvNext

\* The store of remove that unlinks the item from its predecessor.
LEMMA RemoveUnlinkInd ==
    ASSUME NEW t \in Threads, IndInv, RemoveUnlink(t)
    PROVE  IndInv'
<1> USE IndInvParts DEF Goto
<1>0. /\ pc[t] = "rem_unlink" /\ stack' = Without(stack, cur[t]) /\ head' = head
      /\ next' = [next EXCEPT ![prev[t]] = nxt[t]] /\ owned' = owned /\ lag' = lag
  BY DEF RemoveUnlink
<1>1. /\ pc'[t] = "rem_clear" /\ cur'[t] = cur[t]
      /\ batch'[t] = batch[t] /\ fixed'[t] = fixed[t]
  BY DEF TypeOK, RemoveUnlink
<1>2. PICK k \in 1..Len(stack) : /\ k + 1 \in 1..Len(stack)
                                 /\ stack[k] = prev[t] /\ stack[k + 1] = cur[t]
  BY <1>0 DEF ThreadOK, WalkValid
<1>3. nxt[t] = next[stack[k + 1]]
  BY <1>0, <1>2 DEF ThreadOK, WalkValid
<1>4. ListIntact' /\ Listed' = Listed \ {cur[t]} /\ stack' \in Seq(Items)
  BY <1>0, <1>2, <1>3, UnlinkedList
<1>5. cur[t] \in Listed /\ cur[t] \in Items /\ prev[t] \in Listed /\ prev[t] \in Items
  BY <1>2 DEF Listed, TypeOK
<1>6. t \in Removers /\ t \in Poppers
  BY <1>0, SoleTaker DEF ThreadOK, InCall, RemSteps
<1>7. \A u \in Threads \ {t} : SameThread(u) /\ lag'[u] = lag[u]
  BY DEF TypeOK, SameThread, RemoveUnlink
<1>8. TypeOK'
  <2>1. pc' \in [Threads -> Steps]
    BY DEF TypeOK, RemoveUnlink, Steps
  <2>2. next' \in [Items -> Pointer]
    BY <1>0, <1>5 DEF TypeOK
  <2>3. prev' \in [Threads -> Pointer] /\ nxt' \in [Threads -> Pointer]
    BY HeadTypes DEF TypeOK, RemoveUnlink
  <2> QED
    BY <2>1, <2>2, <2>3, <1>0, <1>4 DEF TypeOK, RemoveUnlink
<1>9. \A u \in Threads \ {t} : pc[u] \notin PopSteps /\ pc[u] \notin RemSteps
  BY <1>6, SoleTaker DEF ThreadOK, InCall
<1>10. \A u \in Threads \ {t} : Private(u)' = Private(u)
  BY <1>7, <1>9 DEF Private, SameThread, Removing, RemSteps
<1>11. ItemsPartitioned'
  <2>1. Private(t) = {} /\ Private(t)' = {cur[t]}
    BY <1>0, <1>1, <1>5 DEF ThreadOK, InCall, Private, Removing
  <2>2. owned \intersect Listed = {}
    BY DEF ItemsPartitioned
  <2> QED
    BY <2>1, <2>2, <1>0, <1>4, <1>5, <1>10, PartitionStep
<1>12. ThreadOK(t)'
  <2>1. InCall(t)'
    BY <1>0, <1>1, <1>5, <1>6, NullAssumption DEF ThreadOK, InCall, PopSteps, RemSteps
  <2> QED
    BY <2>1, <1>1 DEF ThreadOK, HeadValid, WalkValid, BatchOK, Taking
<1>13. \A u \in Threads \ {t} : ThreadOK(u)'
  <2> SUFFICES ASSUME NEW u \in Threads \ {t} PROVE ThreadOK(u)'
    OBVIOUS
  <2>1. \A x \in Private(u) : next'[x] = next[x]
    <3>1. prev[t] \notin Private(u) /\ Private(u) \subseteq Items
      BY <1>5 DEF ItemsPartitioned
    <3> QED
      BY <3>1, <1>0 DEF TypeOK
  <2>2. InCall(u)' /\ BatchOK(u)'
    BY <2>1, <1>7, OthersBatch
  <2>3. HeadValid(u)'
    <3>1. pc[u] = "push_cas" => cur[u] \in Private(u)
      BY DEF Private
    <3> QED
      BY <3>1, <2>1, <1>7, <1>9 DEF ThreadOK, HeadValid, SameThread, Taking, PopSteps, RemSteps
  <2>4. WalkValid(u)'
    BY <1>7, <1>9 DEF WalkValid, SameThread, RemSteps
  <2> QED
    BY <2>2, <2>3, <2>4 DEF ThreadOK
<1> QED
  BY <1>4, <1>8, <1>11, <1>12, <1>13, IndInvNext

-----------------------------------------------------------------------------
(* The theorems *)

\* Before the first call the list is empty and the callers hold every item.
LEMMA InitInd == Init => IndInv
<1> SUFFICES ASSUME Init PROVE IndInv
  OBVIOUS
<1>1. TypeOK
  BY HeadTypes, VersionAssumption DEF Init, TypeOK, Pointer, Steps
<1>2. ListIntact
  BY DEF Init, ListIntact, IsChain, IsInjective, At, NoHead
<1>3. Listed = {} /\ \A t \in Threads : Private(t) = {}
  BY DEF Init, Listed, Private, Removing
<1>4. ItemsPartitioned
  BY <1>3 DEF Init, ItemsPartitioned
<1>5. \A t \in Threads : ThreadOK(t)
  BY DEF Init, ThreadOK, InCall, HeadValid, WalkValid, BatchOK, Taking, PopSteps, RemSteps
<1> QED
  BY <1>1, <1>2, <1>4, <1>5, IndInvParts

\* Every step keeps the invariant.
LEMMA StepInd == IndInv /\ [Next]_vars => IndInv'
<1> SUFFICES ASSUME IndInv, [Next]_vars PROVE IndInv'
  OBVIOUS
<1>1. CASE UNCHANGED vars
  <2> USE <1>1 DEF vars
  <2>1. TypeOK' /\ ListIntact'
    BY DEF IndInv, TypeOK, ListSafe, ListIntact, IsChain, At
  <2>2. Listed' = Listed /\ \A t \in Threads : Private(t)' = Private(t)
    BY DEF Listed, Private, Removing
  <2>3. ItemsPartitioned'
    BY <2>2 DEF IndInv, ListSafe, ItemsPartitioned
  <2>4. ASSUME NEW t \in Threads PROVE ThreadOK(t)'
    <3>1. InCall(t)' /\ HeadValid(t)'
      BY <2>2 DEF IndInv, InCall, HeadValid, Taking
    <3>2. WalkValid(t)'
      BY <2>2 DEF IndInv, WalkValid
    <3>3. BatchOK(t)'
      <4>1. SameThread(t) /\ \A x \in Private(t) : next'[x] = next[x]
        BY DEF SameThread
      <4> QED
        BY <4>1, IndInvParts, OthersBatch
    <3> QED
      BY <3>1, <3>2, <3>3 DEF ThreadOK
  <2> QED
    BY <2>1, <2>3, <2>4, IndInvNext
<1>2. ASSUME NEW i \in Items, HolderWrite(i) PROVE IndInv'
  BY <1>2, HolderWriteInd
<1>3. ASSUME NEW t \in Threads, Caller(t) PROVE IndInv'
  BY <1>3, PushCallInd, PopCallInd, AllCallInd, RemoveCallInd DEF Caller
<1>4. ASSUME NEW t \in Threads, ThreadStep(t) PROVE IndInv'
  <2>1. CASE PushCas(t) \/ PopCas(t) \/ AllCas(t) \/ RemoveCas(t)
    BY <2>1, PushCasInd, PushCasFailsInd, PopCasInd, PopCasFailsInd, AllCasInd, AllCasFailsInd,
       RemoveCasInd, RemoveCasFailsInd
  <2>2. CASE PushLoad(t) \/ PushStore(t) \/ PopLoad(t) \/ PopNext(t) \/ Clear(t)
    BY <2>2, PushLoadInd, PushStoreInd, PopLoadInd, PopNextInd, ClearInd
  <2>3. CASE AllLoad(t) \/ AllFix(t)
    BY <2>3, AllLoadInd, AllFixInd
  <2>4. CASE RemoveNext(t) \/ RemoveLoad(t) \/ RemoveWalk(t) \/ RemoveUnlink(t)
    BY <2>4, RemoveNextInd, RemoveLoadInd, RemoveWalkInd, RemoveUnlinkInd
  <2> QED
    BY <1>4, <2>1, <2>2, <2>3, <2>4 DEF ThreadStep
<1> QED
  BY <1>1, <1>2, <1>3, <1>4 DEF Next

\* IndInv holds in every state of the atomic list: what a thread inside a call
\* of ink_atomiclist_push, _pop, _popall or _remove relies on stays true
\* whatever the other threads do.
THEOREM AtomicListInvariant == Spec => []IndInv
  BY InitInd, StepInd, PTL DEF Spec

\* The list stays one chain of the pushed items, what popall took stays a
\* private chain, and every item is in exactly one place: nothing is lost and
\* nothing handed out twice by ink_atomiclist_push, _pop, _popall and _remove.
THEOREM AtomicListSafe == Spec => []ListSafe
<1>1. IndInv => ListSafe
  BY DEF IndInv
<1> QED
  BY <1>1, AtomicListInvariant, PTL

\* The ink_asserts of push and remove never fail.
THEOREM AtomicListAsserts == Spec => []AssertsHold
<1>1. IndInv => AssertsHold
  <2> SUFFICES ASSUME IndInv, NEW t \in Threads, pc[t] = "rem_unlink" PROVE prev[t] # nxt[t]
    BY DEF AssertsHold, IndInv, HeadValid
  <2> USE IndInvParts
  <2>1. PICK k \in 1..Len(stack) : /\ k + 1 \in 1..Len(stack)
                                   /\ stack[k] = prev[t] /\ stack[k + 1] = cur[t]
    BY DEF ThreadOK, WalkValid
  <2>2. nxt[t] = At(stack, (k + 1) + 1)
    BY <2>1 DEF ThreadOK, WalkValid, ListIntact, IsChain
  <2>3. PICK n \in Nat : Len(stack) = n /\ DOMAIN stack = 1..n /\ \A i \in 1..n : stack[i] \in Items
    BY DEF TypeOK
  <2>4. \A i, j \in 1..n : stack[i] = stack[j] => i = j
    BY <2>3 DEF ListIntact, IsInjective
  <2>5. CASE (k + 1) + 1 \in 1..n
    <3>1. k # (k + 1) + 1
      BY <2>1
    <3> QED
      BY <3>1, <2>1, <2>2, <2>3, <2>4, <2>5 DEF At
  <2>6. CASE (k + 1) + 1 \notin 1..n
    BY <2>1, <2>2, <2>3, <2>6, NullAssumption DEF At
  <2> QED
    BY <2>5, <2>6
<1> QED
  BY <1>1, AtomicListInvariant, PTL

\* What is not on the list is outside.
LEMMA OutsideIs == IndInv => Outside = Items \ Listed
  BY DEF IndInv, ListSafe, ItemsPartitioned, Outside

\* The same after a step.
LEMMA OutsideNext == IndInv' => Outside' = Items \ Listed'
  BY DEF IndInv, ListSafe, ItemsPartitioned, Outside

\* The compare-and-swap of push is the pool's push.
LEMMA RefinePush ==
    ASSUME NEW t \in Threads, IndInv, IndInv', PushCas(t), head = snap[t]
    PROVE  \E i \in Items : PoolStep!Push(i)
<1> USE IndInvParts
<1>1. stack' = <<cur[t]>> \o stack /\ pc[t] = "push_cas" /\ cur[t] \in Items
  BY DEF TypeOK, ThreadOK, InCall, Pointer, PushCas
<1>2. cur[t] \notin Listed
  BY <1>1 DEF Private, ItemsPartitioned
<1>3. next[cur[t]] = head.ptr /\ next' = next /\ head'.ptr = cur[t]
  BY <1>1 DEF ThreadOK, HeadValid, PushCas
<1>4. Listed' = Listed \union {cur[t]}
  BY <1>1, <1>2, <1>3, PushedList
<1>5. cur[t] \in Outside /\ Outside' = Outside \ {cur[t]}
  BY <1>1, <1>2, <1>4, OutsideIs, OutsideNext
<1> QED
  BY <1>1, <1>5 DEF PoolStep!Push

\* The compare-and-swaps of pop, and of a remove of the top, are its pop.
LEMMA RefinePop ==
    ASSUME NEW t \in Threads, IndInv, IndInv', PopCas(t) \/ RemoveCas(t), head = snap[t]
    PROVE  PoolStep!Pop
<1> USE IndInvParts
<1>1. /\ pc[t] \in {"pop_cas", "rem_cas"} /\ stack' = Tail(stack) /\ next' = next
      /\ SwapHead(t, nxt[t])
  BY DEF PopCas, RemoveCas
<1>2. /\ 1 \in 1..Len(stack) /\ nxt[t] = At(stack, 2) /\ stack # <<>>
      /\ Head(stack) = stack[1] /\ stack[1] \in Items
  BY <1>1, TakesTop
<1>3. head'.ptr = nxt[t]
  BY <1>1 DEF SwapHead
<1>4. Listed' = Listed \ {stack[1]} /\ stack[1] \in Listed
  BY <1>1, <1>2, <1>3, TailList
<1>5. Outside' = Outside \union {Head(stack)}
  BY <1>2, <1>4, OutsideIs, OutsideNext
<1> QED
  BY <1>1, <1>2, <1>5 DEF PoolStep!Pop

\* The compare-and-swap of popall takes everything.
LEMMA RefineAll ==
    ASSUME NEW t \in Threads, IndInv, IndInv', AllCas(t), head = snap[t]
    PROVE  PoolStep!PopAll
<1> USE IndInvParts
<1>1. pc[t] = "all_cas" /\ stack' = <<>>
  BY DEF AllCas
<1>2. stack # <<>>
  BY <1>1, TakesTop
<1>3. Listed' = {} /\ Listed \subseteq Items
  BY <1>1, ListedItems DEF Listed
<1>4. Outside' = Outside \union Listed
  BY <1>3, OutsideIs, OutsideNext
<1> QED
  BY <1>1, <1>2, <1>4 DEF PoolStep!PopAll, PoolStep!InStore, Listed

\* The store of remove takes the item out of the middle.
LEMMA RefineUnlink ==
    ASSUME NEW t \in Threads, IndInv, IndInv', RemoveUnlink(t)
    PROVE  \E k \in 1..Len(stack) : PoolStep!Remove(k)
<1> USE IndInvParts
<1>0. /\ pc[t] = "rem_unlink" /\ stack' = Without(stack, cur[t]) /\ head' = head
      /\ next' = [next EXCEPT ![prev[t]] = nxt[t]]
  BY DEF RemoveUnlink, Goto
<1>1. PICK k \in 1..Len(stack) : /\ k + 1 \in 1..Len(stack)
                                 /\ stack[k] = prev[t] /\ stack[k + 1] = cur[t]
  BY <1>0 DEF ThreadOK, WalkValid
<1>2. nxt[t] = next[stack[k + 1]]
  BY <1>0, <1>1 DEF ThreadOK, WalkValid
<1>3. /\ Listed' = Listed \ {stack[k + 1]} /\ stack' \in Seq(Items) /\ Len(stack') = Len(stack) - 1
      /\ \A i \in 1..k : i \in 1..Len(stack') /\ stack'[i] = stack[i]
      /\ \A i \in (k + 1)..Len(stack') : stack'[i] = stack[i + 1]
  BY <1>0, <1>1, <1>2, UnlinkedList
<1>4. PICK n \in Nat : Len(stack) = n /\ \A i \in 1..n : stack[i] \in Items
  BY DEF TypeOK
<1>5. k \in Nat /\ 1 <= k /\ k + 1 <= n
  BY <1>1, <1>4
<1> DEFINE S == stack'
           a == SubSeq(stack, 1, k)
           b == SubSeq(stack, k + 2, n)
<1>6. S \in Seq(Items) /\ Len(S) = n - 1
  BY <1>3, <1>4
<1>7. a \in Seq(Items) /\ Len(a) = k /\ \A i \in 1..k : a[i] = stack[i]
  <2>1. \A i \in 1..k : stack[i] \in Items
    BY <1>4, <1>5
  <2>2. 1 \in Int /\ k \in Int /\ 1 <= k /\ k - 1 + 1 = k /\ \A i \in 1..k : 1 + i - 1 = i
    BY <1>5
  <2> QED
    BY <2>1, <2>2, SubSeqProperties
<1>8. /\ b \in Seq(Items) /\ Len(b) = n - (k + 1)
      /\ \A i \in 1..(n - (k + 1)) : b[i] = stack[k + 1 + i]
  <2>1. \A i \in (k + 2)..n : stack[i] \in Items
    BY <1>4, <1>5
  <2>2. k + 2 \in Int /\ n \in Int
    BY <1>5
  <2>3. /\ b \in Seq(Items) /\ Len(b) = IF k + 2 <= n THEN n - (k + 2) + 1 ELSE 0
        /\ \A i \in 1..(n - (k + 2) + 1) : b[i] = stack[k + 2 + i - 1]
    BY <2>1, <2>2, SubSeqProperties
  <2>4. /\ (IF k + 2 <= n THEN n - (k + 2) + 1 ELSE 0) = n - (k + 1)
        /\ n - (k + 2) + 1 = n - (k + 1)
        /\ \A i \in 1..(n - (k + 1)) : k + 2 + i - 1 = k + 1 + i
    BY <1>5
  <2> QED
    BY <2>3, <2>4
<1> HIDE DEF a, b, S
<1>9. /\ a \o b \in Seq(Items) /\ Len(a \o b) = n - 1
      /\ \A i \in 1..(n - 1) : (a \o b)[i] = IF i <= k THEN a[i] ELSE b[i - k]
  <2>1. /\ a \o b \in Seq(Items) /\ Len(a \o b) = Len(a) + Len(b)
        /\ \A i \in 1..(Len(a) + Len(b)) : (a \o b)[i] = IF i <= Len(a) THEN a[i] ELSE b[i - Len(a)]
    BY <1>7, <1>8, ConcatProperties
  <2>2. Len(a) + Len(b) = n - 1
    BY <1>5, <1>7, <1>8
  <2> QED
    BY <2>1, <2>2, <1>7
<1>10. \A i \in 1..(n - 1) : S[i] = (a \o b)[i]
  <2> TAKE i \in 1..(n - 1)
  <2>1. CASE i <= k
    <3>1. i \in 1..k
      BY <2>1
    <3>2. a[i] = stack[i] /\ S[i] = stack[i]
      BY <3>1, <1>3, <1>7 DEF S
    <3> QED
      BY <2>1, <3>2, <1>9
  <2>2. CASE ~(i <= k)
    <3>1. i \in (k + 1)..(n - 1) /\ i - k \in 1..(n - (k + 1)) /\ k + 1 + (i - k) = i + 1
      BY <2>2, <1>5
    <3>2. b[i - k] = stack[i + 1]
      BY <3>1, <1>8
    <3>3. S[i] = stack[i + 1]
      BY <3>1, <1>3, <1>6 DEF S
    <3> QED
      BY <2>2, <3>2, <3>3, <1>9
  <2> QED
    BY <2>1, <2>2
<1>11. S = a \o b
  BY <1>6, <1>9, <1>10, SeqEqual
<1>12. stack' = SubSeq(stack, 1, (k + 1) - 1) \o SubSeq(stack, (k + 1) + 1, Len(stack))
  <2>1. (k + 1) - 1 = k /\ (k + 1) + 1 = k + 2
    BY <1>5
  <2> QED
    BY <2>1, <1>11, <1>4 DEF S, a, b
<1>13. stack[k + 1] \in Listed /\ stack[k + 1] \in Items
  BY <1>1, <1>4 DEF Listed
<1>14. Outside' = Outside \union {stack[k + 1]}
  BY <1>3, <1>13, OutsideIs, OutsideNext
<1>15. PoolStep!Remove(k + 1)
  BY <1>12, <1>14 DEF PoolStep!Remove
<1> QED
  BY <1>1, <1>15

\* Every step of the lock-free list is an atomic push, pop, popall or remove of
\* the last-in first-out pool, or leaves the pool as it is.
THEOREM AtomicListImplementsPool == Spec => ImplementsPool
<1>1. IndInv /\ IndInv' /\ [Next]_vars => [PoolStep!PoolNext]_<<stack, Outside>>
  <2> SUFFICES ASSUME IndInv, IndInv', [Next]_vars
               PROVE  PoolStep!PoolNext \/ UNCHANGED <<stack, Outside>>
    OBVIOUS
  <2>1. stack' = stack => UNCHANGED <<stack, Outside>>
    BY OutsideIs, OutsideNext DEF Listed
  <2>2. ASSUME NEW t \in Threads, Caller(t) \/ ThreadStep(t)
        PROVE  PoolStep!PoolNext \/ stack' = stack
    <3>1. CASE PushCas(t)
      BY <3>1, RefinePush DEF PoolStep!PoolNext, PushCas
    <3>2. CASE PopCas(t)
      BY <3>2, RefinePop DEF PoolStep!PoolNext, PopCas, SwapHead
    <3>3. CASE RemoveCas(t)
      BY <3>3, RefinePop DEF PoolStep!PoolNext, RemoveCas, SwapHead
    <3>4. CASE AllCas(t)
      BY <3>4, RefineAll DEF PoolStep!PoolNext, AllCas, SwapHead
    <3>5. CASE RemoveUnlink(t)
      BY <3>5, RefineUnlink DEF PoolStep!PoolNext
    <3>6. CASE Caller(t)
      BY <3>6 DEF Caller, PushCall, PopCall, AllCall, RemoveCall
    <3> QED
      BY <2>2, <3>1, <3>2, <3>3, <3>4, <3>5, <3>6
         DEF ThreadStep, PushLoad, PushStore, PopLoad, PopNext, Clear, AllLoad, AllFix,
             RemoveNext, RemoveLoad, RemoveWalk
  <2>3. (\E i \in Items : HolderWrite(i)) \/ UNCHANGED vars => stack' = stack
    BY DEF HolderWrite, vars
  <2> QED
    BY <2>1, <2>2, <2>3 DEF Next
<1> QED
  BY <1>1, AtomicListInvariant, PTL DEF Spec, ImplementsPool
=============================================================================
