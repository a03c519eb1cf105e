----------------------- MODULE NgxHttpFileCacheProofs ------------------------
(* The file cache for any number of requests, keys and nodes, with the manager,  *)
(* the loader, and workers that crash at any step.  The inductive invariant is   *)
(* IndInv of NgxHttpFileCache.  The argument goes from the inside out: what the  *)
(* queue and the references of a node are after one change of them; then the     *)
(* kinds of steps there are (a request goes on with its node, takes one, drops   *)
(* one; a deletion begins or ends; a node comes or goes without a reference; a   *)
(* worker exits), each shown to preserve IndInv; then every action, shown to be  *)
(* a step of one of these kinds.  LockInv, which needs IndInv, is treated last.  *)
EXTENDS NgxHttpFileCache, FiniteSetTheorems, SequenceTheorems, WellFoundedInduction, TLAPS

\* A set of natural numbers that is not empty has a smallest member.
LEMMA SmallestNumber ==
    ASSUME NEW T \in SUBSET Nat, T # {}
    PROVE  \E x \in T : \A y \in T : x <= y
<1>1. PICK x \in T : \A y \in T : ~(<<y, x>> \in OpToRel(<, Nat))
  BY NatLessThanWellFounded, WFMin
<1>2. \A y \in T : ~(y < x)
  BY <1>1 DEF OpToRel
<1>3. \A y \in T : x <= y
  BY <1>2
<1> QED
  BY <1>3

-----------------------------------------------------------------------------
(* The queue *)

\* A sequence without its element i: one shorter, and what came later moves up.
LEMMA RemoveAtFacts ==
    ASSUME NEW S, NEW q \in Seq(S), NEW i \in 1..Len(q)
    PROVE  /\ RemoveAt(q, i) \in Seq(S)
           /\ Len(RemoveAt(q, i)) = Len(q) - 1
           /\ \A j \in 1..(Len(q) - 1) :
                 RemoveAt(q, i)[j] = IF j < i THEN q[j] ELSE q[j + 1]
<1> DEFINE a == SubSeq(q, 1, i - 1)
           b == SubSeq(q, i + 1, Len(q))
<1>1. a \in Seq(S) /\ Len(a) = i - 1 /\ \A j \in 1..(i - 1) : a[j] = q[j]
  OBVIOUS
<1>2. b \in Seq(S) /\ Len(b) = Len(q) - i /\ \A j \in 1..(Len(q) - i) : b[j] = q[i + j]
  OBVIOUS
<1>3. RemoveAt(q, i) = a \o b
  BY DEF RemoveAt
<1> HIDE DEF a, b
<1>4. a \o b \in Seq(S) /\ Len(a \o b) = Len(a) + Len(b)
      /\ \A j \in 1..(Len(a) + Len(b)) :
            (a \o b)[j] = IF j <= Len(a) THEN a[j] ELSE b[j - Len(a)]
  BY <1>1, <1>2, ConcatProperties
<1>5. ASSUME NEW j \in 1..(Len(q) - 1)
      PROVE  (a \o b)[j] = IF j < i THEN q[j] ELSE q[j + 1]
  <2>1. CASE j < i
    BY <1>1, <1>2, <1>4, <2>1
  <2>2. CASE ~(j < i)
    <3>1. j - Len(a) \in 1..(Len(q) - i) /\ i + (j - Len(a)) = j + 1
      BY <1>1, <2>2
    <3>2. j \in 1..(Len(a) + Len(b)) /\ ~(j <= Len(a))
      BY <1>1, <1>2, <2>2
    <3> QED
      BY <1>2, <1>4, <2>2, <3>1, <3>2
  <2> QED
    BY <2>1, <2>2
<1> QED
  BY <1>1, <1>2, <1>3, <1>4, <1>5

\* The order of the queue: what is inactive comes last.
InactiveLast(q, S) == \A i, j \in 1..Len(q) : i < j /\ q[i] \in S => q[j] \in S

\* ngx_queue_remove: the queue without n holds the others, each once, in their order.
LEMMA UnlinkedFacts ==
    ASSUME queue \in Seq(Nodes), IsInjective(queue), NEW n, NEW S,
           InactiveLast(queue, S)
    PROVE  /\ Unlinked(n) \in Seq(Nodes)
           /\ ToSet(Unlinked(n)) = ToSet(queue) \ {n}
           /\ IsInjective(Unlinked(n))
           /\ InactiveLast(Unlinked(n), S \ {n})
<1> DEFINE at == {i \in DOMAIN queue : queue[i] = n}
<1>1. CASE at = {}
  <2>1. Unlinked(n) = queue
    BY <1>1 DEF Unlinked
  <2>2. \A i \in 1..Len(queue) : queue[i] # n
    BY <1>1
  <2> QED
    BY <2>1, <2>2 DEF ToSet, InactiveLast
<1>2. CASE at # {}
  <2> DEFINE i == CHOOSE k \in at : TRUE
             u == RemoveAt(queue, i)
  <2>1. Unlinked(n) = u
    BY <1>2 DEF Unlinked
  <2>2. i \in 1..Len(queue) /\ queue[i] = n
    BY <1>2
  <2> HIDE DEF i
  <2>3. /\ u \in Seq(Nodes) /\ Len(u) = Len(queue) - 1
        /\ \A j \in 1..(Len(queue) - 1) : u[j] = IF j < i THEN queue[j] ELSE queue[j + 1]
    BY <2>2, RemoveAtFacts
  <2> HIDE DEF u
  <2>10. DOMAIN u = 1..Len(u) /\ DOMAIN queue = 1..Len(queue)
    BY <2>3
  <2>4. \A j \in 1..Len(queue) : queue[j] = n => j = i
    BY <2>2 DEF IsInjective
  <2>5. \A j \in 1..Len(u) : u[j] \in ToSet(queue) \ {n}
    BY <2>2, <2>3, <2>4 DEF ToSet
  <2>6. \A m \in ToSet(queue) \ {n} : \E j \in 1..Len(u) : u[j] = m
    <3> TAKE m \in ToSet(queue) \ {n}
    <3>1. PICK k \in 1..Len(queue) : queue[k] = m
      BY DEF ToSet
    <3>2. k # i
      BY <2>2, <3>1
    <3>3. CASE k < i
      BY <2>2, <2>3, <3>1, <3>3
    <3>4. CASE k > i
      <4>1. k - 1 \in 1..(Len(queue) - 1) /\ ~(k - 1 < i) /\ (k - 1) + 1 = k
        BY <2>2, <3>4
      <4> QED
        BY <2>3, <3>1, <4>1
    <3> QED
      BY <2>2, <3>2, <3>3, <3>4
  <2>7. ToSet(u) = ToSet(queue) \ {n}
    BY <2>5, <2>6, <2>10 DEF ToSet
  <2>8. IsInjective(u)
    <3> SUFFICES ASSUME NEW j \in 1..Len(u), NEW k \in 1..Len(u), u[j] = u[k]
                 PROVE  j = k
      BY <2>10 DEF IsInjective
    <3>1. j \in 1..(Len(queue) - 1) /\ k \in 1..(Len(queue) - 1)
      BY <2>3
    <3>2. \A x, y \in 1..Len(queue) : queue[x] = queue[y] => x = y
      BY <2>10 DEF IsInjective
    <3> QED
      BY <2>2, <2>3, <3>1, <3>2
  <2>9. InactiveLast(u, S \ {n})
    <3> SUFFICES ASSUME NEW j \in 1..Len(u), NEW k \in 1..Len(u), j < k, u[j] \in S \ {n}
                 PROVE  u[k] \in S \ {n}
      BY DEF InactiveLast
    <3>1. u[k] # n
      BY <2>5
    <3>2. u[k] \in S
      BY <2>2, <2>3 DEF InactiveLast
    <3> QED
      BY <3>1, <3>2
  <2> QED
    BY <2>1, <2>3, <2>7, <2>8, <2>9
<1> QED
  BY <1>1, <1>2

\* ngx_queue_insert_head: a node put before a queue it is not in.
LEMMA ConsFacts ==
    ASSUME NEW N, NEW u \in Seq(N), NEW n \in N, n \notin ToSet(u), IsInjective(u),
           NEW S, n \notin S, InactiveLast(u, S)
    PROVE  /\ <<n>> \o u \in Seq(N)
           /\ ToSet(<<n>> \o u) = ToSet(u) \union {n}
           /\ IsInjective(<<n>> \o u)
           /\ InactiveLast(<<n>> \o u, S)
<1> DEFINE q == <<n>> \o u
<1>1. /\ q \in Seq(N) /\ Len(q) = Len(u) + 1 /\ q[1] = n /\ Len(u) \in Nat
      /\ \A i \in 2..(Len(u) + 1) : q[i] = u[i - 1]
  <2>1. <<n>> \in Seq(N) /\ Len(<<n>>) = 1 /\ <<n>>[1] = n
    OBVIOUS
  <2>2. /\ q \in Seq(N) /\ Len(q) = Len(<<n>>) + Len(u)
        /\ \A i \in 1..(Len(<<n>>) + Len(u)) :
              q[i] = IF i <= Len(<<n>>) THEN <<n>>[i] ELSE u[i - Len(<<n>>)]
    BY <2>1, ConcatProperties
  <2>3. Len(u) \in Nat
    OBVIOUS
  <2> HIDE DEF q
  <2> QED
    BY <2>1, <2>2, <2>3
<1> HIDE DEF q
<1>2. DOMAIN q = 1..Len(q) /\ DOMAIN u = 1..Len(u)
  BY <1>1
<1>3. \A i \in 1..Len(u) : u[i] # n
  BY <1>2 DEF ToSet
<1>4. \A i \in 1..Len(q) : i = 1 \/ (i - 1 \in 1..Len(u) /\ q[i] = u[i - 1])
  BY <1>1
<1>5. \A i \in 1..Len(u) : i + 1 \in 1..Len(q) /\ q[i + 1] = u[i]
  <2> TAKE i \in 1..Len(u)
  <2>1. i + 1 \in 2..(Len(u) + 1) /\ (i + 1) - 1 = i
    BY <1>1
  <2> QED
    BY <1>1, <2>1
<1>6. ToSet(q) = ToSet(u) \union {n}
  <2>1. \A i \in 1..Len(q) : q[i] \in ToSet(u) \union {n}
    BY <1>1, <1>2, <1>4 DEF ToSet
  <2>2. \A m \in ToSet(u) : \E i \in 1..Len(q) : q[i] = m
    <3> TAKE m \in ToSet(u)
    <3>1. PICK k \in 1..Len(u) : u[k] = m
      BY <1>2 DEF ToSet
    <3>2. k + 1 \in 1..Len(q) /\ q[k + 1] = m
      BY <1>5, <3>1
    <3> QED
      BY <3>2
  <2>3. 1 \in 1..Len(q)
    BY <1>1
  <2>4. ToSet(q) = {q[i] : i \in 1..Len(q)}
    BY <1>2 DEF ToSet
  <2> QED
    BY <1>1, <2>1, <2>2, <2>3, <2>4
<1>7. IsInjective(q)
  <2> SUFFICES ASSUME NEW i \in 1..Len(q), NEW j \in 1..Len(q), q[i] = q[j]
               PROVE  i = j
    BY <1>2 DEF IsInjective
  <2>1. \A x, y \in 1..Len(u) : u[x] = u[y] => x = y
    BY <1>2 DEF IsInjective
  <2> QED
    BY <1>1, <1>3, <1>4, <2>1
<1>8. InactiveLast(q, S)
  <2> SUFFICES ASSUME NEW i \in 1..Len(q), NEW j \in 1..Len(q), i < j, q[i] \in S
               PROVE  q[j] \in S
    BY DEF InactiveLast
  <2>1. i # 1 /\ j # 1
    BY <1>1
  <2>2. i - 1 \in 1..Len(u) /\ j - 1 \in 1..Len(u) /\ i - 1 < j - 1
        /\ q[i] = u[i - 1] /\ q[j] = u[j - 1]
    BY <1>4, <2>1
  <2> QED
    BY <2>2 DEF InactiveLast
<1> QED
  BY <1>1, <1>6, <1>7, <1>8 DEF q

\* A node that is used becomes the first of the queue, and is active.
LEMMA TouchQueue ==
    ASSUME queue \in Seq(Nodes), inactive \subseteq Nodes, QueueMatchesTree,
           NEW n \in Nodes, Touch(n), Allocated' = Allocated \union {n}
    PROVE  queue' \in Seq(Nodes) /\ inactive' \subseteq Nodes /\ QueueMatchesTree'
<1>1. InactiveLast(queue, inactive) /\ IsInjective(queue) /\ ToSet(queue) = Allocated
  BY DEF QueueMatchesTree, InactiveLast
<1>2. Unlinked(n) \in Seq(Nodes) /\ ToSet(Unlinked(n)) = ToSet(queue) \ {n}
        /\ IsInjective(Unlinked(n)) /\ InactiveLast(Unlinked(n), inactive \ {n})
  BY <1>1, UnlinkedFacts
<1>3. queue' = <<n>> \o Unlinked(n) /\ inactive' = inactive \ {n}
  BY DEF Touch
<1>4. queue' \in Seq(Nodes) /\ ToSet(queue') = ToSet(Unlinked(n)) \union {n}
        /\ IsInjective(queue') /\ InactiveLast(queue', inactive')
  BY <1>2, <1>3, ConsFacts
<1> QED
  BY <1>1, <1>2, <1>3, <1>4 DEF QueueMatchesTree, InactiveLast

\* A node that is freed is not in the queue any more.
LEMMA ReleaseQueue ==
    ASSUME node \in [Nodes -> NodeRecords], queue \in Seq(Nodes), inactive \subseteq Nodes,
           QueueMatchesTree, NEW n \in Nodes, Release(n)
    PROVE  queue' \in Seq(Nodes) /\ inactive' \subseteq Nodes /\ QueueMatchesTree'
<1>1. InactiveLast(queue, inactive) /\ IsInjective(queue) /\ ToSet(queue) = Allocated
  BY DEF QueueMatchesTree, InactiveLast
<1>2. queue' \in Seq(Nodes) /\ ToSet(queue') = ToSet(queue) \ {n} /\ IsInjective(queue')
        /\ InactiveLast(queue', inactive')
  BY <1>1, UnlinkedFacts DEF Release
<1>3. node'[n].key = None /\ \A m \in Nodes : m # n => node'[m] = node[m]
  BY DEF Release, FreeNode
<1>4. Allocated' = Allocated \ {n}
  BY <1>3 DEF Allocated
<1>5. inactive' \subseteq Nodes
  BY DEF Release
<1> QED
  BY <1>1, <1>2, <1>4, <1>5 DEF QueueMatchesTree, InactiveLast

\* The node the manager looks at, ngx_queue_last, is a node of the tree.
LEMMA OldestFacts ==
    ASSUME queue \in Seq(Nodes), QueueMatchesTree, NEW i \in 1..Len(queue)
    PROVE  Oldest(i) \in Allocated /\ Oldest(i) \in Nodes
<1>1. (Len(queue) + 1) - i \in 1..Len(queue)
  OBVIOUS
<1>2. queue[(Len(queue) + 1) - i] \in ToSet(queue)
  BY <1>1 DEF ToSet
<1> QED
  BY <1>2 DEF Oldest, QueueMatchesTree, Allocated

\* The place from which ngx_http_file_cache_forced_expire frees holds a node that nobody refers to.
LEMMA OldestIdle ==
    ASSUME queue \in Seq(Nodes), QueueMatchesTree, Idle # {}
    PROVE  /\ Oldest(Min(Idle)) \in Allocated /\ Oldest(Min(Idle)) \in Nodes
           /\ node[Oldest(Min(Idle))].count = 0
<1>1. Idle \in SUBSET Nat
  BY DEF Idle
<1>2. \E x \in Idle : \A y \in Idle : x =< y
  BY <1>1, SmallestNumber
<1>3. Min(Idle) \in Idle
  BY <1>2 DEF Min
<1>4. Min(Idle) \in 1..Len(queue) /\ node[Oldest(Min(Idle))].count = 0
  BY <1>3 DEF Idle
<1> QED
  BY <1>4, OldestFacts

-----------------------------------------------------------------------------
(* The references to a node *)

\* Finitely many requests and processes refer to a node.
LEMMA FiniteRefs ==
    ASSUME NEW n
    PROVE  /\ IsFiniteSet(Held(n)) /\ Cardinality(Held(n)) \in Nat
           /\ IsFiniteSet(Deleters(n)) /\ Cardinality(Deleters(n)) \in Nat
           /\ Cardinality(Held(n)) = 0 <=> Held(n) = {}
           /\ Cardinality(Deleters(n)) = 0 <=> Deleters(n) = {}
<1>1. IsFiniteSet(Requests) /\ IsFiniteSet(Procs)
  BY ProcessAssumption, FS_AddElement DEF Procs
<1>2. Held(n) \subseteq Requests /\ Deleters(n) \subseteq Procs
  BY DEF Held, Deleters
<1>3. IsFiniteSet(Held(n)) /\ IsFiniteSet(Deleters(n))
  BY <1>1, <1>2, FS_Subset
<1> QED
  BY <1>3, FS_CardinalityType, FS_EmptySet

\* The same after a step.
LEMMA FiniteRefsPrime ==
    ASSUME NEW n
    PROVE  /\ IsFiniteSet(Held(n)') /\ Cardinality(Held(n)') \in Nat
           /\ IsFiniteSet(Deleters(n)') /\ Cardinality(Deleters(n)') \in Nat
<1>1. IsFiniteSet(Requests) /\ IsFiniteSet(Procs)
  BY ProcessAssumption, FS_AddElement DEF Procs
<1>2. Held(n)' \subseteq Requests /\ Deleters(n)' \subseteq Procs
  BY DEF Held, Deleters
<1>3. IsFiniteSet(Held(n)') /\ IsFiniteSet(Deleters(n)')
  BY <1>1, <1>2, FS_Subset
<1> QED
  BY <1>3, FS_CardinalityType

\* The nodes of the other requests, and what the other processes delete, stay.
OthersHold(r) == \A q \in Requests : q # r => c'[q].node = c[q].node
OthersDelete(p) == \A q \in Procs : q # p => del'[q] = del[q]

\* A request that takes node n is one more that holds it.
LEMMA HeldTakes ==
    ASSUME NEW r \in Requests, NEW n, c[r].node # n, c'[r].node = n, OthersHold(r)
    PROVE  Cardinality(Held(n)') = Cardinality(Held(n)) + 1
<1>1. Held(n)' = Held(n) \union {r} /\ r \notin Held(n)
  BY DEF Held, OthersHold
<1> QED
  BY <1>1, FiniteRefs, FS_AddElement

\* A request that drops node n is one less that holds it.
LEMMA HeldDrops ==
    ASSUME NEW r \in Requests, NEW n, c[r].node = n, c'[r].node # n, OthersHold(r)
    PROVE  Cardinality(Held(n)') = Cardinality(Held(n)) - 1
<1>1. Held(n)' = Held(n) \ {r} /\ r \in Held(n)
  BY DEF Held, OthersHold
<1> QED
  BY <1>1, FiniteRefs, FS_RemoveElement

\* A request that neither takes nor drops n leaves its holders alone.
LEMMA HeldSame ==
    ASSUME NEW r \in Requests, NEW n, c[r].node = n <=> c'[r].node = n, OthersHold(r)
    PROVE  Held(n)' = Held(n)
BY DEF Held, OthersHold

\* A process that begins to delete n is one more that does.
LEMMA DeletersTake ==
    ASSUME NEW p \in Procs, NEW n, del[p] # n, del'[p] = n, OthersDelete(p)
    PROVE  Cardinality(Deleters(n)') = Cardinality(Deleters(n)) + 1
<1>1. Deleters(n)' = Deleters(n) \union {p} /\ p \notin Deleters(n)
  BY DEF Deleters, OthersDelete
<1> QED
  BY <1>1, FiniteRefs, FS_AddElement

\* A process that ends to delete n is one less that does.
LEMMA DeletersDrop ==
    ASSUME NEW p \in Procs, NEW n, del[p] = n, del'[p] # n, OthersDelete(p)
    PROVE  Cardinality(Deleters(n)') = Cardinality(Deleters(n)) - 1
<1>1. Deleters(n)' = Deleters(n) \ {p} /\ p \in Deleters(n)
  BY DEF Deleters, OthersDelete
<1> QED
  BY <1>1, FiniteRefs, FS_RemoveElement

\* A process that neither begins nor ends to delete n leaves its deleters alone.
LEMMA DeletersSame ==
    ASSUME NEW p \in Procs, NEW n, del[p] = n <=> del'[p] = n, OthersDelete(p)
    PROVE  Deleters(n)' = Deleters(n)
BY DEF Deleters, OthersDelete

\* RefCounts of one node.
Counted(n) ==
    /\ node[n].count = Cardinality(Held(n)) + Cardinality(Deleters(n)) + leaked[n]
    /\ \A r \in Held(n) : node[n].key = c[r].key
    /\ Deleters(n) # {} => node[n].key # None /\ node[n].deleting
    /\ node[n].deleting /\ leaked[n] = 0 => Cardinality(Deleters(n)) = 1

\* RefCounts, node by node.
LEMMA RefCountsCounted == RefCounts <=> \A n \in Nodes : Counted(n)
BY DEF RefCounts, Counted

\* The same after a step.
LEMMA RefCountsCountedPrime == RefCounts' <=> \A n \in Nodes : Counted(n)'
BY DEF RefCounts, Counted

\* A node without references.
LEMMA CountZero ==
    ASSUME NEW n \in Nodes, leaked[n] \in Nat, Counted(n)
    PROVE  /\ node[n].count \in Nat
           /\ node[n].count = 0 =>
                /\ Held(n) = {} /\ Deleters(n) = {} /\ leaked[n] = 0
                /\ ~node[n].deleting
           /\ node[n].count = 1 /\ Held(n) # {} =>
                Cardinality(Held(n)) = 1 /\ Deleters(n) = {} /\ leaked[n] = 0
           /\ node[n].count = 1 /\ Deleters(n) # {} =>
                Cardinality(Deleters(n)) = 1 /\ Held(n) = {} /\ leaked[n] = 0
<1> DEFINE h == Cardinality(Held(n))
           d == Cardinality(Deleters(n))
<1>1. /\ h \in Nat /\ d \in Nat
      /\ h = 0 <=> Held(n) = {}
      /\ d = 0 <=> Deleters(n) = {}
  BY FiniteRefs
<1>2. node[n].count = h + d + leaked[n] /\ (node[n].deleting /\ leaked[n] = 0 => d = 1)
  BY DEF Counted
<1> HIDE DEF h, d
<1>3. node[n].count \in Nat /\ (node[n].count = 0 => h = 0 /\ d = 0 /\ leaked[n] = 0)
  BY <1>1, <1>2
<1>4. node[n].count = 1 /\ h # 0 => h = 1 /\ d = 0 /\ leaked[n] = 0
  BY <1>1, <1>2
<1>5. node[n].count = 1 /\ d # 0 => h = 0 /\ d = 1 /\ leaked[n] = 0
  BY <1>1, <1>2
<1>6. node[n].count = 0 => ~node[n].deleting
  BY <1>2, <1>3
<1> QED
  BY <1>1, <1>3, <1>4, <1>5, <1>6 DEF h, d

\* A node whose count and references stay is counted as before.
LEMMA CountedSame ==
    ASSUME NEW n \in Nodes, Counted(n), Held(n)' = Held(n), Deleters(n)' = Deleters(n),
           leaked'[n] = leaked[n], node'[n].key = node[n].key,
           node'[n].count = node[n].count, node'[n].deleting = node[n].deleting,
           \A r \in Held(n) : c'[r].key = c[r].key
    PROVE  Counted(n)'
BY DEF Counted
-----------------------------------------------------------------------------
(* Types *)

\* What a use of a node leaves is of its type.
LEMMA TouchType ==
    ASSUME TypeOK, QueueMatchesTree, NEW n \in Nodes, Touch(n)
    PROVE  queue' \in Seq(Nodes) /\ inactive' \subseteq Nodes
<1>1. InactiveLast(queue, inactive) /\ IsInjective(queue)
  BY DEF QueueMatchesTree, InactiveLast
<1>2. Unlinked(n) \in Seq(Nodes)
  BY <1>1, UnlinkedFacts DEF TypeOK
<1> QED
  BY <1>2 DEF Touch, TypeOK

\* What the freeing of a node leaves is of its type.
LEMMA ReleaseType ==
    ASSUME TypeOK, QueueMatchesTree, NEW n \in Nodes, Release(n)
    PROVE  queue' \in Seq(Nodes) /\ inactive' \subseteq Nodes
                /\ node' \in [Nodes -> NodeRecords]
<1>1. InactiveLast(queue, inactive) /\ IsInjective(queue)
  BY DEF QueueMatchesTree, InactiveLast
<1>2. Unlinked(n) \in Seq(Nodes)
  BY <1>1, UnlinkedFacts DEF TypeOK
<1>3. FreeNode \in NodeRecords
  BY SettingAssumption DEF FreeNode, NodeRecords
<1> QED
  BY <1>2, <1>3 DEF Release, TypeOK

\* The records the cache begins with are of their types.
LEMMA InitialRecords ==
    /\ FreeNode \in NodeRecords /\ NoCache \in CacheRecords
    /\ NoFile \in Files /\ NewFile \in Files
    /\ \A f \in Files : f.size \in {0, 1} /\ f.fresh \in BOOLEAN
<1>1. NoFile \in Files /\ NewFile \in Files
  BY DEF Files
<1>2. FreeNode \in NodeRecords
  BY SettingAssumption DEF FreeNode, NodeRecords
<1>3. NoCache \in CacheRecords
  BY <1>1 DEF NoCache, CacheRecords
<1>4. \A f \in Files : f.size \in {0, 1} /\ f.fresh \in BOOLEAN
  <2>1. NoFile.size = 0 /\ NoFile.fresh = FALSE /\ NewFile.size = 1 /\ NewFile.fresh = TRUE
    BY DEF NoFile, NewFile
  <2>2. [NewFile EXCEPT !.fresh = FALSE].size = 1 /\ [NewFile EXCEPT !.fresh = FALSE].fresh = FALSE
    BY DEF NewFile
  <2> QED
    BY <2>1, <2>2 DEF Files
<1> QED
  BY <1>1, <1>2, <1>3, <1>4

\* The empty cache satisfies the invariant.
LEMMA InitInv == Init => IndInv
<1> SUFFICES ASSUME Init PROVE IndInv
  OBVIOUS
<1>1. Manager \in Procs /\ Requests \subseteq Procs /\ Manager # None
  BY ProcessAssumption DEF Procs
<1>2. TypeOK
  <2>1. node \in [Nodes -> NodeRecords] /\ c \in [Requests -> CacheRecords]
    BY InitialRecords DEF Init
  <2>2. file \in [Keys -> Files] /\ cold \in BOOLEAN /\ mutex \in {None, Manager}
    BY SettingAssumption DEF Init
  <2>3. /\ pc \in [Procs -> RequestPcs \union ManagerPcs]
        /\ pc[Manager] \in ManagerPcs /\ \A r \in Requests : pc[r] \in RequestPcs
    BY <1>1 DEF Init, RequestPcs, ManagerPcs
  <2> QED
    BY <2>1, <2>2, <2>3 DEF Init, TypeOK
<1>3. PlacesOK
  <2>1. \A r \in Requests : pc[r] = "idle" /\ c[r].node = None
    BY <1>1 DEF Init, NoCache
  <2>2. \A p \in Procs : pc[p] = "idle" /\ del[p] = None
    BY DEF Init
  <2>3. "idle" \notin Holding /\ "idle" \notin Deleting
    BY DEF Holding, Deleting
  <2>4. \A n \in Nodes : node[n] = FreeNode
    BY DEF Init
  <2>5. load.at # "add"
    BY DEF Init
  <2> QED
    BY <2>1, <2>2, <2>3, <2>4, <2>5 DEF PlacesOK
<1>4. \A n \in Nodes : Held(n) = {} /\ Deleters(n) = {}
  BY ProcessAssumption DEF Init, Held, Deleters, NoCache
<1>5. RefCounts
  <2>1. Cardinality({}) = 0
    BY FS_EmptySet
  <2>2. \A n \in Nodes : node[n].count = 0 /\ leaked[n] = 0 /\ node[n].deleting = FALSE
    BY DEF Init, FreeNode
  <2> QED
    BY <1>4, <2>1, <2>2 DEF RefCounts
<1>6. QueueMatchesTree
  <2>1. Allocated = {} /\ queue = <<>>
    BY DEF Init, Allocated, FreeNode
  <2>2. ToSet(<<>>) = {} /\ IsInjective(<<>>) /\ 1..Len(<<>>) = {}
    BY DEF ToSet, IsInjective
  <2> QED
    BY <2>1, <2>2 DEF QueueMatchesTree
<1>7. UpdatingHasOwner
  BY DEF Init, UpdatingHasOwner, FreeNode
<1> QED
  BY <1>2, <1>3, <1>5, <1>6, <1>7 DEF IndInv

-----------------------------------------------------------------------------
(* Kinds of steps *)

\* The tree and the references of a node stay.
SameRefs(n) == node'[n].key = node[n].key /\ node'[n].count = node[n].count
                 /\ node'[n].deleting = node[n].deleting

\* The queue matches the tree as long as neither changes.
LEMMA QueueSame ==
    ASSUME QueueMatchesTree, queue' = queue, inactive' = inactive,
           \A n \in Nodes : node'[n].key = node[n].key
    PROVE  QueueMatchesTree'
<1>1. Allocated' = Allocated
  BY DEF Allocated
<1> QED
  BY <1>1 DEF QueueMatchesTree

\* A use of a node of the tree keeps the queue matched with the tree.
LEMMA TouchSame ==
    ASSUME TypeOK, QueueMatchesTree, NEW n \in Allocated, Touch(n),
           \A m \in Nodes : node'[m].key = node[m].key
    PROVE  queue' \in Seq(Nodes) /\ inactive' \subseteq Nodes /\ QueueMatchesTree'
<1>1. Allocated' = Allocated /\ n \in Nodes
  BY DEF Allocated
<1>2. Allocated' = Allocated \union {n}
  BY <1>1
<1> QED
  BY <1>1, <1>2, TouchQueue DEF TypeOK

\* A request goes on with the node it has, or without one.
Moves(r) ==
    /\ \A n \in Nodes : n # c[r].node => node'[n] = node[n]
    /\ c[r].node # None => SameRefs(c[r].node)
    /\ \A q \in Requests : q # r => c'[q] = c[q]
    /\ c'[r].node = c[r].node
    /\ c[r].node # None => c'[r].key = c[r].key
    /\ \A q \in Procs : q # r => pc'[q] = pc[q]
    /\ pc[r] \notin Deleting /\ pc'[r] \notin Deleting
    /\ pc'[r] \in Holding => c[r].node \in Nodes
    /\ pc'[r] \notin Holding \union {"exists"} => c[r].node = None
    /\ pc'[r] # "idle" => c'[r].key \in Keys
    /\ UNCHANGED <<del, load, leaked>>
    /\ c[r].node # None /\ node'[c[r].node].updating =>
          Updates(r)' \/ (node[c[r].node].updating /\ ~Updates(r))

\* Such a step preserves the invariant.
LEMMA MovesInv ==
    ASSUME IndInv, NEW r \in Requests, Moves(r), TypeOK', QueueMatchesTree'
    PROVE  IndInv'
<1>1. TypeOK /\ PlacesOK /\ RefCounts /\ UpdatingHasOwner
  BY DEF IndInv
<1>2. r \in Procs /\ c[r].node \in Nodes \union {None}
  BY <1>1 DEF Procs, TypeOK, CacheRecords
<1>3. \A q \in Requests : c'[q].node = c[q].node /\ (c[q].node # None => c'[q].key = c[q].key)
  BY DEF Moves
<1>4. \A n \in Nodes : Held(n)' = Held(n) /\ Deleters(n)' = Deleters(n) /\ leaked'[n] = leaked[n]
  BY <1>3 DEF Held, Deleters, Moves
<1>5. \A n \in Nodes : SameRefs(n)
  BY ProcessAssumption DEF Moves, SameRefs
<1>6. RefCounts'
  <2> SUFFICES ASSUME NEW n \in Nodes PROVE Counted(n)'
    BY RefCountsCountedPrime
  <2>1. Counted(n)
    BY <1>1, RefCountsCounted
  <2>2. \A q \in Held(n) : c'[q].key = c[q].key
    BY <1>3, ProcessAssumption DEF Held
  <2> QED
    BY <1>4, <1>5, <2>1, <2>2, CountedSame DEF SameRefs
<1>7. PlacesOK'
  <2>1. ASSUME NEW q \in Requests
        PROVE  /\ pc'[q] \in Holding => c'[q].node \in Nodes
               /\ pc'[q] \notin Holding \union {"exists"} => c'[q].node = None
               /\ pc'[q] # "idle" => c'[q].key \in Keys
    <3>1. CASE q = r
      BY <3>1 DEF Moves
    <3>2. CASE q # r
      <4>1. q \in Procs /\ pc'[q] = pc[q] /\ c'[q] = c[q]
        BY <3>2 DEF Moves, Procs
      <4> QED
        BY <1>1, <4>1 DEF PlacesOK
    <3> QED
      BY <3>1, <3>2
  <2>2. \A p \in Procs : pc'[p] \in Deleting <=> del'[p] # None
    BY <1>1, <1>2 DEF Moves, PlacesOK
  <2>3. \A p, q \in Procs : del'[p] = del'[q] /\ del'[p] # None => p = q
    BY <1>1 DEF Moves, PlacesOK
  <2>4. ASSUME NEW n \in Nodes, node'[n].key = None PROVE node'[n] = FreeNode
    <3>1. n # c[r].node
      <4> SUFFICES ASSUME n = c[r].node PROVE FALSE
        OBVIOUS
      <4>1. r \in Held(n)
        BY DEF Held
      <4>2. node[n].key = c[r].key /\ pc[r] \in Holding \union {"exists"}
        BY <1>1, <4>1, ProcessAssumption DEF RefCounts, PlacesOK
      <4>3. c[r].key \in Keys
        BY <1>1, <4>2 DEF PlacesOK, Holding
      <4> QED
        BY <1>5, <2>4, <4>2, <4>3, ProcessAssumption DEF SameRefs
    <3> QED
      BY <1>1, <2>4, <3>1 DEF Moves, PlacesOK
  <2>5. load'.at = "add" => load'.key \in Keys
    BY <1>1 DEF Moves, PlacesOK
  <2> QED
    BY <2>1, <2>2, <2>3, <2>4, <2>5 DEF PlacesOK
<1>8. UpdatingHasOwner'
  <2> SUFFICES ASSUME NEW n \in Nodes, node'[n].updating, leaked'[n] = 0
               PROVE  \E q \in Held(n)' : Updates(q)'
    BY DEF UpdatingHasOwner
  <2>1. \A q \in Requests : q # r => (Updates(q)' <=> Updates(q))
    BY DEF Moves, Updates, Procs
  <2>2. CASE n # c[r].node
    <3>1. PICK q \in Held(n) : Updates(q)
      BY <1>1, <1>4, <2>2 DEF UpdatingHasOwner, Moves
    <3>2. q # r /\ q \in Requests /\ q \in Held(n)'
      BY <1>4, <2>2, <3>1 DEF Held
    <3> QED
      BY <2>1, <3>1, <3>2
  <2>3. CASE n = c[r].node /\ Updates(r)'
    <3>1. r \in Held(n)'
      BY <1>4, <2>3 DEF Held
    <3> QED
      BY <2>3, <3>1
  <2>4. CASE n = c[r].node /\ node[n].updating /\ ~Updates(r)
    <3>1. PICK q \in Held(n) : Updates(q)
      BY <1>1, <1>4, <2>4 DEF UpdatingHasOwner
    <3>2. q # r /\ q \in Requests /\ q \in Held(n)'
      BY <1>4, <2>4, <3>1 DEF Held
    <3> QED
      BY <2>1, <3>1, <3>2
  <2> QED
    BY <2>2, <2>3, <2>4, ProcessAssumption DEF Moves
<1> QED
  BY <1>6, <1>7, <1>8 DEF IndInv

\* No request and no deletion begins or ends.
Quiet ==
    /\ \A n \in Nodes : SameRefs(n) /\ (node'[n].updating <=> node[n].updating)
    /\ \A n \in Nodes : node[n].key = None => node'[n] = node[n]
    /\ UNCHANGED <<c, del, leaked>>
    /\ load'.at = "add" => load'.key \in Keys
    /\ \A p \in Procs : pc'[p] \in Deleting <=> pc[p] \in Deleting
    /\ \A r \in Requests :
          \/ pc'[r] = pc[r]
          \/ /\ pc'[r] \notin Holding \union {"exists", "idle"}
             /\ pc[r] \notin Holding \union {"exists", "idle"}

\* Such a step preserves the invariant.
LEMMA QuietInv ==
    ASSUME IndInv, Quiet, TypeOK', QueueMatchesTree'
    PROVE  IndInv'
<1>1. TypeOK /\ PlacesOK /\ RefCounts /\ UpdatingHasOwner
  BY DEF IndInv
<1>2. \A n \in Nodes : Held(n)' = Held(n) /\ Deleters(n)' = Deleters(n) /\ leaked'[n] = leaked[n]
  BY DEF Held, Deleters, Quiet
<1>3. RefCounts'
  <2> SUFFICES ASSUME NEW n \in Nodes PROVE Counted(n)'
    BY RefCountsCountedPrime
  <2>1. Counted(n)
    BY <1>1, RefCountsCounted
  <2>2. \A q \in Held(n) : c'[q].key = c[q].key
    BY DEF Quiet
  <2> QED
    BY <1>2, <2>1, <2>2, CountedSame DEF SameRefs, Quiet
<1>4. PlacesOK'
  <2>1. ASSUME NEW q \in Requests
        PROVE  /\ pc'[q] \in Holding => c'[q].node \in Nodes
               /\ pc'[q] \notin Holding \union {"exists"} => c'[q].node = None
               /\ pc'[q] # "idle" => c'[q].key \in Keys
    BY <1>1 DEF PlacesOK, Quiet
  <2>2. \A p \in Procs : pc'[p] \in Deleting <=> del'[p] # None
    BY <1>1 DEF Quiet, PlacesOK
  <2>3. \A p, q \in Procs : del'[p] = del'[q] /\ del'[p] # None => p = q
    BY <1>1 DEF Quiet, PlacesOK
  <2>4. \A n \in Nodes : node'[n].key = None => node'[n] = FreeNode
    BY <1>1 DEF Quiet, PlacesOK, SameRefs
  <2> QED
    BY <2>1, <2>2, <2>3, <2>4 DEF PlacesOK, Quiet
<1>5. UpdatingHasOwner'
  <2> SUFFICES ASSUME NEW n \in Nodes, node'[n].updating, leaked'[n] = 0
               PROVE  \E q \in Held(n)' : Updates(q)'
    BY DEF UpdatingHasOwner
  <2>1. PICK q \in Held(n) : Updates(q)
    BY <1>1, <1>2 DEF UpdatingHasOwner, Quiet
  <2>2. q \in Requests /\ q \in Held(n)'
    BY <1>2, <2>1 DEF Held
  <2>3. pc[q] = "update" => pc'[q] = "update"
    BY <2>2 DEF Quiet, Holding
  <2> QED
    BY <2>1, <2>2, <2>3 DEF Updates, Quiet
<1> QED
  BY <1>3, <1>4, <1>5 DEF IndInv

\* The rest of a step that one request makes.
OthersStay(r) ==
    /\ \A q \in Requests : q # r => c'[q] = c[q]
    /\ \A q \in Procs : q # r => pc'[q] = pc[q]

\* A request takes a node: one with its key, or a new one.
Takes(r, n) ==
    /\ OthersStay(r) /\ UNCHANGED <<del, load, leaked>>
    /\ n \in Nodes /\ c[r].node = None /\ c'[r].node = n
    /\ \A m \in Nodes : m # n => node'[m] = node[m]
    /\ node'[n].key = c'[r].key /\ c'[r].key \in Keys
    /\ pc[r] \notin Deleting /\ pc'[r] \in Holding
    /\ \/ /\ node[n].key = node'[n].key /\ node'[n].count = node[n].count + 1
          /\ node'[n].deleting = node[n].deleting
          /\ node'[n].updating => node[n].updating
       \/ /\ node[n].key = None /\ node'[n].count = 1
          /\ ~node'[n].deleting /\ ~node'[n].updating

\* Such a step preserves the invariant: the count is one higher.
LEMMA TakesInv ==
    ASSUME IndInv, NEW r \in Requests, NEW n, Takes(r, n), TypeOK', QueueMatchesTree'
    PROVE  IndInv'
<1>1. TypeOK /\ PlacesOK /\ RefCounts /\ UpdatingHasOwner
  BY DEF IndInv
<1>2. r \in Procs /\ n \in Nodes /\ c[r].node = None /\ c'[r].node = n /\ n # None
  BY ProcessAssumption DEF Procs, Takes
<1>3. OthersHold(r)
  BY DEF Takes, OthersStay, OthersHold
<1>4. /\ \A m \in Nodes : m # n => Held(m)' = Held(m)
      /\ \A m \in Nodes : Deleters(m)' = Deleters(m) /\ leaked'[m] = leaked[m]
      /\ Held(n)' = Held(n) \union {r} /\ r \notin Held(n)
  <2>1. \A m \in Nodes : m # n => Held(m)' = Held(m)
    BY <1>2, <1>3, ProcessAssumption DEF Held, OthersHold
  <2>2. \A m \in Nodes : Deleters(m)' = Deleters(m) /\ leaked'[m] = leaked[m]
    BY DEF Deleters, Takes
  <2>3. Held(n)' = Held(n) \union {r} /\ r \notin Held(n)
    BY <1>2, <1>3 DEF Held, OthersHold
  <2> QED
    BY <2>1, <2>2, <2>3
<1>5. \A m \in Nodes : Counted(m) /\ leaked[m] \in Nat
  BY <1>1, RefCountsCounted DEF TypeOK
<1>6. Cardinality(Held(n)') = Cardinality(Held(n)) + 1
  BY <1>2, <1>3, HeldTakes
<1>7. Counted(n)'
  <2>1. CASE /\ node[n].key = node'[n].key /\ node'[n].count = node[n].count + 1
             /\ node'[n].deleting = node[n].deleting
    <3> DEFINE h == Cardinality(Held(n))
               d == Cardinality(Deleters(n))
               h1 == Cardinality(Held(n)')
    <3>1. h \in Nat /\ d \in Nat /\ h1 = h + 1 /\ leaked[n] \in Nat
      BY <1>2, <1>5, <1>6, FiniteRefs
    <3>2. node[n].count = h + d + leaked[n] /\ node'[n].count = node[n].count + 1
      BY <1>2, <1>5, <2>1 DEF Counted
    <3> HIDE DEF h, d, h1
    <3>3. node'[n].count = h1 + d + leaked[n]
      BY <3>1, <3>2
    <3>4. node'[n].count = Cardinality(Held(n)') + Cardinality(Deleters(n)') + leaked'[n]
      BY <1>2, <1>4, <3>3 DEF h1, d
    <3>5. \A q \in Held(n)' : node'[n].key = c'[q].key
      <4> TAKE q \in Held(n)'
      <4>1. CASE q = r
        BY <4>1 DEF Takes
      <4>2. CASE q # r
        <5>1. q \in Held(n) /\ q \in Requests
          BY <1>4, <4>2 DEF Held
        <5> QED
          BY <1>2, <1>5, <2>1, <4>2, <5>1 DEF Counted, Takes, OthersStay
      <4> QED
        BY <4>1, <4>2
    <3>6. Deleters(n)' # {} => node'[n].key # None /\ node'[n].deleting
      BY <1>2, <1>4, <1>5, <2>1 DEF Counted
    <3>7. node'[n].deleting /\ leaked'[n] = 0 => Cardinality(Deleters(n)') = 1
      BY <1>2, <1>4, <1>5, <2>1 DEF Counted
    <3> QED
      BY <3>4, <3>5, <3>6, <3>7 DEF Counted
  <2>2. CASE node[n].key = None /\ node'[n].count = 1 /\ ~node'[n].deleting
    <3>1. node[n].count = 0
      BY <1>1, <1>2, <2>2 DEF PlacesOK, FreeNode
    <3>2. Held(n) = {} /\ Deleters(n) = {} /\ leaked[n] = 0
      BY <1>2, <1>5, <3>1, CountZero
    <3>3. Cardinality(Held(n)') = 1 /\ Cardinality(Deleters(n)') = 0 /\ leaked'[n] = 0
      BY <1>2, <1>4, <1>6, <3>2, FS_EmptySet
    <3>4. \A q \in Held(n)' : node'[n].key = c'[q].key
      BY <1>4, <3>2 DEF Takes
    <3>5. Deleters(n)' = {}
      BY <1>2, <1>4, <3>2
    <3> QED
      BY <2>2, <3>3, <3>4, <3>5 DEF Counted
  <2> QED
    BY <2>1, <2>2 DEF Takes
<1>8. RefCounts'
  <2> SUFFICES ASSUME NEW m \in Nodes, m # n PROVE Counted(m)'
    BY <1>7, RefCountsCountedPrime
  <2>1. \A q \in Held(m) : c'[q].key = c[q].key
    BY <1>2, ProcessAssumption DEF Held, Takes, OthersStay
  <2>2. node'[m] = node[m]
    BY DEF Takes
  <2> QED
    BY <1>4, <1>5, <2>1, <2>2, CountedSame
<1>9. PlacesOK'
  <2>1. ASSUME NEW q \in Requests
        PROVE  /\ pc'[q] \in Holding => c'[q].node \in Nodes
               /\ pc'[q] \notin Holding \union {"exists"} => c'[q].node = None
               /\ pc'[q] # "idle" => c'[q].key \in Keys
    <3>1. CASE q = r
      BY <3>1 DEF Takes
    <3>2. CASE q # r
      <4>1. q \in Procs /\ pc'[q] = pc[q] /\ c'[q] = c[q]
        BY <3>2 DEF Takes, OthersStay, Procs
      <4> QED
        BY <1>1, <4>1 DEF PlacesOK
    <3> QED
      BY <3>1, <3>2
  <2>2. \A p \in Procs : pc'[p] \in Deleting <=> del'[p] # None
    <3>1. pc'[r] \notin Deleting
      BY DEF Takes, Holding, Deleting
    <3> QED
      BY <1>1, <1>2, <3>1 DEF Takes, OthersStay, PlacesOK
  <2>3. \A p, q \in Procs : del'[p] = del'[q] /\ del'[p] # None => p = q
    BY <1>1 DEF Takes, PlacesOK
  <2>4. \A m \in Nodes : node'[m].key = None => node'[m] = FreeNode
    BY <1>1, ProcessAssumption DEF Takes, PlacesOK
  <2>5. load'.at = "add" => load'.key \in Keys
    BY <1>1 DEF Takes, PlacesOK
  <2> QED
    BY <2>1, <2>2, <2>3, <2>4, <2>5 DEF PlacesOK
<1>10. UpdatingHasOwner'
  <2> SUFFICES ASSUME NEW m \in Nodes, node'[m].updating, leaked'[m] = 0
               PROVE  \E q \in Held(m)' : Updates(q)'
    BY DEF UpdatingHasOwner
  <2>1. node[m].updating
    BY DEF Takes
  <2>2. PICK q \in Held(m) : Updates(q)
    BY <1>1, <1>4, <2>1 DEF UpdatingHasOwner
  <2>3. q # r /\ q \in Requests /\ q \in Procs /\ q \in Held(m)'
    BY <1>2, <1>4, <2>2, ProcessAssumption DEF Held, Procs
  <2> QED
    BY <2>2, <2>3 DEF Updates, Takes, OthersStay
<1> QED
  BY <1>8, <1>9, <1>10 DEF IndInv

\* A request gives its node back, and the node goes if it was the last.
Drops(r, n) ==
    /\ OthersStay(r) /\ UNCHANGED <<del, load, leaked>>
    /\ n \in Nodes /\ c[r].node = n /\ c'[r].node = None
    /\ \A m \in Nodes : m # n => node'[m] = node[m]
    /\ pc[r] \notin Deleting /\ pc'[r] = "idle"
    /\ \/ /\ node'[n].key = node[n].key /\ node'[n].count = node[n].count - 1
          /\ node'[n].deleting = node[n].deleting
          /\ node'[n].updating => node[n].updating /\ ~Updates(r)
       \/ node'[n] = FreeNode /\ node[n].count = 1

\* Such a step preserves the invariant: the count is one lower, or the node is gone.
LEMMA DropsInv ==
    ASSUME IndInv, NEW r \in Requests, NEW n, Drops(r, n), TypeOK', QueueMatchesTree'
    PROVE  IndInv'
<1>1. TypeOK /\ PlacesOK /\ RefCounts /\ UpdatingHasOwner
  BY DEF IndInv
<1>2. r \in Procs /\ n \in Nodes /\ c[r].node = n /\ c'[r].node = None /\ n # None
  BY ProcessAssumption DEF Procs, Drops
<1>3. OthersHold(r)
  BY DEF Drops, OthersStay, OthersHold
<1>4. /\ \A m \in Nodes : m # n => Held(m)' = Held(m)
      /\ \A m \in Nodes : Deleters(m)' = Deleters(m) /\ leaked'[m] = leaked[m]
      /\ Held(n)' = Held(n) \ {r} /\ r \in Held(n)
  <2>1. \A m \in Nodes : m # n => Held(m)' = Held(m)
    BY <1>2, <1>3, ProcessAssumption DEF Held, OthersHold
  <2>2. \A m \in Nodes : Deleters(m)' = Deleters(m) /\ leaked'[m] = leaked[m]
    BY DEF Deleters, Drops
  <2>3. Held(n)' = Held(n) \ {r} /\ r \in Held(n)
    BY <1>2, <1>3 DEF Held, OthersHold
  <2> QED
    BY <2>1, <2>2, <2>3
<1>5. \A m \in Nodes : Counted(m) /\ leaked[m] \in Nat
  BY <1>1, RefCountsCounted DEF TypeOK
<1>6. Cardinality(Held(n)') = Cardinality(Held(n)) - 1
  BY <1>2, <1>3, HeldDrops
<1>7. node[n].key \in Keys
  <2>1. pc[r] # "idle" /\ node[n].key = c[r].key
    BY <1>1, <1>2, <1>4 DEF PlacesOK, Holding, RefCounts
  <2> QED
    BY <1>1, <2>1 DEF PlacesOK
<1>8. ASSUME node'[n].key = node[n].key, node'[n].count = node[n].count - 1,
             node'[n].deleting = node[n].deleting,
             node'[n].updating => node[n].updating /\ ~Updates(r)
      PROVE  /\ Counted(n)' /\ (node'[n].key = None => node'[n] = FreeNode)
             /\ node'[n].updating => node[n].updating /\ ~Updates(r)
  <2>1. Counted(n)'
    <3> DEFINE h == Cardinality(Held(n))
               d == Cardinality(Deleters(n))
               h1 == Cardinality(Held(n)')
    <3>1. h \in Nat /\ d \in Nat /\ h1 = h - 1 /\ leaked[n] \in Nat
      BY <1>2, <1>5, <1>6, FiniteRefs
    <3>2. node[n].count = h + d + leaked[n] /\ node'[n].count = node[n].count - 1
      BY <1>2, <1>5, <1>8 DEF Counted
    <3> HIDE DEF h, d, h1
    <3>3. node'[n].count = h1 + d + leaked[n]
      BY <3>1, <3>2
    <3>4. node'[n].count = Cardinality(Held(n)') + Cardinality(Deleters(n)') + leaked'[n]
      BY <1>2, <1>4, <3>3 DEF h1, d
    <3>5. \A q \in Held(n)' : node'[n].key = c'[q].key
      <4> TAKE q \in Held(n)'
      <4>1. q \in Held(n) /\ q \in Requests /\ q # r
        BY <1>4 DEF Held
      <4> QED
        BY <1>2, <1>5, <1>8, <4>1 DEF Counted, Drops, OthersStay
    <3>6. Deleters(n)' # {} => node'[n].key # None /\ node'[n].deleting
      BY <1>2, <1>4, <1>5, <1>8 DEF Counted
    <3>7. node'[n].deleting /\ leaked'[n] = 0 => Cardinality(Deleters(n)') = 1
      BY <1>2, <1>4, <1>5, <1>8 DEF Counted
    <3> QED
      BY <3>4, <3>5, <3>6, <3>7 DEF Counted
  <2>2. node'[n].key # None
    BY <1>7, <1>8, ProcessAssumption
  <2>3. node'[n].updating => node[n].updating /\ ~Updates(r)
    BY <1>8
  <2> QED
    BY <2>1, <2>2, <2>3
<1>9. ASSUME node'[n] = FreeNode, node[n].count = 1
      PROVE  /\ Counted(n)' /\ (node'[n].key = None => node'[n] = FreeNode)
             /\ node'[n].updating => node[n].updating /\ ~Updates(r)
  <2>1. Cardinality(Held(n)) = 1 /\ Deleters(n) = {} /\ leaked[n] = 0
    BY <1>2, <1>4, <1>5, <1>9, CountZero
  <2>2. Cardinality(Held(n)') = 0 /\ Cardinality(Deleters(n)') = 0 /\ leaked'[n] = 0
        /\ Deleters(n)' = {}
    BY <1>2, <1>4, <1>6, <2>1, FS_EmptySet
  <2>3. Held(n)' = {}
    BY <2>2, FiniteRefsPrime, FS_EmptySet
  <2>4. node'[n].count = 0 /\ node'[n].deleting = FALSE /\ node'[n].updating = FALSE
    BY <1>9 DEF FreeNode
  <2>5. Counted(n)'
    BY <2>2, <2>3, <2>4 DEF Counted
  <2> QED
    BY <1>9, <2>4, <2>5
<1>10. /\ Counted(n)' /\ (node'[n].key = None => node'[n] = FreeNode)
       /\ node'[n].updating => node[n].updating /\ ~Updates(r)
  <2>1. CASE node'[n] = FreeNode /\ node[n].count = 1
    BY <1>9, <2>1
  <2>2. CASE /\ node'[n].key = node[n].key /\ node'[n].count = node[n].count - 1
             /\ node'[n].deleting = node[n].deleting
             /\ node'[n].updating => node[n].updating /\ ~Updates(r)
    BY <1>8, <2>2
  <2> QED
    BY <2>1, <2>2 DEF Drops
<1>11. RefCounts'
  <2> SUFFICES ASSUME NEW m \in Nodes, m # n PROVE Counted(m)'
    BY <1>10, RefCountsCountedPrime
  <2>1. \A q \in Held(m) : c'[q].key = c[q].key
    BY DEF Held, Drops, OthersStay
  <2>2. node'[m] = node[m]
    BY DEF Drops
  <2> QED
    BY <1>4, <1>5, <2>1, <2>2, CountedSame
<1>12. PlacesOK'
  <2>1. ASSUME NEW q \in Requests
        PROVE  /\ pc'[q] \in Holding => c'[q].node \in Nodes
               /\ pc'[q] \notin Holding \union {"exists"} => c'[q].node = None
               /\ pc'[q] # "idle" => c'[q].key \in Keys
    <3>1. CASE q = r
      BY <3>1 DEF Drops, Holding
    <3>2. CASE q # r
      <4>1. q \in Procs /\ pc'[q] = pc[q] /\ c'[q] = c[q]
        BY <3>2 DEF Drops, OthersStay, Procs
      <4> QED
        BY <1>1, <4>1 DEF PlacesOK
    <3> QED
      BY <3>1, <3>2
  <2>2. \A p \in Procs : pc'[p] \in Deleting <=> del'[p] # None
    <3>1. pc'[r] \notin Deleting
      BY DEF Drops, Deleting
    <3> QED
      BY <1>1, <1>2, <3>1 DEF Drops, OthersStay, PlacesOK
  <2>3. \A p, q \in Procs : del'[p] = del'[q] /\ del'[p] # None => p = q
    BY <1>1 DEF Drops, PlacesOK
  <2>4. \A m \in Nodes : node'[m].key = None => node'[m] = FreeNode
    BY <1>1, <1>10 DEF Drops, PlacesOK
  <2>5. load'.at = "add" => load'.key \in Keys
    BY <1>1 DEF Drops, PlacesOK
  <2> QED
    BY <2>1, <2>2, <2>3, <2>4, <2>5 DEF PlacesOK
<1>13. UpdatingHasOwner'
  <2> SUFFICES ASSUME NEW m \in Nodes, node'[m].updating, leaked'[m] = 0
               PROVE  \E q \in Held(m)' : Updates(q)'
    BY DEF UpdatingHasOwner
  <2>1. node[m].updating /\ (m = n => ~Updates(r))
    <3>1. CASE m = n
      BY <1>10, <3>1
    <3>2. CASE m # n
      BY <3>2 DEF Drops
    <3> QED
      BY <3>1, <3>2
  <2>2. PICK q \in Held(m) : Updates(q)
    BY <1>1, <1>4, <2>1 DEF UpdatingHasOwner
  <2>3. q # r /\ q \in Requests /\ q \in Procs
    BY <1>2, <2>1, <2>2 DEF Held, Procs
  <2>4. q \in Held(m)'
    BY <1>4, <2>2, <2>3
  <2> QED
    BY <2>2, <2>3, <2>4 DEF Updates, Drops, OthersStay
<1> QED
  BY <1>11, <1>12, <1>13 DEF IndInv

\* A process that is no request on its way with a node.
Aside(p) ==
    /\ \A q \in Procs : q # p => pc'[q] = pc[q]
    /\ p \in Requests => /\ pc[p] \notin Holding \union {"exists", "idle"}
                         /\ pc'[p] \notin Holding \union {"exists", "idle"}

\* What such a process does leaves the places of the requests alone.
LEMMA AsidePlaces ==
    ASSUME PlacesOK, NEW p \in Procs, Aside(p), c' = c, NEW q \in Requests
    PROVE  /\ pc'[q] \in Holding => c'[q].node \in Nodes
           /\ pc'[q] \notin Holding \union {"exists"} => c'[q].node = None
           /\ pc'[q] # "idle" => c'[q].key \in Keys
           /\ Updates(q)' <=> Updates(q)
<1>1. q \in Procs
  BY DEF Procs
<1>2. CASE q = p
  <2>1. pc[q] # "update" /\ pc'[q] # "update"
    BY <1>2 DEF Aside, Holding
  <2> QED
    BY <1>2, <2>1 DEF PlacesOK, Aside, Updates
<1>3. CASE q # p
  BY <1>1, <1>3 DEF PlacesOK, Aside, Updates
<1> QED
  BY <1>2, <1>3

\* A node that nobody refers to comes or goes.
Swaps(p, n) ==
    /\ Aside(p) /\ UNCHANGED <<c, del, leaked>>
    /\ n \in Nodes
    /\ \A m \in Nodes : m # n => node'[m] = node[m]
    /\ pc'[p] \in Deleting <=> pc[p] \in Deleting
    /\ node[n].count = 0 /\ node'[n].count = 0
    /\ ~node'[n].deleting /\ ~node'[n].updating
    /\ node'[n].key = None => node'[n] = FreeNode
    /\ load'.at = "add" => load'.key \in Keys

\* Such a step preserves the invariant.
LEMMA SwapsInv ==
    ASSUME IndInv, NEW p \in Procs, NEW n, Swaps(p, n), TypeOK', QueueMatchesTree'
    PROVE  IndInv'
<1>1. TypeOK /\ PlacesOK /\ RefCounts /\ UpdatingHasOwner
  BY DEF IndInv
<1>2. \A m \in Nodes : Held(m)' = Held(m) /\ Deleters(m)' = Deleters(m) /\ leaked'[m] = leaked[m]
  BY DEF Held, Deleters, Swaps
<1>3. \A m \in Nodes : Counted(m) /\ leaked[m] \in Nat
  BY <1>1, RefCountsCounted DEF TypeOK
<1>4. n \in Nodes /\ Held(n) = {} /\ Deleters(n) = {} /\ leaked[n] = 0
  BY <1>3, CountZero DEF Swaps
<1>5. RefCounts'
  <2> SUFFICES ASSUME NEW m \in Nodes PROVE Counted(m)'
    BY RefCountsCountedPrime
  <2>1. CASE m # n
    <3>1. node'[m] = node[m] /\ \A q \in Held(m) : c'[q].key = c[q].key
      BY <2>1 DEF Swaps
    <3> QED
      BY <1>2, <1>3, <3>1, CountedSame
  <2>2. CASE m = n
    <3>1. Held(m)' = {} /\ Deleters(m)' = {} /\ leaked'[m] = 0 /\ Cardinality({}) = 0
      BY <1>2, <1>4, <2>2, FS_EmptySet
    <3>2. node'[m].count = 0 /\ ~node'[m].deleting
      BY <2>2 DEF Swaps
    <3> QED
      BY <3>1, <3>2 DEF Counted
  <2> QED
    BY <2>1, <2>2
<1>6. PlacesOK'
  <2>1. \A q \in Requests :
           /\ pc'[q] \in Holding => c'[q].node \in Nodes
           /\ pc'[q] \notin Holding \union {"exists"} => c'[q].node = None
           /\ pc'[q] # "idle" => c'[q].key \in Keys
    BY <1>1, AsidePlaces DEF Swaps
  <2>2. \A q \in Procs : pc'[q] \in Deleting <=> del'[q] # None
    BY <1>1 DEF Swaps, Aside, PlacesOK
  <2>3. \A q, s \in Procs : del'[q] = del'[s] /\ del'[q] # None => q = s
    BY <1>1 DEF Swaps, PlacesOK
  <2>4. \A m \in Nodes : node'[m].key = None => node'[m] = FreeNode
    <3> TAKE m \in Nodes
    <3>1. CASE m = n
      BY <3>1 DEF Swaps
    <3>2. CASE m # n
      BY <1>1, <3>2 DEF Swaps, PlacesOK
    <3> QED
      BY <3>1, <3>2
  <2>5. load'.at = "add" => load'.key \in Keys
    BY DEF Swaps
  <2> QED
    BY <2>1, <2>2, <2>3, <2>4, <2>5 DEF PlacesOK
<1>7. UpdatingHasOwner'
  <2> SUFFICES ASSUME NEW m \in Nodes, node'[m].updating, leaked'[m] = 0
               PROVE  \E q \in Held(m)' : Updates(q)'
    BY DEF UpdatingHasOwner
  <2>1. m # n
    BY DEF Swaps
  <2>2. node[m].updating
    BY <2>1 DEF Swaps
  <2>3. PICK q \in Held(m) : Updates(q)
    BY <1>1, <1>2, <2>2 DEF UpdatingHasOwner
  <2>4. q \in Requests /\ q \in Held(m)'
    BY <1>2, <2>3 DEF Held
  <2>5. Updates(q)'
    BY <1>1, <2>3, <2>4, AsidePlaces DEF Swaps
  <2> QED
    BY <2>4, <2>5
<1> QED
  BY <1>5, <1>6, <1>7 DEF IndInv

\* A process begins to delete the file of a node that nobody refers to.
DeleteBegins(p, n) ==
    /\ Aside(p) /\ UNCHANGED <<c, leaked, load>>
    /\ n \in Nodes /\ node[n].key # None
    /\ \A m \in Nodes : m # n => node'[m] = node[m]
    /\ pc[p] \notin Deleting /\ pc'[p] \in Deleting
    /\ OthersDelete(p) /\ del'[p] = n
    /\ node[n].count = 0 /\ node'[n].count = 1
    /\ node'[n].deleting /\ (node'[n].updating <=> node[n].updating)
    /\ node'[n].key = node[n].key

\* Such a step preserves the invariant: the deletion is counted as a reference.
LEMMA DeleteBeginsInv ==
    ASSUME IndInv, NEW p \in Procs, NEW n, DeleteBegins(p, n), TypeOK', QueueMatchesTree'
    PROVE  IndInv'
<1>1. TypeOK /\ PlacesOK /\ RefCounts /\ UpdatingHasOwner
  BY DEF IndInv
<1>2. n \in Nodes /\ n # None /\ del[p] = None /\ del'[p] = n /\ OthersDelete(p)
  BY <1>1, ProcessAssumption DEF PlacesOK, DeleteBegins
<1>3. /\ \A m \in Nodes : Held(m)' = Held(m) /\ leaked'[m] = leaked[m]
      /\ \A m \in Nodes : m # n => Deleters(m)' = Deleters(m)
  <2>1. \A m \in Nodes : Held(m)' = Held(m) /\ leaked'[m] = leaked[m]
    BY DEF Held, DeleteBegins
  <2>2. \A m \in Nodes : m # n => Deleters(m)' = Deleters(m)
    BY <1>2, ProcessAssumption DEF Deleters, OthersDelete
  <2> QED
    BY <2>1, <2>2
<1>4. \A m \in Nodes : Counted(m) /\ leaked[m] \in Nat
  BY <1>1, RefCountsCounted DEF TypeOK
<1>5. Held(n) = {} /\ Deleters(n) = {} /\ leaked[n] = 0
  BY <1>2, <1>4, CountZero DEF DeleteBegins
<1>6. Cardinality(Deleters(n)') = Cardinality(Deleters(n)) + 1
  BY <1>2, DeletersTake
<1>7. RefCounts'
  <2> SUFFICES ASSUME NEW m \in Nodes PROVE Counted(m)'
    BY RefCountsCountedPrime
  <2>1. CASE m # n
    <3>1. node'[m] = node[m] /\ \A q \in Held(m) : c'[q].key = c[q].key
      BY <2>1 DEF DeleteBegins
    <3> QED
      BY <1>3, <1>4, <2>1, <3>1, CountedSame
  <2>2. CASE m = n
    <3>1. Cardinality({}) = 0
      BY FS_EmptySet
    <3>2. Held(m)' = {} /\ Cardinality(Deleters(m)') = 1 /\ leaked'[m] = 0
      BY <1>3, <1>5, <1>6, <2>2, <3>1
    <3>3. node'[m].count = 1 /\ node'[m].deleting /\ node'[m].key # None
      BY <2>2 DEF DeleteBegins
    <3> QED
      BY <3>1, <3>2, <3>3 DEF Counted
  <2> QED
    BY <2>1, <2>2
<1>8. PlacesOK'
  <2>1. \A q \in Requests :
           /\ pc'[q] \in Holding => c'[q].node \in Nodes
           /\ pc'[q] \notin Holding \union {"exists"} => c'[q].node = None
           /\ pc'[q] # "idle" => c'[q].key \in Keys
    BY <1>1, AsidePlaces DEF DeleteBegins
  <2>2. \A q \in Procs : pc'[q] \in Deleting <=> del'[q] # None
    BY <1>1, <1>2 DEF DeleteBegins, Aside, PlacesOK, OthersDelete
  <2>3. \A q, s \in Procs : del'[q] = del'[s] /\ del'[q] # None => q = s
    <3>1. \A q \in Procs : del[q] # n
      BY <1>5 DEF Deleters
    <3> QED
      BY <1>1, <1>2, <3>1 DEF OthersDelete, PlacesOK
  <2>4. \A m \in Nodes : node'[m].key = None => node'[m] = FreeNode
    BY <1>1 DEF DeleteBegins, PlacesOK
  <2>5. load'.at = "add" => load'.key \in Keys
    BY <1>1 DEF DeleteBegins, PlacesOK
  <2> QED
    BY <2>1, <2>2, <2>3, <2>4, <2>5 DEF PlacesOK
<1>9. UpdatingHasOwner'
  <2> SUFFICES ASSUME NEW m \in Nodes, node'[m].updating, leaked'[m] = 0
               PROVE  \E q \in Held(m)' : Updates(q)'
    BY DEF UpdatingHasOwner
  <2>1. node[m].updating
    BY DEF DeleteBegins
  <2>2. PICK q \in Held(m) : Updates(q)
    BY <1>1, <1>3, <2>1 DEF UpdatingHasOwner
  <2>3. q \in Requests /\ q \in Held(m)'
    BY <1>3, <2>2 DEF Held
  <2>4. Updates(q)'
    BY <1>1, <2>2, <2>3, AsidePlaces DEF DeleteBegins
  <2> QED
    BY <2>3, <2>4
<1> QED
  BY <1>7, <1>8, <1>9 DEF IndInv

\* The file is gone: the node goes with it, or somebody has taken it meanwhile.
DeleteEnds(p, n) ==
    /\ Aside(p) /\ UNCHANGED <<c, leaked, load>>
    /\ n \in Nodes /\ del[p] = n
    /\ \A m \in Nodes : m # n => node'[m] = node[m]
    /\ pc'[p] \notin Deleting
    /\ OthersDelete(p) /\ del'[p] = None
    /\ \/ node[n].count = 1 /\ node'[n] = FreeNode
       \/ /\ node'[n].count = node[n].count - 1 /\ ~node'[n].deleting
          /\ (node'[n].updating <=> node[n].updating)
          /\ node'[n].key = node[n].key

\* Such a step preserves the invariant: nobody else frees the node.
LEMMA DeleteEndsInv ==
    ASSUME IndInv, NEW p \in Procs, NEW n, DeleteEnds(p, n), TypeOK', QueueMatchesTree'
    PROVE  IndInv'
<1>1. TypeOK /\ PlacesOK /\ RefCounts /\ UpdatingHasOwner
  BY DEF IndInv
<1>2. n \in Nodes /\ n # None /\ del[p] = n /\ del'[p] = None /\ OthersDelete(p)
  BY ProcessAssumption DEF DeleteEnds
<1>3. /\ \A m \in Nodes : Held(m)' = Held(m) /\ leaked'[m] = leaked[m]
      /\ \A m \in Nodes : m # n => Deleters(m)' = Deleters(m)
  <2>1. \A m \in Nodes : Held(m)' = Held(m) /\ leaked'[m] = leaked[m]
    BY DEF Held, DeleteEnds
  <2>2. \A m \in Nodes : m # n => Deleters(m)' = Deleters(m)
    BY <1>2, ProcessAssumption DEF Deleters, OthersDelete
  <2> QED
    BY <2>1, <2>2
<1>4. \A m \in Nodes : Counted(m) /\ leaked[m] \in Nat
  BY <1>1, RefCountsCounted DEF TypeOK
<1>5. Deleters(n) = {p} /\ Deleters(n)' = {}
  BY <1>1, <1>2 DEF Deleters, OthersDelete, PlacesOK
<1>6. Cardinality({}) = 0 /\ Cardinality({p}) = 1
  BY FS_EmptySet, FS_Singleton
<1>7. node[n].key # None
  BY <1>2, <1>4, <1>5 DEF Counted
<1>8. ASSUME node[n].count = 1, node'[n] = FreeNode
      PROVE  /\ Counted(n)' /\ (node'[n].key = None => node'[n] = FreeNode)
             /\ node'[n].updating => node[n].updating
  <2>1. Held(n)' = {} /\ leaked'[n] = 0
    BY <1>2, <1>3, <1>4, <1>5, <1>8, CountZero
  <2>2. node'[n].count = 0 /\ node'[n].deleting = FALSE /\ node'[n].updating = FALSE
    BY <1>8 DEF FreeNode
  <2>3. Counted(n)'
    BY <1>5, <1>6, <2>1, <2>2 DEF Counted
  <2> QED
    BY <1>8, <2>2, <2>3
<1>9. ASSUME node'[n].count = node[n].count - 1, ~node'[n].deleting,
             node'[n].updating <=> node[n].updating, node'[n].key = node[n].key
      PROVE  /\ Counted(n)' /\ (node'[n].key = None => node'[n] = FreeNode)
             /\ node'[n].updating => node[n].updating
  <2> DEFINE h == Cardinality(Held(n))
  <2>1. h \in Nat /\ leaked[n] \in Nat
    BY <1>2, <1>4, FiniteRefs
  <2>2. node[n].count = h + 1 + leaked[n]
    BY <1>2, <1>4, <1>5, <1>6 DEF Counted
  <2> HIDE DEF h
  <2>3. node'[n].count = h + 0 + leaked[n]
    BY <1>9, <2>1, <2>2
  <2>4. node'[n].count = Cardinality(Held(n)') + Cardinality(Deleters(n)') + leaked'[n]
    BY <1>2, <1>3, <1>5, <1>6, <2>3 DEF h
  <2>5. \A q \in Held(n)' : node'[n].key = c'[q].key
    BY <1>2, <1>3, <1>4, <1>9 DEF Counted, DeleteEnds
  <2>6. Counted(n)'
    BY <1>5, <1>9, <2>4, <2>5 DEF Counted
  <2> QED
    BY <1>7, <1>9, <2>6
<1>10. /\ Counted(n)' /\ (node'[n].key = None => node'[n] = FreeNode)
       /\ node'[n].updating => node[n].updating
  <2>1. CASE node[n].count = 1 /\ node'[n] = FreeNode
    BY <1>8, <2>1
  <2>2. CASE /\ node'[n].count = node[n].count - 1 /\ ~node'[n].deleting
             /\ (node'[n].updating <=> node[n].updating)
             /\ node'[n].key = node[n].key
    BY <1>9, <2>2
  <2> QED
    BY <2>1, <2>2 DEF DeleteEnds
<1>11. RefCounts'
  <2> SUFFICES ASSUME NEW m \in Nodes, m # n PROVE Counted(m)'
    BY <1>10, RefCountsCountedPrime
  <2>1. node'[m] = node[m] /\ \A q \in Held(m) : c'[q].key = c[q].key
    BY DEF DeleteEnds
  <2> QED
    BY <1>3, <1>4, <2>1, CountedSame
<1>12. PlacesOK'
  <2>1. \A q \in Requests :
           /\ pc'[q] \in Holding => c'[q].node \in Nodes
           /\ pc'[q] \notin Holding \union {"exists"} => c'[q].node = None
           /\ pc'[q] # "idle" => c'[q].key \in Keys
    BY <1>1, AsidePlaces DEF DeleteEnds
  <2>2. \A q \in Procs : pc'[q] \in Deleting <=> del'[q] # None
    BY <1>1, <1>2 DEF DeleteEnds, Aside, PlacesOK, OthersDelete
  <2>3. \A q, s \in Procs : del'[q] = del'[s] /\ del'[q] # None => q = s
    BY <1>1, <1>2 DEF OthersDelete, PlacesOK
  <2>4. \A m \in Nodes : node'[m].key = None => node'[m] = FreeNode
    <3> TAKE m \in Nodes
    <3>1. CASE m = n
      BY <1>10, <3>1
    <3>2. CASE m # n
      BY <1>1, <3>2 DEF DeleteEnds, PlacesOK
    <3> QED
      BY <3>1, <3>2
  <2>5. load'.at = "add" => load'.key \in Keys
    BY <1>1 DEF DeleteEnds, PlacesOK
  <2> QED
    BY <2>1, <2>2, <2>3, <2>4, <2>5 DEF PlacesOK
<1>13. UpdatingHasOwner'
  <2> SUFFICES ASSUME NEW m \in Nodes, node'[m].updating, leaked'[m] = 0
               PROVE  \E q \in Held(m)' : Updates(q)'
    BY DEF UpdatingHasOwner
  <2>1. node[m].updating
    <3>1. CASE m = n
      BY <1>10, <3>1
    <3>2. CASE m # n
      BY <3>2 DEF DeleteEnds
    <3> QED
      BY <3>1, <3>2
  <2>2. PICK q \in Held(m) : Updates(q)
    BY <1>1, <1>3, <2>1 DEF UpdatingHasOwner
  <2>3. q \in Requests /\ q \in Held(m)'
    BY <1>3, <2>2 DEF Held
  <2>4. Updates(q)'
    BY <1>1, <2>2, <2>3, AsidePlaces DEF DeleteEnds
  <2> QED
    BY <2>3, <2>4
<1> QED
  BY <1>11, <1>12, <1>13 DEF IndInv

\* A worker exits: what it referred to is leaked.
LEMMA CrashInv ==
    ASSUME IndInv, NEW r \in Requests, Crash(r)
    PROVE  IndInv'
<1> DEFINE x == c[r].node
           y == del[r]
<1>1. TypeOK /\ PlacesOK /\ RefCounts /\ QueueMatchesTree /\ UpdatingHasOwner
  BY DEF IndInv
<1>2. /\ r \in Procs /\ r # Manager
      /\ c' = [c EXCEPT ![r] = NoCache] /\ del' = [del EXCEPT ![r] = None]
      /\ pc' = [pc EXCEPT ![r] = "idle"]
      /\ UNCHANGED <<node, queue, inactive, size, drifted, cold, mutex, file, load>>
  BY ProcessAssumption DEF Crash, Goto, Procs, shared
<1>3. \A n \in Nodes : leaked'[n] = leaked[n] + (IF x = n THEN 1 ELSE 0) + (IF y = n THEN 1 ELSE 0)
  BY DEF Crash
<1>4. c'[r].node = None /\ del'[r] = None /\ pc'[r] = "idle"
      /\ OthersHold(r) /\ OthersDelete(r)
  BY <1>1, <1>2 DEF TypeOK, NoCache, OthersHold, OthersDelete
<1>5. TypeOK'
  <2>1. leaked' \in [Nodes -> Nat]
    <3>1. leaked' = [n \in Nodes |-> leaked[n] + (IF x = n THEN 1 ELSE 0) + (IF y = n THEN 1 ELSE 0)]
      BY DEF Crash
    <3>2. \A n \in Nodes : leaked[n] + (IF x = n THEN 1 ELSE 0) + (IF y = n THEN 1 ELSE 0) \in Nat
      BY <1>1 DEF TypeOK
    <3> QED
      BY <3>1, <3>2
  <2>2. c' \in [Requests -> CacheRecords] /\ del' \in [Procs -> Nodes \union {None}]
    BY <1>1, <1>2, InitialRecords DEF TypeOK
  <2>3. /\ pc' \in [Procs -> RequestPcs \union ManagerPcs]
        /\ pc'[Manager] \in ManagerPcs /\ \A q \in Requests : pc'[q] \in RequestPcs
    BY <1>1, <1>2 DEF TypeOK, Procs, RequestPcs
  <2> QED
    BY <1>1, <1>2, <2>1, <2>2, <2>3 DEF TypeOK
<1>6. \A n \in Nodes : Counted(n) /\ leaked[n] \in Nat
  BY <1>1, RefCountsCounted DEF TypeOK
<1> HIDE DEF x, y
<1>7. ASSUME NEW n \in Nodes PROVE Counted(n)'
  <2> DEFINE h == Cardinality(Held(n))
             d == Cardinality(Deleters(n))
             h1 == Cardinality(Held(n)')
             d1 == Cardinality(Deleters(n)')
  <2>1. h \in Nat /\ d \in Nat /\ leaked[n] \in Nat /\ node[n].count = h + d + leaked[n]
    BY <1>6, FiniteRefs DEF Counted
  <2>2. n # None
    BY ProcessAssumption
  <2>3. h1 = h - (IF x = n THEN 1 ELSE 0)
    <3>1. CASE x = n
      BY <1>4, <2>1, <2>2, <3>1, HeldDrops DEF x
    <3>2. CASE x # n
      <4>1. Held(n)' = Held(n)
        BY <1>4, <2>2, <3>2, HeldSame DEF x
      <4> QED
        BY <2>1, <3>2, <4>1
    <3> QED
      BY <3>1, <3>2
  <2>4. (y # n => Deleters(n)' = Deleters(n)) /\ d1 = d - (IF y = n THEN 1 ELSE 0)
    <3>1. CASE y = n
      BY <1>2, <1>4, <2>1, <2>2, <3>1, DeletersDrop DEF y
    <3>2. CASE y # n
      <4>1. Deleters(n)' = Deleters(n)
        BY <1>2, <1>4, <2>2, <3>2, DeletersSame DEF y
      <4> QED
        BY <2>1, <3>2, <4>1
    <3> QED
      BY <3>1, <3>2
  <2>5. leaked'[n] = leaked[n] + (IF x = n THEN 1 ELSE 0) + (IF y = n THEN 1 ELSE 0)
    BY <1>3 DEF x, y
  <2>6. Held(n)' \subseteq Held(n) /\ r \notin Held(n)'
    BY <1>4, <2>2 DEF Held, OthersHold
  <2>7. Deleters(n)' \subseteq Deleters(n)
    BY <1>4, <2>2 DEF Deleters, OthersDelete
  <2> HIDE DEF h, d, h1, d1
  <2>8. node[n].count = h1 + d1 + leaked'[n]
    BY <2>1, <2>3, <2>4, <2>5
  <2>9. leaked'[n] = 0 => leaked[n] = 0 /\ y # n
    BY <2>1, <2>5
  <2>10. node'[n] = node[n]
    BY <1>2
  <2>11. node'[n].count = Cardinality(Held(n)') + Cardinality(Deleters(n)') + leaked'[n]
    BY <2>8, <2>10 DEF h1, d1
  <2>12. \A q \in Held(n)' : node'[n].key = c'[q].key
    <3> TAKE q \in Held(n)'
    <3>1. q \in Held(n) /\ q # r /\ q \in Requests
      BY <2>6 DEF Held
    <3>2. c'[q] = c[q]
      BY <1>1, <1>2, <3>1 DEF TypeOK
    <3> QED
      BY <1>6, <2>10, <3>1, <3>2 DEF Counted
  <2>13. Deleters(n)' # {} => node'[n].key # None /\ node'[n].deleting
    BY <1>6, <2>7, <2>10 DEF Counted
  <2>14. node'[n].deleting /\ leaked'[n] = 0 => Cardinality(Deleters(n)') = 1
    BY <1>6, <2>4, <2>9, <2>10 DEF Counted
  <2> QED
    BY <2>11, <2>12, <2>13, <2>14 DEF Counted
<1>8. RefCounts'
  BY <1>7, RefCountsCountedPrime
<1>9. PlacesOK'
  <2>1. ASSUME NEW q \in Requests
        PROVE  /\ pc'[q] \in Holding => c'[q].node \in Nodes
               /\ pc'[q] \notin Holding \union {"exists"} => c'[q].node = None
               /\ pc'[q] # "idle" => c'[q].key \in Keys
    <3>1. CASE q = r
      BY <1>4, <3>1 DEF Holding
    <3>2. CASE q # r
      <4>1. pc'[q] = pc[q] /\ c'[q] = c[q]
        BY <1>1, <1>2, <3>2 DEF TypeOK, Procs
      <4> QED
        BY <1>1, <4>1 DEF PlacesOK
    <3> QED
      BY <3>1, <3>2
  <2>2. \A p \in Procs : pc'[p] \in Deleting <=> del'[p] # None
    <3> TAKE p \in Procs
    <3>1. CASE p = r
      BY <1>4, <3>1 DEF Deleting
    <3>2. CASE p # r
      <4>1. pc'[p] = pc[p] /\ del'[p] = del[p]
        BY <1>1, <1>2, <3>2 DEF TypeOK
      <4> QED
        BY <1>1, <4>1 DEF PlacesOK
    <3> QED
      BY <3>1, <3>2
  <2>3. \A p, q \in Procs : del'[p] = del'[q] /\ del'[p] # None => p = q
    BY <1>1, <1>4 DEF OthersDelete, PlacesOK
  <2>4. /\ \A n \in Nodes : node'[n].key = None => node'[n] = FreeNode
        /\ load'.at = "add" => load'.key \in Keys
    BY <1>1, <1>2 DEF PlacesOK
  <2> QED
    BY <2>1, <2>2, <2>3, <2>4 DEF PlacesOK
<1>10. QueueMatchesTree'
  BY <1>1, <1>2, QueueSame
<1>11. UpdatingHasOwner'
  <2> SUFFICES ASSUME NEW n \in Nodes, node'[n].updating, leaked'[n] = 0
               PROVE  \E q \in Held(n)' : Updates(q)'
    BY DEF UpdatingHasOwner
  <2>1. leaked[n] = 0 /\ x # n
    <3>1. leaked[n] \in Nat
      BY <1>6
    <3>2. leaked'[n] = leaked[n] + (IF x = n THEN 1 ELSE 0) + (IF y = n THEN 1 ELSE 0)
      BY <1>3 DEF x, y
    <3> QED
      BY <3>1, <3>2
  <2>2. node[n].updating
    BY <1>2
  <2>3. PICK q \in Held(n) : Updates(q)
    BY <1>1, <2>1, <2>2 DEF UpdatingHasOwner
  <2>4. q # r /\ q \in Requests /\ q \in Procs
    BY <2>1, <2>3 DEF x, Held, Procs
  <2>5. pc'[q] = pc[q] /\ c'[q] = c[q]
    BY <1>1, <1>2, <2>4 DEF TypeOK
  <2>6. q \in Held(n)' /\ Updates(q)'
    BY <2>3, <2>5 DEF Held, Updates
  <2> QED
    BY <2>6
<1> QED
  BY <1>5, <1>8, <1>9, <1>10, <1>11 DEF IndInv

-----------------------------------------------------------------------------
(* The steps of a request *)

\* A process is at one of its places after a step.
LEMMA GotoType ==
    ASSUME TypeOK, NEW p \in Procs, NEW to, Goto(p, to),
           p = Manager => to \in ManagerPcs, p # Manager => to \in RequestPcs
    PROVE  /\ pc' \in [Procs -> RequestPcs \union ManagerPcs]
           /\ pc'[Manager] \in ManagerPcs /\ \A r \in Requests : pc'[r] \in RequestPcs
           /\ pc'[p] = to /\ \A q \in Procs : q # p => pc'[q] = pc[q]
BY ProcessAssumption DEF TypeOK, Goto, Procs

\* What the invariant says of one request.
LEMMA RequestFacts ==
    ASSUME IndInv, NEW r \in Requests
    PROVE  /\ TypeOK /\ PlacesOK /\ RefCounts /\ QueueMatchesTree /\ UpdatingHasOwner
           /\ r \in Procs /\ r # Manager /\ c[r] \in CacheRecords /\ pc[r] \in RequestPcs
           /\ pc[r] \in Holding => c[r].node \in Nodes /\ c[r].node # None
           /\ pc[r] # "idle" => c[r].key \in Keys
           /\ pc[r] \in Holding \union {"idle", "exists", "forced", "alloc"} => pc[r] \notin Deleting
<1>1. TypeOK /\ PlacesOK /\ RefCounts /\ QueueMatchesTree /\ UpdatingHasOwner
  BY DEF IndInv
<1>2. r \in Procs /\ r # Manager /\ c[r] \in CacheRecords /\ pc[r] \in RequestPcs
  BY <1>1, ProcessAssumption DEF Procs, TypeOK
<1>3. /\ pc[r] \in Holding => c[r].node \in Nodes /\ c[r].node # None
      /\ pc[r] # "idle" => c[r].key \in Keys
  BY <1>1, ProcessAssumption DEF PlacesOK
<1>4. pc[r] \in Holding \union {"idle", "exists", "forced", "alloc"} => pc[r] \notin Deleting
  BY DEF Holding, Deleting
<1> QED
  BY <1>1, <1>2, <1>3, <1>4

\* A step in which only the request and the disk may change.
LEMMA LightInv ==
    ASSUME IndInv, NEW r \in Requests, NEW to \in RequestPcs, Goto(r, to),
           pc[r] \notin Deleting, to \notin Deleting,
           UNCHANGED <<shared, others, del>>, file' \in [Keys -> Files],
           NEW x \in CacheRecords, c' = [c EXCEPT ![r] = x], x.node = c[r].node,
           c[r].node # None => x.key = c[r].key,
           to \in Holding => c[r].node \in Nodes,
           to \notin Holding \union {"exists"} => c[r].node = None,
           to # "idle" => x.key \in Keys,
           c[r].node # None /\ Updates(r) => x.updating \/ to = "update"
    PROVE  IndInv'
<1>1. TypeOK /\ QueueMatchesTree /\ r \in Procs /\ r # Manager
  BY RequestFacts
<1>2. UNCHANGED <<node, queue, inactive, size, cold, mutex, load, leaked, del>>
  BY DEF shared, others
<1>3. /\ pc' \in [Procs -> RequestPcs \union ManagerPcs]
      /\ pc'[Manager] \in ManagerPcs /\ \A q \in Requests : pc'[q] \in RequestPcs
      /\ pc'[r] = to /\ \A q \in Procs : q # r => pc'[q] = pc[q]
  BY <1>1, GotoType
<1>4. /\ c' \in [Requests -> CacheRecords] /\ c'[r] = x
      /\ \A q \in Requests : q # r => c'[q] = c[q]
  BY <1>1 DEF TypeOK
<1>5. TypeOK'
  BY <1>1, <1>2, <1>3, <1>4 DEF TypeOK
<1>6. QueueMatchesTree'
  BY <1>1, <1>2, QueueSame
<1>7. c[r].node # None /\ node'[c[r].node].updating =>
          Updates(r)' \/ (node[c[r].node].updating /\ ~Updates(r))
  BY <1>2, <1>3, <1>4 DEF Updates
<1>8. Moves(r)
  <2>1. \A n \in Nodes : node'[n] = node[n]
    BY <1>2
  <2>2. c[r].node # None => SameRefs(c[r].node)
    BY <1>2 DEF SameRefs
  <2> QED
    BY <1>2, <1>3, <1>4, <1>7, <2>1, <2>2 DEF Moves
<1> QED
  BY <1>5, <1>6, <1>8, MovesInv

\* A request starts: ngx_http_file_cache_new and ngx_http_file_cache_create.
LEMMA StartInv ==
    ASSUME IndInv, NEW r \in Requests, Start(r)
    PROVE  IndInv'
<1>1. PICK k \in Keys, bypass \in {FALSE, Bypass} :
          c' = [c EXCEPT ![r] = [NoCache EXCEPT !.key = k, !.bypass = bypass,
                                    !.lock = Lock, !.cacheable = TRUE]]
  BY DEF Start
<1> DEFINE x == [NoCache EXCEPT !.key = k, !.bypass = bypass, !.lock = Lock, !.cacheable = TRUE]
<1>2. x \in CacheRecords /\ x.node = None /\ x.key = k
  BY SettingAssumption, InitialRecords DEF NoCache, CacheRecords
<1> HIDE DEF x
<1>3. c' = [c EXCEPT ![r] = x]
  BY <1>1 DEF x
<1>4. pc[r] = "idle" /\ Goto(r, "exists") /\ UNCHANGED <<shared, others, file, del>>
  BY DEF Start
<1>5. c[r].node = None
  BY <1>4, RequestFacts DEF PlacesOK, Holding
<1>6. "exists" \in RequestPcs /\ "exists" \notin Deleting /\ "exists" \notin Holding
  BY DEF RequestPcs, Deleting, Holding
<1>7. file' \in [Keys -> Files] /\ pc[r] \notin Deleting
  BY <1>4, RequestFacts DEF TypeOK
<1> QED
  BY <1>2, <1>3, <1>4, <1>5, <1>6, <1>7, LightInv

\* After the lookup: use the file, learn that there is none, or lock (ngx_http_file_cache_open).
LEMMA RouteInv ==
    ASSUME IndInv, NEW r \in Requests, Route(r)
    PROVE  IndInv'
<1>1. /\ pc[r] = "route" /\ UNCHANGED <<shared, others, file, del>>
      /\ "route" \in Holding
  BY DEF Route, Holding
<1>2. TypeOK /\ c[r] \in CacheRecords /\ c[r].node \in Nodes /\ c[r].key \in Keys
        /\ pc[r] \notin Deleting /\ file[c[r].key] \in Files
  <2>1. TypeOK /\ c[r] \in CacheRecords /\ c[r].node \in Nodes /\ c[r].key \in Keys
          /\ pc[r] \notin Deleting
    BY <1>1, RequestFacts
  <2> QED
    BY <2>1 DEF TypeOK
<1> DEFINE x0 == [c[r] EXCEPT !.rc = "none"]
           x1 == [c[r] EXCEPT !.rc = "none", !.cacheable = FALSE]
           x2 == [c[r] EXCEPT !.rc = "none", !.cacheable = TRUE]
           x3 == [c[r] EXCEPT !.rc = "none", !.fd = file[c[r].key]]
<1>3. \A x \in {x0, x1, x2, x3} :
          /\ x \in CacheRecords /\ x.node = c[r].node /\ x.key = c[r].key
          /\ x.updating = c[r].updating
  BY <1>2 DEF CacheRecords
<1> HIDE DEF x0, x1, x2, x3
<1>4. \E to \in {"done", "fetch", "lock", "read"}, x \in {x0, x1, x2, x3} :
          Goto(r, to) /\ c' = [c EXCEPT ![r] = x]
  <2> DEFINE rare == c[r].rc = "declined" /\ MinUses > 1
  <2>1. CASE c' = [c EXCEPT ![r].rc = "none"] /\ Goto(r, "done")
    BY <2>1 DEF x0
  <2>2. CASE c' = [c EXCEPT ![r].rc = "none", ![r].cacheable = FALSE] /\ Goto(r, "fetch")
    BY <2>2 DEF x1
  <2>3. CASE /\ c' = [c EXCEPT ![r].rc = "none", ![r].cacheable = ~rare]
             /\ Goto(r, IF rare THEN "fetch" ELSE "lock")
    <3>1. CASE rare
      <4>1. c' = [c EXCEPT ![r].rc = "none", ![r].cacheable = FALSE] /\ Goto(r, "fetch")
        BY <2>3, <3>1
      <4> QED
        BY <4>1 DEF x1
    <3>2. CASE ~rare
      <4>1. c' = [c EXCEPT ![r].rc = "none", ![r].cacheable = TRUE] /\ Goto(r, "lock")
        BY <2>3, <3>2
      <4> QED
        BY <4>1 DEF x2
    <3> QED
      BY <3>1, <3>2
  <2>4. CASE c' = [c EXCEPT ![r].rc = "none", ![r].fd = file[c[r].key]] /\ Goto(r, "read")
    BY <2>4 DEF x3
  <2> QED
    BY <2>1, <2>2, <2>3, <2>4 DEF Route
<1>5. PICK to \in {"done", "fetch", "lock", "read"}, x \in {x0, x1, x2, x3} :
          Goto(r, to) /\ c' = [c EXCEPT ![r] = x]
  BY <1>4
<1>6. to \in RequestPcs /\ to \notin Deleting /\ to \in Holding /\ to # "idle"
  BY DEF RequestPcs, Deleting, Holding
<1>7. Updates(r) => x.updating
  BY <1>1, <1>3 DEF Updates
<1>8. file' \in [Keys -> Files]
  BY <1>1, <1>2 DEF TypeOK
<1> QED
  BY <1>1, <1>2, <1>3, <1>5, <1>6, <1>7, <1>8, LightInv

\* A step of a request that has its node, to a place where it still has it.
LEMMA LightHeldInv ==
    ASSUME IndInv, NEW r \in Requests, pc[r] \in Holding,
           NEW to \in Holding \union {"exists"}, Goto(r, to),
           UNCHANGED <<shared, others, del>>, file' \in [Keys -> Files],
           NEW x \in CacheRecords, c' = [c EXCEPT ![r] = x],
           x.node = c[r].node, x.key = c[r].key,
           Updates(r) => x.updating \/ to = "update"
    PROVE  IndInv'
<1>1. to \in RequestPcs /\ to \notin Deleting /\ to # "idle" /\ pc[r] # "idle"
  BY DEF RequestPcs, Deleting, Holding
<1>2. c[r].node \in Nodes /\ c[r].key \in Keys /\ pc[r] \notin Deleting
  BY <1>1, RequestFacts
<1> QED
  BY <1>1, <1>2, LightInv

\* The file is opened and read: ngx_http_file_cache_read.
LEMMA ReadInv ==
    ASSUME IndInv, NEW r \in Requests, Read(r)
    PROVE  IndInv'
<1>1. pc[r] = "read" /\ UNCHANGED <<shared, others, file, del>> /\ pc[r] \in Holding
  BY DEF Read, Holding
<1>2. TypeOK /\ c[r] \in CacheRecords
  BY RequestFacts
<1> DEFINE x0 == [c[r] EXCEPT !.fd = NoFile]
           x1 == c[r]
<1>3. \A x \in {x0, x1} :
          /\ x \in CacheRecords /\ x.node = c[r].node /\ x.key = c[r].key
          /\ x.updating = c[r].updating
  BY <1>2, InitialRecords DEF CacheRecords
<1> HIDE DEF x0, x1
<1>4. \E to \in {"done", "fetch", "learn", "hit", "stale"}, x \in {x0, x1} :
          Goto(r, to) /\ c' = [c EXCEPT ![r] = x]
  <2>1. AfterRead(r) \in {"hit", "stale"}
    BY DEF AfterRead
  <2>2. CASE c' = [c EXCEPT ![r].fd = NoFile]
    <3>1. \E to \in {"done", "fetch", "learn", "hit", "stale"} : Goto(r, to)
      BY <2>1 DEF Read
    <3> QED
      BY <2>2, <3>1 DEF x0
  <2>3. CASE c' = c /\ Goto(r, "learn")
    <3>1. c' = [c EXCEPT ![r] = c[r]]
      BY <1>2, <2>3 DEF TypeOK
    <3> QED
      BY <2>3, <3>1 DEF x1
  <2> QED
    BY <2>2, <2>3 DEF Read
<1>5. PICK to \in {"done", "fetch", "learn", "hit", "stale"}, x \in {x0, x1} :
          Goto(r, to) /\ c' = [c EXCEPT ![r] = x]
  BY <1>4
<1>6. to \in Holding \union {"exists"}
  BY DEF Holding
<1>7. Updates(r) => x.updating
  BY <1>1, <1>3 DEF Updates
<1>8. file' \in [Keys -> Files]
  BY <1>1, <1>2 DEF TypeOK
<1> QED
  BY <1>1, <1>3, <1>5, <1>6, <1>7, <1>8, LightHeldInv

\* A request waits for the one that updates: ngx_http_file_cache_lock_wait_handler.
LEMMA WaitInv ==
    ASSUME IndInv, NEW r \in Requests, WaitOver(r) \/ WaitTimeout(r)
    PROVE  IndInv'
<1>1. /\ pc[r] = "waiting" /\ UNCHANGED <<shared, others, file, del>> /\ pc[r] \in Holding
      /\ Goto(r, "exists")
  BY DEF WaitOver, WaitTimeout, Holding
<1>2. TypeOK /\ c[r] \in CacheRecords
  BY RequestFacts
<1> DEFINE x0 == [c[r] EXCEPT !.lock = FALSE]
           x1 == c[r]
<1>3. \A x \in {x0, x1} :
          /\ x \in CacheRecords /\ x.node = c[r].node /\ x.key = c[r].key
          /\ x.updating = c[r].updating
  BY <1>2 DEF CacheRecords
<1> HIDE DEF x0, x1
<1>4. \E x \in {x0, x1} : c' = [c EXCEPT ![r] = x]
  <2>1. CASE c' = [c EXCEPT ![r].lock = FALSE]
    BY <2>1 DEF x0
  <2>2. CASE c' = c
    <3>1. c' = [c EXCEPT ![r] = c[r]]
      BY <1>2, <2>2 DEF TypeOK
    <3> QED
      BY <3>1 DEF x1
  <2> QED
    BY <2>1, <2>2 DEF WaitOver, WaitTimeout
<1>5. PICK x \in {x0, x1} : c' = [c EXCEPT ![r] = x]
  BY <1>4
<1>6. Updates(r) => x.updating
  BY <1>1, <1>3 DEF Updates
<1>7. file' \in [Keys -> Files]
  BY <1>1, <1>2 DEF TypeOK
<1> QED
  BY <1>1, <1>3, <1>5, <1>6, <1>7, LightHeldInv

\* The steps of the upstream between the cache calls that touch nothing of the zone.
LEMMA DetourInv ==
    ASSUME IndInv, NEW r \in Requests, Detour(r)
    PROVE  IndInv'
<1>1. /\ pc[r] \in {"hit", "fetch"} /\ UNCHANGED <<shared, others, file, c, del>>
  BY DEF Detour
<1>2. PICK to \in {"hit", "fetch"} : Goto(r, to)
  BY DEF Detour
<1>3. pc[r] \in Holding /\ to \in Holding \union {"exists"}
  BY <1>1 DEF Holding
<1>4. TypeOK /\ c[r] \in CacheRecords
  BY RequestFacts
<1>5. c' = [c EXCEPT ![r] = c[r]] /\ file' \in [Keys -> Files]
  BY <1>1, <1>4 DEF TypeOK
<1>6. Updates(r) => c[r].updating
  BY <1>1 DEF Updates
<1> QED
  BY <1>1, <1>2, <1>3, <1>4, <1>5, <1>6, LightHeldInv

\* The temporary file becomes the file: ngx_ext_rename_file in ngx_http_file_cache_update.
LEMMA RenameInv ==
    ASSUME IndInv, NEW r \in Requests, Rename(r)
    PROVE  IndInv'
<1>1. /\ pc[r] = "fetch" /\ Goto(r, "update") /\ UNCHANGED <<shared, others, del>>
      /\ pc[r] \in Holding /\ "update" \in Holding
  BY DEF Rename, Holding
<1>2. TypeOK /\ c[r] \in CacheRecords /\ c[r].key \in Keys
  BY <1>1, RequestFacts
<1>3. file' \in [Keys -> Files]
  <2>1. [file EXCEPT ![c[r].key] = NewFile] \in [Keys -> Files] /\ file \in [Keys -> Files]
    BY <1>2, InitialRecords DEF TypeOK
  <2> QED
    BY <2>1 DEF Rename
<1> DEFINE x0 == [c[r] EXCEPT !.fd = NewFile, !.updating = FALSE]
           x1 == [c[r] EXCEPT !.fd = NoFile, !.updating = FALSE]
<1>4. \A x \in {x0, x1} : x \in CacheRecords /\ x.node = c[r].node /\ x.key = c[r].key
  BY <1>2, InitialRecords DEF CacheRecords
<1> HIDE DEF x0, x1
<1>5. PICK x \in {x0, x1} : c' = [c EXCEPT ![r] = x]
  BY DEF Rename, x0, x1
<1> QED
  BY <1>1, <1>2, <1>3, <1>4, <1>5, LightHeldInv

\* A step of a request that changes flags or the size of its node.
LEMMA MarkInv ==
    ASSUME IndInv, NEW r \in Requests, pc[r] \in Holding, NEW to \in Holding, Goto(r, to),
           NEW n, c[r].node = n, NEW y \in NodeRecords, node' = [node EXCEPT ![n] = y],
           y.key = node[n].key, y.count = node[n].count, y.deleting = node[n].deleting,
           size' \in Int, UNCHANGED <<queue, inactive, others, file, del>>,
           NEW x \in CacheRecords, c' = [c EXCEPT ![r] = x], x.node = n, x.key = c[r].key,
           y.updating => (x.updating \/ to = "update") \/ (node[n].updating /\ ~Updates(r))
    PROVE  IndInv'
<1>1. /\ TypeOK /\ QueueMatchesTree /\ r \in Procs /\ r # Manager
      /\ n \in Nodes /\ n # None /\ c[r].key \in Keys
  BY RequestFacts DEF Holding
<1>2. UNCHANGED <<cold, mutex, load, leaked, del>>
  BY DEF others
<1>3. to \in RequestPcs /\ to \notin Deleting /\ to # "idle" /\ pc[r] \notin Deleting
  BY DEF RequestPcs, Deleting, Holding
<1>4. /\ pc' \in [Procs -> RequestPcs \union ManagerPcs]
      /\ pc'[Manager] \in ManagerPcs /\ \A q \in Requests : pc'[q] \in RequestPcs
      /\ pc'[r] = to /\ \A q \in Procs : q # r => pc'[q] = pc[q]
  BY <1>1, <1>3, GotoType
<1>5. /\ c' \in [Requests -> CacheRecords] /\ c'[r] = x
      /\ \A q \in Requests : q # r => c'[q] = c[q]
  BY <1>1 DEF TypeOK
<1>6. /\ node' \in [Nodes -> NodeRecords] /\ node'[n] = y
      /\ \A m \in Nodes : m # n => node'[m] = node[m]
  BY <1>1 DEF TypeOK
<1>7. TypeOK'
  BY <1>1, <1>2, <1>4, <1>5, <1>6 DEF TypeOK
<1>8. SameRefs(n) /\ \A m \in Nodes : node'[m].key = node[m].key
  BY <1>6 DEF SameRefs
<1>9. QueueMatchesTree'
  BY <1>1, <1>8, QueueSame
<1>10. node'[c[r].node].updating => Updates(r)' \/ (node[c[r].node].updating /\ ~Updates(r))
  BY <1>4, <1>5, <1>6 DEF Updates
<1>11. Moves(r)
  BY <1>1, <1>2, <1>3, <1>4, <1>5, <1>6, <1>8, <1>10 DEF Moves
<1> QED
  BY <1>7, <1>9, <1>11, MovesInv

\* A request learns from the node that there is a file, or how big it is.
LEMMA LearnInv ==
    ASSUME IndInv, NEW r \in Requests, Learn(r)
    PROVE  IndInv'
<1> DEFINE n == c[r].node
           x == [c[r] EXCEPT !.fd = NoFile]
           y == [node[n] EXCEPT !.uses = 1, !.exists = TRUE, !.size = c[r].fd.size]
<1>1. /\ pc[r] = "learn" /\ Goto(r, AfterRead(r)) /\ UNCHANGED <<queue, inactive, others, file, del>>
      /\ c' = [c EXCEPT ![r] = x]
  BY DEF Learn
<1>2. pc[r] \in Holding /\ AfterRead(r) \in Holding
  BY <1>1 DEF Holding, AfterRead
<1>3. /\ TypeOK /\ c[r] \in CacheRecords /\ n \in Nodes /\ c[r].fd \in Files
  BY <1>2, RequestFacts DEF CacheRecords
<1>4. node[n] \in NodeRecords /\ c[r].fd.size \in {0, 1} /\ size \in Int
  BY <1>3, InitialRecords DEF TypeOK
<1>5. x \in CacheRecords /\ x.node = c[r].node /\ x.key = c[r].key /\ x.updating = c[r].updating
  BY <1>3, InitialRecords DEF CacheRecords
<1>6. y \in NodeRecords
  <2>1. 1 \in 0..(UsesMod - 1)
    BY SettingAssumption
  <2> QED
    BY <1>4, <2>1 DEF NodeRecords
<1>7. /\ y.key = node[n].key /\ y.count = node[n].count /\ y.deleting = node[n].deleting
      /\ y.updating = node[n].updating
  BY <1>4 DEF NodeRecords
<1>8. \/ node' = [node EXCEPT ![n] = y] /\ size' = size + c[r].fd.size
      \/ node' = [node EXCEPT ![n] = node[n]] /\ size' = size
  <2>1. CASE node[n].exists
    BY <1>3, <2>1 DEF Learn, TypeOK
  <2>2. CASE ~node[n].exists
    BY <2>2 DEF Learn
  <2> QED
    BY <2>1, <2>2
<1>9. size' \in Int
  BY <1>4, <1>8
<1>10. Updates(r) => x.updating
  BY <1>1, <1>5 DEF Updates
<1> DEFINE z == node[n]
<1>11. /\ z \in NodeRecords /\ z.key = node[n].key /\ z.count = node[n].count
       /\ z.deleting = node[n].deleting /\ z.updating = node[n].updating
  BY <1>4
<1>12. \E w \in {y, z} : node' = [node EXCEPT ![n] = w]
  BY <1>8
<1> HIDE DEF x, y, z
<1>13. PICK w \in {y, z} : node' = [node EXCEPT ![n] = w]
  BY <1>12
<1>14. /\ w \in NodeRecords /\ w.key = node[n].key /\ w.count = node[n].count
       /\ w.deleting = node[n].deleting /\ w.updating = node[n].updating
  BY <1>6, <1>7, <1>11
<1> QED
  BY <1>1, <1>2, <1>5, <1>9, <1>10, <1>13, <1>14, MarkInv

\* ngx_http_file_cache_lock and the stale answers: the flag updating is taken or respected.
LEMMA LockStepInv ==
    ASSUME IndInv, NEW r \in Requests, ReadStale(r) \/ TakeLock(r)
    PROVE  IndInv'
<1> DEFINE n == c[r].node
           y == [node[n] EXCEPT !.updating = TRUE]
           x0 == [c[r] EXCEPT !.updating = TRUE]
           x1 == [c[r] EXCEPT !.updating = TRUE, !.expired = TRUE]
           x2 == [c[r] EXCEPT !.expired = ~UseStale]
           x3 == c[r]
<1>1. pc[r] \in {"stale", "lock"} /\ UNCHANGED <<queue, inactive, size, drifted, others, file, del>>
  BY DEF ReadStale, TakeLock
<1>2. pc[r] \in Holding /\ "fetch" \in Holding /\ "hit" \in Holding /\ "waiting" \in Holding
        /\ pc[r] # "update"
  BY <1>1 DEF Holding
<1>3. /\ TypeOK /\ c[r] \in CacheRecords /\ n \in Nodes
  BY <1>2, RequestFacts
<1>4. node[n] \in NodeRecords /\ size' \in Int
  BY <1>1, <1>3 DEF TypeOK
<1>5. /\ y \in NodeRecords /\ y.key = node[n].key /\ y.count = node[n].count
      /\ y.deleting = node[n].deleting
  BY <1>4 DEF NodeRecords
<1>6. \A x \in {x0, x1, x2, x3} : x \in CacheRecords /\ x.node = n /\ x.key = c[r].key
  <2>1. TRUE \in BOOLEAN /\ (~UseStale) \in BOOLEAN
    BY SettingAssumption
  <2>2. x0 \in CacheRecords /\ x0.node = n /\ x0.key = c[r].key
    BY <1>3, <2>1 DEF CacheRecords
  <2>3. x1 \in CacheRecords /\ x1.node = n /\ x1.key = c[r].key
    BY <1>3, <2>1 DEF CacheRecords
  <2>4. x2 \in CacheRecords /\ x2.node = n /\ x2.key = c[r].key
    BY <1>3, <2>1 DEF CacheRecords
  <2> QED
    BY <1>3, <2>2, <2>3, <2>4
<1>7. x0.updating /\ x1.updating /\ x2.updating = c[r].updating /\ x3.updating = c[r].updating
  BY <1>3 DEF CacheRecords
<1>8. Updates(r) => c[r].updating
  BY <1>2 DEF Updates
<1>9. \E to \in {"fetch", "hit", "waiting"} : Goto(r, to) /\
         \/ node' = [node EXCEPT ![n] = y]
            /\ \E x \in {x0, x1} : c' = [c EXCEPT ![r] = x]
         \/ node' = node /\ \E x \in {x2, x3} : c' = [c EXCEPT ![r] = x]
  <2>1. CASE ReadStale(r) /\ node[n].updating
    <3>1. node' = node /\ c' = [c EXCEPT ![r] = x2]
            /\ Goto(r, IF UseStale THEN "hit" ELSE "fetch")
      BY <2>1 DEF ReadStale
    <3>2. (IF UseStale THEN "hit" ELSE "fetch") \in {"fetch", "hit", "waiting"}
      OBVIOUS
    <3> HIDE DEF x0, x1, x2, x3, y
    <3> QED
      BY <3>1, <3>2
  <2>2. CASE ReadStale(r) /\ ~node[n].updating
    <3>1. node' = [node EXCEPT ![n] = y] /\ c' = [c EXCEPT ![r] = x1] /\ Goto(r, "fetch")
      BY <2>2 DEF ReadStale, LockedNode
    <3> HIDE DEF x0, x1, x2, x3, y
    <3> QED
      BY <3>1
  <2>3. CASE TakeLock(r)
    <3>1. \/ /\ node' = node /\ c' = c /\ (Goto(r, "fetch") \/ Goto(r, "waiting"))
          \/ node' = [node EXCEPT ![n] = y] /\ c' = [c EXCEPT ![r] = x0] /\ Goto(r, "fetch")
      BY <2>3 DEF TakeLock, LockedNode
    <3>2. c' = c => c' = [c EXCEPT ![r] = x3]
      BY <1>3 DEF TypeOK
    <3> HIDE DEF x0, x1, x2, x3, y
    <3> QED
      BY <3>1, <3>2
  <2> QED
    BY <2>1, <2>2, <2>3
<1> HIDE DEF x0, x1, x2, x3, y
<1>10. PICK to \in {"fetch", "hit", "waiting"} : Goto(r, to) /\
         \/ node' = [node EXCEPT ![n] = y]
            /\ \E x \in {x0, x1} : c' = [c EXCEPT ![r] = x]
         \/ node' = node /\ \E x \in {x2, x3} : c' = [c EXCEPT ![r] = x]
  BY <1>9
<1>11. to \in Holding
  BY <1>2
<1>12. CASE node' = [node EXCEPT ![n] = y] /\ \E x \in {x0, x1} : c' = [c EXCEPT ![r] = x]
  <2>1. PICK x \in {x0, x1} : c' = [c EXCEPT ![r] = x]
    BY <1>12
  <2>2. x \in CacheRecords /\ x.node = n /\ x.key = c[r].key /\ x.updating
    BY <1>6, <1>7
  <2> QED
    BY <1>1, <1>2, <1>4, <1>5, <1>10, <1>11, <1>12, <2>1, <2>2, MarkInv
<1>13. CASE node' = node /\ \E x \in {x2, x3} : c' = [c EXCEPT ![r] = x]
  <2>1. PICK x \in {x2, x3} : c' = [c EXCEPT ![r] = x]
    BY <1>13
  <2>2. x \in CacheRecords /\ x.node = n /\ x.key = c[r].key /\ (Updates(r) => x.updating)
    BY <1>6, <1>7, <1>8
  <2>3. node' = [node EXCEPT ![n] = node[n]]
    BY <1>3, <1>13 DEF TypeOK
  <2> QED
    BY <1>1, <1>2, <1>4, <1>10, <1>11, <2>1, <2>2, <2>3, MarkInv
<1> QED
  BY <1>10, <1>12, <1>13
-----------------------------------------------------------------------------
(* The steps that take a node, or look at it again *)

\* A request at its lookup that has a node already leaves the references alone.
LEMMA AgainInv ==
    ASSUME IndInv, NEW r \in Requests, pc[r] = "exists",
           NEW to \in {"fetch", "route"}, Goto(r, to),
           NEW n \in Nodes, c[r].node = n, NEW y \in NodeRecords,
           node' = [node EXCEPT ![n] = y], Touch(n),
           y.key = node[n].key, y.count = node[n].count, y.deleting = node[n].deleting,
           y.updating = node[n].updating, UNCHANGED <<size, others, file, del>>,
           NEW x \in CacheRecords, c' = [c EXCEPT ![r] = x], x.node = n, x.key = c[r].key,
           x.updating = c[r].updating
    PROVE  IndInv'
<1>1. /\ TypeOK /\ QueueMatchesTree /\ r \in Procs /\ r # Manager /\ RefCounts
      /\ n # None /\ c[r].key \in Keys /\ c[r].key # None
  BY RequestFacts, ProcessAssumption
<1>2. UNCHANGED <<cold, mutex, load, leaked, del>>
  BY DEF others
<1>3. to \in RequestPcs /\ to \notin Deleting /\ to # "idle" /\ pc[r] \notin Deleting
      /\ to \in Holding
  BY DEF RequestPcs, Deleting, Holding
<1>4. /\ pc' \in [Procs -> RequestPcs \union ManagerPcs]
      /\ pc'[Manager] \in ManagerPcs /\ \A q \in Requests : pc'[q] \in RequestPcs
      /\ pc'[r] = to /\ \A q \in Procs : q # r => pc'[q] = pc[q]
  BY <1>1, <1>3, GotoType
<1>5. /\ c' \in [Requests -> CacheRecords] /\ c'[r] = x
      /\ \A q \in Requests : q # r => c'[q] = c[q]
  BY <1>1 DEF TypeOK
<1>6. /\ node' \in [Nodes -> NodeRecords] /\ node'[n] = y
      /\ \A m \in Nodes : m # n => node'[m] = node[m]
  BY <1>1 DEF TypeOK
<1>7. SameRefs(n) /\ \A m \in Nodes : node'[m].key = node[m].key
  BY <1>6 DEF SameRefs
<1>8. n \in Allocated
  <2>1. r \in Held(n)
    BY DEF Held
  <2> QED
    BY <1>1, <2>1 DEF RefCounts, Allocated
<1>9. queue' \in Seq(Nodes) /\ inactive' \subseteq Nodes /\ QueueMatchesTree'
  BY <1>1, <1>7, <1>8, TouchSame
<1>10. TypeOK'
  BY <1>1, <1>2, <1>4, <1>5, <1>6, <1>9 DEF TypeOK
<1>11. node'[c[r].node].updating => Updates(r)' \/ (node[c[r].node].updating /\ ~Updates(r))
  BY <1>4, <1>5, <1>6 DEF Updates
<1>12. Moves(r)
  BY <1>1, <1>2, <1>3, <1>4, <1>5, <1>6, <1>7, <1>11 DEF Moves
<1> QED
  BY <1>9, <1>10, <1>12, MovesInv

\* A request that has none takes a node of its key, or one that was free.
LEMMA TakeInv ==
    ASSUME IndInv, NEW r \in Requests, pc[r] \in {"exists", "alloc"}, c[r].node = None,
           NEW to \in {"fetch", "route"}, Goto(r, to),
           NEW n \in Nodes, NEW y \in NodeRecords,
           node' = [node EXCEPT ![n] = y], Touch(n), y.key = c[r].key,
           \/ /\ node[n].key = y.key /\ y.count = node[n].count + 1
              /\ y.deleting = node[n].deleting /\ y.updating = node[n].updating
           \/ node[n].key = None /\ y.count = 1 /\ ~y.deleting /\ ~y.updating,
           UNCHANGED <<size, others, file, del>>,
           NEW x \in CacheRecords, c' = [c EXCEPT ![r] = x], x.node = n, x.key = c[r].key
    PROVE  IndInv'
<1>1. /\ TypeOK /\ QueueMatchesTree /\ r \in Procs /\ r # Manager /\ RefCounts
      /\ c[r].key \in Keys /\ c[r].key # None
  BY RequestFacts, ProcessAssumption
<1>2. UNCHANGED <<cold, mutex, load, leaked, del>>
  BY DEF others
<1>3. to \in RequestPcs /\ to \notin Deleting /\ to # "idle" /\ pc[r] \notin Deleting
      /\ to \in Holding
  BY DEF RequestPcs, Deleting, Holding
<1>4. /\ pc' \in [Procs -> RequestPcs \union ManagerPcs]
      /\ pc'[Manager] \in ManagerPcs /\ \A q \in Requests : pc'[q] \in RequestPcs
      /\ pc'[r] = to /\ \A q \in Procs : q # r => pc'[q] = pc[q]
  BY <1>1, <1>3, GotoType
<1>5. /\ c' \in [Requests -> CacheRecords] /\ c'[r] = x
      /\ \A q \in Requests : q # r => c'[q] = c[q]
  BY <1>1 DEF TypeOK
<1>6. /\ node' \in [Nodes -> NodeRecords] /\ node'[n] = y
      /\ \A m \in Nodes : m # n => node'[m] = node[m]
  BY <1>1 DEF TypeOK
<1>7. Allocated' = Allocated \union {n}
  BY <1>1, <1>6 DEF Allocated
<1>8. queue' \in Seq(Nodes) /\ inactive' \subseteq Nodes /\ QueueMatchesTree'
  <2>1. queue \in Seq(Nodes) /\ inactive \subseteq Nodes
    BY <1>1 DEF TypeOK
  <2> QED
    BY <1>1, <1>7, <2>1, TouchQueue
<1>9. TypeOK'
  BY <1>1, <1>2, <1>4, <1>5, <1>6, <1>8 DEF TypeOK
<1>10. Takes(r, n)
  <2>1. OthersStay(r)
    BY <1>4, <1>5 DEF OthersStay
  <2> QED
    BY <1>1, <1>2, <1>3, <1>4, <1>5, <1>6, <2>1 DEF Takes
<1> QED
  BY <1>8, <1>9, <1>10, TakesInv

\* Where a request goes after the lookup.
LEMMA AfterExistsTo == \A r : AfterExists(r) \in {"fetch", "route"}
BY DEF AfterExists

\* ngx_http_file_cache_exists finds the node of the key.
LEMMA ExistsFoundInv ==
    ASSUME IndInv, NEW r \in Requests, ExistsFound(r)
    PROVE  IndInv'
<1>1. /\ pc[r] = "exists" /\ UNCHANGED <<size, others, file, del>>
      /\ Goto(r, AfterExists(r))
  BY DEF ExistsFound
<1>2. TypeOK /\ c[r] \in CacheRecords /\ r \in Procs
  BY RequestFacts
<1> DEFINE F(n) == Taken(r, n)
           Y(n) == IF F(n).error = "expired"
                     THEN [F(n) EXCEPT !.error = "none", !.exists = FALSE, !.size = 0]
                     ELSE F(n)
           RC(n) == CASE F(n).error = "fresh" -> "error"
                      [] F(n).error = "expired" -> "declined"
                      [] F(n).error = "none" /\ (F(n).exists \/ F(n).uses >= MinUses) -> "ok"
                      [] OTHER -> "again"
           X(n) == [c[r] EXCEPT !.node = n, !.rc = RC(n), !.error = RC(n) = "error",
                                !.exists = RC(n) = "ok" /\ F(n).exists]
<1>3. PICK n \in IF c[r].node # None THEN {c[r].node} ELSE Lookup(c[r].key) :
         /\ node' = [node EXCEPT ![n] = Y(n)] /\ Touch(n)
         /\ c' = [c EXCEPT ![r].node = n, ![r].rc = RC(n), ![r].error = RC(n) = "error",
                           ![r].exists = RC(n) = "ok" /\ F(n).exists]
  BY DEF ExistsFound
<1>4. n \in Nodes
  BY <1>2, <1>3 DEF CacheRecords, Lookup, Allocated
<1>5. node[n] \in NodeRecords
  BY <1>2, <1>4 DEF TypeOK
<1>6. /\ F(n) \in NodeRecords /\ F(n).key = node[n].key /\ F(n).deleting = node[n].deleting
      /\ F(n).updating = node[n].updating
      /\ F(n).count = IF c[r].node = None THEN node[n].count + 1 ELSE node[n].count
  <2> DEFINE f == [node[n] EXCEPT !.uses = (@ + 1) % UsesMod, !.count = @ + 1]
  <2>1. (node[n].uses + 1) % UsesMod \in 0..(UsesMod - 1)
    <3>1. node[n].uses \in Nat /\ UsesMod \in Nat \ {0}
      BY <1>5, SettingAssumption DEF NodeRecords
    <3> QED
      BY <3>1
  <2>2. node[n].count + 1 \in Int
    BY <1>5 DEF NodeRecords
  <2>3. /\ f \in NodeRecords /\ f.key = node[n].key /\ f.deleting = node[n].deleting
        /\ f.updating = node[n].updating /\ f.count = node[n].count + 1
    BY <1>5, <2>1, <2>2 DEF NodeRecords
  <2>4. F(n) = IF c[r].node # None THEN node[n] ELSE f
    BY DEF Taken
  <2> HIDE DEF f, F
  <2> QED
    BY <1>5, <2>3, <2>4
<1> HIDE DEF F
<1>7. /\ Y(n) \in NodeRecords /\ Y(n).key = node[n].key /\ Y(n).deleting = node[n].deleting
      /\ Y(n).updating = node[n].updating
      /\ Y(n).count = IF c[r].node = None THEN node[n].count + 1 ELSE node[n].count
  BY <1>6 DEF NodeRecords
<1>8. /\ RC(n) \in {"none", "ok", "declined", "again", "error"}
      /\ (RC(n) = "error") \in BOOLEAN /\ (RC(n) = "ok" /\ F(n).exists) \in BOOLEAN
  OBVIOUS
<1> HIDE DEF Y, RC
<1>9. /\ X(n) \in CacheRecords /\ X(n).node = n /\ X(n).key = c[r].key
      /\ X(n).updating = c[r].updating
  BY <1>2, <1>4, <1>8 DEF CacheRecords
<1>10. c' = [c EXCEPT ![r] = X(n)]
  BY <1>3
<1> HIDE DEF X
<1>11. PICK x \in CacheRecords : x = X(n)
  BY <1>9
<1>12. PICK y \in NodeRecords : y = Y(n)
  BY <1>7
<1>13. PICK to \in {"fetch", "route"} : to = AfterExists(r)
  BY AfterExistsTo
<1>14. /\ c' = [c EXCEPT ![r] = x] /\ x.node = n /\ x.key = c[r].key
       /\ x.updating = c[r].updating /\ node' = [node EXCEPT ![n] = y] /\ Touch(n)
       /\ Goto(r, to)
  BY <1>1, <1>3, <1>9, <1>10, <1>11, <1>12, <1>13
<1>15. CASE c[r].node # None
  <2>1. /\ c[r].node = n /\ y.key = node[n].key /\ y.count = node[n].count
        /\ y.deleting = node[n].deleting /\ y.updating = node[n].updating
    BY <1>3, <1>7, <1>12, <1>15
  <2> QED
    BY <1>1, <1>4, <1>14, <2>1, AgainInv
<1>16. CASE c[r].node = None
  <2>1. /\ node[n].key = c[r].key /\ y.key = c[r].key /\ y.count = node[n].count + 1
        /\ y.deleting = node[n].deleting /\ y.updating = node[n].updating
    BY <1>3, <1>7, <1>12, <1>16 DEF Lookup
  <2>2. pc[r] \in {"exists", "alloc"}
    BY <1>1
  <2> QED
    BY <1>1, <1>4, <1>14, <1>16, <2>1, <2>2, TakeInv
<1> QED
  BY <1>15, <1>16

\* A node enters the tree and the queue.
LEMMA InsertInv ==
    ASSUME IndInv, NEW r \in Requests, pc[r] \in {"exists", "alloc"}, c[r].node = None,
           NEW n \in Nodes \ Allocated, Insert(r, n), UNCHANGED <<size, others, file, del>>
    PROVE  IndInv'
<1> DEFINE x == [c[r] EXCEPT !.node = n, !.rc = "declined"]
           y == [FreeNode EXCEPT !.key = c[r].key, !.count = 1, !.uses = 1]
<1>1. TypeOK /\ c[r] \in CacheRecords /\ c[r].key \in Keys
  BY RequestFacts
<1>2. x \in CacheRecords /\ x.node = n /\ x.key = c[r].key
  BY <1>1 DEF CacheRecords
<1>3. y \in NodeRecords /\ y.key = c[r].key /\ y.count = 1 /\ ~y.deleting /\ ~y.updating
  <2>1. 1 \in 0..(UsesMod - 1)
    BY SettingAssumption
  <2>2. ~FreeNode.deleting /\ ~FreeNode.updating
    BY DEF FreeNode
  <2>3. FreeNode \in NodeRecords
    BY InitialRecords
  <2>4. /\ y \in NodeRecords /\ y.key = c[r].key /\ y.count = 1
        /\ y.deleting = FreeNode.deleting /\ y.updating = FreeNode.updating
    <3> HIDE DEF FreeNode
    <3>1. c[r].key \in Keys \union {None} /\ 1 \in Int
      BY <1>1
    <3> QED
      BY <2>1, <2>3, <3>1 DEF NodeRecords
  <2> QED
    BY <2>2, <2>4
<1>4. /\ c' = [c EXCEPT ![r] = x] /\ node' = [node EXCEPT ![n] = y] /\ Touch(n)
      /\ Goto(r, AfterExists(r)) /\ node[n].key = None
  BY DEF Insert, Allocated
<1> HIDE DEF x, y
<1>5. PICK to \in {"fetch", "route"} : Goto(r, to)
  BY <1>4, AfterExistsTo
<1> QED
  BY <1>2, <1>3, <1>4, <1>5, TakeInv

\* ngx_http_file_cache_exists allocates a node.
LEMMA ExistsNewInv ==
    ASSUME IndInv, NEW r \in Requests, ExistsNew(r) \/ ExistsRetry(r)
    PROVE  IndInv'
<1>1. /\ pc[r] \in {"exists", "alloc"} /\ UNCHANGED <<size, drifted, others, file, del>>
      /\ pc[r] = "exists" => c[r].node = None
  BY DEF ExistsNew, ExistsRetry
<1>2. TypeOK /\ PlacesOK /\ c[r] \in CacheRecords /\ c[r].key \in Keys /\ pc[r] \notin Deleting
      /\ r \in Procs
  BY <1>1, RequestFacts
<1>3. c[r].node = None
  BY <1>1, <1>2 DEF PlacesOK, Holding
<1>4. CASE \E n \in Nodes \ Allocated : Insert(r, n)
  BY <1>1, <1>3, <1>4, InsertInv
<1>5. CASE /\ \/ c' = c /\ Goto(r, "forced")
              \/ c' = [c EXCEPT ![r] = NoCache] /\ Goto(r, "idle")
           /\ UNCHANGED <<node, queue, inactive>>
  <2>1. UNCHANGED <<shared, others, del>> /\ file' \in [Keys -> Files]
    BY <1>1, <1>2, <1>5 DEF shared, TypeOK
  <2>2. /\ "forced" \in RequestPcs /\ "idle" \in RequestPcs
        /\ "forced" \notin Deleting \union Holding
        /\ "idle" \notin Deleting \union Holding
    BY DEF RequestPcs, Deleting, Holding
  <2>3. c = [c EXCEPT ![r] = c[r]]
    BY <1>2 DEF TypeOK
  <2>4. NoCache.node = None /\ NoCache \in CacheRecords
    BY InitialRecords DEF NoCache
  <2>5. CASE c' = c /\ Goto(r, "forced")
    BY <1>2, <1>3, <2>1, <2>2, <2>3, <2>5, LightInv
  <2>6. CASE c' = [c EXCEPT ![r] = NoCache] /\ Goto(r, "idle")
    BY <1>2, <1>3, <2>1, <2>2, <2>4, <2>6, LightInv
  <2> QED
    BY <1>5, <2>5, <2>6
<1>6. CASE ExistsNew(r)
  <2>1. \/ Goto(r, "forced") /\ UNCHANGED <<node, queue, inactive, c>>
        \/ \E n \in Nodes \ Allocated : Insert(r, n)
    BY <1>6 DEF ExistsNew
  <2>2. CASE Goto(r, "forced") /\ UNCHANGED <<node, queue, inactive, c>>
    BY <1>5, <2>2
  <2> QED
    BY <1>4, <2>1, <2>2
<1>7. CASE ExistsRetry(r)
  <2>1. \/ /\ Goto(r, "idle") /\ c' = [c EXCEPT ![r] = NoCache]
           /\ UNCHANGED <<node, queue, inactive>>
        \/ \E n \in Nodes \ Allocated : Insert(r, n)
    BY <1>7 DEF ExistsRetry
  <2> QED
    BY <1>4, <1>5, <2>1
<1> QED
  BY <1>6, <1>7

-----------------------------------------------------------------------------
(* The steps that give a node back *)

\* A request without a cache has no node.
LEMMA NoCacheNode == NoCache.node = None
BY DEF NoCache

\* A request drops its node, which stays.
LEMMA DropInv ==
    ASSUME IndInv, NEW r \in Requests, pc[r] \in Holding, Goto(r, "idle"),
           NEW n \in Nodes, c[r].node = n, NEW y \in NodeRecords, node' = [node EXCEPT ![n] = y],
           y.key = node[n].key, y.count = node[n].count - 1, y.deleting = node[n].deleting,
           y.updating => node[n].updating /\ ~Updates(r),
           size' \in Int, UNCHANGED <<queue, inactive, others, file, del>>,
           c' = [c EXCEPT ![r] = NoCache]
    PROVE  IndInv'
<1>1. /\ TypeOK /\ QueueMatchesTree /\ r \in Procs /\ r # Manager /\ pc[r] \notin Deleting
  BY RequestFacts
<1>2. UNCHANGED <<cold, mutex, load, leaked, del>>
  BY DEF others
<1>3. "idle" \in RequestPcs
  BY DEF RequestPcs
<1>4. /\ pc' \in [Procs -> RequestPcs \union ManagerPcs]
      /\ pc'[Manager] \in ManagerPcs /\ \A q \in Requests : pc'[q] \in RequestPcs
      /\ pc'[r] = "idle" /\ \A q \in Procs : q # r => pc'[q] = pc[q]
  BY <1>1, <1>3, GotoType
<1>5. /\ c' \in [Requests -> CacheRecords] /\ c'[r].node = None
      /\ \A q \in Requests : q # r => c'[q] = c[q]
  BY <1>1, InitialRecords, NoCacheNode DEF TypeOK
<1>6. /\ node' \in [Nodes -> NodeRecords] /\ node'[n] = y
      /\ \A m \in Nodes : m # n => node'[m] = node[m]
  BY <1>1 DEF TypeOK
<1>7. TypeOK'
  BY <1>1, <1>2, <1>4, <1>5, <1>6 DEF TypeOK
<1>8. \A m \in Nodes : node'[m].key = node[m].key
  BY <1>6
<1>9. QueueMatchesTree'
  BY <1>1, <1>8, QueueSame
<1>10. OthersStay(r)
  BY <1>4, <1>5 DEF OthersStay
<1>11. Drops(r, n)
  BY <1>1, <1>2, <1>4, <1>5, <1>6, <1>10 DEF Drops
<1> QED
  BY <1>7, <1>9, <1>11, DropsInv

\* A request drops its node, and the node goes.
LEMMA DropReleaseInv ==
    ASSUME IndInv, NEW r \in Requests, pc[r] \in Holding, Goto(r, "idle"),
           NEW n \in Nodes, c[r].node = n, Release(n), node[n].count = 1,
           UNCHANGED <<size, others, file, del>>, c' = [c EXCEPT ![r] = NoCache]
    PROVE  IndInv'
<1>1. /\ TypeOK /\ QueueMatchesTree /\ r \in Procs /\ r # Manager /\ pc[r] \notin Deleting
  BY RequestFacts
<1>2. UNCHANGED <<cold, mutex, load, leaked, del>>
  BY DEF others
<1>3. "idle" \in RequestPcs
  BY DEF RequestPcs
<1>4. /\ pc' \in [Procs -> RequestPcs \union ManagerPcs]
      /\ pc'[Manager] \in ManagerPcs /\ \A q \in Requests : pc'[q] \in RequestPcs
      /\ pc'[r] = "idle" /\ \A q \in Procs : q # r => pc'[q] = pc[q]
  BY <1>1, <1>3, GotoType
<1>5. /\ c' \in [Requests -> CacheRecords] /\ c'[r].node = None
      /\ \A q \in Requests : q # r => c'[q] = c[q]
  BY <1>1, InitialRecords, NoCacheNode DEF TypeOK
<1>6. /\ node'[n] = FreeNode
      /\ \A m \in Nodes : m # n => node'[m] = node[m]
  BY <1>1 DEF TypeOK, Release
<1>7. /\ queue' \in Seq(Nodes) /\ inactive' \subseteq Nodes /\ QueueMatchesTree'
      /\ node' \in [Nodes -> NodeRecords]
  <2>1. node \in [Nodes -> NodeRecords] /\ queue \in Seq(Nodes) /\ inactive \subseteq Nodes
    BY <1>1 DEF TypeOK
  <2> QED
    BY <1>1, <2>1, ReleaseQueue, ReleaseType
<1>8. TypeOK'
  BY <1>1, <1>2, <1>4, <1>5, <1>7 DEF TypeOK
<1>9. OthersStay(r)
  BY <1>4, <1>5 DEF OthersStay
<1>10. Drops(r, n)
  BY <1>1, <1>2, <1>4, <1>5, <1>6, <1>9 DEF Drops
<1> QED
  BY <1>7, <1>8, <1>10, DropsInv

\* ngx_http_file_cache_update: the count goes down and the flag is cleared.
LEMMA UpdateInv ==
    ASSUME IndInv, NEW r \in Requests, Update(r)
    PROVE  IndInv'
<1>1. /\ pc[r] = "update" /\ Goto(r, "idle") /\ c' = [c EXCEPT ![r] = NoCache]
      /\ node' = [node EXCEPT ![c[r].node] = UpdatedNode(r)] /\ size' = UpdatedSize(r)
      /\ UNCHANGED <<queue, inactive, others, file, del>>
  BY DEF Update
<1>2. pc[r] \in Holding
  BY <1>1 DEF Holding
<1>3. PICK n \in Nodes : n = c[r].node
  BY <1>2, RequestFacts
<1>4. /\ TypeOK /\ c[r] \in CacheRecords
  BY RequestFacts
<1>5. node[n] \in NodeRecords /\ c[r].fd \in Files /\ size \in Int
  BY <1>3, <1>4 DEF TypeOK, CacheRecords
<1>6. /\ c[r].fd.size \in {0, 1} /\ node[n].count - 1 \in Int /\ node[n].size \in {0, 1}
      /\ (node[n].exists \/ c[r].fd # NoFile) \in BOOLEAN
  BY <1>5, InitialRecords DEF NodeRecords
<1> DEFINE y == [node[n] EXCEPT !.count = @ - 1, !.size = c[r].fd.size,
                                !.exists = @ \/ c[r].fd # NoFile, !.updating = FALSE]
<1>7. /\ y \in NodeRecords /\ y.key = node[n].key /\ y.count = node[n].count - 1
      /\ y.deleting = node[n].deleting /\ y.updating = FALSE
  BY <1>5, <1>6 DEF NodeRecords
<1>8. y = UpdatedNode(r)
  BY <1>3 DEF UpdatedNode
<1> HIDE DEF y
<1>9. size' \in Int
  BY <1>1, <1>3, <1>5, <1>6 DEF UpdatedSize
<1>10. node' = [node EXCEPT ![n] = y] /\ c[r].node = n
  BY <1>1, <1>3, <1>8
<1> QED
  BY <1>1, <1>2, <1>7, <1>9, <1>10, DropInv

\* ngx_http_file_cache_free: the count goes down, and an empty node may go.
LEMMA FreeInv ==
    ASSUME IndInv, NEW r \in Requests, Free(r)
    PROVE  IndInv'
<1>1. /\ pc[r] \in {"fetch", "hit", "done"} /\ Goto(r, "idle") /\ c' = [c EXCEPT ![r] = NoCache]
      /\ UNCHANGED <<size, others, file, del>>
  BY DEF Free
<1>2. pc[r] \in Holding
  BY <1>1 DEF Holding
<1>3. PICK n \in Nodes : n = c[r].node
  BY <1>2, RequestFacts
<1>4. /\ TypeOK /\ c[r] \in CacheRecords
  BY RequestFacts
<1>5. node[n] \in NodeRecords /\ size \in Int
  BY <1>3, <1>4 DEF TypeOK
<1>6. PICK err \in IF pc[r] = "fetch" THEN {FALSE, ErrorsCached} ELSE {FALSE} :
         IF Useless(r, FreedNode(r, err), err)
           THEN Release(c[r].node)
           ELSE /\ node' = [node EXCEPT ![c[r].node] = FreedNode(r, err)]
                /\ UNCHANGED <<queue, inactive>>
  BY DEF Free
<1> DEFINE e == CASE err -> "fresh"
                  [] ~err /\ c[r].error /\ node[n].error = "none" -> "expired"
                  [] OTHER -> node[n].error
           u == node[n].updating /\ ~c[r].updating
           y == [node[n] EXCEPT !.count = @ - 1, !.updating = u, !.error = e]
<1>7. e \in {"none", "fresh", "expired"} /\ u \in BOOLEAN /\ node[n].count - 1 \in Int
  BY <1>5 DEF NodeRecords
<1>8. y = FreedNode(r, err)
  BY <1>3 DEF FreedNode
<1> HIDE DEF e, u
<1>9. /\ y \in NodeRecords /\ y.key = node[n].key /\ y.count = node[n].count - 1
      /\ y.deleting = node[n].deleting /\ y.updating = u
  BY <1>5, <1>7 DEF NodeRecords
<1> HIDE DEF y
<1>10. y.updating => node[n].updating /\ ~Updates(r)
  BY <1>1, <1>9 DEF u, Updates
<1>11. CASE Useless(r, y, err)
  <2>1. Release(n)
    BY <1>3, <1>6, <1>8, <1>11
  <2>2. node[n].count = 1
    <3>1. y.count = 0
      BY <1>11 DEF Useless
    <3> QED
      BY <1>5, <1>9, <3>1 DEF NodeRecords
  <2> QED
    BY <1>1, <1>2, <1>3, <2>1, <2>2, DropReleaseInv
<1>12. CASE ~Useless(r, y, err)
  <2>1. node' = [node EXCEPT ![n] = y] /\ UNCHANGED <<queue, inactive>> /\ size' \in Int
    BY <1>1, <1>3, <1>5, <1>6, <1>8, <1>12
  <2> QED
    BY <1>1, <1>2, <1>3, <1>9, <1>10, <2>1, DropInv
<1> QED
  BY <1>11, <1>12

-----------------------------------------------------------------------------
(* The deletion of a node, and the expiry of the oldest ones *)

\* What the invariant says of one process.
LEMMA ProcFacts ==
    ASSUME IndInv, NEW p \in Procs
    PROVE  /\ TypeOK /\ PlacesOK /\ RefCounts /\ QueueMatchesTree /\ UpdatingHasOwner
           /\ p # Manager => p \in Requests
           /\ p = Manager => p \notin Requests
           /\ pc[p] \in RequestPcs \union ManagerPcs
           /\ p = Manager => pc[p] \in ManagerPcs
           /\ p # Manager => pc[p] \in RequestPcs
BY ProcessAssumption DEF IndInv, TypeOK, Procs

\* The first half of a deletion: the node is marked, and its file will go.
LEMMA DeleteFileInv ==
    ASSUME IndInv, NEW p \in Procs, NEW n \in Allocated, node[n].count = 0,
           NEW to \in {"forced_unlink", "expire_unlink"}, DeleteFile(p, n, to),
           pc[p] \in {"forced", "expire"}, p # Manager => to = "forced_unlink",
           UNCHANGED <<cold, file, c, load, crashes, leaked, drifted>>
    PROVE  IndInv'
<1>1. /\ TypeOK /\ QueueMatchesTree
  BY ProcFacts
<1>2. /\ size' = SizeWithout(n) /\ del' = [del EXCEPT ![p] = n] /\ mutex' = None /\ Goto(p, to)
      /\ UNCHANGED <<queue, inactive>>
      /\ node' = [node EXCEPT ![n].count = @ + 1, ![n].deleting = TRUE]
  BY DEF DeleteFile
<1>3. n \in Nodes /\ node[n].key # None /\ node[n] \in NodeRecords /\ size \in Int
  BY <1>1 DEF Allocated, TypeOK
<1> DEFINE y == [node[n] EXCEPT !.count = @ + 1, !.deleting = TRUE]
<1>4. /\ y \in NodeRecords /\ y.key = node[n].key /\ y.count = 1 /\ y.deleting
      /\ y.updating = node[n].updating
  <2>1. node[n].count + 1 = 1 /\ 1 \in Int
    OBVIOUS
  <2> QED
    BY <1>3, <2>1 DEF NodeRecords
<1>5. node' = [node EXCEPT ![n] = y]
  BY <1>2
<1> HIDE DEF y
<1>6. /\ node' \in [Nodes -> NodeRecords] /\ node'[n] = y
      /\ \A m \in Nodes : m # n => node'[m] = node[m]
  BY <1>1, <1>3, <1>4, <1>5 DEF TypeOK
<1>7. /\ p = Manager => to \in ManagerPcs
      /\ p # Manager => to \in RequestPcs
      /\ to \in Deleting /\ pc[p] \notin Deleting
      /\ pc[p] \notin Holding \union {"exists", "idle"} /\ to \notin Holding \union {"exists", "idle"}
  BY DEF ManagerPcs, RequestPcs, Deleting, Holding
<1>8. /\ pc' \in [Procs -> RequestPcs \union ManagerPcs]
      /\ pc'[Manager] \in ManagerPcs /\ \A q \in Requests : pc'[q] \in RequestPcs
      /\ pc'[p] = to /\ \A q \in Procs : q # p => pc'[q] = pc[q]
  BY <1>1, <1>2, <1>7, GotoType
<1>9. size' \in Int
  BY <1>2, <1>3 DEF SizeWithout, NodeRecords
<1>10. del' \in [Procs -> Nodes \union {None}] /\ del'[p] = n /\ OthersDelete(p)
  BY <1>1, <1>2, <1>3 DEF TypeOK, OthersDelete
<1>11. TypeOK'
  BY <1>1, <1>2, <1>6, <1>8, <1>9, <1>10 DEF TypeOK
<1>12. \A m \in Nodes : node'[m].key = node[m].key
  BY <1>4, <1>6
<1>13. QueueMatchesTree'
  BY <1>1, <1>2, <1>12, QueueSame
<1>14. Aside(p)
  BY <1>7, <1>8 DEF Aside
<1>15. DeleteBegins(p, n)
  BY <1>3, <1>4, <1>6, <1>7, <1>8, <1>10, <1>14 DEF DeleteBegins
<1> QED
  BY <1>11, <1>13, <1>15, DeleteBeginsInv

\* A node nobody refers to, without a file, goes at once.
LEMMA ExpiredInv ==
    ASSUME IndInv, NEW p \in Procs, NEW n \in Allocated, node[n].count = 0, Release(n),
           NEW to, Goto(p, to), pc[p] \in {"forced", "expire"},
           IF p = Manager THEN to \in {"size", "expire"} ELSE to = "alloc",
           mutex' \in {None, Manager},
           UNCHANGED <<size, del, cold, file, c, load, crashes, leaked, drifted>>
    PROVE  IndInv'
<1>1. /\ TypeOK /\ QueueMatchesTree /\ PlacesOK
  BY ProcFacts
<1>2. n \in Nodes
  BY DEF Allocated
<1>3. /\ p = Manager => to \in ManagerPcs
      /\ p # Manager => to \in RequestPcs
      /\ to \notin Deleting /\ pc[p] \notin Deleting
      /\ pc[p] \notin Holding \union {"exists", "idle"} /\ to \notin Holding \union {"exists", "idle"}
  BY DEF ManagerPcs, RequestPcs, Deleting, Holding
<1>4. /\ pc' \in [Procs -> RequestPcs \union ManagerPcs]
      /\ pc'[Manager] \in ManagerPcs /\ \A q \in Requests : pc'[q] \in RequestPcs
      /\ pc'[p] = to /\ \A q \in Procs : q # p => pc'[q] = pc[q]
  BY <1>1, <1>3, GotoType
<1>5. /\ node'[n] = FreeNode
      /\ \A m \in Nodes : m # n => node'[m] = node[m]
  BY <1>1, <1>2 DEF TypeOK, Release
<1>6. /\ queue' \in Seq(Nodes) /\ inactive' \subseteq Nodes /\ QueueMatchesTree'
      /\ node' \in [Nodes -> NodeRecords]
  <2>1. node \in [Nodes -> NodeRecords] /\ queue \in Seq(Nodes) /\ inactive \subseteq Nodes
    BY <1>1 DEF TypeOK
  <2> QED
    BY <1>1, <1>2, <2>1, ReleaseQueue, ReleaseType
<1>7. TypeOK'
  BY <1>1, <1>4, <1>6 DEF TypeOK
<1>8. Aside(p)
  BY <1>3, <1>4 DEF Aside
<1>9. FreeNode.count = 0 /\ ~FreeNode.deleting /\ ~FreeNode.updating
  BY DEF FreeNode
<1>10. load'.at = "add" => load'.key \in Keys
  BY <1>1 DEF PlacesOK
<1>11. Swaps(p, n)
  BY <1>2, <1>3, <1>4, <1>5, <1>8, <1>9, <1>10 DEF Swaps
<1> QED
  BY <1>6, <1>7, <1>11, SwapsInv

\* A step of a process that changes nothing but its place and the mutex.
LEMMA IdleStepInv ==
    ASSUME IndInv, NEW p \in Procs, NEW to, Goto(p, to),
           pc[p] \notin Holding \union {"exists"} \union Deleting,
           to \notin Holding \union {"exists"} \union Deleting,
           p = Manager \/ (pc[p] # "idle" /\ to # "idle"),
           IF p = Manager THEN to \in ManagerPcs ELSE to \in RequestPcs,
           mutex' \in {None, Manager}, UNCHANGED <<shared, cold, file, c, del, load, leaked>>
    PROVE  IndInv'
<1>1. /\ TypeOK /\ QueueMatchesTree /\ PlacesOK
  BY ProcFacts
<1>2. /\ pc' \in [Procs -> RequestPcs \union ManagerPcs]
      /\ pc'[Manager] \in ManagerPcs /\ \A q \in Requests : pc'[q] \in RequestPcs
      /\ pc'[p] = to /\ \A q \in Procs : q # p => pc'[q] = pc[q]
  BY <1>1, GotoType
<1>3. UNCHANGED <<node, queue, inactive, size>>
  BY DEF shared
<1>4. TypeOK'
  BY <1>1, <1>2, <1>3 DEF TypeOK
<1>5. QueueMatchesTree'
  BY <1>1, <1>3, QueueSame
<1>6. Manager \notin Requests /\ Requests \subseteq Procs
  BY ProcessAssumption DEF Procs
<1>7. \A r \in Requests :
          \/ pc'[r] = pc[r]
          \/ /\ pc'[r] \notin Holding \union {"exists", "idle"}
             /\ pc[r] \notin Holding \union {"exists", "idle"}
  BY <1>2, <1>6
<1>8. \A q \in Procs : pc'[q] \in Deleting <=> pc[q] \in Deleting
  BY <1>2
<1>9. \A n \in Nodes : SameRefs(n) /\ (node'[n].updating <=> node[n].updating)
  BY <1>3 DEF SameRefs
<1>10. load'.at = "add" => load'.key \in Keys
  BY <1>1 DEF PlacesOK
<1>11. Quiet
  BY <1>3, <1>7, <1>8, <1>9, <1>10 DEF Quiet
<1> QED
  BY <1>4, <1>5, <1>11, QuietInv

\* ngx_http_file_cache_forced_expire, by a request or by the manager.
LEMMA ForcedExpireInv ==
    ASSUME IndInv, NEW p \in Procs, ForcedExpire(p)
    PROVE  IndInv'
<1>1. /\ pc[p] = "forced" /\ UNCHANGED <<cold, file, c, load, crashes, leaked, drifted>>
      /\ Unlocked
  BY DEF ForcedExpire
<1>2. /\ TypeOK /\ QueueMatchesTree /\ queue \in Seq(Nodes) /\ mutex \in {None, Manager}
      /\ (p # Manager => p \in Requests) /\ (p = Manager => p \notin Requests)
  BY ProcFacts DEF TypeOK
<1> DEFINE back == IF p = Manager THEN "idle" ELSE "alloc"
           on == IF p = Manager THEN "size" ELSE "alloc"
           n == Oldest(Min(Idle))
<1>3. CASE Goto(p, back) /\ UNCHANGED <<node, queue, inactive, size, del, mutex>>
  <2>1. /\ pc[p] \notin Holding \union {"exists"} \union Deleting
        /\ back \notin Holding \union {"exists"} \union Deleting
        /\ p = Manager \/ (pc[p] # "idle" /\ back # "idle")
        /\ IF p = Manager THEN back \in ManagerPcs ELSE back \in RequestPcs
    BY <1>1 DEF Holding, Deleting, ManagerPcs, RequestPcs
  <2>2. mutex' \in {None, Manager} /\ UNCHANGED <<shared, cold, file, c, del, load, leaked>>
    BY <1>1, <1>2, <1>3 DEF shared
  <2> HIDE DEF back
  <2> QED
    BY <1>3, <2>1, <2>2, IdleStepInv
<1>4. ASSUME Idle # {}
      PROVE  n \in Allocated /\ node[n].count = 0
  BY <1>2, <1>4, OldestIdle
<1>5. pc[p] \in {"forced", "expire"}
  BY <1>1
<1>6. CASE Idle # {} /\ DeleteFile(p, n, "forced_unlink")
  <2>1. n \in Allocated /\ node[n].count = 0
    BY <1>4, <1>6
  <2> HIDE DEF n
  <2> QED
    BY <1>1, <1>5, <1>6, <2>1, DeleteFileInv
<1>7. CASE Idle # {} /\ Release(n) /\ Goto(p, on) /\ UNCHANGED <<size, del, mutex>>
  <2>1. n \in Allocated /\ node[n].count = 0
    BY <1>4, <1>7
  <2>2. IF p = Manager THEN on \in {"size", "expire"} ELSE on = "alloc"
    OBVIOUS
  <2>3. mutex' \in {None, Manager}
    BY <1>2, <1>7
  <2> HIDE DEF n, on
  <2> QED
    BY <1>1, <1>5, <1>7, <2>1, <2>2, <2>3, ExpiredInv
<1> HIDE DEF back, on, n
<1>8. \/ Goto(p, back) /\ UNCHANGED <<node, queue, inactive, size, del, mutex>>
      \/ Idle # {} /\ DeleteFile(p, n, "forced_unlink")
      \/ Idle # {} /\ Release(n) /\ Goto(p, on) /\ UNCHANGED <<size, del, mutex>>
  BY DEF ForcedExpire, back, on, n
<1> QED
  BY <1>3, <1>6, <1>7, <1>8

\* ngx_delete_file, while the mutex is released.
LEMMA UnlinkInv ==
    ASSUME IndInv, NEW p \in Procs, Unlink(p)
    PROVE  IndInv'
<1> DEFINE to == IF pc[p] = "expire_unlink" THEN "expire_end" ELSE "forced_end"
<1>1. /\ pc[p] \in {"expire_unlink", "forced_unlink"} /\ Goto(p, to)
      /\ UNCHANGED <<shared, others, c, del>>
  BY DEF Unlink
<1>2. /\ TypeOK /\ QueueMatchesTree /\ PlacesOK
      /\ (p # Manager => p \in Requests) /\ (p = Manager => p \notin Requests)
      /\ (p = Manager => pc[p] \in ManagerPcs) /\ (p # Manager => pc[p] \in RequestPcs)
  BY ProcFacts
<1>3. /\ pc[p] \in Deleting /\ to \in Deleting
      /\ pc[p] \notin Holding \union {"exists", "idle"} /\ to \notin Holding \union {"exists", "idle"}
      /\ p = Manager => to \in ManagerPcs
      /\ p # Manager => to \in RequestPcs
  BY <1>1, <1>2 DEF Deleting, Holding, ManagerPcs, RequestPcs
<1> HIDE DEF to
<1>4. /\ pc' \in [Procs -> RequestPcs \union ManagerPcs]
      /\ pc'[Manager] \in ManagerPcs /\ \A q \in Requests : pc'[q] \in RequestPcs
      /\ pc'[p] = to /\ \A q \in Procs : q # p => pc'[q] = pc[q]
  BY <1>1, <1>2, <1>3, GotoType
<1>5. UNCHANGED <<node, queue, inactive, size, cold, mutex, load, leaked>>
  BY <1>1 DEF shared, others
<1>6. file' \in [Keys -> Files]
  BY <1>2, InitialRecords DEF Unlink, TypeOK
<1>7. TypeOK'
  BY <1>1, <1>2, <1>4, <1>5, <1>6 DEF TypeOK
<1>8. QueueMatchesTree'
  BY <1>2, <1>5, QueueSame
<1>9. Requests \subseteq Procs
  BY DEF Procs
<1>10. \A r \in Requests :
          \/ pc'[r] = pc[r]
          \/ /\ pc'[r] \notin Holding \union {"exists", "idle"}
             /\ pc[r] \notin Holding \union {"exists", "idle"}
  BY <1>3, <1>4, <1>9
<1>11. \A q \in Procs : pc'[q] \in Deleting <=> pc[q] \in Deleting
  BY <1>3, <1>4
<1>12. \A n \in Nodes : SameRefs(n) /\ (node'[n].updating <=> node[n].updating)
  BY <1>5 DEF SameRefs
<1>13. load'.at = "add" => load'.key \in Keys
  BY <1>2, <1>5 DEF PlacesOK
<1>14. Quiet
  BY <1>1, <1>5, <1>10, <1>11, <1>12, <1>13 DEF Quiet
<1> QED
  BY <1>7, <1>8, <1>14, QuietInv

\* The second half of a deletion: the node goes, unless it was taken meanwhile.
LEMMA DeleteEndInv ==
    ASSUME IndInv, NEW p \in Procs, DeleteEnd(p)
    PROVE  IndInv'
<1> DEFINE on == IF p = Manager THEN "size" ELSE "alloc"
<1>1. /\ pc[p] \in {"expire_end", "forced_end"} /\ DeletedNode(del[p])
      /\ del' = [del EXCEPT ![p] = None] /\ mutex = None
      /\ UNCHANGED <<size, cold, file, c, load, crashes, leaked, drifted>>
  BY DEF DeleteEnd, Unlocked
<1>2. /\ TypeOK /\ QueueMatchesTree /\ PlacesOK /\ RefCounts
      /\ (p # Manager => p \in Requests) /\ (p = Manager => p \notin Requests)
      /\ (p = Manager => pc[p] \in ManagerPcs) /\ (p # Manager => pc[p] \in RequestPcs)
  BY ProcFacts
<1>3. /\ pc[p] \in Deleting /\ pc[p] \notin Holding \union {"exists", "idle"}
      /\ p # Manager => pc[p] # "expire_end"
  BY <1>1, <1>2 DEF Deleting, Holding, RequestPcs
<1>4. PICK n \in Nodes : n = del[p] /\ n # None
  BY <1>2, <1>3 DEF PlacesOK, TypeOK
<1>5. PICK to \in {"expire", "size", "alloc"} :
         /\ Goto(p, to) /\ mutex' \in {None, Manager}
         /\ IF p = Manager THEN to \in {"size", "expire"} ELSE to = "alloc"
  <2>1. CASE pc[p] = "expire_end"
    <3>1. Goto(p, "expire") /\ mutex' = p /\ p = Manager
      BY <1>3, <2>1 DEF DeleteEnd
    <3> QED
      BY <3>1
  <2>2. CASE pc[p] # "expire_end"
    <3>1. Goto(p, on) /\ mutex' = mutex
      BY <2>2 DEF DeleteEnd
    <3>2. on \in {"expire", "size", "alloc"} /\ IF p = Manager THEN on \in {"size", "expire"} ELSE on = "alloc"
      OBVIOUS
    <3> HIDE DEF on
    <3> QED
      BY <1>1, <3>1, <3>2
  <2> QED
    BY <2>1, <2>2
<1>6. /\ to \notin Deleting /\ to \notin Holding \union {"exists", "idle"}
      /\ p = Manager => to \in ManagerPcs
      /\ p # Manager => to \in RequestPcs
  BY <1>5 DEF Deleting, Holding, ManagerPcs, RequestPcs
<1>7. /\ pc' \in [Procs -> RequestPcs \union ManagerPcs]
      /\ pc'[Manager] \in ManagerPcs /\ \A q \in Requests : pc'[q] \in RequestPcs
      /\ pc'[p] = to /\ \A q \in Procs : q # p => pc'[q] = pc[q]
  BY <1>2, <1>5, <1>6, GotoType
<1>8. Aside(p)
  BY <1>3, <1>6, <1>7 DEF Aside
<1>9. del' \in [Procs -> Nodes \union {None}] /\ del'[p] = None /\ OthersDelete(p)
  BY <1>1, <1>2 DEF TypeOK, OthersDelete
<1>10. node[n] \in NodeRecords /\ node[n].count \in Int
  BY <1>2 DEF TypeOK, NodeRecords
<1> DEFINE y == [node[n] EXCEPT !.count = @ - 1, !.deleting = FALSE]
<1>11. /\ y \in NodeRecords /\ y.key = node[n].key /\ y.count = node[n].count - 1
       /\ ~y.deleting /\ y.updating = node[n].updating
  <2>1. node[n].count - 1 \in Int
    BY <1>10
  <2> QED
    BY <1>10, <2>1 DEF NodeRecords
<1>12. y = Undeleted(n)
  BY DEF Undeleted
<1> HIDE DEF y
<1>13. CASE y.count = 0
  <2>1. Release(n) /\ node[n].count = 1
    BY <1>1, <1>4, <1>10, <1>11, <1>12, <1>13 DEF DeletedNode
  <2>2. /\ node'[n] = FreeNode
        /\ \A m \in Nodes : m # n => node'[m] = node[m]
    BY <1>2, <2>1 DEF TypeOK, Release
  <2>3. /\ queue' \in Seq(Nodes) /\ inactive' \subseteq Nodes /\ QueueMatchesTree'
        /\ node' \in [Nodes -> NodeRecords]
    <3>1. node \in [Nodes -> NodeRecords] /\ queue \in Seq(Nodes) /\ inactive \subseteq Nodes
      BY <1>2 DEF TypeOK
    <3> QED
      BY <1>2, <2>1, <3>1, ReleaseQueue, ReleaseType
  <2>4. TypeOK'
    BY <1>1, <1>2, <1>5, <1>7, <1>9, <2>3 DEF TypeOK
  <2>5. DeleteEnds(p, n)
    BY <1>1, <1>4, <1>6, <1>7, <1>8, <1>9, <2>1, <2>2 DEF DeleteEnds
  <2> QED
    BY <2>3, <2>4, <2>5, DeleteEndsInv
<1>14. CASE y.count # 0
  <2>1. node' = [node EXCEPT ![n] = y] /\ UNCHANGED <<queue, inactive>>
    BY <1>1, <1>4, <1>12, <1>14 DEF DeletedNode
  <2>2. /\ node' \in [Nodes -> NodeRecords] /\ node'[n] = y
        /\ \A m \in Nodes : m # n => node'[m] = node[m]
    BY <1>2, <1>11, <2>1 DEF TypeOK
  <2>3. \A m \in Nodes : node'[m].key = node[m].key
    BY <1>11, <2>2
  <2>4. QueueMatchesTree'
    BY <1>2, <2>1, <2>3, QueueSame
  <2>5. TypeOK'
    BY <1>1, <1>2, <1>5, <1>7, <1>9, <2>1, <2>2 DEF TypeOK
  <2>6. DeleteEnds(p, n)
    BY <1>1, <1>4, <1>6, <1>7, <1>8, <1>9, <1>11, <2>2 DEF DeleteEnds
  <2> QED
    BY <2>4, <2>5, <2>6, DeleteEndsInv
<1> QED
  BY <1>13, <1>14

\* The manager is a process and no request.
LEMMA ManagerFacts ==
    /\ Manager \in Procs /\ Manager \notin Requests /\ Requests \subseteq Procs
    /\ {"idle", "expire", "size", "forced"} \subseteq
          ManagerPcs \ (Holding \union {"exists"} \union Deleting)
BY ProcessAssumption DEF Procs, ManagerPcs, Holding, Deleting

\* The manager wakes.
LEMMA ManagerStartInv ==
    ASSUME IndInv, ManagerStart
    PROVE  IndInv'
<1>1. pc[Manager] = "idle" /\ Goto(Manager, "expire") /\ mutex' = Manager
        /\ UNCHANGED <<shared, cold, file, c, del, load, crashes, leaked>>
  BY DEF ManagerStart
<1>2. /\ pc[Manager] \notin Holding \union {"exists"} \union Deleting
      /\ "expire" \notin Holding \union {"exists"} \union Deleting
      /\ "expire" \in ManagerPcs /\ Manager \in Procs /\ mutex' \in {None, Manager}
  BY <1>1, ManagerFacts
<1> QED
  BY <1>1, <1>2, IdleStepInv

\* The manager compares the size of the cache with its limit.
LEMMA ManagerSizeInv ==
    ASSUME IndInv, ManagerSize
    PROVE  IndInv'
<1>1. /\ pc[Manager] = "size" /\ (Goto(Manager, "idle") \/ Goto(Manager, "forced"))
      /\ UNCHANGED <<shared, others, file, c, del>>
  BY DEF ManagerSize
<1>2. PICK to \in {"idle", "forced"} : Goto(Manager, to)
  BY <1>1
<1>3. /\ pc[Manager] \notin Holding \union {"exists"} \union Deleting
      /\ to \notin Holding \union {"exists"} \union Deleting
      /\ to \in ManagerPcs /\ Manager \in Procs
  BY <1>1, ManagerFacts
<1>4. TypeOK
  BY DEF IndInv
<1>5. mutex' \in {None, Manager} /\ UNCHANGED <<shared, cold, file, c, del, load, leaked>>
  BY <1>1, <1>4 DEF others, TypeOK
<1> QED
  BY <1>2, <1>3, <1>5, IdleStepInv

\* A node that is looked at while the references stay as they are.
LEMMA TouchedInv ==
    ASSUME IndInv, NEW n \in Allocated, Touch(n), TypeOK',
           load'.at = "add" => load'.key \in Keys, UNCHANGED <<node, pc, c, del, leaked>>
    PROVE  IndInv'
<1>1. TypeOK /\ QueueMatchesTree
  BY DEF IndInv
<1>2. \A m \in Nodes : node'[m].key = node[m].key
  OBVIOUS
<1>3. QueueMatchesTree'
  BY <1>1, <1>2, TouchSame
<1>4. \A m \in Nodes : SameRefs(m) /\ (node'[m].updating <=> node[m].updating)
  BY DEF SameRefs
<1>5. Quiet
  BY <1>4 DEF Quiet
<1> QED
  BY <1>3, <1>5, QuietInv

\* ngx_http_file_cache_expire: the oldest node goes, waits, or is moved to the front.
LEMMA ExpireInv ==
    ASSUME IndInv, Expire
    PROVE  IndInv'
<1>1. /\ pc[Manager] = "expire" /\ mutex = Manager
      /\ UNCHANGED <<cold, file, c, load, crashes, leaked, drifted>>
  BY DEF Expire
<1>2. /\ TypeOK /\ QueueMatchesTree /\ PlacesOK /\ RefCounts /\ queue \in Seq(Nodes)
  BY DEF IndInv, TypeOK
<1>3. /\ Manager \in Procs /\ pc[Manager] \notin Holding \union {"exists"} \union Deleting
      /\ "size" \notin Holding \union {"exists"} \union Deleting
      /\ "size" \in ManagerPcs /\ pc[Manager] \in {"forced", "expire"}
  BY <1>1, ManagerFacts
<1> DEFINE n == Oldest(1)
<1>4. ASSUME TailInactive PROVE n \in Allocated
  <2>1. 1 \in 1..Len(queue)
    BY <1>2, <1>4 DEF TailInactive
  <2> QED
    BY <1>2, <2>1, OldestFacts
<1>5. CASE /\ Goto(Manager, "size") /\ mutex' = None
           /\ UNCHANGED <<node, queue, inactive, size, del>>
  <2>1. mutex' \in {None, Manager} /\ UNCHANGED <<shared, cold, file, c, del, load, leaked>>
    BY <1>1, <1>5 DEF shared
  <2> QED
    BY <1>3, <1>5, <2>1, IdleStepInv
<1>6. CASE TailInactive /\ node[n].count = 0 /\ DeleteFile(Manager, n, "expire_unlink")
  <2>1. n \in Allocated /\ node[n].count = 0
    BY <1>4, <1>6
  <2> HIDE DEF n
  <2> QED
    BY <1>1, <1>3, <1>6, <2>1, DeleteFileInv
<1>7. CASE TailInactive /\ node[n].count = 0 /\ Release(n) /\ UNCHANGED <<pc, mutex, size, del>>
  <2>1. n \in Allocated /\ node[n].count = 0 /\ Release(n)
    BY <1>4, <1>7
  <2>2. Goto(Manager, "expire")
    BY <1>1, <1>2, <1>7 DEF Goto, TypeOK
  <2>3. mutex' \in {None, Manager} /\ UNCHANGED <<size, del>>
    BY <1>1, <1>7
  <2> HIDE DEF n
  <2> QED
    BY <1>1, <1>3, <2>1, <2>2, <2>3, ExpiredInv
<1>8. CASE TailInactive /\ Touch(n) /\ UNCHANGED <<node, size, pc, mutex, del>>
  <2>1. n \in Allocated /\ n \in Nodes
    BY <1>4, <1>8 DEF Allocated
  <2> HIDE DEF n
  <2>2. queue' \in Seq(Nodes) /\ inactive' \subseteq Nodes
    BY <1>2, <1>8, <2>1, TouchType
  <2>3. TypeOK'
    BY <1>1, <1>2, <1>8, <2>2 DEF TypeOK
  <2>4. load'.at = "add" => load'.key \in Keys
    BY <1>1, <1>2 DEF PlacesOK
  <2> QED
    BY <1>1, <1>8, <2>1, <2>3, <2>4, TouchedInv
<1> HIDE DEF n
<1>9. \/ /\ Goto(Manager, "size") /\ mutex' = None
         /\ UNCHANGED <<node, queue, inactive, size, del>>
      \/ TailInactive /\ node[n].count = 0 /\ DeleteFile(Manager, n, "expire_unlink")
      \/ TailInactive /\ node[n].count = 0 /\ Release(n) /\ UNCHANGED <<pc, mutex, size, del>>
      \/ TailInactive /\ Touch(n) /\ UNCHANGED <<node, size, pc, mutex, del>>
  BY DEF Expire, n
<1> QED
  BY <1>5, <1>6, <1>7, <1>8, <1>9

-----------------------------------------------------------------------------
(* The loader, and time *)

\* A step that changes neither the nodes nor the processes.
LEMMA FileStepInv ==
    ASSUME IndInv, TypeOK', load'.at = "add" => load'.key \in Keys,
           UNCHANGED <<node, queue, inactive, pc, c, del, leaked>>
    PROVE  IndInv'
<1>1. TypeOK /\ QueueMatchesTree
  BY DEF IndInv
<1>2. QueueMatchesTree'
  BY <1>1, QueueSame
<1>3. \A m \in Nodes : SameRefs(m) /\ (node'[m].updating <=> node[m].updating)
  BY DEF SameRefs
<1>4. Quiet
  BY <1>3 DEF Quiet
<1> QED
  BY <1>2, <1>4, QuietInv

\* The loader walks over the files of the disk.
LEMMA LoaderMoveInv ==
    ASSUME IndInv, LoaderStart \/ LoaderVisit \/ LoaderDrop \/ LoaderEnd
    PROVE  IndInv'
<1>1. TypeOK /\ PlacesOK
  BY DEF IndInv
<1>2. UNCHANGED <<node, queue, inactive, size, mutex, pc, c, del, leaked>>
  BY DEF LoaderStart, LoaderVisit, LoaderDrop, LoaderEnd, shared
<1> DEFINE L == [at : {"idle", "walk", "add", "drop"}, todo : SUBSET Keys,
                 key : Keys \union {None}, size : {0, 1}]
<1>3. load \in L /\ file \in [Keys -> Files]
  BY <1>1 DEF TypeOK
<1>4. load' \in L /\ (load'.at = "add" => load'.key \in Keys)
  <2>1. CASE LoaderStart
    <3>1. load' = [load EXCEPT !.at = "walk", !.todo = Keys]
      BY <2>1 DEF LoaderStart
    <3> QED
      BY <1>3, <3>1
  <2>2. CASE LoaderVisit
    <3>1. PICK k \in load.todo :
          \/ load' = [load EXCEPT !.todo = @ \ {k}] /\ load.at = "walk"
          \/ load' = [at |-> "add", todo |-> load.todo \ {k}, key |-> k, size |-> file[k].size]
          \/ load' = [at |-> "drop", todo |-> load.todo \ {k}, key |-> k, size |-> 0]
      BY <2>2 DEF LoaderVisit
    <3>2. k \in Keys /\ load.todo \ {k} \in SUBSET Keys
      BY <1>3
    <3>3. file[k].size \in {0, 1}
      BY <1>3, <3>2, InitialRecords
    <3>4. CASE load' = [load EXCEPT !.todo = @ \ {k}] /\ load.at = "walk"
      BY <1>3, <3>2, <3>4
    <3>5. CASE load' = [at |-> "add", todo |-> load.todo \ {k}, key |-> k, size |-> file[k].size]
      <4> DEFINE sz == file[k].size
                 td == load.todo \ {k}
      <4>1. sz \in {0, 1} /\ td \in SUBSET Keys /\ load' = [at |-> "add", todo |-> td, key |-> k, size |-> sz]
        BY <3>2, <3>3, <3>5
      <4> HIDE DEF sz, td
      <4> QED
        BY <3>2, <4>1
    <3>6. CASE load' = [at |-> "drop", todo |-> load.todo \ {k}, key |-> k, size |-> 0]
      BY <3>2, <3>6
    <3> QED
      BY <3>1, <3>4, <3>5, <3>6
  <2>3. CASE LoaderDrop
    <3>1. load' = [load EXCEPT !.at = "walk", !.key = None]
      BY <2>3 DEF LoaderDrop
    <3> QED
      BY <1>3, <3>1
  <2>4. CASE LoaderEnd
    <3>1. load' = [at |-> "idle", todo |-> {}, key |-> None, size |-> 0]
      BY <2>4 DEF LoaderEnd
    <3> QED
      BY <3>1
  <2> QED
    BY <2>1, <2>2, <2>3, <2>4
<1>5. cold' \in BOOLEAN
  <2>1. cold' = cold \/ cold' = FALSE
    BY DEF LoaderStart, LoaderVisit, LoaderDrop, LoaderEnd
  <2> QED
    BY <1>1, <2>1 DEF TypeOK
<1>6. file' \in [Keys -> Files]
  <2>1. [file EXCEPT ![load.key] = NoFile] \in [Keys -> Files]
    BY <1>3, InitialRecords
  <2> QED
    BY <1>3, <2>1 DEF LoaderStart, LoaderVisit, LoaderDrop, LoaderEnd
<1>7. TypeOK'
  BY <1>1, <1>2, <1>4, <1>5, <1>6 DEF TypeOK
<1> QED
  BY <1>2, <1>4, <1>7, FileStepInv

\* ngx_http_file_cache_add: a node for a file, or the size of one that is there.
LEMMA LoaderAddInv ==
    ASSUME IndInv, LoaderAdd
    PROVE  IndInv'
<1>1. TypeOK /\ PlacesOK /\ QueueMatchesTree
  BY DEF IndInv
<1>2. /\ load.at = "add" /\ UNCHANGED <<cold, mutex, file, pc, c, del, crashes, leaked>>
  BY DEF LoaderAdd
<1>3. load.key \in Keys /\ load.key # None /\ load.size \in {0, 1} /\ size \in Int
  BY <1>1, <1>2, ProcessAssumption DEF PlacesOK, TypeOK
<1> DEFINE L == [at : {"idle", "walk", "add", "drop"}, todo : SUBSET Keys,
                 key : Keys \union {None}, size : {0, 1}]
           l0 == [load EXCEPT !.at = "walk", !.key = None, !.size = 0]
           l1 == [load EXCEPT !.at = "drop", !.size = 0]
<1>4. load \in L
  BY <1>1 DEF TypeOK
<1>5. l0 \in L /\ l0.at # "add" /\ l1 \in L /\ l1.at # "add"
  BY <1>4
<1>6. load' \in {l0, l1}
  BY DEF LoaderAdd
<1> HIDE DEF l0, l1
<1>7. load' \in L /\ load'.at # "add"
  BY <1>5, <1>6
<1>8. CASE \E n \in LoaderNodes : Touch(n) /\ UNCHANGED <<node, size>>
  <2>1. PICK n \in LoaderNodes : Touch(n) /\ UNCHANGED <<node, size>>
    BY <1>8
  <2>2. n \in Allocated /\ n \in Nodes
    BY <2>1 DEF LoaderNodes, Lookup, Allocated
  <2>3. queue' \in Seq(Nodes) /\ inactive' \subseteq Nodes
    BY <1>1, <2>1, <2>2, TouchType
  <2>4. TypeOK'
    BY <1>1, <1>2, <1>7, <2>1, <2>3 DEF TypeOK
  <2> QED
    BY <1>2, <1>7, <2>1, <2>2, <2>4, TouchedInv
<1> DEFINE y == [FreeNode EXCEPT !.key = load.key, !.uses = 1, !.exists = TRUE,
                                 !.size = load.size]
<1>9. /\ y \in NodeRecords /\ y.key = load.key /\ y.count = 0 /\ ~y.deleting /\ ~y.updating
  <2>1. 1 \in 0..(UsesMod - 1)
    BY SettingAssumption
  <2>2. ~FreeNode.deleting /\ ~FreeNode.updating /\ FreeNode.count = 0
    BY DEF FreeNode
  <2>3. FreeNode \in NodeRecords
    BY InitialRecords
  <2>4. /\ y \in NodeRecords /\ y.key = load.key /\ y.count = FreeNode.count
        /\ y.deleting = FreeNode.deleting /\ y.updating = FreeNode.updating
    <3> HIDE DEF FreeNode
    <3>1. load.key \in Keys \union {None}
      BY <1>3
    <3> QED
      BY <1>3, <2>1, <2>3, <3>1 DEF NodeRecords
  <2> QED
    BY <2>2, <2>4
<1>10. CASE /\ \E n \in Nodes \ Allocated : node' = [node EXCEPT ![n] = y] /\ Touch(n)
            /\ size' = size + load.size
  <2> HIDE DEF y
  <2>1. PICK n \in Nodes \ Allocated : node' = [node EXCEPT ![n] = y] /\ Touch(n)
    BY <1>10
  <2>2. n \in Nodes /\ node[n].key = None /\ node[n].count = 0
    <3>1. node[n] = FreeNode
      BY <1>1, <2>1 DEF Allocated, PlacesOK
    <3> QED
      BY <2>1, <3>1 DEF Allocated, FreeNode
  <2>3. /\ node' \in [Nodes -> NodeRecords] /\ node'[n] = y
        /\ \A m \in Nodes : m # n => node'[m] = node[m]
    BY <1>1, <1>9, <2>1, <2>2 DEF TypeOK
  <2>4. Allocated' = Allocated \union {n}
    BY <1>3, <1>9, <2>2, <2>3 DEF Allocated
  <2>5. queue' \in Seq(Nodes) /\ inactive' \subseteq Nodes /\ QueueMatchesTree'
    <3>1. queue \in Seq(Nodes) /\ inactive \subseteq Nodes
      BY <1>1 DEF TypeOK
    <3> QED
      BY <1>1, <2>1, <2>2, <2>4, <3>1, TouchQueue
  <2>6. size' \in Int
    BY <1>3, <1>10
  <2>7. TypeOK'
    BY <1>1, <1>2, <1>7, <2>3, <2>5, <2>6 DEF TypeOK
  <2>8. Aside(Manager)
    BY <1>2, ManagerFacts DEF Aside
  <2>9. y.key # None
    BY <1>3, <1>9
  <2>10. Swaps(Manager, n)
    BY <1>2, <1>7, <1>9, <2>2, <2>3, <2>8, <2>9 DEF Swaps
  <2> QED
    BY <2>5, <2>7, <2>10, SwapsInv, ManagerFacts
<1>11. CASE UNCHANGED <<node, queue, inactive, size>>
  <2>1. TypeOK'
    BY <1>1, <1>2, <1>7, <1>11 DEF TypeOK
  <2> QED
    BY <1>2, <1>7, <1>11, <2>1, FileStepInv
<1> HIDE DEF y
<1>12. \/ \E n \in LoaderNodes : Touch(n) /\ UNCHANGED <<node, size>>
       \/ /\ \E n \in Nodes \ Allocated : node' = [node EXCEPT ![n] = y] /\ Touch(n)
          /\ size' = size + load.size
       \/ UNCHANGED <<node, queue, inactive, size>>
  BY DEF LoaderAdd, y
<1> QED
  BY <1>8, <1>10, <1>11, <1>12

\* A file becomes older than its time.
LEMMA FileExpiresInv ==
    ASSUME IndInv, NEW k \in Keys, FileExpires(k)
    PROVE  IndInv'
<1>1. TypeOK /\ PlacesOK
  BY DEF IndInv
<1>2. UNCHANGED <<shared, others, pc, c, del>> /\ file' = [file EXCEPT ![k].fresh = FALSE]
  BY DEF FileExpires
<1>3. file[k] \in Files /\ file[k].fresh
  BY <1>1 DEF TypeOK, FileExpires
<1>4. [file[k] EXCEPT !.fresh = FALSE] \in Files
  <2>1. ~NoFile.fresh /\ ~[NewFile EXCEPT !.fresh = FALSE].fresh
    BY DEF NoFile, NewFile
  <2>2. file[k] = NewFile
    BY <1>3, <2>1 DEF Files
  <2> QED
    BY <2>2 DEF Files
<1>5. file' \in [Keys -> Files]
  BY <1>1, <1>2, <1>4 DEF TypeOK
<1>6. UNCHANGED <<node, queue, inactive, size, cold, mutex, load, leaked>>
  BY <1>2 DEF shared, others
<1>7. TypeOK'
  BY <1>1, <1>2, <1>5, <1>6 DEF TypeOK
<1>8. load'.at = "add" => load'.key \in Keys
  BY <1>1, <1>6 DEF PlacesOK
<1> QED
  BY <1>2, <1>6, <1>7, <1>8, FileStepInv

\* A cached error becomes older than its time.
LEMMA ErrorExpiresInv ==
    ASSUME IndInv, NEW n \in Nodes, ErrorExpires(n)
    PROVE  IndInv'
<1>1. TypeOK /\ PlacesOK /\ QueueMatchesTree
  BY DEF IndInv
<1> DEFINE y == [node[n] EXCEPT !.error = "expired"]
<1>2. /\ node' = [node EXCEPT ![n] = y] /\ node[n].error = "fresh"
      /\ UNCHANGED <<queue, inactive, size, drifted, others, file, pc, c, del>>
  BY DEF ErrorExpires
<1>3. node[n] \in NodeRecords
  BY <1>1 DEF TypeOK
<1>4. /\ y \in NodeRecords /\ y.key = node[n].key /\ y.count = node[n].count
      /\ y.deleting = node[n].deleting /\ y.updating = node[n].updating
  BY <1>3 DEF NodeRecords
<1> HIDE DEF y
<1>5. /\ node' \in [Nodes -> NodeRecords] /\ node'[n] = y
      /\ \A m \in Nodes : m # n => node'[m] = node[m]
  BY <1>1, <1>2, <1>4 DEF TypeOK
<1>6. UNCHANGED <<cold, mutex, load, leaked>>
  BY <1>2 DEF others
<1>7. TypeOK'
  BY <1>1, <1>2, <1>5, <1>6 DEF TypeOK
<1>8. \A m \in Nodes : node'[m].key = node[m].key
  BY <1>4, <1>5
<1>9. QueueMatchesTree'
  BY <1>1, <1>2, <1>8, QueueSame
<1>10. \A m \in Nodes : SameRefs(m) /\ (node'[m].updating <=> node[m].updating)
  <2> TAKE m \in Nodes
  <2>1. CASE m = n
    BY <1>4, <1>5, <2>1 DEF SameRefs
  <2>2. CASE m # n
    BY <1>5, <2>2 DEF SameRefs
  <2> QED
    BY <2>1, <2>2
<1>11. \A m \in Nodes : node[m].key = None => node'[m] = node[m]
  <2>1. FreeNode.error # "fresh"
    BY DEF FreeNode
  <2>2. node[n].key # None
    BY <1>1, <1>2, <2>1 DEF PlacesOK
  <2> QED
    BY <1>5, <2>2
<1>12. load'.at = "add" => load'.key \in Keys
  BY <1>1, <1>6 DEF PlacesOK
<1>13. Quiet
  BY <1>2, <1>6, <1>10, <1>11, <1>12 DEF Quiet
<1> QED
  BY <1>7, <1>9, <1>13, QuietInv

\* The node that becomes inactive is followed by inactive ones only.
LEMMA NodeExpiresInv ==
    ASSUME IndInv, NodeExpires
    PROVE  IndInv'
<1>1. TypeOK /\ PlacesOK /\ QueueMatchesTree
  BY DEF IndInv
<1>2. PICK i \in 1..Len(queue) :
          /\ \A j \in 1..(i - 1) : Oldest(j) \in inactive
          /\ inactive' = inactive \union {Oldest(i)}
  BY DEF NodeExpires
<1>3. UNCHANGED <<node, queue, size, drifted, others, file, pc, c, del>>
  BY DEF NodeExpires
<1>4. UNCHANGED <<cold, mutex, load, leaked>>
  BY <1>3 DEF others
<1>5. queue \in Seq(Nodes) /\ Len(queue) \in Nat
  BY <1>1 DEF TypeOK
<1>6. Oldest(i) \in Nodes
  BY <1>1, <1>5, OldestFacts
<1>7. TypeOK'
  BY <1>1, <1>2, <1>3, <1>4, <1>6 DEF TypeOK
<1>8. QueueMatchesTree'
  <2>1. ToSet(queue)' = Allocated' /\ IsInjective(queue)'
    BY <1>1, <1>3 DEF QueueMatchesTree, Allocated
  <2>2. ASSUME NEW a \in 1..Len(queue), NEW b \in 1..Len(queue), a < b, queue[a] \in inactive'
        PROVE  queue[b] \in inactive'
    <3>1. CASE queue[a] \in inactive
      BY <1>1, <1>2, <2>2, <3>1 DEF QueueMatchesTree
    <3>2. CASE queue[a] = Oldest(i)
      <4> DEFINE z == Len(queue) + 1 - i
      <4>1. z \in 1..Len(queue) /\ queue[a] = queue[z]
        BY <1>5, <3>2 DEF Oldest
      <4>2. DOMAIN queue = 1..Len(queue)
        BY <1>5
      <4>3. a = z
        BY <1>1, <4>1, <4>2 DEF QueueMatchesTree, IsInjective
      <4>4. Len(queue) + 1 - b \in 1..(i - 1)
        BY <1>5, <2>2, <4>3
      <4>5. queue[b] = Oldest(Len(queue) + 1 - b)
        <5>1. Len(queue) + 1 - (Len(queue) + 1 - b) = b
          BY <1>5
        <5> QED
          BY <5>1 DEF Oldest
      <4> QED
        BY <1>2, <4>4, <4>5
    <3> QED
      BY <1>2, <2>2, <3>1, <3>2
  <2> QED
    BY <1>3, <2>1, <2>2 DEF QueueMatchesTree
<1>9. \A m \in Nodes : SameRefs(m) /\ (node'[m].updating <=> node[m].updating)
  BY <1>3 DEF SameRefs
<1>10. load'.at = "add" => load'.key \in Keys
  BY <1>1, <1>4 DEF PlacesOK
<1>11. Quiet
  BY <1>3, <1>4, <1>9, <1>10 DEF Quiet
<1> QED
  BY <1>7, <1>8, <1>11, QuietInv

-----------------------------------------------------------------------------
(* The theorems *)

\* A step that changes nothing preserves the invariant.
LEMMA StutterInv ==
    ASSUME IndInv, UNCHANGED vars
    PROVE  IndInv'
<1>1. TypeOK /\ PlacesOK
  BY DEF IndInv
<1>2. UNCHANGED <<node, queue, inactive, size, cold, mutex, file, pc, c, del, load, leaked>>
  BY DEF vars
<1>3. TypeOK'
  BY <1>1, <1>2 DEF TypeOK
<1>4. load'.at = "add" => load'.key \in Keys
  BY <1>1, <1>2 DEF PlacesOK
<1> QED
  BY <1>2, <1>3, <1>4, FileStepInv

\* Every step preserves the invariant.
LEMMA StepInv == IndInv /\ [Next]_vars => IndInv'
<1> SUFFICES ASSUME IndInv, [Next]_vars PROVE IndInv'
  OBVIOUS
<1>1. ASSUME NEW r \in Requests, Start(r) \/ Crash(r) PROVE IndInv'
  BY <1>1, StartInv, CrashInv
<1>2. ASSUME NEW r \in Requests, RequestStep(r) PROVE IndInv'
  BY <1>2, ExistsFoundInv, ExistsNewInv, RouteInv, ReadInv, LearnInv, LockStepInv, WaitInv,
     DetourInv, RenameInv, UpdateInv, FreeInv DEF RequestStep
<1>3. ASSUME NEW p \in Procs, DeleteStep(p) PROVE IndInv'
  BY <1>3, UnlinkInv, DeleteEndInv, ForcedExpireInv DEF DeleteStep
<1>4. CASE ManagerStep
  BY <1>3, <1>4, ManagerFacts, ManagerStartInv, ExpireInv, ManagerSizeInv DEF ManagerStep
<1>5. CASE LoaderStep
  BY <1>5, LoaderMoveInv, LoaderAddInv DEF LoaderStep
<1>6. CASE NodeExpires
  BY <1>6, NodeExpiresInv
<1>7. ASSUME NEW k \in Keys, FileExpires(k) PROVE IndInv'
  BY <1>7, FileExpiresInv
<1>8. ASSUME NEW n \in Nodes, ErrorExpires(n) PROVE IndInv'
  BY <1>8, ErrorExpiresInv
<1>9. CASE UNCHANGED vars
  BY <1>9, StutterInv
<1> QED
  BY <1>1, <1>2, <1>3, <1>4, <1>5, <1>6, <1>7, <1>8, <1>9, ManagerFacts DEF Next

\* The inductive invariant holds in every state, for any number of requests, nodes and keys and
\* any interleaving with the manager, the loader and crashes: types, the places of the processes,
\* reference counts, queue and tree, and the owner of an updating flag.
THEOREM FileCacheInvariant == Spec => []IndInv
<1>1. Init => IndInv
  BY InitInv
<1>2. IndInv /\ [Next]_vars => IndInv'
  BY StepInv
<1> QED
  BY <1>1, <1>2, PTL DEF Spec

\* ngx_http_file_cache_node_t.count is the number of requests that hold the node, plus one for a
\* deletion that has released the mutex, plus what crashed workers leaked: no node is freed while
\* somebody uses it, and none is kept by a reference nobody has.
THEOREM RefCountsHold == Spec => []RefCounts
<1>1. IndInv => RefCounts
  BY DEF IndInv
<1> QED
  BY <1>1, FileCacheInvariant, PTL

\* The LRU queue holds exactly the nodes of the tree, each once, with the inactive ones last, so
\* that ngx_http_file_cache_expire, which stops at the first active node, misses none.
THEOREM QueueMatches == Spec => []QueueMatchesTree
<1>1. IndInv => QueueMatchesTree
  BY DEF IndInv
<1> QED
  BY <1>1, FileCacheInvariant, PTL

\* A node flagged updating is held by a request that updates it or was leaked by a crashed worker:
\* nobody waits in ngx_http_file_cache_lock for an update that no one makes.
THEOREM UpdatingOwned == Spec => []UpdatingHasOwner
<1>1. IndInv => UpdatingHasOwner
  BY DEF IndInv
<1> QED
  BY <1>1, FileCacheInvariant, PTL

-----------------------------------------------------------------------------
(* One request fetches a key, when nobody passes the lock of its node *)

\* A request that updates is at a place where it holds its node, which is flagged.
LEMMA UpdaterFacts ==
    ASSUME IndInv, LockInv, NEW q \in Requests, Updates(q)
    PROVE  /\ pc[q] \in {"fetch", "hit", "update"} /\ c[q].node \in Nodes
           /\ q \in Held(c[q].node) /\ node[c[q].node].updating
<1>1. pc[q] \in {"fetch", "hit", "update"} /\ node[c[q].node].updating
  BY DEF LockInv, Updates
<1>2. pc[q] \in Holding
  BY <1>1 DEF Holding
<1> QED
  BY <1>1, <1>2, RequestFacts DEF Held

\* A request moves, and the flags of the nodes the others update stay.
LEMMA LockMoveInv ==
    ASSUME IndInv, LockInv, NEW r \in Requests, OthersStay(r),
           \A q \in Requests : q # r /\ Updates(q) => node'[c[q].node].updating,
           pc'[r] # "idle" => c'[r].lock /\ ~c'[r].bypass,
           c'[r].updating => pc'[r] \in {"fetch", "hit"},
           pc'[r] = "fetch" /\ c'[r].cacheable => c'[r].updating,
           Updates(r)' => /\ node'[c'[r].node].updating
                          /\ \/ Updates(r) /\ c'[r].node = c[r].node
                             \/ ~node[c'[r].node].updating
    PROVE  LockInv'
<1>1. \A q \in Requests : q # r => c'[q] = c[q] /\ pc'[q] = pc[q] /\ (Updates(q)' <=> Updates(q))
  BY DEF OthersStay, Updates, Procs
<1>2. ASSUME NEW q \in Requests
      PROVE  /\ pc'[q] # "idle" => c'[q].lock /\ ~c'[q].bypass
             /\ c'[q].updating => pc'[q] \in {"fetch", "hit"}
             /\ pc'[q] = "fetch" /\ c'[q].cacheable => c'[q].updating
             /\ Updates(q)' => node'[c'[q].node].updating
  <2>1. CASE q = r
    BY <2>1
  <2>2. CASE q # r
    BY <1>1, <2>2 DEF LockInv
  <2> QED
    BY <2>1, <2>2
<1>3. ASSUME NEW q \in Requests, q # r, Updates(q)', Updates(r)', c'[q].node = c'[r].node
      PROVE  FALSE
  <2>1. Updates(q) /\ c[q].node = c'[q].node
    BY <1>1, <1>3
  <2>2. node[c[q].node].updating
    BY <2>1, UpdaterFacts
  <2>3. Updates(r) /\ c'[r].node = c[r].node
    BY <1>3, <2>1, <2>2
  <2> QED
    BY <1>3, <2>1, <2>3 DEF LockInv
<1>4. ASSUME NEW q \in Requests, NEW t \in Requests, Updates(q)', Updates(t)',
             c'[q].node = c'[t].node
      PROVE  q = t
  <2>1. CASE q # r /\ t # r
    BY <1>1, <1>4, <2>1 DEF LockInv
  <2>2. CASE q = r \/ t = r
    BY <1>3, <1>4, <2>2
  <2> QED
    BY <2>1, <2>2
<1> QED
  BY <1>2, <1>4 DEF LockInv

\* The same when no flag is cleared at all.
LEMMA LockGrowInv ==
    ASSUME IndInv, LockInv, NEW r \in Requests, OthersStay(r),
           \A m \in Nodes : node[m].updating => node'[m].updating,
           pc'[r] # "idle" => c'[r].lock /\ ~c'[r].bypass,
           c'[r].updating => pc'[r] \in {"fetch", "hit"},
           pc'[r] = "fetch" /\ c'[r].cacheable => c'[r].updating,
           Updates(r)' => /\ node'[c'[r].node].updating
                          /\ \/ Updates(r) /\ c'[r].node = c[r].node
                             \/ ~node[c'[r].node].updating
    PROVE  LockInv'
<1>1. \A q \in Requests : q # r /\ Updates(q) => node'[c[q].node].updating
  BY UpdaterFacts
<1> QED
  BY <1>1, LockMoveInv

LockPlaces == {"idle", "fetch", "hit", "update"}

\* A step beside the requests keeps the flags of the nodes that are held.
LEMMA LockAsideInv ==
    ASSUME IndInv, LockInv, c' = c,
           \A q \in Requests : \/ pc'[q] = pc[q]
                               \/ pc'[q] \notin LockPlaces /\ pc[q] \notin LockPlaces,
           \A m \in Nodes : Held(m) # {} => (node'[m].updating <=> node[m].updating)
    PROVE  LockInv'
<1>1. \A q \in Requests : Updates(q)' <=> Updates(q)
  BY DEF Updates, LockPlaces
<1>2. \A q \in Requests : Updates(q) => node'[c[q].node].updating
  BY UpdaterFacts
<1>3. ASSUME NEW q \in Requests
      PROVE  /\ pc'[q] # "idle" => c'[q].lock /\ ~c'[q].bypass
             /\ c'[q].updating => pc'[q] \in {"fetch", "hit"}
             /\ pc'[q] = "fetch" /\ c'[q].cacheable => c'[q].updating
             /\ Updates(q)' => node'[c'[q].node].updating
  BY <1>1, <1>2 DEF LockInv, LockPlaces
<1>4. \A q, t \in Requests : Updates(q)' /\ Updates(t)' /\ c'[q].node = c'[t].node => q = t
  BY <1>1 DEF LockInv
<1> QED
  BY <1>3, <1>4 DEF LockInv

\* Nobody holds a node that a deletion or an expiry frees.
LEMMA ReleaseFlags ==
    ASSUME IndInv, NEW n \in Nodes, Release(n),
           node[n].count = 0 \/ (node[n].count = 1 /\ Deleters(n) # {}),
           NEW m \in Nodes, Held(m) # {}
    PROVE  node'[m].updating <=> node[m].updating
<1>1. TypeOK /\ RefCounts
  BY DEF IndInv
<1>2. Counted(n) /\ leaked[n] \in Nat
  BY <1>1, RefCountsCounted DEF TypeOK
<1>3. Held(n) = {}
  BY <1>2, CountZero
<1> QED
  BY <1>1, <1>3 DEF TypeOK, Release

\* The beginning of a deletion changes no flag updating.
LEMMA DeleteFileFlags ==
    ASSUME IndInv, NEW n \in Nodes, NEW p, NEW to, DeleteFile(p, n, to), NEW m \in Nodes
    PROVE  node'[m].updating <=> node[m].updating
<1>1. node \in [Nodes -> NodeRecords] /\ node[n] \in NodeRecords
  BY DEF IndInv, TypeOK
<1> DEFINE y == [node[n] EXCEPT !.count = @ + 1, !.deleting = TRUE]
<1>2. y.updating = node[n].updating
  BY <1>1 DEF NodeRecords
<1>3. node' = [node EXCEPT ![n] = y]
  BY DEF DeleteFile
<1> HIDE DEF y
<1> QED
  BY <1>1, <1>2, <1>3

\* Where a process may go without touching what LockInv says of the requests.
LEMMA AsideGoto ==
    ASSUME TypeOK, NEW p \in Procs, NEW to, Goto(p, to),
           p = Manager \/ (pc[p] \notin LockPlaces /\ to \notin LockPlaces),
           NEW q \in Requests
    PROVE  \/ pc'[q] = pc[q]
           \/ pc'[q] \notin LockPlaces /\ pc[q] \notin LockPlaces
<1>1. q \in Procs /\ q # Manager
  BY ProcessAssumption DEF Procs
<1>2. pc' = [pc EXCEPT ![p] = to] /\ pc \in [Procs -> RequestPcs \union ManagerPcs]
  BY DEF Goto, TypeOK
<1> QED
  BY <1>1, <1>2

\* The deletion of a file preserves LockInv.
LEMMA DeleteStepLock ==
    ASSUME IndInv, LockInv, NEW p \in Procs, DeleteStep(p)
    PROVE  LockInv'
<1>1. /\ TypeOK /\ QueueMatchesTree /\ PlacesOK /\ RefCounts /\ queue \in Seq(Nodes)
      /\ (p # Manager => pc[p] \in RequestPcs)
  BY ProcFacts DEF TypeOK
<1>2. c' = c
  BY DEF DeleteStep, Unlink, DeleteEnd, ForcedExpire
<1>3. CASE Unlink(p)
  <2> DEFINE to == IF pc[p] = "expire_unlink" THEN "expire_end" ELSE "forced_end"
  <2>1. Goto(p, to) /\ pc[p] \notin LockPlaces /\ to \notin LockPlaces /\ node' = node
    BY <1>3 DEF Unlink, LockPlaces, shared
  <2> HIDE DEF to
  <2>2. \A q \in Requests : \/ pc'[q] = pc[q]
                            \/ pc'[q] \notin LockPlaces /\ pc[q] \notin LockPlaces
    BY <1>1, <2>1, AsideGoto
  <2> QED
    BY <1>2, <2>1, <2>2, LockAsideInv
<1>4. CASE DeleteEnd(p)
  <2>1. /\ pc[p] \in {"expire_end", "forced_end"} /\ DeletedNode(del[p])
        /\ \/ Goto(p, "expire") /\ pc[p] = "expire_end"
           \/ Goto(p, IF p = Manager THEN "size" ELSE "alloc")
    BY <1>4 DEF DeleteEnd
  <2>2. PICK to \in {"expire", "size", "alloc"} : Goto(p, to)
    BY <2>1
  <2>3. /\ pc[p] \notin LockPlaces /\ to \notin LockPlaces /\ pc[p] \in Deleting
    BY <2>1 DEF LockPlaces, Deleting
  <2>4. \A q \in Requests : \/ pc'[q] = pc[q]
                            \/ pc'[q] \notin LockPlaces /\ pc[q] \notin LockPlaces
    BY <1>1, <2>2, <2>3, AsideGoto
  <2>5. PICK n \in Nodes : n = del[p] /\ p \in Deleters(n)
    BY <1>1, <2>3 DEF PlacesOK, TypeOK, Deleters
  <2>6. node \in [Nodes -> NodeRecords] /\ node[n] \in NodeRecords /\ node[n].count \in Int
    BY <1>1 DEF TypeOK, NodeRecords
  <2>7. Undeleted(n).updating = node[n].updating /\ Undeleted(n).count = node[n].count - 1
    BY <2>6 DEF Undeleted, NodeRecords
  <2>8. \A m \in Nodes : Held(m) # {} => (node'[m].updating <=> node[m].updating)
    <3>1. CASE Undeleted(n).count = 0
      <4>1. Release(n) /\ node[n].count = 1 /\ Deleters(n) # {}
        BY <2>1, <2>5, <2>6, <2>7, <3>1 DEF DeletedNode
      <4> QED
        BY <4>1, ReleaseFlags
    <3>2. CASE Undeleted(n).count # 0
      <4>1. node' = [node EXCEPT ![n] = Undeleted(n)]
        BY <2>1, <2>5, <3>2 DEF DeletedNode
      <4> QED
        BY <2>6, <2>7, <4>1
    <3> QED
      BY <3>1, <3>2
  <2> QED
    BY <1>2, <2>4, <2>8, LockAsideInv
<1>5. CASE ForcedExpire(p)
  <2>1. pc[p] = "forced" /\ pc[p] \notin LockPlaces
    BY <1>5 DEF ForcedExpire, LockPlaces
  <2> DEFINE n == Oldest(Min(Idle))
  <2>2. PICK to \in {"idle", "alloc", "size", "forced_unlink"} :
             Goto(p, to) /\ (p # Manager => to # "idle")
    BY <1>5 DEF ForcedExpire, DeleteFile
  <2>3. p = Manager \/ to \notin LockPlaces
    BY <2>2 DEF LockPlaces
  <2>4. \A q \in Requests : \/ pc'[q] = pc[q]
                            \/ pc'[q] \notin LockPlaces /\ pc[q] \notin LockPlaces
    BY <1>1, <2>1, <2>2, <2>3, AsideGoto
  <2>5. \/ node' = node
        \/ Idle # {} /\ DeleteFile(p, n, "forced_unlink")
        \/ Idle # {} /\ Release(n)
    BY <1>5 DEF ForcedExpire
  <2>6. Idle # {} => n \in Nodes /\ node[n].count = 0
    BY <1>1, OldestIdle
  <2> HIDE DEF n
  <2>7. \A m \in Nodes : Held(m) # {} => (node'[m].updating <=> node[m].updating)
    BY <2>5, <2>6, ReleaseFlags, DeleteFileFlags
  <2> QED
    BY <1>2, <2>4, <2>7, LockAsideInv
<1> QED
  BY <1>3, <1>4, <1>5 DEF DeleteStep

\* A step of the manager preserves LockInv.
LEMMA ManagerStepLock ==
    ASSUME IndInv, LockInv, ManagerStep
    PROVE  LockInv'
<1>1. /\ TypeOK /\ QueueMatchesTree /\ queue \in Seq(Nodes)
  BY DEF IndInv, TypeOK
<1>2. CASE DeleteStep(Manager)
  BY <1>2, DeleteStepLock, ManagerFacts
<1>3. CASE ManagerStart \/ Expire \/ ManagerSize
  <2>1. c' = c
    BY <1>3 DEF ManagerStart, Expire, ManagerSize
  <2>2. pc' = pc \/ \E to \in {"expire", "size", "idle", "forced", "expire_unlink"} : Goto(Manager, to)
    BY <1>3 DEF ManagerStart, Expire, ManagerSize, DeleteFile
  <2>3. \A q \in Requests : pc'[q] = pc[q]
    BY <1>1, <2>2, ManagerFacts DEF Goto, TypeOK
  <2> DEFINE n == Oldest(1)
  <2>4. \/ node' = node
        \/ TailInactive /\ node[n].count = 0 /\ DeleteFile(Manager, n, "expire_unlink")
        \/ TailInactive /\ node[n].count = 0 /\ Release(n)
    BY <1>3 DEF ManagerStart, Expire, ManagerSize, shared
  <2>5. TailInactive => n \in Nodes
    <3>1. TailInactive => 1 \in 1..Len(queue)
      BY <1>1 DEF TailInactive
    <3> QED
      BY <1>1, <3>1, OldestFacts
  <2> HIDE DEF n
  <2>6. \A m \in Nodes : Held(m) # {} => (node'[m].updating <=> node[m].updating)
    BY <2>4, <2>5, ReleaseFlags, DeleteFileFlags
  <2> QED
    BY <2>1, <2>3, <2>6, LockAsideInv
<1> QED
  BY <1>2, <1>3 DEF ManagerStep

\* A step of the loader preserves LockInv.
LEMMA LoaderStepLock ==
    ASSUME IndInv, LockInv, LoaderStep
    PROVE  LockInv'
<1>1. TypeOK /\ PlacesOK /\ node \in [Nodes -> NodeRecords]
  BY DEF IndInv, TypeOK
<1>2. c' = c /\ pc' = pc
  BY DEF LoaderStep, LoaderStart, LoaderVisit, LoaderAdd, LoaderDrop, LoaderEnd
<1> DEFINE y == [FreeNode EXCEPT !.key = load.key, !.uses = 1, !.exists = TRUE,
                                 !.size = load.size]
<1>3. y.updating = FreeNode.updating
  BY DEF FreeNode
<1>4. node' = node \/ \E n \in Nodes \ Allocated : node' = [node EXCEPT ![n] = y]
  BY DEF LoaderStep, LoaderStart, LoaderVisit, LoaderAdd, LoaderDrop, LoaderEnd, shared
<1> HIDE DEF y
<1>5. \A n \in Nodes \ Allocated : node[n] = FreeNode
  BY <1>1 DEF PlacesOK, Allocated
<1>6. \A m \in Nodes : node'[m].updating <=> node[m].updating
  BY <1>1, <1>3, <1>4, <1>5
<1> QED
  BY <1>2, <1>6, LockAsideInv

\* Time preserves LockInv.
LEMMA TimeLock ==
    ASSUME IndInv, LockInv,
           \/ NodeExpires \/ (\E k \in Keys : FileExpires(k)) \/ (\E n \in Nodes : ErrorExpires(n))
           \/ UNCHANGED vars
    PROVE  LockInv'
<1>1. node \in [Nodes -> NodeRecords]
  BY DEF IndInv, TypeOK
<1>2. c' = c /\ pc' = pc
  BY DEF NodeExpires, FileExpires, ErrorExpires, vars
<1>3. node' = node \/ \E n \in Nodes : node' = [node EXCEPT ![n].error = "expired"]
  BY DEF NodeExpires, FileExpires, ErrorExpires, vars, shared
<1>4. \A m \in Nodes : node'[m].updating <=> node[m].updating
  <2>1. CASE \E n \in Nodes : node' = [node EXCEPT ![n].error = "expired"]
    <3>1. PICK n \in Nodes : node' = [node EXCEPT ![n].error = "expired"]
      BY <2>1
    <3> DEFINE y == [node[n] EXCEPT !.error = "expired"]
    <3>2. node' = [node EXCEPT ![n] = y]
      BY <3>1
    <3>3. y.updating = node[n].updating
      BY <1>1 DEF NodeRecords
    <3> HIDE DEF y
    <3> QED
      BY <1>1, <3>2, <3>3
  <2> QED
    BY <1>3, <2>1
<1> QED
  BY <1>2, <1>4, LockAsideInv

\* A request and only that request moves in its step.
LEMMA StepFrame ==
    ASSUME TypeOK, NEW r \in Requests, NEW to, Goto(r, to), NEW x, c' = [c EXCEPT ![r] = x]
    PROVE  OthersStay(r) /\ pc'[r] = to /\ c'[r] = x
BY DEF TypeOK, Goto, OthersStay, Procs

FlagsGrow == \A m \in Nodes : node[m].updating => node'[m].updating

\* A request that does not update its node after the step.
LEMMA LockFarInv ==
    ASSUME IndInv, LockInv, NEW r \in Requests, OthersStay(r), FlagsGrow,
           ~c'[r].updating, pc'[r] # "update", pc'[r] = "fetch" => ~c'[r].cacheable,
           pc'[r] # "idle" => c'[r].lock /\ ~c'[r].bypass
    PROVE  LockInv'
<1>1. ~Updates(r)'
  BY DEF Updates
<1> QED
  BY <1>1, LockGrowInv DEF FlagsGrow

\* What the two invariants say of one request.
LEMMA LockRequestFacts ==
    ASSUME IndInv, LockInv, NEW r \in Requests
    PROVE  /\ TypeOK /\ c[r] \in CacheRecords /\ c = [c EXCEPT ![r] = c[r]]
           /\ pc[r] # "idle" => c[r].lock /\ ~c[r].bypass
           /\ pc[r] \notin {"fetch", "hit"} => ~c[r].updating
           /\ pc[r] = "fetch" /\ c[r].cacheable => c[r].updating
           /\ Updates(r) => node[c[r].node].updating
<1>1. TypeOK /\ c[r] \in CacheRecords
  BY RequestFacts
<1> QED
  BY <1>1 DEF TypeOK, LockInv

\* A request that starts or leaves its worker preserves LockInv.
LEMMA StartLock ==
    ASSUME IndInv, LockInv, LockStrict, NEW r \in Requests, Start(r) \/ Crash(r)
    PROVE  LockInv'
<1>1. TypeOK /\ FlagsGrow
  BY DEF Start, Crash, shared, FlagsGrow, IndInv
<1>2. CASE Start(r)
  <2>1. PICK k \in Keys, bypass \in {FALSE, Bypass} :
          c' = [c EXCEPT ![r] = [NoCache EXCEPT !.key = k, !.bypass = bypass,
                                    !.lock = Lock, !.cacheable = TRUE]]
    BY <1>2 DEF Start
  <2> DEFINE x == [NoCache EXCEPT !.key = k, !.bypass = bypass, !.lock = Lock, !.cacheable = TRUE]
  <2>2. ~bypass /\ Lock
    <3>1. Bypass = FALSE /\ Lock
      BY SettingAssumption DEF LockStrict
    <3>2. bypass = FALSE
      BY <2>1, <3>1
    <3> QED
      BY <3>1, <3>2
  <2>3. NoCache \in CacheRecords /\ ~NoCache.updating
    BY InitialRecords DEF NoCache
  <2>4. x.updating = NoCache.updating /\ x.lock = Lock /\ x.bypass = bypass
    <3> HIDE DEF NoCache
    <3> QED
      BY <2>3 DEF CacheRecords
  <2>5. c' = [c EXCEPT ![r] = x] /\ Goto(r, "exists")
    BY <1>2, <2>1 DEF Start
  <2> HIDE DEF x
  <2>6. OthersStay(r) /\ pc'[r] = "exists" /\ c'[r] = x
    BY <1>1, <2>5, StepFrame
  <2> QED
    BY <1>1, <2>2, <2>3, <2>4, <2>6, LockFarInv
<1>3. CASE Crash(r)
  <2>1. c' = [c EXCEPT ![r] = NoCache] /\ Goto(r, "idle") /\ ~NoCache.updating
    BY <1>3 DEF Crash, NoCache
  <2>2. OthersStay(r) /\ pc'[r] = "idle" /\ c'[r] = NoCache
    BY <1>1, <2>1, StepFrame
  <2> QED
    BY <1>1, <2>1, <2>2, LockFarInv
<1> QED
  BY <1>2, <1>3

\* The flag of a node a request takes or finds again stays as it is.
LEMMA ExistsLock ==
    ASSUME IndInv, LockInv, NEW r \in Requests, ExistsFound(r) \/ ExistsNew(r) \/ ExistsRetry(r)
    PROVE  LockInv'
<1>1. /\ TypeOK /\ c[r] \in CacheRecords /\ c = [c EXCEPT ![r] = c[r]]
      /\ pc[r] \in {"exists", "alloc"} /\ c[r].lock /\ ~c[r].bypass /\ ~c[r].updating
  BY LockRequestFacts DEF ExistsFound, ExistsNew, ExistsRetry
<1>2. AfterExists(r) = "route"
  BY <1>1 DEF AfterExists
<1>3. node \in [Nodes -> NodeRecords] /\ PlacesOK
  BY DEF IndInv, TypeOK
<1>4. CASE ExistsFound(r)
  <2> DEFINE F(n) == Taken(r, n)
             Y(n) == IF F(n).error = "expired"
                       THEN [F(n) EXCEPT !.error = "none", !.exists = FALSE, !.size = 0]
                       ELSE F(n)
             RC(n) == CASE F(n).error = "fresh" -> "error"
                        [] F(n).error = "expired" -> "declined"
                        [] F(n).error = "none" /\ (F(n).exists \/ F(n).uses >= MinUses) -> "ok"
                        [] OTHER -> "again"
             X(n) == [c[r] EXCEPT !.node = n, !.rc = RC(n), !.error = RC(n) = "error",
                                  !.exists = RC(n) = "ok" /\ F(n).exists]
  <2>1. PICK n \in IF c[r].node # None THEN {c[r].node} ELSE Lookup(c[r].key) :
           /\ node' = [node EXCEPT ![n] = Y(n)]
           /\ c' = [c EXCEPT ![r].node = n, ![r].rc = RC(n), ![r].error = RC(n) = "error",
                             ![r].exists = RC(n) = "ok" /\ F(n).exists]
    BY <1>4 DEF ExistsFound
  <2>2. n \in Nodes
    BY <1>1, <2>1 DEF CacheRecords, Lookup, Allocated
  <2>3. F(n).updating = node[n].updating /\ F(n) \in NodeRecords
    <3>1. node[n] \in NodeRecords
      BY <1>3, <2>2
    <3> DEFINE f == [node[n] EXCEPT !.uses = (@ + 1) % UsesMod, !.count = @ + 1]
    <3>2. (node[n].uses + 1) % UsesMod \in 0..(UsesMod - 1) /\ node[n].count + 1 \in Int
      <4>1. node[n].uses \in Nat /\ node[n].count \in Int /\ UsesMod \in Nat \ {0}
        BY <3>1, SettingAssumption DEF NodeRecords
      <4> QED
        BY <4>1
    <3>3. f \in NodeRecords /\ f.updating = node[n].updating
      BY <3>1, <3>2 DEF NodeRecords
    <3>4. F(n) = IF c[r].node # None THEN node[n] ELSE f
      BY DEF Taken
    <3> HIDE DEF F, f
    <3> QED
      BY <3>1, <3>3, <3>4
  <2> HIDE DEF F
  <2>4. Y(n).updating = node[n].updating
    BY <2>3 DEF NodeRecords
  <2> HIDE DEF Y, RC
  <2>5. X(n).updating = c[r].updating /\ X(n).lock = c[r].lock /\ X(n).bypass = c[r].bypass
    BY <1>1 DEF CacheRecords
  <2>6. c' = [c EXCEPT ![r] = X(n)]
    BY <2>1
  <2> HIDE DEF X
  <2>7. FlagsGrow
    BY <1>3, <2>1, <2>2, <2>4 DEF FlagsGrow
  <2>8. Goto(r, "route")
    BY <1>2, <1>4 DEF ExistsFound
  <2>9. OthersStay(r) /\ pc'[r] = "route" /\ c'[r] = X(n)
    BY <1>1, <2>6, <2>8, StepFrame
  <2> QED
    BY <1>1, <2>5, <2>7, <2>9, LockFarInv
<1>5. CASE \E n \in Nodes \ Allocated : Insert(r, n)
  <2>1. PICK n \in Nodes \ Allocated : Insert(r, n)
    BY <1>5
  <2> DEFINE x == [c[r] EXCEPT !.node = n, !.rc = "declined"]
  <2>2. c' = [c EXCEPT ![r] = x] /\ Goto(r, "route")
    BY <1>2, <2>1 DEF Insert
  <2>3. x.updating = c[r].updating /\ x.lock = c[r].lock /\ x.bypass = c[r].bypass
    BY <1>1 DEF CacheRecords
  <2> HIDE DEF x
  <2>4. node[n] = FreeNode /\ ~FreeNode.updating
    BY <1>3, <2>1 DEF PlacesOK, Allocated, FreeNode
  <2>5. FlagsGrow
    BY <1>3, <2>1, <2>4 DEF Insert, FlagsGrow
  <2>6. OthersStay(r) /\ pc'[r] = "route" /\ c'[r] = x
    BY <1>1, <2>2, StepFrame
  <2> QED
    BY <1>1, <2>3, <2>5, <2>6, LockFarInv
<1>6. CASE /\ \/ c' = c /\ Goto(r, "forced")
              \/ c' = [c EXCEPT ![r] = NoCache] /\ Goto(r, "idle")
           /\ node' = node
  <2>1. ~NoCache.updating
    BY DEF NoCache
  <2>2. FlagsGrow
    BY <1>6 DEF FlagsGrow
  <2>3. CASE c' = c /\ Goto(r, "forced")
    <3>1. OthersStay(r) /\ pc'[r] = "forced" /\ c'[r] = c[r]
      BY <1>1, <2>3, StepFrame
    <3> QED
      BY <1>1, <2>2, <3>1, LockFarInv
  <2>4. CASE c' = [c EXCEPT ![r] = NoCache] /\ Goto(r, "idle")
    <3>1. OthersStay(r) /\ pc'[r] = "idle" /\ c'[r] = NoCache
      BY <1>1, <2>4, StepFrame
    <3> QED
      BY <2>1, <2>2, <3>1, LockFarInv
  <2> QED
    BY <1>6, <2>3, <2>4
<1>7. CASE ExistsNew(r)
  <2>1. \/ Goto(r, "forced") /\ c' = c /\ node' = node
        \/ \E n \in Nodes \ Allocated : Insert(r, n)
    BY <1>7 DEF ExistsNew
  <2>2. CASE Goto(r, "forced") /\ c' = c /\ node' = node
    BY <1>6, <2>2
  <2> QED
    BY <1>5, <2>1, <2>2
<1>8. CASE ExistsRetry(r)
  <2>1. \/ Goto(r, "idle") /\ c' = [c EXCEPT ![r] = NoCache] /\ node' = node
        \/ \E n \in Nodes \ Allocated : Insert(r, n)
    BY <1>8 DEF ExistsRetry
  <2>2. CASE Goto(r, "idle") /\ c' = [c EXCEPT ![r] = NoCache] /\ node' = node
    BY <1>6, <2>2
  <2> QED
    BY <1>5, <2>1, <2>2
<1> QED
  BY <1>4, <1>7, <1>8

\* A step from a place where the request does not update anything.
LEMMA RouteLock ==
    ASSUME IndInv, LockInv, NEW r \in Requests, Route(r)
    PROVE  LockInv'
<1>1. /\ TypeOK /\ c[r] \in CacheRecords /\ pc[r] = "route" /\ c[r].lock /\ ~c[r].bypass
      /\ ~c[r].updating /\ node' = node
  BY LockRequestFacts DEF Route, shared
<1> DEFINE rare == c[r].rc = "declined" /\ MinUses > 1
           x0 == [c[r] EXCEPT !.rc = "none"]
           x1 == [c[r] EXCEPT !.rc = "none", !.cacheable = FALSE]
           x2 == [c[r] EXCEPT !.rc = "none", !.cacheable = ~rare]
           x3 == [c[r] EXCEPT !.rc = "none", !.fd = file[c[r].key]]
<1>2. \A x \in {x0, x1, x2, x3} :
         x.updating = c[r].updating /\ x.lock = c[r].lock /\ x.bypass = c[r].bypass
  BY <1>1 DEF CacheRecords
<1>3. x1.cacheable = FALSE /\ x2.cacheable = ~rare
  BY <1>1 DEF CacheRecords
<1>4. \/ c' = [c EXCEPT ![r] = x0] /\ Goto(r, "done")
      \/ c' = [c EXCEPT ![r] = x1] /\ Goto(r, "fetch")
      \/ c' = [c EXCEPT ![r] = x2] /\ Goto(r, IF rare THEN "fetch" ELSE "lock")
      \/ c' = [c EXCEPT ![r] = x3] /\ Goto(r, "read")
  BY DEF Route
<1> HIDE DEF x0, x1, x2, x3, rare
<1>5. FlagsGrow
  BY <1>1 DEF FlagsGrow
<1>6. CASE c' = [c EXCEPT ![r] = x2] /\ Goto(r, IF rare THEN "fetch" ELSE "lock")
  <2>1. OthersStay(r) /\ pc'[r] = (IF rare THEN "fetch" ELSE "lock") /\ c'[r] = x2
    BY <1>1, <1>6, StepFrame
  <2> QED
    BY <1>1, <1>2, <1>3, <1>5, <2>1, LockFarInv
<1>7. CASE c' = [c EXCEPT ![r] = x0] /\ Goto(r, "done")
  <2>1. OthersStay(r) /\ pc'[r] = "done" /\ c'[r] = x0
    BY <1>1, <1>7, StepFrame
  <2> QED
    BY <1>1, <1>2, <1>5, <2>1, LockFarInv
<1>8. CASE c' = [c EXCEPT ![r] = x1] /\ Goto(r, "fetch")
  <2>1. OthersStay(r) /\ pc'[r] = "fetch" /\ c'[r] = x1
    BY <1>1, <1>8, StepFrame
  <2> QED
    BY <1>1, <1>2, <1>3, <1>5, <2>1, LockFarInv
<1>9. CASE c' = [c EXCEPT ![r] = x3] /\ Goto(r, "read")
  <2>1. OthersStay(r) /\ pc'[r] = "read" /\ c'[r] = x3
    BY <1>1, <1>9, StepFrame
  <2> QED
    BY <1>1, <1>2, <1>5, <2>1, LockFarInv
<1> QED
  BY <1>4, <1>6, <1>7, <1>8, <1>9

\* A request that reads its file preserves LockInv.
LEMMA ReadLock ==
    ASSUME IndInv, LockInv, LockStrict, NEW r \in Requests, Read(r) \/ Learn(r)
    PROVE  LockInv'
<1>1. /\ TypeOK /\ c[r] \in CacheRecords /\ c = [c EXCEPT ![r] = c[r]]
      /\ pc[r] \in {"read", "learn"} /\ c[r].lock /\ ~c[r].bypass /\ ~c[r].updating
  BY LockRequestFacts DEF Read, Learn
<1> DEFINE x == [c[r] EXCEPT !.fd = NoFile]
<1>2. x.updating = c[r].updating /\ x.lock = c[r].lock /\ x.bypass = c[r].bypass
  BY <1>1 DEF CacheRecords
<1>3. AfterRead(r) \in {"hit", "stale"}
  BY DEF AfterRead
<1>4. ~Faults
  BY DEF LockStrict
<1>5. \E to \in {"hit", "stale", "learn"} :
         Goto(r, to) /\ (c' = [c EXCEPT ![r] = x] \/ c' = c)
  <2>1. CASE Read(r)
    <3>1. \/ Goto(r, "learn") /\ c' = c
          \/ Goto(r, AfterRead(r)) /\ c' = [c EXCEPT ![r] = x]
      BY <1>4, <2>1 DEF Read
    <3> HIDE DEF x
    <3> QED
      BY <1>3, <3>1
  <2>2. CASE Learn(r)
    <3>1. Goto(r, AfterRead(r)) /\ c' = [c EXCEPT ![r] = x]
      BY <2>2 DEF Learn
    <3> HIDE DEF x
    <3> QED
      BY <1>3, <3>1
  <2> QED
    BY <2>1, <2>2
<1> HIDE DEF x
<1>6. PICK to \in {"hit", "stale", "learn"} :
         Goto(r, to) /\ (c' = [c EXCEPT ![r] = x] \/ c' = c)
  BY <1>5
<1>7. FlagsGrow
  <2>1. CASE Read(r)
    BY <2>1 DEF Read, shared, FlagsGrow
  <2>2. CASE Learn(r)
    <3> DEFINE n == c[r].node
               y == [node[n] EXCEPT !.uses = 1, !.exists = TRUE, !.size = c[r].fd.size]
    <3>1. n \in Nodes /\ node \in [Nodes -> NodeRecords] /\ node[n] \in NodeRecords
      <4>1. pc[r] \in Holding
        BY <1>1 DEF Holding
      <4> QED
        BY <1>1, <4>1, RequestFacts DEF TypeOK
    <3>2. y.updating = node[n].updating
      BY <3>1 DEF NodeRecords
    <3>3. node' = node \/ node' = [node EXCEPT ![n] = y]
      BY <2>2 DEF Learn
    <3> HIDE DEF y, n
    <3> QED
      BY <3>1, <3>2, <3>3 DEF FlagsGrow
  <2> QED
    BY <2>1, <2>2
<1>8. CASE c' = c
  <2>1. OthersStay(r) /\ pc'[r] = to /\ c'[r] = c[r]
    BY <1>1, <1>6, <1>8, StepFrame
  <2> QED
    BY <1>1, <1>6, <1>7, <2>1, LockFarInv
<1>9. CASE c' = [c EXCEPT ![r] = x]
  <2>1. OthersStay(r) /\ pc'[r] = to /\ c'[r] = x
    BY <1>1, <1>6, <1>9, StepFrame
  <2> QED
    BY <1>1, <1>2, <1>6, <1>7, <2>1, LockFarInv
<1> QED
  BY <1>6, <1>8, <1>9

\* A request that finds its node unmarked becomes the one that updates it.
LEMMA MarkLock ==
    ASSUME IndInv, LockInv, LockStrict, NEW r \in Requests, ReadStale(r) \/ TakeLock(r)
    PROVE  LockInv'
<1>1. /\ TypeOK /\ c[r] \in CacheRecords /\ c = [c EXCEPT ![r] = c[r]]
      /\ pc[r] \in {"stale", "lock"} /\ c[r].lock /\ ~c[r].bypass /\ ~c[r].updating
  BY LockRequestFacts DEF ReadStale, TakeLock
<1>2. PICK n \in Nodes : n = c[r].node
  <2>1. pc[r] \in Holding
    BY <1>1 DEF Holding
  <2> QED
    BY <2>1, RequestFacts
<1>3. node \in [Nodes -> NodeRecords] /\ node[n] \in NodeRecords
  BY <1>1 DEF TypeOK
<1>4. UseStale = TRUE
  BY SettingAssumption DEF LockStrict
<1> DEFINE y == [node[n] EXCEPT !.updating = TRUE]
           x0 == [c[r] EXCEPT !.updating = TRUE]
           x1 == [c[r] EXCEPT !.updating = TRUE, !.expired = TRUE]
           x2 == [c[r] EXCEPT !.expired = ~UseStale]
<1>5. \A x \in {x0, x1} : x.updating /\ x.lock = c[r].lock /\ x.bypass = c[r].bypass
                             /\ x.node = c[r].node
  BY <1>1 DEF CacheRecords
<1>6. x2.updating = c[r].updating /\ x2.lock = c[r].lock /\ x2.bypass = c[r].bypass
  BY <1>1 DEF CacheRecords
<1>7. y.updating
  BY <1>3 DEF NodeRecords
<1>8. \/ node' = node /\ c' = [c EXCEPT ![r] = x2] /\ Goto(r, "hit")
      \/ node' = node /\ c' = c /\ Goto(r, "waiting")
      \/ /\ ~node[n].updating /\ node' = [node EXCEPT ![n] = y] /\ Goto(r, "fetch")
         /\ c' = [c EXCEPT ![r] = x0] \/ c' = [c EXCEPT ![r] = x1]
  <2>1. CASE ReadStale(r) /\ node[n].updating
    <3>1. node' = node /\ c' = [c EXCEPT ![r] = x2] /\ Goto(r, "hit")
      BY <1>2, <1>4, <2>1 DEF ReadStale
    <3> QED
      BY <3>1
  <2>2. CASE ReadStale(r) /\ ~node[n].updating
    <3>1. node' = [node EXCEPT ![n] = y] /\ c' = [c EXCEPT ![r] = x1] /\ Goto(r, "fetch")
      BY <1>2, <2>2 DEF ReadStale, LockedNode
    <3> QED
      BY <2>2, <3>1
  <2>3. CASE TakeLock(r)
    <3>1. \/ node' = node /\ c' = c /\ Goto(r, "waiting")
          \/ /\ ~node[n].updating /\ node' = [node EXCEPT ![n] = y]
             /\ c' = [c EXCEPT ![r] = x0] /\ Goto(r, "fetch")
      BY <1>1, <1>2, <2>3 DEF TakeLock, LockedNode
    <3> QED
      BY <3>1
  <2> QED
    BY <2>1, <2>2, <2>3
<1> HIDE DEF x0, x1, x2, y
<1>9. CASE node' = node /\ c' = [c EXCEPT ![r] = x2] /\ Goto(r, "hit")
  <2>1. OthersStay(r) /\ pc'[r] = "hit" /\ c'[r] = x2
    BY <1>1, <1>9, StepFrame
  <2>2. FlagsGrow
    BY <1>9 DEF FlagsGrow
  <2> QED
    BY <1>1, <1>6, <2>1, <2>2, LockFarInv
<1>10. CASE node' = node /\ c' = c /\ Goto(r, "waiting")
  <2>1. OthersStay(r) /\ pc'[r] = "waiting" /\ c'[r] = c[r]
    BY <1>1, <1>10, StepFrame
  <2>2. FlagsGrow
    BY <1>10 DEF FlagsGrow
  <2> QED
    BY <1>1, <2>1, <2>2, LockFarInv
<1>11. CASE /\ ~node[n].updating /\ node' = [node EXCEPT ![n] = y] /\ Goto(r, "fetch")
            /\ c' = [c EXCEPT ![r] = x0] \/ c' = [c EXCEPT ![r] = x1]
  <2>1. PICK x \in {x0, x1} : c' = [c EXCEPT ![r] = x]
    BY <1>11
  <2>2. OthersStay(r) /\ pc'[r] = "fetch" /\ c'[r] = x
    BY <1>1, <1>11, <2>1, StepFrame
  <2>3. \A m \in Nodes : node[m].updating => node'[m].updating
    BY <1>3, <1>7, <1>11
  <2>4. /\ c'[r].lock /\ ~c'[r].bypass /\ c'[r].updating /\ c'[r].node = n
    BY <1>1, <1>2, <1>5, <2>1, <2>2
  <2>5. node'[c'[r].node].updating /\ ~node[c'[r].node].updating
    BY <1>3, <1>7, <1>11, <2>4
  <2>6. pc'[r] \in {"fetch", "hit"}
    BY <2>2
  <2> QED
    BY <2>2, <2>3, <2>4, <2>5, <2>6, LockGrowInv
<1> QED
  BY <1>8, <1>9, <1>10, <1>11

\* The answer of the server preserves LockInv.
LEMMA AnswerLock ==
    ASSUME IndInv, LockInv, LockStrict, NEW r \in Requests,
           WaitOver(r) \/ WaitTimeout(r) \/ Detour(r)
    PROVE  LockInv'
<1>1. /\ TypeOK /\ c = [c EXCEPT ![r] = c[r]] /\ pc[r] \in {"waiting", "hit", "fetch"}
      /\ c[r].lock /\ ~c[r].bypass
  BY LockRequestFacts DEF WaitOver, WaitTimeout, Detour
<1>2. ~Faults /\ ~TimeoutsHappen
  BY DEF LockStrict
<1>3. /\ c' = c /\ node' = node
      /\ \/ pc[r] = "waiting" /\ Goto(r, "exists")
         \/ pc[r] = "fetch" /\ Goto(r, "hit")
  BY <1>2 DEF WaitOver, WaitTimeout, Detour, shared
<1>4. CASE pc[r] = "waiting" /\ Goto(r, "exists")
  <2>1. OthersStay(r) /\ pc'[r] = "exists" /\ c'[r] = c[r]
    BY <1>1, <1>3, <1>4, StepFrame
  <2>2. ~c[r].updating
    BY <1>4, LockRequestFacts
  <2>3. FlagsGrow
    BY <1>3 DEF FlagsGrow
  <2> QED
    BY <1>1, <2>1, <2>2, <2>3, LockFarInv
<1>5. CASE pc[r] = "fetch" /\ Goto(r, "hit")
  <2>1. OthersStay(r) /\ pc'[r] = "hit" /\ c'[r] = c[r]
    BY <1>1, <1>3, <1>5, StepFrame
  <2>2. Updates(r)' => Updates(r) /\ node'[c'[r].node].updating /\ c'[r].node = c[r].node
    <3>1. Updates(r)' => Updates(r)
      BY <2>1 DEF Updates
    <3>2. Updates(r) => node[c[r].node].updating
      BY LockRequestFacts
    <3> QED
      BY <1>3, <2>1, <3>1, <3>2
  <2>3. pc'[r] \in {"fetch", "hit"} /\ pc'[r] # "fetch"
    BY <2>1
  <2>4. \A m \in Nodes : node[m].updating => node'[m].updating
    BY <1>3
  <2> QED
    BY <1>1, <2>1, <2>2, <2>3, <2>4, LockGrowInv
<1> QED
  BY <1>3, <1>4, <1>5

\* The answer of a fetch replaces the file; the flag is handed on to the update.
LEMMA RenameLock ==
    ASSUME IndInv, LockInv, NEW r \in Requests, Rename(r)
    PROVE  LockInv'
<1>1. /\ TypeOK /\ c[r] \in CacheRecords /\ pc[r] = "fetch" /\ c[r].cacheable
      /\ c[r].lock /\ ~c[r].bypass /\ c[r].updating
  BY LockRequestFacts DEF Rename
<1> DEFINE x0 == [c[r] EXCEPT !.fd = NewFile, !.updating = FALSE]
           x1 == [c[r] EXCEPT !.fd = NoFile, !.updating = FALSE]
<1>2. \A x \in {x0, x1} : ~x.updating /\ x.lock = c[r].lock /\ x.bypass = c[r].bypass
                             /\ x.node = c[r].node
  BY <1>1 DEF CacheRecords
<1>3. /\ c' = [c EXCEPT ![r] = x0] \/ c' = [c EXCEPT ![r] = x1]
      /\ Goto(r, "update") /\ node' = node
  BY DEF Rename, shared
<1> HIDE DEF x0, x1
<1>4. PICK x \in {x0, x1} : c' = [c EXCEPT ![r] = x]
  BY <1>3
<1>5. OthersStay(r) /\ pc'[r] = "update" /\ c'[r] = x
  BY <1>1, <1>3, <1>4, StepFrame
<1>6. Updates(r)
  BY <1>1 DEF Updates
<1>7. node[c[r].node].updating
  BY <1>6, LockRequestFacts
<1>8. ~c'[r].updating /\ c'[r].lock /\ ~c'[r].bypass /\ c'[r].node = c[r].node
  BY <1>1, <1>2, <1>4, <1>5
<1>9. \A m \in Nodes : node[m].updating => node'[m].updating
  BY <1>3
<1>10. node'[c'[r].node].updating
  BY <1>3, <1>7, <1>8
<1> QED
  BY <1>5, <1>6, <1>8, <1>9, <1>10, LockGrowInv

\* A request that leaves clears only a flag of its own.
LEMMA LeaveLock ==
    ASSUME IndInv, LockInv, NEW r \in Requests, Update(r) \/ Free(r)
    PROVE  LockInv'
<1>1. /\ TypeOK /\ RefCounts /\ c[r] \in CacheRecords /\ pc[r] \in {"update", "fetch", "hit", "done"}
  BY RequestFacts DEF Update, Free
<1>2. PICK n \in Nodes : n = c[r].node /\ r \in Held(n)
  <2>1. pc[r] \in Holding
    BY <1>1 DEF Holding
  <2> QED
    BY <2>1, RequestFacts DEF Held
<1>3. c' = [c EXCEPT ![r] = NoCache] /\ Goto(r, "idle") /\ ~NoCache.updating
  BY DEF Update, Free, NoCache
<1>4. OthersStay(r) /\ pc'[r] = "idle" /\ c'[r] = NoCache
  BY <1>1, <1>3, StepFrame
<1>5. ~Updates(r)'
  BY <1>3, <1>4 DEF Updates
<1>6. node \in [Nodes -> NodeRecords] /\ node[n] \in NodeRecords
  BY <1>1 DEF TypeOK
<1>7. \A m \in Nodes : m # n => node'[m] = node[m]
  BY <1>2, <1>6 DEF Update, Free, Release
<1>8. ASSUME NEW q \in Requests, q # r, Updates(q) PROVE node'[c[q].node].updating
  <2>1. c[q].node \in Nodes /\ q \in Held(c[q].node) /\ node[c[q].node].updating
    BY <1>8, UpdaterFacts
  <2>2. CASE c[q].node # n
    BY <1>7, <2>1, <2>2
  <2>3. CASE c[q].node = n
    <3>1. ~Updates(r)
      BY <1>2, <1>8, <2>3 DEF LockInv
    <3>2. ~Update(r)
      BY <3>1 DEF Update, Updates
    <3>3. PICK err : IF Useless(r, FreedNode(r, err), err)
                       THEN Release(n)
                       ELSE node' = [node EXCEPT ![n] = FreedNode(r, err)]
      BY <1>2, <3>2 DEF Free
    <3> DEFINE e == CASE err -> "fresh"
                      [] ~err /\ c[r].error /\ node[n].error = "none" -> "expired"
                      [] OTHER -> node[n].error
               u == node[n].updating /\ ~c[r].updating
               y == [node[n] EXCEPT !.count = @ - 1, !.updating = u, !.error = e]
    <3>4. y = FreedNode(r, err)
      BY <1>2 DEF FreedNode
    <3> HIDE DEF e, u
    <3>5. y.updating = u /\ y.count = node[n].count - 1
      BY <1>6 DEF NodeRecords
    <3> HIDE DEF y
    <3>6. u
      BY <2>1, <2>3, <3>1 DEF u, Updates
    <3>7. ~Useless(r, y, err)
      <4> SUFFICES ASSUME Useless(r, y, err) PROVE FALSE
        OBVIOUS
      <4>1. node[n].count = 1
        <5>1. y.count = 0
          BY DEF Useless
        <5> QED
          BY <1>6, <3>5, <5>1 DEF NodeRecords
      <4>2. Counted(n) /\ leaked[n] \in Nat
        BY <1>1, RefCountsCounted DEF TypeOK
      <4>3. Cardinality(Held(n)) = 1 /\ IsFiniteSet(Held(n))
        BY <1>2, <4>1, <4>2, CountZero, FiniteRefs
      <4>4. PICK z : Held(n) = {z}
        BY <4>3, FS_Singleton
      <4> QED
        BY <1>2, <1>8, <2>1, <2>3, <4>4
    <3>8. node' = [node EXCEPT ![n] = y]
      BY <3>3, <3>4, <3>7
    <3> QED
      BY <1>6, <2>3, <3>5, <3>6, <3>8
  <2> QED
    BY <2>2, <2>3
<1>9. ~c'[r].updating
  BY <1>3, <1>4
<1> QED
  BY <1>4, <1>5, <1>8, <1>9, LockMoveInv

\* Every step preserves LockInv, when nobody passes the lock.
LEMMA LockStep == IndInv /\ (LockStrict => LockInv) /\ [Next]_vars => (LockStrict => LockInv')
<1> SUFFICES ASSUME IndInv, LockStrict, LockInv, [Next]_vars PROVE LockInv'
  OBVIOUS
<1>1. ASSUME NEW r \in Requests, Start(r) \/ Crash(r) PROVE LockInv'
  BY <1>1, StartLock
<1>2. ASSUME NEW r \in Requests, RequestStep(r) PROVE LockInv'
  BY <1>2, ExistsLock, RouteLock, ReadLock, MarkLock, AnswerLock, RenameLock, LeaveLock
     DEF RequestStep
<1>3. ASSUME NEW r \in Requests, DeleteStep(r) PROVE LockInv'
  BY <1>3, DeleteStepLock, ManagerFacts
<1>4. CASE ManagerStep
  BY <1>4, ManagerStepLock
<1>5. CASE LoaderStep
  BY <1>5, LoaderStepLock
<1>6. CASE \/ NodeExpires \/ (\E k \in Keys : FileExpires(k)) \/ (\E n \in Nodes : ErrorExpires(n))
           \/ UNCHANGED vars
  BY <1>6, TimeLock
<1> QED
  BY <1>1, <1>2, <1>3, <1>4, <1>5, <1>6 DEF Next

\* It holds of the empty cache.
LEMMA LockInit == Init => LockInv
<1> SUFFICES ASSUME Init PROVE LockInv
  OBVIOUS
<1>1. \A r \in Requests : pc[r] = "idle" /\ c[r] = NoCache
  BY DEF Init, Procs
<1>2. ~NoCache.updating
  BY DEF NoCache
<1>3. \A r \in Requests : ~Updates(r)
  BY <1>1, <1>2 DEF Updates
<1> QED
  BY <1>1, <1>2, <1>3 DEF LockInv

\* A set with at most one element has at most one element.
LEMMA AtMostOne ==
    ASSUME NEW S, \A a, b \in S : a = b
    PROVE  Cardinality(S) <= 1
<1>1. CASE S = {}
  <2>1. Cardinality(S) = 0
    BY <1>1, FS_EmptySet
  <2> QED
    BY <2>1
<1>2. CASE S # {}
  <2>1. PICK a : S = {a}
    BY <1>2
  <2>2. Cardinality(S) = 1
    BY <2>1, FS_Singleton
  <2> QED
    BY <2>2
<1> QED
  BY <1>1, <1>2

\* A request that fetches to store has the flag of its node, so there is one.
LEMMA FetchersUpdate == LockInv => OneFetcher
<1> SUFFICES ASSUME LockInv, NEW n \in Nodes
             PROVE  Cardinality({r \in Held(n) : pc[r] \in {"fetch", "update"} /\ c[r].cacheable}) <= 1
  BY DEF OneFetcher
<1> DEFINE S == {r \in Held(n) : pc[r] \in {"fetch", "update"} /\ c[r].cacheable}
<1>1. \A r \in S : r \in Requests /\ c[r].node = n /\ Updates(r)
  BY DEF Held, LockInv, Updates
<1>2. \A a, b \in S : a = b
  <2> HIDE DEF S
  <2> QED
    BY <1>1 DEF LockInv
<1> HIDE DEF S
<1>3. Cardinality(S) <= 1
  BY <1>2, AtMostOne
<1> QED
  BY <1>3 DEF S

\* With proxy_cache_lock, proxy_cache_use_stale updating, no lock timeout, no bypass and no failures,
\* at most one request fetches a key from the server to store it.
THEOREM OneFetcherHolds == Spec => [](LockStrict => OneFetcher)
<1>1. Init => (LockStrict => LockInv)
  BY LockInit
<1>2. IndInv /\ (LockStrict => LockInv) /\ [Next]_vars => (LockStrict => LockInv)'
  BY LockStep DEF LockStrict
<1>3. (LockStrict => LockInv) => (LockStrict => OneFetcher)
  BY FetchersUpdate
<1> QED
  BY <1>1, <1>2, <1>3, FileCacheInvariant, PTL DEF Spec
=============================================================================
