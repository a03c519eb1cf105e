------------------------ MODULE NgxRoundRobinProofs ------------------------
(* The round-robin balancer for any configuration, any number of requests and  *)
(* any clock: the inductive invariant of NgxRoundRobin and what follows from    *)
(* it.  The argument goes from the inside out.  A loop over a sequence is a     *)
(* recursive function; the facts about the two the balancer has (the sum of     *)
(* weights, the list of a group's addresses) are proved by looking at the       *)
(* smallest counterexample.  Then one peer's record (Gained, Paid, Failed,      *)
(* Passed), one group (get_peer, live, a free), the tables after each end of    *)
(* ngx_http_upstream_get_round_robin_peer, and last the steps of requests.      *)
EXTENDS NgxRoundRobin, FiniteSetTheorems, WellFoundedInduction, TLAPS

\* A set of natural numbers that is not empty has a smallest member; a proof by
\* induction looks at the smallest counterexample.
LEMMA SmallestNumber ==
    ASSUME NEW T \in SUBSET Nat, T # {}
    PROVE  \E x \in T : \A y \in T : x <= y
<1>1. PICK x \in T : \A y \in T : ~(<<y, x>> \in OpToRel(<, Nat))
  BY NatLessThanWellFounded, WFMin
<1>2. \A y \in T : ~(y < x)
  BY <1>1 DEF OpToRel
<1>3. \A y \in T : x <= y
  BY <1>2
<1> QED
  BY <1>3

\* r is what a loop of n turns computes: it starts at b, and step[k] is turn k.
IsLoop(r, S, n, step, b) ==
    r \in [0..n -> S] /\ r[0] = b /\ \A k \in 1..n : r[k] = step[k][r[k - 1]]

\* A loop has a result.
LEMMA LoopExists ==
    ASSUME NEW S, NEW n \in Nat, NEW step \in [1..n -> [S -> S]], NEW b \in S
    PROVE  \E r : IsLoop(r, S, n, step, b)
<1> DEFINE Runs(m, r) == r[0] = b /\ \A k \in 1..m : r[k] = step[k][r[k - 1]]
           T == {m \in 0..n : ~ \E r \in [0..m -> S] : Runs(m, r)}
<1>1. SUFFICES ASSUME T # {} PROVE FALSE
  <2>1. n \notin T => \E r \in [0..n -> S] : Runs(n, r)
    OBVIOUS
  <2> QED
    BY <1>1, <2>1 DEF IsLoop
<1>a. T \in SUBSET Nat
  OBVIOUS
<1>2. PICK m \in T : \A y \in T : m <= y
  <2> HIDE DEF T
  <2> QED
    BY <1>1, <1>a, SmallestNumber
<1>3. m \in 0..n /\ ~ \E r \in [0..m -> S] : Runs(m, r)
  OBVIOUS
<1>4. m # 0
  <2>1. [k \in 0..0 |-> b] \in [0..0 -> S] /\ Runs(0, [k \in 0..0 |-> b])
    OBVIOUS
  <2> QED
    BY <2>1, <1>3
<1>5. m - 1 \in 0..n /\ m - 1 \notin T
  <2>1. m - 1 \in 0..n /\ ~(m <= m - 1)
    BY <1>3, <1>4
  <2> HIDE DEF T
  <2> QED
    BY <2>1, <1>2
<1>6. PICK r \in [0..(m - 1) -> S] : Runs(m - 1, r)
  BY <1>5
<1> DEFINE q == [k \in 0..m |-> IF k = m THEN step[m][r[m - 1]] ELSE r[k]]
<1>7. m \in 1..n /\ m - 1 \in 0..(m - 1) /\ 0 \in 0..(m - 1) /\ step[m] \in [S -> S]
  BY <1>3, <1>4
<1>8. q \in [0..m -> S]
  BY <1>7
<1>9. Runs(m, q)
  <2>1. q[0] = b
    BY <1>6, <1>7
  <2> SUFFICES ASSUME NEW k \in 1..m PROVE q[k] = step[k][q[k - 1]]
    BY <2>1
  <2>2. CASE k = m
    BY <2>2, <1>7
  <2>3. CASE k # m
    <3>1. k \in 1..(m - 1) /\ k - 1 \in 0..m /\ k - 1 # m
      BY <2>3, <1>7
    <3> QED
      BY <3>1, <1>6, <1>7
  <2> QED
    BY <2>2, <2>3
<1> QED
  BY <1>3, <1>8, <1>9

-----------------------------------------------------------------------------
(* Sums *)

\* What SumTo computes.
LEMMA SumIs ==
    ASSUME NEW n \in Nat, NEW w \in [1..n -> Int]
    PROVE  \E s \in [0..n -> Int] : /\ s[0] = 0 /\ \A k \in 1..n : s[k] = s[k - 1] + w[k]
                                    /\ SumTo(w, n) = s[n]
<1> DEFINE step == [k \in 1..n |-> [x \in Int |-> x + w[k]]]
<1>1. step \in [1..n -> [Int -> Int]]
  OBVIOUS
<1>2. PICK r : IsLoop(r, Int, n, step, 0)
  <2>1. 0 \in Int
    OBVIOUS
  <2> HIDE DEF step
  <2> QED
    BY <1>1, <2>1, LoopExists, Zenon
<1>3. \A k \in 1..n : k - 1 \in 0..n /\ r[k - 1] \in Int
  BY <1>2 DEF IsLoop
<1>4. \A k \in 1..n : r[k] = r[k - 1] + w[k]
  BY <1>2, <1>3 DEF IsLoop
<1> DEFINE s == CHOOSE s : s = [k \in 0..n |-> IF k = 0 THEN 0 ELSE s[k - 1] + w[k]]
<1>5. r = [k \in 0..n |-> IF k = 0 THEN 0 ELSE r[k - 1] + w[k]]
  BY <1>2, <1>4 DEF IsLoop
<1>6. s = [k \in 0..n |-> IF k = 0 THEN 0 ELSE s[k - 1] + w[k]]
  BY <1>5
<1>7. SumTo(w, n) = s[n]
  BY DEF SumTo
<1> HIDE DEF s
<1>8. s[0] = 0 /\ (\A k \in 1..n : s[k] = s[k - 1] + w[k]) /\ DOMAIN s = 0..n
  BY <1>6
<1>9. \A k \in 0..n : s[k] \in Int
  <2> DEFINE T == {k \in 0..n : s[k] \notin Int}
  <2> SUFFICES ASSUME T # {} PROVE FALSE
    OBVIOUS
  <2>0. T \in SUBSET Nat
    OBVIOUS
  <2>1. PICK m \in T : \A y \in T : m <= y
    <3> HIDE DEF T
    <3> QED
      BY <2>0, SmallestNumber
  <2>2. m # 0 /\ m \in 1..n
    BY <1>8
  <2>3. m - 1 \in 0..n /\ m - 1 \notin T
    BY <2>1, <2>2
  <2>4. s[m] = s[m - 1] + w[m] /\ s[m - 1] \in Int
    BY <2>2, <2>3, <1>8
  <2> QED
    BY <2>2, <2>4
<1>10. s \in [0..n -> Int]
  BY <1>6, <1>8, <1>9
<1> QED
  BY <1>7, <1>8, <1>10

\* Sums add up place by place.
LEMMA SumAdds ==
    ASSUME NEW n \in Nat, NEW u \in [1..n -> Int], NEW v \in [1..n -> Int], NEW w \in [1..n -> Int],
           \A k \in 1..n : w[k] = u[k] + v[k]
    PROVE  SumTo(w, n) = SumTo(u, n) + SumTo(v, n)
<1>1. PICK a \in [0..n -> Int] : /\ a[0] = 0 /\ \A k \in 1..n : a[k] = a[k - 1] + u[k]
                                 /\ SumTo(u, n) = a[n]
  BY SumIs
<1>2. PICK b \in [0..n -> Int] : /\ b[0] = 0 /\ \A k \in 1..n : b[k] = b[k - 1] + v[k]
                                 /\ SumTo(v, n) = b[n]
  BY SumIs
<1>3. PICK c \in [0..n -> Int] : /\ c[0] = 0 /\ \A k \in 1..n : c[k] = c[k - 1] + w[k]
                                 /\ SumTo(w, n) = c[n]
  BY SumIs
<1> DEFINE T == {k \in 0..n : c[k] # a[k] + b[k]}
<1>4. T = {}
  <2> SUFFICES ASSUME T # {} PROVE FALSE
    OBVIOUS
  <2>0. T \in SUBSET Nat
    OBVIOUS
  <2>1. PICK m \in T : \A y \in T : m <= y
    <3> HIDE DEF T
    <3> QED
      BY <2>0, SmallestNumber
  <2>2. m \in 1..n
    BY <1>1, <1>2, <1>3
  <2>3. m - 1 \in 0..n /\ c[m - 1] = a[m - 1] + b[m - 1]
    BY <2>1, <2>2
  <2>4. /\ a[m - 1] \in Int /\ b[m - 1] \in Int /\ u[m] \in Int /\ v[m] \in Int
        /\ a[m] = a[m - 1] + u[m] /\ b[m] = b[m - 1] + v[m] /\ c[m] = c[m - 1] + w[m]
        /\ w[m] = u[m] + v[m]
    BY <1>1, <1>2, <1>3, <2>2, <2>3
  <2>5. c[m] = a[m] + b[m]
    BY <2>3, <2>4
  <2> QED
    BY <2>5
<1>5. n \notin T
  BY <1>4
<1> QED
  BY <1>1, <1>2, <1>3, <1>5

\* A sum with one place that is not zero.
LEMMA SumOne ==
    ASSUME NEW n \in Nat, NEW w \in [1..n -> Int], NEW b \in 1..n, \A k \in 1..n : k # b => w[k] = 0
    PROVE  SumTo(w, n) = w[b]
<1>1. PICK s \in [0..n -> Int] : /\ s[0] = 0 /\ \A k \in 1..n : s[k] = s[k - 1] + w[k]
                                 /\ SumTo(w, n) = s[n]
  BY SumIs
<1> DEFINE T == {k \in 0..n : ~((k < b => s[k] = 0) /\ (b <= k => s[k] = w[b]))}
<1>2. T = {}
  <2> SUFFICES ASSUME T # {} PROVE FALSE
    OBVIOUS
  <2>0. T \in SUBSET Nat
    OBVIOUS
  <2>1. PICK m \in T : \A y \in T : m <= y
    <3> HIDE DEF T
    <3> QED
      BY <2>0, SmallestNumber
  <2>2. m \in 1..n
    BY <1>1
  <2>3. m - 1 \in 0..n /\ m - 1 \notin T
    BY <2>1, <2>2
  <2>4. (m - 1 < b => s[m - 1] = 0) /\ (b <= m - 1 => s[m - 1] = w[b])
    BY <2>3
  <2>5. s[m] = s[m - 1] + w[m] /\ w[m] \in Int /\ w[b] \in Int /\ (m # b => w[m] = 0)
    BY <1>1, <2>2
  <2>6. (m < b => s[m] = 0) /\ (b <= m => s[m] = w[b])
    BY <2>2, <2>4, <2>5
  <2> QED
    BY <2>6
<1>3. n \notin T
  BY <1>2
<1> QED
  BY <1>1, <1>3

\* A sum of zeros.
LEMMA SumZero ==
    ASSUME NEW n \in Nat, NEW w \in [1..n -> Int], \A k \in 1..n : w[k] = 0
    PROVE  SumTo(w, n) = 0
<1>1. PICK s \in [0..n -> Int] : /\ s[0] = 0 /\ \A k \in 1..n : s[k] = s[k - 1] + w[k]
                                 /\ SumTo(w, n) = s[n]
  BY SumIs
<1> DEFINE T == {k \in 0..n : s[k] # 0}
<1>2. T = {}
  <2> SUFFICES ASSUME T # {} PROVE FALSE
    OBVIOUS
  <2>0. T \in SUBSET Nat
    OBVIOUS
  <2>1. PICK m \in T : \A y \in T : m <= y
    <3> HIDE DEF T
    <3> QED
      BY <2>0, SmallestNumber
  <2>2. m \in 1..n
    BY <1>1
  <2>3. m - 1 \in 0..n /\ m - 1 \notin T
    BY <2>1, <2>2
  <2>4. s[m] = s[m - 1] + w[m] /\ w[m] = 0 /\ s[m - 1] = 0
    BY <1>1, <2>2, <2>3
  <2> QED
    BY <2>4
<1> QED
  BY <1>1, <1>2

-----------------------------------------------------------------------------
(* Peers *)

\* Peer i has the greatest weight and comes first of those that have it.
IsBest(i, E, w) == \A j \in E : w[i] > w[j] \/ (w[i] = w[j] /\ i <= j)

\* Among the eligible peers there is such a one.
LEMMA BestExists ==
    ASSUME NEW n \in Nat, NEW E \in SUBSET (1..n), E # {}, NEW w \in [1..n -> Int]
    PROVE  \E i \in E : IsBest(i, E, w)
<1> DEFINE Beats(i, j) == w[i] > w[j] \/ (w[i] = w[j] /\ i <= j)
           T == {k \in 0..n : /\ \E e \in E : e <= k
                              /\ ~ \E i \in E : i <= k /\ \A j \in E : j <= k => Beats(i, j)}
<1>1. \A i \in E : i \in 1..n /\ w[i] \in Int /\ i <= n
  OBVIOUS
<1>o. \A x, y, z \in Int : (x > y \/ x = y) /\ z > x => z > y
  OBVIOUS
<1>p. \A x, y \in Int : ~(y > x) => x > y \/ x = y
  OBVIOUS
<1>2. n \notin T => \E i \in E : \A j \in E : Beats(i, j)
  <2> HIDE DEF T, Beats
  <2> SUFFICES ASSUME n \notin T PROVE \E i \in E : \A j \in E : Beats(i, j)
    OBVIOUS
  <2>0. n \in 0..n
    OBVIOUS
  <2>1. \E e \in E : e <= n
    BY <1>1
  <2>2. \E i \in E : i <= n /\ \A j \in E : j <= n => Beats(i, j)
    BY <2>0, <2>1 DEF T
  <2> QED
    BY <2>2, <1>1
<1>3. T = {}
  <2> SUFFICES ASSUME T # {} PROVE FALSE
    OBVIOUS
  <2>0. T \in SUBSET Nat
    OBVIOUS
  <2>1. PICK m \in T : \A y \in T : m <= y
    <3> HIDE DEF T
    <3> QED
      BY <2>0, SmallestNumber
  <2>2. /\ m \in 0..n /\ \E e \in E : e <= m
        /\ ~ \E i \in E : i <= m /\ \A j \in E : j <= m => Beats(i, j)
    OBVIOUS
  <2>3. m - 1 \in 0..n /\ m - 1 \notin T
    <3>1. m - 1 \in 0..n /\ ~(m <= m - 1)
      BY <2>2, <1>1
    <3> HIDE DEF T
    <3> QED
      BY <3>1, <2>1
  <2>4. \/ ~ \E e \in E : e <= m - 1
        \/ \E i \in E : i <= m - 1 /\ \A j \in E : j <= m - 1 => Beats(i, j)
    BY <2>3
  <2>5. ASSUME NEW e \in E, e <= m PROVE e = m \/ e <= m - 1
    <3>1. e \in Int /\ m \in Int
      BY <1>1, <2>2
    <3> QED
      BY <3>1, <2>5
  <2>6. CASE ~ \E e \in E : e <= m - 1
    <3>1. m \in E /\ \A j \in E : j <= m => j = m
      BY <2>2, <2>5, <2>6
    <3>2. Beats(m, m)
      BY <3>1, <1>1
    <3> QED
      BY <3>1, <3>2, <2>2
  <2>7. CASE \E i \in E : i <= m - 1 /\ \A j \in E : j <= m - 1 => Beats(i, j)
    <3>1. PICK i \in E : i <= m - 1 /\ \A j \in E : j <= m - 1 => Beats(i, j)
      BY <2>7
    <3>2. i <= m /\ i # m
      BY <3>1, <1>1, <2>2
    <3>3. CASE m \in E /\ w[m] > w[i]
      <4>1. ASSUME NEW j \in E, j <= m - 1 PROVE w[m] > w[j]
        <5>1. Beats(i, j)
          BY <3>1, <4>1
        <5>2. w[i] \in Int /\ w[j] \in Int /\ w[m] \in Int
          BY <3>3, <1>1
        <5> QED
          BY <5>1, <5>2, <3>3, <1>o
      <4>2. \A j \in E : j <= m => Beats(m, j)
        BY <4>1, <2>5, <3>3, <1>1
      <4> QED
        BY <4>2, <3>3, <2>2
    <3>4. CASE m \in E => ~(w[m] > w[i])
      <4>1. ASSUME m \in E PROVE Beats(i, m)
        <5>1. w[i] \in Int /\ w[m] \in Int /\ ~(w[m] > w[i])
          BY <3>4, <4>1, <1>1
        <5>2. w[i] > w[m] \/ w[i] = w[m]
          BY <5>1, <1>p
        <5> HIDE DEF T
        <5> QED
          BY <5>2, <3>2
      <4>2. \A j \in E : j <= m => Beats(i, j)
        BY <4>1, <3>1, <2>5
      <4> QED
        BY <4>2, <3>2, <2>2
    <3> QED
      BY <3>3, <3>4
  <2> QED
    BY <2>4, <2>6, <2>7
<1> QED
  BY <1>2, <1>3 DEF IsBest

\* What is kept by an update that touches the weights only.
SameRecord(q, p) ==
    /\ q.weight = p.weight /\ q.max_fails = p.max_fails /\ q.fail_timeout = p.fail_timeout
    /\ q.down = p.down /\ q.fails = p.fails /\ q.accessed = p.accessed

\* A peer that takes part in a get.
LEMMA GainedPeer ==
    ASSUME NEW p \in Peer, p.effective_weight <= p.weight
    PROVE  /\ Gained(p) \in Peer /\ SameRecord(Gained(p), p)
           /\ Gained(p).effective_weight <= p.weight /\ Gained(p).checked = p.checked
           /\ Gained(p).current_weight = p.current_weight + p.effective_weight
<1> DEFINE q == [p EXCEPT !.current_weight = p.current_weight + p.effective_weight]
<1>1. /\ q \in Peer /\ SameRecord(q, p) /\ q.checked = p.checked
      /\ q.effective_weight = p.effective_weight
      /\ q.current_weight = p.current_weight + p.effective_weight
  BY DEF Peer, SameRecord
<1>2. Gained(p) = [q EXCEPT !.effective_weight = IF p.effective_weight < p.weight
                                                   THEN p.effective_weight + 1 ELSE p.effective_weight]
  BY <1>1 DEF Gained
<1> HIDE DEF q
<1>3. p.effective_weight \in Nat /\ p.weight \in Nat
  BY DEF Peer
<1> DEFINE e == IF p.effective_weight < p.weight THEN p.effective_weight + 1 ELSE p.effective_weight
<1>4. e \in Nat /\ e <= p.weight
  BY <1>3
<1>5. Gained(p) = [q EXCEPT !.effective_weight = e]
  BY <1>2
<1> HIDE DEF e
<1> QED
  BY <1>1, <1>4, <1>5 DEF Peer, SameRecord

\* The peer that is chosen.
LEMMA PaidPeer ==
    ASSUME NEW p \in Peer, NEW total \in Int, NEW time \in Nat, p.checked <= time
    PROVE  /\ Paid(p, total, time) \in Peer /\ SameRecord(Paid(p, total, time), p)
           /\ Paid(p, total, time).effective_weight = p.effective_weight
           /\ Paid(p, total, time).current_weight = p.current_weight - total
           /\ p.checked <= Paid(p, total, time).checked /\ Paid(p, total, time).checked <= time
           /\ time - p.checked > p.fail_timeout => Paid(p, total, time).checked = time
<1> DEFINE q == [p EXCEPT !.current_weight = p.current_weight - total]
           c == IF time - p.checked > p.fail_timeout THEN time ELSE p.checked
<1>1. /\ q \in Peer /\ SameRecord(q, p) /\ q.checked = p.checked
      /\ q.effective_weight = p.effective_weight
      /\ q.current_weight = p.current_weight - total
  BY DEF Peer, SameRecord
<1>2. Paid(p, total, time) = [q EXCEPT !.checked = c]
  BY <1>1 DEF Paid
<1>3. /\ c \in Nat /\ p.checked <= c /\ c <= time
      /\ time - p.checked > p.fail_timeout => c = time
  BY DEF Peer
<1> HIDE DEF q, c
<1> QED
  BY <1>1, <1>2, <1>3 DEF Peer, SameRecord

\* The record of a peer after a failure.
LEMMA FailedPeer ==
    ASSUME NEW p \in Peer, NEW time \in Nat, p.effective_weight <= p.weight
    PROVE  /\ Failed(p, time) \in Peer /\ Failed(p, time).fails = p.fails + 1
           /\ Failed(p, time).weight = p.weight /\ Failed(p, time).checked = time
           /\ Failed(p, time).effective_weight <= p.weight
           /\ Failed(p, time).current_weight = p.current_weight
<1> DEFINE cost == IF p.max_fails = 0 THEN 0 ELSE p.weight \div p.max_fails
           e == IF p.effective_weight < cost THEN 0 ELSE p.effective_weight - cost
           q1 == [p EXCEPT !.fails = p.fails + 1]
           q2 == [q1 EXCEPT !.accessed = time]
           q3 == [q2 EXCEPT !.checked = time]
<1>1. p.effective_weight \in Nat /\ p.max_fails \in Nat /\ p.weight \in Nat
  BY DEF Peer
<1>2. cost \in Nat
  BY <1>1
<1>3. e \in Nat /\ e <= p.weight
  <2> HIDE DEF cost
  <2> QED
    BY <1>1, <1>2
<1>4. /\ q1 \in Peer /\ q1.fails = p.fails + 1 /\ q1.weight = p.weight
      /\ q1.effective_weight = p.effective_weight /\ q1.current_weight = p.current_weight
      /\ q1.checked = p.checked /\ q1.accessed = p.accessed
  BY DEF Peer
<1>5. /\ q2 \in Peer /\ q2.fails = p.fails + 1 /\ q2.weight = p.weight
      /\ q2.effective_weight = p.effective_weight /\ q2.current_weight = p.current_weight
      /\ q2.checked = p.checked
  <2> HIDE DEF q1
  <2> QED
    BY <1>4 DEF Peer
<1>6. /\ q3 \in Peer /\ q3.fails = p.fails + 1 /\ q3.weight = p.weight
      /\ q3.effective_weight = p.effective_weight /\ q3.current_weight = p.current_weight
      /\ q3.checked = time
  <2> HIDE DEF q2
  <2> QED
    BY <1>5 DEF Peer
<1>7. Failed(p, time) = [q3 EXCEPT !.effective_weight = e]
  BY <1>4, <1>5, <1>6, Zenon DEF Failed
<1> HIDE DEF q3, e
<1> QED
  BY <1>3, <1>6, <1>7 DEF Peer

\* The record of a peer after a good use, and after all were marked live.
LEMMA PassedPeer ==
    ASSUME NEW p \in Peer
    PROVE  /\ Passed(p) \in Peer /\ [p EXCEPT !.fails = 0] \in Peer
           /\ [p EXCEPT !.fails = 0].fails = 0
           /\ (Passed(p).fails = p.fails \/ p.accessed < p.checked)
           /\ \A q \in {Passed(p), [p EXCEPT !.fails = 0]} :
                 /\ q.weight = p.weight /\ q.checked = p.checked
                 /\ q.effective_weight = p.effective_weight
                 /\ q.current_weight = p.current_weight
  BY DEF Passed, Peer

-----------------------------------------------------------------------------
(* Groups of peers *)

\* A group as the theorems need it at a time.
GroupOK(G, time) ==
    /\ G \in Seq(Peer) /\ G # << >>
    /\ \A i \in DOMAIN G : G[i].effective_weight <= G[i].weight /\ G[i].checked <= time
    /\ SumTo(current_weights(G), Len(G)) = 0

\* The peers keep their weights, and the checks of none are forgotten.
Later(H, G) ==
    /\ Len(H) = Len(G)
    /\ \A i \in DOMAIN G : H[i].weight = G[i].weight /\ G[i].checked <= H[i].checked

\* The places of a group, and their values as numbers.
LEMMA GroupFacts ==
    ASSUME NEW time \in Nat, NEW G, GroupOK(G, time)
    PROVE  /\ Len(G) \in Nat /\ Len(G) # 0 /\ DOMAIN G = 1..Len(G) /\ 1 \in DOMAIN G
           /\ \A i \in 1..Len(G) : /\ G[i] \in Peer
                                   /\ G[i].effective_weight <= G[i].weight /\ G[i].checked <= time
           /\ current_weights(G) \in [1..Len(G) -> Int]
           /\ \A i \in 1..Len(G) : current_weights(G)[i] = G[i].current_weight
<1>1. Len(G) \in Nat /\ Len(G) # 0 /\ DOMAIN G = 1..Len(G)
  BY DEF GroupOK
<1>2. \A i \in 1..Len(G) : /\ G[i] \in Peer
                           /\ G[i].effective_weight <= G[i].weight /\ G[i].checked <= time
  BY <1>1 DEF GroupOK
<1>3. \A i \in 1..Len(G) : G[i].current_weight \in Int
  BY <1>2 DEF Peer
<1> QED
  BY <1>1, <1>2, <1>3 DEF current_weights

\* A group is all right again when its peers are and no current weight moved.
LEMMA GroupKept ==
    ASSUME NEW time \in Nat, NEW G, GroupOK(G, time), NEW later \in Nat,
           NEW H, DOMAIN H = 1..Len(G), H = [i \in 1..Len(G) |-> H[i]],
           \A i \in 1..Len(G) : /\ H[i] \in Peer /\ H[i].current_weight = G[i].current_weight
                                /\ H[i].effective_weight <= H[i].weight
                                /\ H[i].weight = G[i].weight
                                /\ G[i].checked <= H[i].checked /\ H[i].checked <= later
    PROVE  GroupOK(H, later) /\ Later(H, G)
<1>1. PICK n \in Nat : n = Len(G) /\ n # 0 /\ DOMAIN G = 1..n
  BY GroupFacts
<1>2. H \in Seq(Peer) /\ Len(H) = n /\ H # << >> /\ DOMAIN H = 1..n
  BY <1>1
<1>3. current_weights(H) = current_weights(G)
  BY <1>1, <1>2 DEF current_weights
<1> QED
  BY <1>1, <1>2, <1>3 DEF GroupOK, Later

\* ngx_http_upstream_get_peer over a group with eligible peers: it chooses one
\* of them, and what they gain it pays.
LEMMA GetPeer ==
    ASSUME NEW time \in Nat, NEW G, GroupOK(G, time), NEW E, E \subseteq DOMAIN G, E # {}
    PROVE  LET H == get_peer(G, E, time)
               b == picked(G, E)
           IN  /\ b \in E /\ GroupOK(H, time) /\ Later(H, G)
               /\ \A i \in DOMAIN G : H[i].fails = G[i].fails
               /\ time - G[b].checked > G[b].fail_timeout => H[b].checked = time
<1>1. PICK n \in Nat : n = Len(G) /\ n # 0 /\ DOMAIN G = 1..n
  BY GroupFacts
<1>2. \A i \in 1..n : /\ G[i] \in Peer /\ G[i].effective_weight <= G[i].weight /\ G[i].checked <= time
  BY <1>1, GroupFacts
<1> DEFINE A == gained(G, E)
           D == gain(G, E)
           b == picked(G, E)
           total == SumTo(D, n)
           H == get_peer(G, E, time)
<1>3. A = [i \in 1..n |-> IF i \in E THEN Gained(G[i]) ELSE G[i]]
  BY <1>1 DEF gained
<1>4. D = [i \in 1..n |-> IF i \in E THEN G[i].effective_weight ELSE 0]
  BY <1>1 DEF gain
<1>5. D \in [1..n -> Int]
  BY <1>2, <1>4 DEF Peer
<1>6. total \in Int
  BY <1>5, SumIs
<1> HIDE DEF A, D, total
<1>7. ASSUME NEW i \in 1..n
      PROVE  /\ A[i] \in Peer /\ SameRecord(A[i], G[i]) /\ A[i].effective_weight <= A[i].weight
             /\ A[i].checked = G[i].checked
             /\ A[i].current_weight = G[i].current_weight + D[i]
  <2>1. CASE i \in E
    BY <2>1, <1>2, <1>3, <1>4, GainedPeer DEF SameRecord
  <2>2. CASE i \notin E
    <3>1. A[i] = G[i] /\ D[i] = 0 /\ G[i].current_weight \in Int
      BY <2>2, <1>2, <1>3, <1>4 DEF Peer
    <3> QED
      BY <3>1, <1>2 DEF SameRecord
  <2> QED
    BY <2>1, <2>2
<1>8. b \in E
  <2> DEFINE w == [i \in 1..n |-> A[i].current_weight]
  <2>1. w \in [1..n -> Int]
    BY <1>7 DEF Peer
  <2>2. \E i \in E : IsBest(i, E, w)
    <3>1. E \in SUBSET (1..n)
      BY <1>1
    <3> HIDE DEF w
    <3> QED
      BY <2>1, <3>1, BestExists, Zenon
  <2>3. \E i \in E : \A j \in E : \/ A[i].current_weight > A[j].current_weight
                                  \/ A[i].current_weight = A[j].current_weight /\ i <= j
    BY <2>2, <1>1 DEF IsBest
  <2>4. b = CHOOSE i \in E : \A j \in E : \/ A[i].current_weight > A[j].current_weight
                                          \/ A[i].current_weight = A[j].current_weight /\ i <= j
    BY DEF picked, best, A
  <2> HIDE DEF b
  <2> QED
    BY <2>3, <2>4
<1>9. b \in 1..n
  BY <1>8, <1>1
<1>10. H = [A EXCEPT ![b] = Paid(A[b], total, time)]
  BY <1>1 DEF get_peer, A, D, total
<1> HIDE DEF b, H
<1>11. /\ Paid(A[b], total, time) \in Peer /\ SameRecord(Paid(A[b], total, time), A[b])
       /\ Paid(A[b], total, time).effective_weight = A[b].effective_weight
       /\ Paid(A[b], total, time).current_weight = A[b].current_weight - total
       /\ A[b].checked <= Paid(A[b], total, time).checked /\ Paid(A[b], total, time).checked <= time
       /\ time - A[b].checked > A[b].fail_timeout => Paid(A[b], total, time).checked = time
  BY <1>2, <1>6, <1>7, <1>9, PaidPeer
<1>12. /\ H = [i \in 1..n |-> H[i]] /\ H[b] = Paid(A[b], total, time)
       /\ \A i \in 1..n : i # b => H[i] = A[i]
  BY <1>3, <1>9, <1>10
<1>13. ASSUME NEW i \in 1..n
       PROVE  /\ H[i] \in Peer /\ SameRecord(H[i], G[i]) /\ H[i].effective_weight <= H[i].weight
              /\ G[i].checked <= H[i].checked /\ H[i].checked <= time
  <2>1. A[i] \in Peer /\ A[i].checked \in Nat
    BY <1>7 DEF Peer
  <2>2. CASE i = b
    BY <2>2, <1>7, <1>11, <1>12 DEF SameRecord
  <2>3. CASE i # b
    BY <2>1, <2>3, <1>2, <1>7, <1>12 DEF SameRecord
  <2> QED
    BY <2>2, <2>3
<1>14. H \in Seq(Peer) /\ Len(H) = n /\ H # << >> /\ DOMAIN H = 1..n
  BY <1>1, <1>12, <1>13
<1>15. SumTo(current_weights(H), n) = 0
  <2> DEFINE u == current_weights(G)
             v == current_weights(A)
             x == current_weights(H)
             y == [i \in 1..n |-> IF i = b THEN 0 - total ELSE 0]
  <2>1. u \in [1..n -> Int] /\ SumTo(u, n) = 0 /\ \A i \in 1..n : u[i] = G[i].current_weight
    <3>1. SumTo(u, n) = 0
      BY <1>1 DEF GroupOK
    <3>2. u \in [1..n -> Int] /\ \A i \in 1..n : u[i] = G[i].current_weight
      BY <1>1, GroupFacts
    <3> QED
      BY <3>1, <3>2
  <2>2. v \in [1..n -> Int] /\ \A i \in 1..n : v[i] = A[i].current_weight
    BY <1>3, <1>7 DEF current_weights, Peer
  <2>3. x \in [1..n -> Int] /\ \A i \in 1..n : x[i] = H[i].current_weight
    BY <1>13, <1>14 DEF current_weights, Peer
  <2>4. y \in [1..n -> Int] /\ y[b] = 0 - total /\ \A i \in 1..n : i # b => y[i] = 0
    BY <1>6, <1>9
  <2> HIDE DEF u, v, x, y
  <2>5. \A i \in 1..n : v[i] = u[i] + D[i]
    BY <2>1, <2>2, <1>7
  <2>6. \A i \in 1..n : x[i] = v[i] + y[i]
    <3>1. x[b] = v[b] + y[b]
      <4>1. x[b] = v[b] - total /\ v[b] \in Int
        BY <2>2, <2>3, <1>9, <1>11, <1>12
      <4> QED
        BY <4>1, <2>4, <1>6
    <3>2. \A i \in 1..n : i # b => x[i] = v[i] + y[i]
      BY <2>2, <2>3, <2>4, <1>12
    <3> QED
      BY <3>1, <3>2
  <2>7. SumTo(v, n) = 0 + total
    BY <2>1, <2>2, <2>5, <1>5, SumAdds DEF total
  <2>8. SumTo(y, n) = 0 - total
    BY <2>4, <1>9, SumOne
  <2>9. SumTo(x, n) = SumTo(v, n) + SumTo(y, n)
    BY <2>2, <2>3, <2>4, <2>6, SumAdds
  <2>10. SumTo(x, n) = 0
    BY <2>7, <2>8, <2>9, <1>6
  <2> QED
    BY <2>10 DEF x
<1>16. GroupOK(H, time)
  BY <1>13, <1>14, <1>15 DEF GroupOK
<1>17. Later(H, G)
  BY <1>1, <1>13, <1>14 DEF Later, SameRecord
<1>18. time - G[b].checked > G[b].fail_timeout => H[b].checked = time
  BY <1>7, <1>9, <1>11, <1>12 DEF SameRecord
<1>19. \A i \in 1..n : H[i].fails = G[i].fails
  BY <1>13 DEF SameRecord
<1> QED
  BY <1>1, <1>8, <1>16, <1>17, <1>18, <1>19 DEF b, H

\* A group whose peers are all marked live.
LEMMA LiveGroup ==
    ASSUME NEW time \in Nat, NEW G, GroupOK(G, time)
    PROVE  GroupOK(live(G), time) /\ Later(live(G), G) /\ \A i \in DOMAIN G : live(G)[i].fails = 0
<1>1. Len(G) \in Nat /\ DOMAIN G = 1..Len(G)
  BY GroupFacts
<1>2. live(G) = [i \in 1..Len(G) |-> [G[i] EXCEPT !.fails = 0]]
  BY <1>1 DEF live
<1>3. \A i \in 1..Len(G) : G[i] \in Peer /\ G[i].effective_weight <= G[i].weight
                           /\ G[i].checked <= time /\ G[i].checked \in Nat
  BY GroupFacts DEF Peer
<1>4. ASSUME NEW i \in 1..Len(G)
      PROVE  /\ live(G)[i] \in Peer /\ live(G)[i].current_weight = G[i].current_weight
             /\ live(G)[i].effective_weight <= live(G)[i].weight /\ live(G)[i].weight = G[i].weight
             /\ G[i].checked <= live(G)[i].checked /\ live(G)[i].checked <= time
             /\ live(G)[i].fails = 0
  <2> DEFINE q == live(G)[i]
  <2>1. q = [G[i] EXCEPT !.fails = 0]
    BY <1>2
  <2>2. G[i] \in Peer
    BY <1>3
  <2>3. /\ [G[i] EXCEPT !.fails = 0] \in Peer /\ [G[i] EXCEPT !.fails = 0].fails = 0
        /\ [G[i] EXCEPT !.fails = 0].weight = G[i].weight
        /\ [G[i] EXCEPT !.fails = 0].checked = G[i].checked
        /\ [G[i] EXCEPT !.fails = 0].effective_weight = G[i].effective_weight
        /\ [G[i] EXCEPT !.fails = 0].current_weight = G[i].current_weight
    BY <2>2 DEF Peer
  <2> HIDE DEF q
  <2>4. /\ q \in Peer /\ q.fails = 0 /\ q.weight = G[i].weight /\ q.checked = G[i].checked
        /\ q.effective_weight = G[i].effective_weight /\ q.current_weight = G[i].current_weight
    BY <2>1, <2>3
  <2>5. G[i].checked <= q.checked /\ q.checked <= time /\ q.effective_weight <= q.weight
    BY <2>4, <1>3
  <2> QED
    BY <2>4, <2>5 DEF q
<1>5. GroupOK(live(G), time) /\ Later(live(G), G)
  <2> DEFINE H == live(G)
  <2>1. DOMAIN H = 1..Len(G) /\ H = [i \in 1..Len(G) |-> H[i]]
    BY <1>2
  <2> HIDE DEF H
  <2> QED
    BY <2>1, <1>4, GroupKept DEF H
<1> QED
  BY <1>1, <1>4, <1>5

\* A group after the use of one of its peers.
LEMMA FreedGroup ==
    ASSUME NEW time \in Nat, NEW G, GroupOK(G, time), NEW i \in DOMAIN G, NEW state
    PROVE  LET H == [G EXCEPT ![i] = IF state = "failed" THEN Failed(@, time) ELSE Passed(@)]
           IN  /\ GroupOK(H, time) /\ Later(H, G)
               /\ \A k \in DOMAIN G : H[k].fails = 0 /\ G[k].fails > 0 => G[k].accessed < G[k].checked
<1>1. Len(G) \in Nat /\ DOMAIN G = 1..Len(G)
  BY GroupFacts
<1> DEFINE x == IF state = "failed" THEN Failed(G[i], time) ELSE Passed(G[i])
           H == [G EXCEPT ![i] = x]
<1>2. \A k \in 1..Len(G) : G[k] \in Peer /\ G[k].effective_weight <= G[k].weight
                           /\ G[k].checked <= time /\ G[k].checked \in Nat /\ G[k].fails \in Nat
  BY GroupFacts DEF Peer
<1>3. /\ x \in Peer /\ x.current_weight = G[i].current_weight
      /\ x.effective_weight <= x.weight /\ x.weight = G[i].weight
      /\ G[i].checked <= x.checked /\ x.checked <= time
      /\ x.fails = 0 /\ G[i].fails > 0 => G[i].accessed < G[i].checked
  <2>0. i \in 1..Len(G) /\ G[i] \in Peer
    BY <1>1, <1>2
  <2>1. CASE state = "failed"
    <3>1. x = Failed(G[i], time)
      BY <2>1
    <3> HIDE DEF x
    <3>2. G[i].checked \in Nat /\ G[i].checked <= time /\ G[i].fails \in Nat
      BY <2>0, <1>2
    <3>3. /\ x \in Peer /\ x.fails = G[i].fails + 1 /\ x.weight = G[i].weight /\ x.checked = time
          /\ x.effective_weight <= G[i].weight /\ x.current_weight = G[i].current_weight
      BY <3>1, <2>0, <1>2, FailedPeer
    <3>4. x.fails # 0 /\ G[i].checked <= x.checked /\ x.checked <= time
      BY <3>2, <3>3
    <3> QED
      BY <3>3, <3>4
  <2>2. CASE state # "failed"
    <3>1. x = Passed(G[i])
      BY <2>2
    <3> HIDE DEF x
    <3>2. /\ x \in Peer /\ x.weight = G[i].weight /\ x.checked = G[i].checked
          /\ x.effective_weight = G[i].effective_weight /\ x.current_weight = G[i].current_weight
          /\ x.fails = G[i].fails \/ G[i].accessed < G[i].checked
      BY <3>1, <2>0, PassedPeer
    <3>3. /\ G[i].checked <= x.checked /\ x.checked <= time /\ x.effective_weight <= x.weight
          /\ G[i].fails \in Nat
      BY <3>2, <2>0, <1>2
    <3> QED
      BY <3>2, <3>3
  <2> QED
    BY <2>1, <2>2
<1> HIDE DEF x
<1>4. /\ DOMAIN H = 1..Len(G) /\ H = [k \in 1..Len(G) |-> H[k]] /\ H[i] = x
      /\ \A k \in 1..Len(G) : k # i => H[k] = G[k]
  BY <1>1 DEF GroupOK
<1> HIDE DEF H
<1>5. ASSUME NEW k \in 1..Len(G)
      PROVE  /\ H[k] \in Peer /\ H[k].current_weight = G[k].current_weight
             /\ H[k].effective_weight <= H[k].weight /\ H[k].weight = G[k].weight
             /\ G[k].checked <= H[k].checked /\ H[k].checked <= time
             /\ H[k].fails = 0 /\ G[k].fails > 0 => G[k].accessed < G[k].checked
  <2>1. CASE k = i
    BY <2>1, <1>3, <1>4
  <2>2. CASE k # i
    BY <2>2, <1>2, <1>4
  <2> QED
    BY <2>1, <2>2
<1>6. GroupOK(H, time) /\ Later(H, G)
  BY <1>4, <1>5, GroupKept
<1> QED
  BY <1>1, <1>5, <1>6 DEF H, x

-----------------------------------------------------------------------------
(* The tables *)

\* The invariant, group by group.
LEMMA IndInvParts ==
    ASSUME IndInv
    PROVE  /\ Len(P) \in {1, 2} /\ DOMAIN P = 1..Len(P) /\ 1 \in DOMAIN P
           /\ P = [g \in DOMAIN P |-> P[g]]
           /\ \A g \in DOMAIN P : GroupOK(P[g], now)
           /\ \A r \in Requests : /\ RequestValid(r) /\ req[r].st \in {"idle", "next", "peer"}
                                  /\ req[r].d \in PeerData /\ req[r].used \in Nat
           /\ now \in Nat
<1>1. Len(P) \in {1, 2} /\ DOMAIN P = 1..Len(P) /\ 1 \in DOMAIN P /\ P = [g \in DOMAIN P |-> P[g]]
  BY DEF IndInv, TypeOK
<1>2. now \in Nat /\ \A g \in DOMAIN P : P[g] \in Seq(Peer) /\ P[g] # << >>
  BY DEF IndInv, TypeOK
<1>3. ASSUME NEW g \in DOMAIN P PROVE GroupOK(P[g], now)
  <2>1. ASSUME NEW i \in DOMAIN P[g]
        PROVE  P[g][i].effective_weight <= P[g][i].weight /\ P[g][i].checked <= now
    <3>1. P[g][i] \in Peer
      BY <1>2
    <3> QED
      BY <3>1 DEF IndInv, EffectiveInRange, ChecksRecorded, Peer
  <2>2. SumTo(current_weights(P[g]), Len(P[g])) = 0
    BY DEF IndInv, WeightsBalance
  <2> QED
    BY <1>2, <2>1, <2>2 DEF GroupOK
<1>4. \A r \in Requests : /\ RequestValid(r) /\ req[r].st \in {"idle", "next", "peer"}
                          /\ req[r].d \in PeerData /\ req[r].used \in Nat
  BY DEF IndInv, TypeOK
<1> QED
  BY <1>1, <1>2, <1>3, <1>4

\* The step leaves good groups of the same peers.
TablesKept ==
    /\ P' = [g \in DOMAIN P |-> P'[g]] /\ now' \in Nat
    /\ \A g \in DOMAIN P : GroupOK(P'[g], now') /\ Later(P'[g], P[g])

\* The tables keep their shape.
LEMMA ShapeKept ==
    ASSUME IndInv, TablesKept
    PROVE  /\ P' \in Seq(Seq(Peer)) /\ Len(P') = Len(P) /\ DOMAIN P' = DOMAIN P
           /\ \A g \in DOMAIN P : /\ Len(P'[g]) = Len(P[g]) /\ DOMAIN P'[g] = DOMAIN P[g]
                                  /\ P'[g] # << >>
           /\ single(P') <=> single(P)
<1>1. /\ DOMAIN P = 1..Len(P) /\ Len(P) \in Nat /\ 1 \in DOMAIN P
      /\ \A g \in DOMAIN P : GroupOK(P[g], now)
  BY IndInvParts
<1>2. ASSUME NEW g \in DOMAIN P
      PROVE  /\ P'[g] \in Seq(Peer) /\ P'[g] # << >> /\ Len(P'[g]) = Len(P[g])
             /\ DOMAIN P'[g] = DOMAIN P[g]
  BY <1>1 DEF TablesKept, GroupOK, Later
<1> DEFINE Q == P'
<1>3. Q = [g \in 1..Len(P) |-> Q[g]] /\ \A g \in 1..Len(P) : Q[g] \in Seq(Peer)
  BY <1>1, <1>2 DEF TablesKept
<1> HIDE DEF Q
<1>4. Q \in Seq(Seq(Peer)) /\ Len(Q) = Len(P) /\ DOMAIN Q = 1..Len(P)
  BY <1>1, <1>3
<1>5. single(P') <=> single(P)
  BY <1>1, <1>2, <1>4 DEF single, Q
<1> QED
  BY <1>1, <1>2, <1>4, <1>5 DEF Q

\* A request that the step leaves alone stays valid.
LEMMA OtherRequest ==
    ASSUME IndInv, TablesKept, NEW r \in Requests, req'[r] = req[r]
    PROVE  RequestValid(r)'
<1>1. RequestValid(r) /\ 1 \in DOMAIN P
  BY IndInvParts
<1> QED
  BY <1>1, ShapeKept DEF RequestValid

\* What makes the invariant hold after a step.
LEMMA Assembled ==
    ASSUME IndInv, TablesKept, turns' \in Nat, gets' \in Nat,
           req' \in [Requests -> [st : {"idle", "next", "peer"}, d : PeerData, used : Nat]],
           \A r \in Requests : req'[r] = req[r] \/ RequestValid(r)',
           probe' \in [DOMAIN P -> Seq(Int)],
           \A g \in DOMAIN P : Len(probe'[g]) = Len(P[g]),
           ~single(P) => \A g \in DOMAIN P : \A i \in DOMAIN P[g] : probe'[g][i] <= P'[g][i].checked
    PROVE  IndInv'
<1>1. TypeOK'
  BY ShapeKept, IndInvParts DEF TypeOK, TablesKept
<1>2. ASSUME NEW g \in DOMAIN P, NEW i \in DOMAIN P[g]
      PROVE  P'[g][i].effective_weight \in 0..P'[g][i].weight /\ P'[g][i].checked <= now'
  <2>1. GroupOK(P'[g], now') /\ i \in DOMAIN P'[g]
    BY ShapeKept DEF TablesKept
  <2>2. P'[g][i] \in Peer /\ P'[g][i].effective_weight <= P'[g][i].weight /\ P'[g][i].checked <= now'
    BY <2>1 DEF GroupOK
  <2> QED
    BY <2>2 DEF Peer
<1>3. EffectiveInRange' /\ ChecksRecorded'
  BY <1>2, ShapeKept DEF EffectiveInRange, ChecksRecorded
<1>4. WeightsBalance'
  BY ShapeKept DEF WeightsBalance, TablesKept, GroupOK
<1>5. \A r \in Requests : RequestValid(r)'
  BY OtherRequest
<1> QED
  BY <1>1, <1>3, <1>4, <1>5 DEF IndInv

\* A step that leaves the tables alone, with the clock where it is or later.
LEMMA SameTables ==
    ASSUME IndInv, P' = P, now' \in Nat, now <= now'
    PROVE  TablesKept
<1>1. ASSUME NEW g \in DOMAIN P PROVE GroupOK(P[g], now') /\ Later(P[g], P[g])
  <2>1. GroupOK(P[g], now) /\ now \in Nat
    BY IndInvParts
  <2>2. ASSUME NEW i \in DOMAIN P[g] PROVE P[g][i].checked \in Nat
    <3>1. P[g][i] \in Peer
      BY <2>1 DEF GroupOK
    <3> QED
      BY <3>1 DEF Peer
  <2>3. \A i \in DOMAIN P[g] : P[g][i].checked <= now'
    BY <2>1, <2>2 DEF GroupOK
  <2> QED
    BY <2>1, <2>2, <2>3 DEF GroupOK, Later
<1> QED
  BY <1>1, IndInvParts DEF TablesKept

-----------------------------------------------------------------------------
(* Get *)

\* The three ends of ngx_http_upstream_get_round_robin_peer: the lone peer of an
\* upstream, NGX_BUSY with some groups marked live, or a peer of the group in e.
Lone(a, d) == single(P) /\ a.ok /\ a.P = P /\ a.d = d
Busy(a) ==
    ~a.ok /\ \E L \in SUBSET DOMAIN P : a.P = [g \in DOMAIN P |-> IF g \in L THEN live(P[g]) ELSE P[g]]
Took(a, e) ==
    /\ ~single(P) /\ a = Take(P, e, now)
    /\ e.group \in DOMAIN P /\ e.tried \subseteq DOMAIN P[e.group]
    /\ eligible(P[e.group], e.tried, now) # {}

\* A get ends in one of them; e is where the request was or the backups.
LEMMA GetEnds ==
    ASSUME IndInv, NEW d \in PeerData, d.group \in DOMAIN P, d.tried \subseteq DOMAIN P[d.group]
    PROVE  LET a == get_round_robin_peer(P, d, now)
           IN  \/ Lone(a, d) \/ Busy(a) \/ Took(a, d)
               \/ d.group = 1 /\ Took(a, AtBackups(P, d))
<1> DEFINE a == get_round_robin_peer(P, d, now)
<1>1. Len(P) \in {1, 2} /\ DOMAIN P = 1..Len(P) /\ 1 \in DOMAIN P /\ P = [g \in DOMAIN P |-> P[g]]
  BY IndInvParts
<1>2. CASE single(P)
  <2>1. CASE P[1][1].down
    <3>1. a = [P |-> <<live(P[1])>>, d |-> d, ok |-> FALSE]
      BY <1>2, <2>1 DEF get_round_robin_peer
    <3>2. <<live(P[1])>> = [g \in DOMAIN P |-> IF g \in {1} THEN live(P[g]) ELSE P[g]]
      BY <1>1, <1>2 DEF single
    <3> HIDE DEF a
    <3>3. ~a.ok /\ a.P = [g \in DOMAIN P |-> IF g \in {1} THEN live(P[g]) ELSE P[g]]
      BY <3>1, <3>2
    <3>4. {1} \in SUBSET DOMAIN P
      BY <1>1
    <3> QED
      BY <3>3, <3>4 DEF Busy, a
  <2>2. CASE ~P[1][1].down
    <3>1. a = [P |-> P, d |-> d, ok |-> TRUE]
      BY <1>2, <2>2 DEF get_round_robin_peer
    <3> QED
      BY <3>1, <1>2 DEF Lone
  <2> QED
    BY <2>1, <2>2
<1>3. CASE ~single(P)
  <2>1. CASE eligible(P[d.group], d.tried, now) # {}
    <3>1. a = Take(P, d, now)
      BY <1>3, <2>1 DEF get_round_robin_peer
    <3> QED
      BY <3>1, <1>3, <2>1 DEF Took
  <2>2. CASE eligible(P[d.group], d.tried, now) = {} /\ d.group = Len(P)
    <3>1. a = [P |-> [P EXCEPT ![d.group] = live(@)], d |-> d, ok |-> FALSE]
      BY <1>3, <2>2 DEF get_round_robin_peer
    <3>2. [P EXCEPT ![d.group] = live(@)]
            = [g \in DOMAIN P |-> IF g \in {d.group} THEN live(P[g]) ELSE P[g]]
      BY <1>1
    <3> HIDE DEF a
    <3>3. ~a.ok /\ a.P = [g \in DOMAIN P |-> IF g \in {d.group} THEN live(P[g]) ELSE P[g]]
      BY <3>1, <3>2
    <3>4. {d.group} \in SUBSET DOMAIN P
      OBVIOUS
    <3> QED
      BY <3>3, <3>4 DEF Busy, a
  <2>3. CASE eligible(P[d.group], d.tried, now) = {} /\ d.group < Len(P)
    <3> DEFINE b == AtBackups(P, d)
    <3>0. d.group = 1 /\ 2 \in DOMAIN P
      BY <1>1, <2>3 DEF PeerData
    <3>b. b.group = 2 /\ b.tried = {}
      BY DEF AtBackups
    <3>1. CASE eligible(P[2], b.tried, now) # {}
      <4>1. a = Take(P, b, now)
        BY <1>3, <2>3, <3>1 DEF get_round_robin_peer
      <4> HIDE DEF a, b
      <4>2. Took(a, b)
        BY <4>1, <1>3, <3>0, <3>1, <3>b DEF Took
      <4> QED
        BY <4>2, <3>0 DEF a, b
    <3>2. CASE eligible(P[2], b.tried, now) = {}
      <4>1. a = [P |-> [g \in DOMAIN P |-> live(P[g])], d |-> b, ok |-> FALSE]
        BY <1>3, <2>3, <3>2 DEF get_round_robin_peer
      <4> HIDE DEF a, b
      <4>2. ~a.ok /\ a.P = [g \in DOMAIN P |-> IF g \in DOMAIN P THEN live(P[g]) ELSE P[g]]
        BY <4>1
      <4>3. DOMAIN P \in SUBSET DOMAIN P
        OBVIOUS
      <4> QED
        BY <4>2, <4>3 DEF Busy, a
    <3> QED
      BY <3>1, <3>2
  <2>4. d.group = Len(P) \/ d.group < Len(P)
    BY <1>1 DEF PeerData
  <2> QED
    BY <2>1, <2>2, <2>3, <2>4
<1> QED
  BY <1>2, <1>3

\* The tables after a get that ended busy: nothing but failures is forgotten, and
\* in a group all of them at once.
LEMMA BusyTables ==
    ASSUME IndInv, NEW a, Busy(a), P' = a.P, now' = now
    PROVE  /\ TablesKept
           /\ \A g \in DOMAIN P : \/ P'[g] = P[g]
                                  \/ \A k \in DOMAIN P[g] : P'[g][k].fails = 0
<1>1. PICK L \in SUBSET DOMAIN P : P' = [g \in DOMAIN P |-> IF g \in L THEN live(P[g]) ELSE P[g]]
  BY DEF Busy
<1>2. ASSUME NEW g \in DOMAIN P
      PROVE  /\ GroupOK(P'[g], now) /\ Later(P'[g], P[g])
             /\ P'[g] = P[g] \/ \A k \in DOMAIN P[g] : P'[g][k].fails = 0
  <2>0. now \in Nat /\ GroupOK(P[g], now)
    BY IndInvParts
  <2>1. CASE g \in L
    <3>1. P'[g] = live(P[g])
      BY <1>1, <2>1
    <3> QED
      BY <3>1, <2>0, LiveGroup
  <2>2. CASE g \notin L
    <3>1. P'[g] = P[g]
      BY <1>1, <2>2
    <3>2. ASSUME NEW i \in DOMAIN P[g] PROVE P[g][i].checked \in Nat
      <4>1. P[g][i] \in Peer
        BY <2>0 DEF GroupOK
      <4> QED
        BY <4>1 DEF Peer
    <3> QED
      BY <3>1, <3>2, <2>0 DEF Later
  <2> QED
    BY <2>1, <2>2
<1>3. now \in Nat
  BY IndInvParts
<1> QED
  BY <1>1, <1>2, <1>3 DEF TablesKept

\* The tables after a get that took a peer: the peer was eligible, no failure is
\* forgotten, and a probe is recorded as a check.
LEMMA TookTables ==
    ASSUME IndInv, NEW a, NEW e, Took(a, e), P' = a.P, now' = now
    PROVE  LET b == picked(P[e.group], eligible(P[e.group], e.tried, now))
           IN  /\ TablesKept /\ a.ok
               /\ a.d = [group |-> e.group, current |-> b, tried |-> e.tried \union {b},
                         tries |-> IF e.tries = 1 /\ e.group < Len(P)
                                   THEN 1 + Len(P[e.group + 1]) ELSE e.tries]
               /\ b \in DOMAIN P[e.group] /\ b \notin e.tried
               /\ ~exhausted(P[e.group][b], now)
               /\ failing(P[e.group][b]) => /\ now - P[e.group][b].checked > P[e.group][b].fail_timeout
                                            /\ P'[e.group][b].checked = now
               /\ \A g \in DOMAIN P : \A i \in DOMAIN P[g] : P'[g][i].fails = P[g][i].fails
<1> DEFINE h == e.group
           G == P[h]
           E == eligible(G, e.tried, now)
           b == picked(G, E)
           H == get_peer(G, E, now)
<1>1. now \in Nat /\ P = [g \in DOMAIN P |-> P[g]] /\ \A g \in DOMAIN P : GroupOK(P[g], now)
  BY IndInvParts
<1>2. h \in DOMAIN P /\ E # {} /\ GroupOK(G, now)
  BY <1>1 DEF Took
<1>3. E \subseteq DOMAIN G /\ E \intersect e.tried = {} /\ \A i \in E : ~exhausted(G[i], now)
  BY DEF eligible
<1>4. /\ b \in E /\ GroupOK(H, now) /\ Later(H, G) /\ \A i \in DOMAIN G : H[i].fails = G[i].fails
      /\ now - G[b].checked > G[b].fail_timeout => H[b].checked = now
  <2> HIDE DEF G, E
  <2> QED
    BY <1>1, <1>2, <1>3, GetPeer
<1>5. a = [P |-> [P EXCEPT ![h] = H],
           d |-> [group |-> h, current |-> b, tried |-> e.tried \union {b},
                  tries |-> IF e.tries = 1 /\ h < Len(P) THEN 1 + Len(P[h + 1]) ELSE e.tries],
           ok |-> TRUE]
  BY DEF Took, Take
<1> HIDE DEF b, H
<1>6. /\ P' = [P EXCEPT ![h] = H] /\ a.ok
      /\ a.d = [group |-> h, current |-> b, tried |-> e.tried \union {b},
                tries |-> IF e.tries = 1 /\ h < Len(P) THEN 1 + Len(P[h + 1]) ELSE e.tries]
  BY <1>5
<1>7. /\ P' = [g \in DOMAIN P |-> P'[g]] /\ P'[h] = H
      /\ \A g \in DOMAIN P : g # h => P'[g] = P[g]
  BY <1>1, <1>2, <1>6
<1>8. ASSUME NEW g \in DOMAIN P
      PROVE  /\ GroupOK(P'[g], now) /\ Later(P'[g], P[g])
             /\ \A i \in DOMAIN P[g] : P'[g][i].fails = P[g][i].fails
  <2>1. CASE g = h
    BY <2>1, <1>4, <1>7
  <2>2. CASE g # h
    <3>1. P'[g] = P[g] /\ GroupOK(P[g], now)
      BY <2>2, <1>1, <1>7
    <3>2. ASSUME NEW i \in DOMAIN P[g] PROVE P[g][i].checked \in Nat
      <4>1. P[g][i] \in Peer
        BY <3>1 DEF GroupOK
      <4> QED
        BY <4>1 DEF Peer
    <3> QED
      BY <3>1, <3>2 DEF Later
  <2> QED
    BY <2>1, <2>2
<1>9. TablesKept
  BY <1>1, <1>7, <1>8 DEF TablesKept
<1>10. b \in DOMAIN G /\ b \notin e.tried /\ ~exhausted(G[b], now)
  BY <1>3, <1>4
<1>11. failing(G[b]) => now - G[b].checked > G[b].fail_timeout
  <2>1. G[b] \in Peer
    BY <1>2, <1>10 DEF GroupOK
  <2> QED
    BY <2>1, <1>1, <1>10 DEF failing, exhausted, Peer
<1>12. failing(G[b]) => P'[h][b].checked = now
  BY <1>4, <1>7, <1>11
<1> QED
  BY <1>6, <1>8, <1>9, <1>10, <1>11, <1>12 DEF b

\* One more member of a finite set of places.
LEMMA OneMore ==
    ASSUME NEW n \in Nat, NEW S, S \subseteq 1..n, NEW b \in 1..n, b \notin S
    PROVE  /\ Cardinality(S) \in Nat /\ Cardinality(S) <= n
           /\ Cardinality(S \union {b}) = Cardinality(S) + 1
<1>1. IsFiniteSet(1..n) /\ Cardinality(1..n) = n
  BY FS_Interval
<1>2. IsFiniteSet(S) /\ Cardinality(S) <= n
  BY <1>1, FS_Subset
<1> QED
  BY <1>2, FS_AddElement, FS_CardinalityType

\* The places a request has tried are no more than there are.
LEMMA TriedBound ==
    ASSUME NEW n \in Nat, NEW S, S \subseteq 1..n
    PROVE  Cardinality(S) \in Nat /\ Cardinality(S) <= n
<1>1. IsFiniteSet(1..n) /\ Cardinality(1..n) = n
  BY FS_Interval
<1> QED
  BY <1>1, FS_Subset, FS_CardinalityType

\* The data of a request before its first get.
LEMMA IdleValid ==
    ASSUME IndInv, TablesKept, NEW r \in Requests, req'[r] = Idle(P')
    PROVE  RequestValid(r)' /\ req'[r] \in [st : {"idle", "next", "peer"}, d : PeerData, used : Nat]
<1>1. /\ req'[r].st = "idle" /\ req'[r].used = 0 /\ req'[r].d.group = 1
      /\ req'[r].d.current = 1 /\ req'[r].d.tried = {} /\ req'[r].d.tries = Len(P'[1])
      /\ req'[r] = [st |-> "idle", d |-> [group |-> 1, current |-> 1, tried |-> {},
                                         tries |-> Len(P'[1])], used |-> 0]
  BY DEF Idle, init_peer
<1>2. 1 \in DOMAIN P' /\ P'[1] # << >> /\ P'[1] \in Seq(Peer)
  BY ShapeKept, IndInvParts
<1>3. 1 \in DOMAIN P'[1] /\ Len(P'[1]) \in Nat
  BY <1>2
<1>4. Cardinality({}) = 0
  BY FS_EmptySet
<1>5. RequestValid(r)'
  BY <1>1, <1>2, <1>3, <1>4 DEF RequestValid
<1> QED
  BY <1>1, <1>3, <1>5 DEF PeerData

-----------------------------------------------------------------------------
(* The tables of the configuration *)

\* A peer that no request has met yet.
FreshPeers == {p \in Peer : p.effective_weight = p.weight /\ p.current_weight = 0 /\ p.checked = 0}

\* The addresses of one server directive.
LEMMA ServerPeers ==
    ASSUME NEW k \in DOMAIN Servers
    PROVE  /\ Servers[k].naddrs \in Nat /\ Servers[k].naddrs # 0 /\ Servers[k].backup \in BOOLEAN
           /\ NewPeer(Servers[k]) \in FreshPeers
           /\ [j \in 1..Servers[k].naddrs |-> NewPeer(Servers[k])] \in Seq(FreshPeers)
           /\ Len([j \in 1..Servers[k].naddrs |-> NewPeer(Servers[k])]) = Servers[k].naddrs
<1>1. Servers[k] \in [naddrs : Nat \ {0}, weight : Nat \ {0}, max_fails : Nat,
                      fail_timeout : Nat, down : BOOLEAN, backup : BOOLEAN]
  <2> DEFINE T == [naddrs : Nat \ {0}, weight : Nat \ {0}, max_fails : Nat,
                   fail_timeout : Nat, down : BOOLEAN, backup : BOOLEAN]
  <2>1. Servers \in Seq(T)
    BY ServersAssumption
  <2> HIDE DEF T
  <2>2. Servers[k] \in T
    BY <2>1
  <2> QED
    BY <2>2 DEF T
<1>2. NewPeer(Servers[k]) \in Peer
  BY <1>1 DEF NewPeer, Peer
<1>3. NewPeer(Servers[k]) \in FreshPeers
  BY <1>2 DEF NewPeer, FreshPeers
<1>4. PICK n \in Nat : n = Servers[k].naddrs /\ n # 0
  BY <1>1
<1> DEFINE p == NewPeer(Servers[k])
<1> HIDE DEF p
<1>5. [j \in 1..n |-> p] \in Seq(FreshPeers) /\ Len([j \in 1..n |-> p]) = n
  BY <1>3 DEF p
<1>6. Servers[k].backup \in BOOLEAN
  BY <1>1
<1> QED
  BY <1>3, <1>4, <1>5, <1>6 DEF p

\* A group of the configuration: fresh peers, and some when a server is of the group.
LEMMA GroupIs ==
    ASSUME NEW backup \in BOOLEAN
    PROVE  /\ GroupOf(Servers, backup) \in Seq(FreshPeers)
           /\ (\E k \in DOMAIN Servers : Servers[k].backup = backup) => GroupOf(Servers, backup) # << >>
<1>1. PICK n \in Nat : n = Len(Servers) /\ DOMAIN Servers = 1..n
  BY ServersAssumption
<1> DEFINE S == Seq(FreshPeers)
           more(k) == [j \in 1..Servers[k].naddrs |-> NewPeer(Servers[k])]
           next(k, s) == IF Servers[k].backup # backup THEN s ELSE s \o more(k)
           step == [k \in 1..n |-> [s \in S |-> next(k, s)]]
<1>2. \A k \in 1..n : more(k) \in S /\ Len(more(k)) \in Nat /\ Len(more(k)) # 0
  BY <1>1, ServerPeers
<1> HIDE DEF more
<1>3. \A k \in 1..n : \A s \in S : next(k, s) \in S
  <2>1. \A s, t \in S : s \o t \in S
    OBVIOUS
  <2> HIDE DEF S
  <2> QED
    BY <2>1, <1>2
<1>4. << >> \in S
  OBVIOUS
<1> HIDE DEF S
<1>5. step \in [1..n -> [S -> S]]
  BY <1>3
<1>6. PICK r : IsLoop(r, S, n, step, << >>)
  <2> HIDE DEF step
  <2> QED
    BY <1>4, <1>5, LoopExists, Zenon
<1>7. r \in [0..n -> S] /\ r[0] = << >> /\ \A k \in 1..n : r[k] = step[k][r[k - 1]]
  BY <1>6 DEF IsLoop
<1>8. \A k \in 1..n : k - 1 \in 0..n /\ r[k - 1] \in S
  BY <1>7
<1>9. \A k \in 1..n : r[k] = next(k, r[k - 1])
  BY <1>7, <1>8
<1> HIDE DEF next, step
<1> DEFINE s == CHOOSE s : s = [k \in 0..n |-> IF k = 0 THEN << >> ELSE next(k, s[k - 1])]
<1>10. r = [k \in 0..n |-> IF k = 0 THEN << >> ELSE next(k, r[k - 1])]
  BY <1>7, <1>9
<1>11. s = [k \in 0..n |-> IF k = 0 THEN << >> ELSE next(k, s[k - 1])]
  BY <1>10
<1>12. GroupOf(Servers, backup) = s[n]
  BY <1>1, Zenon DEF GroupOf, more, next
<1> HIDE DEF s
<1>13. s[0] = << >> /\ \A k \in 1..n : s[k] = next(k, s[k - 1])
  BY <1>11
<1>14. \A k \in 0..n : s[k] \in S
  <2> DEFINE T == {k \in 0..n : s[k] \notin S}
  <2> SUFFICES ASSUME T # {} PROVE FALSE
    OBVIOUS
  <2>0. T \in SUBSET Nat
    OBVIOUS
  <2>1. PICK m \in T : \A y \in T : m <= y
    <3> HIDE DEF T
    <3> QED
      BY <2>0, SmallestNumber
  <2>2. m \in 1..n
    BY <1>4, <1>13
  <2>3. m - 1 \in 0..n /\ m - 1 \notin T
    BY <2>1, <2>2
  <2>4. s[m] = next(m, s[m - 1]) /\ s[m - 1] \in S
    BY <2>2, <2>3, <1>13
  <2> QED
    BY <2>2, <2>4, <1>3
<1>15. ASSUME NEW k \in 1..n, Servers[k].backup = backup PROVE s[n] # << >>
  <2> DEFINE T == {m \in 0..n : k <= m /\ s[m] = << >>}
  <2> SUFFICES ASSUME T # {} PROVE FALSE
    OBVIOUS
  <2>0. T \in SUBSET Nat
    OBVIOUS
  <2>1. PICK m \in T : \A y \in T : m <= y
    <3> HIDE DEF T
    <3> QED
      BY <2>0, SmallestNumber
  <2>2. m \in 1..n /\ k <= m /\ s[m] = << >>
    OBVIOUS
  <2>3. m - 1 \in 0..n /\ m - 1 \notin T
    BY <2>1, <2>2
  <2>4. s[m] = next(m, s[m - 1]) /\ s[m - 1] \in Seq(FreshPeers) /\ more(m) \in Seq(FreshPeers)
        /\ Len(more(m)) \in Nat /\ Len(more(m)) # 0
    BY <2>2, <2>3, <1>2, <1>13, <1>14 DEF S
  <2>5. s[m - 1] \o more(m) # << >>
    BY <2>4
  <2>6. CASE k = m
    BY <2>2, <2>4, <2>5, <2>6, <1>15 DEF next
  <2>7. CASE k # m
    <3>1. s[m - 1] # << >>
      BY <2>2, <2>3, <2>7
    <3> QED
      BY <3>1, <2>2, <2>4, <2>5 DEF next
  <2> QED
    BY <2>6, <2>7
<1>16. n \in 0..n
  OBVIOUS
<1> QED
  BY <1>1, <1>12, <1>14, <1>15, <1>16 DEF S

\* A group of fresh peers at time 0.
LEMMA FreshGroup ==
    ASSUME NEW G \in Seq(FreshPeers), G # << >>
    PROVE  GroupOK(G, 0)
<1>1. PICK n \in Nat : n = Len(G) /\ n # 0 /\ DOMAIN G = 1..n
  OBVIOUS
<1>2. \A i \in 1..n : G[i] \in FreshPeers
  BY <1>1
<1>3. \A i \in 1..n : G[i] \in Peer /\ G[i].effective_weight = G[i].weight
                      /\ G[i].current_weight = 0 /\ G[i].checked = 0 /\ G[i].weight \in Nat
  BY <1>2 DEF FreshPeers, Peer
<1>4. G \in Seq(Peer)
  BY <1>1, <1>3
<1>5. \A i \in 1..n : G[i].effective_weight <= G[i].weight /\ G[i].checked <= 0
  BY <1>3
<1> DEFINE w == current_weights(G)
<1>6. w \in [1..n -> Int] /\ \A i \in 1..n : w[i] = 0
  BY <1>1, <1>3 DEF current_weights
<1> HIDE DEF w
<1>7. SumTo(w, n) = 0
  BY <1>6, SumZero
<1> QED
  BY <1>1, <1>4, <1>5, <1>7 DEF GroupOK, w

\* The tables of the configuration.
LEMMA InitTables ==
    LET Q == init_round_robin(Servers)
    IN  /\ Q = [g \in 1..Len(Q) |-> Q[g]] /\ Len(Q) \in {1, 2} /\ DOMAIN Q = 1..Len(Q)
        /\ Q \in Seq(Seq(Peer))
        /\ \A g \in DOMAIN Q : GroupOK(Q[g], 0)
<1> DEFINE A == GroupOf(Servers, FALSE)
           B == GroupOf(Servers, TRUE)
           Q == init_round_robin(Servers)
<1>1. A \in Seq(FreshPeers) /\ B \in Seq(FreshPeers) /\ A # << >>
  <2>1. \E k \in DOMAIN Servers : Servers[k].backup = FALSE
    <3>1. PICK k \in DOMAIN Servers : ~Servers[k].backup
      BY ServersAssumption
    <3>2. Servers[k].backup \in BOOLEAN
      BY ServerPeers
    <3> QED
      BY <3>1, <3>2
  <2> QED
    BY <2>1, GroupIs, Zenon
<1>2. Q = IF B = << >> THEN <<A>> ELSE <<A, B>>
  BY <1>1 DEF init_round_robin
<1>3. GroupOK(A, 0) /\ (B # << >> => GroupOK(B, 0))
  BY <1>1, FreshGroup
<1>4. A \in Seq(Peer) /\ (B # << >> => B \in Seq(Peer))
  BY <1>3 DEF GroupOK
<1> HIDE DEF A, B, Q
<1>5. CASE B = << >>
  BY <1>2, <1>3, <1>4, <1>5 DEF Q
<1>6. CASE B # << >>
  BY <1>2, <1>3, <1>4, <1>6 DEF Q
<1> QED
  BY <1>5, <1>6

\* The invariant holds at first.
LEMMA InitInd == Init => IndInv
<1> SUFFICES ASSUME Init PROVE IndInv
  OBVIOUS
<1>1. /\ P = init_round_robin(Servers) /\ now = 0 /\ turns = 0 /\ gets = 0
      /\ req = [r \in Requests |-> Idle(P)]
      /\ probe = [g \in DOMAIN P |-> [i \in DOMAIN P[g] |-> NoProbe]]
  BY DEF Init
<1>2. /\ Len(P) \in {1, 2} /\ DOMAIN P = 1..Len(P) /\ P \in Seq(Seq(Peer))
      /\ \A g \in DOMAIN P : GroupOK(P[g], 0)
  BY <1>1, InitTables
<1>3. \A g \in DOMAIN P : /\ P[g] # << >> /\ Len(P[g]) \in Nat /\ DOMAIN P[g] = 1..Len(P[g])
                          /\ 1 \in DOMAIN P[g]
  BY <1>2, GroupFacts DEF GroupOK
<1>4. 1 \in DOMAIN P
  BY <1>2
<1>5. ASSUME NEW g \in DOMAIN P
      PROVE  probe[g] \in Seq(Int) /\ Len(probe[g]) = Len(P[g])
  <2>1. PICK n \in Nat : n = Len(P[g]) /\ DOMAIN P[g] = 1..n
    BY <1>3
  <2>2. probe[g] = [i \in 1..n |-> NoProbe]
    BY <1>1, <2>1
  <2>3. NoProbe \in Int
    BY DEF NoProbe
  <2> QED
    BY <2>1, <2>2, <2>3
<1>6. ASSUME NEW r \in Requests
      PROVE  /\ req[r] \in [st : {"idle", "next", "peer"}, d : PeerData, used : Nat]
             /\ RequestValid(r)
  <2>1. req[r] = [st |-> "idle", d |-> [group |-> 1, current |-> 1, tried |-> {},
                                       tries |-> Len(P[1])], used |-> 0]
    BY <1>1 DEF Idle, init_peer
  <2>2. Cardinality({}) = 0
    BY FS_EmptySet
  <2>3. /\ req[r].st = "idle" /\ req[r].used = 0 /\ req[r].d.group = 1
        /\ req[r].d.current = 1 /\ req[r].d.tried = {}
    BY <2>1
  <2>4. RequestValid(r)
    BY <2>2, <2>3, <1>3, <1>4 DEF RequestValid
  <2> QED
    BY <2>1, <2>4, <1>3, <1>4 DEF PeerData
<1>7. TypeOK
  <2>1. probe \in [DOMAIN P -> Seq(Int)]
    BY <1>1, <1>5
  <2>2. req \in [Requests -> [st : {"idle", "next", "peer"}, d : PeerData, used : Nat]]
    BY <1>1, <1>6
  <2> QED
    BY <1>1, <1>2, <1>3, <1>5, <2>1, <2>2 DEF TypeOK
<1>8. ASSUME NEW g \in DOMAIN P, NEW i \in DOMAIN P[g]
      PROVE  P[g][i].effective_weight \in 0..P[g][i].weight /\ P[g][i].checked <= now
             /\ probe[g][i] <= P[g][i].checked
  <2>1. P[g][i] \in Peer /\ P[g][i].effective_weight <= P[g][i].weight /\ P[g][i].checked <= 0
    BY <1>2 DEF GroupOK
  <2>2. P[g][i].checked \in Nat /\ P[g][i].effective_weight \in Nat /\ P[g][i].weight \in Nat
    BY <2>1 DEF Peer
  <2>3. probe[g][i] = -100
    BY <1>1 DEF NoProbe
  <2> QED
    BY <2>1, <2>2, <2>3, <1>1
<1>9. EffectiveInRange /\ ChecksRecorded
  BY <1>8 DEF EffectiveInRange, ChecksRecorded
<1>10. WeightsBalance
  BY <1>2 DEF WeightsBalance, GroupOK
<1> QED
  BY <1>6, <1>7, <1>9, <1>10 DEF IndInv

-----------------------------------------------------------------------------
(* The steps *)

\* What a request's entry is.
Entry == [st : {"idle", "next", "peer"}, d : PeerData, used : Nat]

\* A step that writes the entry of one request.
LEMMA OneRequest ==
    ASSUME IndInv, NEW r \in Requests, NEW x, req' = [req EXCEPT ![r] = x]
    PROVE  /\ req'[r] = x /\ \A q \in Requests : q # r => req'[q] = req[q]
           /\ x \in Entry => req' \in [Requests -> Entry]
<1>1. req \in [Requests -> Entry]
  BY DEF IndInv, TypeOK, Entry
<1> QED
  BY <1>1

\* The history of the probes after a step that records at most one.
LEMMA ProbeKept ==
    ASSUME IndInv, TablesKept, NEW g0 \in DOMAIN P, NEW i0 \in DOMAIN P[g0], now' = now,
           \/ probe' = probe
           \/ /\ probe' = [probe EXCEPT ![g0] = [probe[g0] EXCEPT ![i0] = now]]
              /\ ~single(P) => P'[g0][i0].checked = now
    PROVE  /\ probe' \in [DOMAIN P -> Seq(Int)] /\ \A g \in DOMAIN P : Len(probe'[g]) = Len(P[g])
           /\ ~single(P) => \A g \in DOMAIN P : \A i \in DOMAIN P[g] : probe'[g][i] <= P'[g][i].checked
<1>1. /\ probe \in [DOMAIN P -> Seq(Int)] /\ \A g \in DOMAIN P : Len(probe[g]) = Len(P[g])
      /\ now \in Nat /\ \A g \in DOMAIN P : P[g] \in Seq(Peer)
  BY DEF IndInv, TypeOK
<1>2. ASSUME NEW g \in DOMAIN P, NEW i \in DOMAIN P[g]
      PROVE  /\ P[g][i].checked \in Int /\ P'[g][i].checked \in Int /\ probe[g][i] \in Int
             /\ P[g][i].checked <= P'[g][i].checked
             /\ ~single(P) => probe[g][i] <= P[g][i].checked
  <2>1. P[g][i] \in Peer /\ i \in DOMAIN probe[g] /\ probe[g] \in Seq(Int)
    BY <1>1
  <2>2. GroupOK(P'[g], now') /\ Later(P'[g], P[g]) /\ i \in DOMAIN P'[g]
    BY ShapeKept DEF TablesKept
  <2>3. P'[g][i] \in Peer
    BY <2>2 DEF GroupOK
  <2>4. ~single(P) => probe[g][i] <= P[g][i].checked
    BY DEF IndInv, ChecksRecorded
  <2>5. P[g][i].checked <= P'[g][i].checked
    BY <2>2 DEF Later
  <2>6. P[g][i].checked \in Int /\ P'[g][i].checked \in Int
    BY <2>1, <2>3 DEF Peer
  <2>7. probe[g][i] \in Int
    BY <2>1
  <2> QED
    BY <2>4, <2>5, <2>6, <2>7
<1>3. ASSUME NEW g \in DOMAIN P, NEW i \in DOMAIN P[g], ~single(P)
      PROVE  probe[g][i] <= P'[g][i].checked
  BY <1>2, <1>3
<1>4. CASE probe' = probe
  BY <1>1, <1>3, <1>4
<1>5. CASE /\ probe' = [probe EXCEPT ![g0] = [probe[g0] EXCEPT ![i0] = now]]
           /\ ~single(P) => P'[g0][i0].checked = now
  <2> DEFINE s == probe[g0]
             t == [s EXCEPT ![i0] = now]
  <2>1. s \in Seq(Int) /\ Len(s) = Len(P[g0]) /\ i0 \in 1..Len(s)
    BY <1>1
  <2> HIDE DEF s
  <2>2. /\ t \in Seq(Int) /\ Len(t) = Len(P[g0]) /\ t[i0] = now
        /\ \A i \in 1..Len(s) : i # i0 => t[i] = s[i]
    BY <2>1, <1>1
  <2>3. probe' = [probe EXCEPT ![g0] = t]
    BY <1>5 DEF s
  <2> HIDE DEF t
  <2>4. probe' \in [DOMAIN P -> Seq(Int)] /\ probe'[g0] = t
        /\ \A g \in DOMAIN P : g # g0 => probe'[g] = probe[g]
    BY <1>1, <2>2, <2>3
  <2>5. \A g \in DOMAIN P : Len(probe'[g]) = Len(P[g])
    BY <1>1, <2>2, <2>4
  <2>6. ASSUME ~single(P), NEW g \in DOMAIN P, NEW i \in DOMAIN P[g]
        PROVE  probe'[g][i] <= P'[g][i].checked
    <3>1. CASE g = g0 /\ i = i0
      BY <3>1, <2>2, <2>4, <2>6, <1>1, <1>5
    <3>2. CASE g = g0 /\ i # i0
      <4>1. i \in 1..Len(s)
        BY <3>2, <2>1, <1>1
      <4>2. probe'[g][i] = probe[g][i]
        BY <4>1, <3>2, <2>2, <2>4 DEF s
      <4> QED
        BY <4>2, <1>3, <2>6
    <3>3. CASE g # g0
      BY <3>3, <2>4, <1>3, <2>6
    <3> QED
      BY <3>1, <3>2, <3>3
  <2> QED
    BY <2>4, <2>5, <2>6
<1> QED
  BY <1>4, <1>5

\* The data of a request that took a peer of an upstream with several.
LEMMA TookValid ==
    ASSUME IndInv, TablesKept, ~single(P), NEW r \in Requests,
           NEW g \in DOMAIN P, NEW S, S \subseteq DOMAIN P[g], NEW b \in DOMAIN P[g], b \notin S,
           NEW t \in Nat, NEW u \in Nat,
           g = 1 => u <= Cardinality(S), g # 1 => u <= Len(P[1]) + Cardinality(S),
           req'[r] = [st |-> "peer", used |-> u + 1,
                      d |-> [group |-> g, current |-> b, tried |-> S \union {b}, tries |-> t]]
    PROVE  RequestValid(r)' /\ req'[r] \in Entry
<1>1. /\ Len(P) \in {1, 2} /\ DOMAIN P = 1..Len(P) /\ 1 \in DOMAIN P
      /\ GroupOK(P[g], now) /\ GroupOK(P[1], now) /\ now \in Nat
  BY IndInvParts
<1>2. /\ Len(P[g]) \in Nat /\ DOMAIN P[g] = 1..Len(P[g]) /\ Len(P[1]) \in Nat
  BY <1>1, GroupFacts
<1>3. Cardinality(S) \in Nat /\ Cardinality(S \union {b}) = Cardinality(S) + 1
  BY <1>2, OneMore
<1>4. /\ g \in DOMAIN P' /\ DOMAIN P'[g] = DOMAIN P[g] /\ Len(P'[1]) = Len(P[1]) /\ ~single(P')
  BY <1>1, ShapeKept
<1>5. /\ req'[r].st = "peer" /\ req'[r].used = u + 1 /\ req'[r].d.group = g
      /\ req'[r].d.current = b /\ req'[r].d.tried = S \union {b}
  OBVIOUS
<1>6. /\ g = 1 => u + 1 <= Cardinality(S \union {b})
      /\ g # 1 => u + 1 <= Len(P[1]) + Cardinality(S \union {b})
  BY <1>2, <1>3
<1>7. RequestValid(r)'
  BY <1>4, <1>5, <1>6 DEF RequestValid
<1>8. g \in Nat /\ b \in Nat /\ S \union {b} \in SUBSET Nat
  BY <1>1, <1>2
<1>9. req'[r] \in Entry
  BY <1>8 DEF Entry, PeerData
<1> QED
  BY <1>7, <1>9

\* What every step keeps: the invariant, and the two things a step may never do.
StepSafe == IndInv' /\ ProbeSpaced /\ LiveChecked

\* A step after which no request is newly at a peer takes no probe.
LEMMA NoProbeTaken ==
    ASSUME NEW r \in Requests, \A q \in Requests : q # r => req'[q] = req[q], req'[r].st # "peer"
    PROVE  ProbeSpaced
  BY DEF ProbeSpaced

\* ngx_http_upstream_get_round_robin_peer.
LEMMA GetSafe ==
    ASSUME IndInv, NEW r \in Requests, Get(r)
    PROVE  StepSafe
<1> DEFINE d == req[r].d
           a == get_round_robin_peer(P, d, now)
           G == a.d.group
           I == a.d.current
           u == req[r].used
<1>1. /\ Len(P) \in {1, 2} /\ DOMAIN P = 1..Len(P) /\ 1 \in DOMAIN P
      /\ \A g \in DOMAIN P : GroupOK(P[g], now)
      /\ RequestValid(r) /\ d \in PeerData /\ u \in Nat /\ now \in Nat
      /\ turns \in Nat /\ gets \in Nat
  BY IndInvParts DEF IndInv, TypeOK
<1>2. d.group \in DOMAIN P /\ d.current \in DOMAIN P[d.group] /\ d.tried \subseteq DOMAIN P[d.group]
  BY <1>1 DEF RequestValid
<1>3. Lone(a, d) \/ Busy(a) \/ Took(a, d) \/ (d.group = 1 /\ Took(a, AtBackups(P, d)))
  BY <1>1, <1>2, GetEnds
<1>4. /\ req[r].st \in {"idle", "next"} /\ P' = a.P /\ gets' = gets + 1 /\ now' = now /\ turns' = turns
      /\ req' = [req EXCEPT ![r] = IF a.ok THEN [st |-> "peer", d |-> a.d, used |-> u + 1]
                                   ELSE Idle(a.P)]
      /\ probe' = IF a.ok /\ failing(P[G][I])
                  THEN [probe EXCEPT ![G] = [probe[G] EXCEPT ![I] = now]] ELSE probe
  BY DEF Get
<1> HIDE DEF a
<1>5. turns' \in Nat /\ gets' \in Nat
  BY <1>1, <1>4
<1>6. CASE Lone(a, d)
  <2>1. single(P) /\ a.ok /\ P' = P /\ G = d.group /\ I = d.current /\ a.d = d
    BY <1>4, <1>6 DEF Lone
  <2>2. TablesKept
    <3>1. now <= now'
      BY <1>1, <1>4
    <3> QED
      BY <3>1, <1>1, <1>4, <2>1, SameTables
  <2>3. /\ req'[r] = [st |-> "peer", d |-> d, used |-> u + 1]
        /\ \A q \in Requests : q # r => req'[q] = req[q]
        /\ [st |-> "peer", d |-> d, used |-> u + 1] \in Entry
        /\ req' \in [Requests -> Entry]
    <3>1. [st |-> "peer", d |-> d, used |-> u + 1] \in Entry
      BY <1>1 DEF Entry
    <3>2. req' = [req EXCEPT ![r] = [st |-> "peer", d |-> d, used |-> u + 1]]
      BY <1>4, <2>1
    <3> QED
      BY <3>1, <3>2, OneRequest
  <2>4. u = 0
    BY <1>1, <1>4, <2>1 DEF RequestValid
  <2>5. RequestValid(r)'
    BY <1>2, <2>1, <2>3, <2>4 DEF RequestValid
  <2>6. /\ probe' \in [DOMAIN P -> Seq(Int)] /\ \A g \in DOMAIN P : Len(probe'[g]) = Len(P[g])
        /\ ~single(P) => \A g \in DOMAIN P : \A i \in DOMAIN P[g] : probe'[g][i] <= P'[g][i].checked
    <3>1. \/ probe' = probe
          \/ /\ probe' = [probe EXCEPT ![G] = [probe[G] EXCEPT ![I] = now]]
             /\ ~single(P) => P'[G][I].checked = now
      BY <1>4, <2>1
    <3>2. G \in DOMAIN P /\ I \in DOMAIN P[G]
      BY <1>2, <2>1
    <3> HIDE DEF G, I
    <3> QED
      BY <3>1, <3>2, <1>4, <2>2, ProbeKept
  <2>7. IndInv'
    BY <1>5, <2>2, <2>3, <2>5, <2>6, Assembled DEF Entry
  <2>8. ProbeSpaced
    BY <2>1 DEF ProbeSpaced
  <2>9. LiveChecked
    <3>1. ASSUME NEW g \in DOMAIN P, NEW i \in DOMAIN P[g] PROVE P[g][i].fails \in Nat
      <4>1. P[g][i] \in Peer
        BY <1>1, GroupFacts
      <4> QED
        BY <4>1 DEF Peer
    <3> QED
      BY <3>1, <2>1 DEF LiveChecked
  <2> QED
    BY <2>7, <2>8, <2>9 DEF StepSafe
<1>7. CASE Busy(a)
  <2>1. /\ TablesKept
        /\ \A g \in DOMAIN P : P'[g] = P[g] \/ \A k \in DOMAIN P[g] : P'[g][k].fails = 0
    BY <1>4, <1>7, BusyTables
  <2>2. ~a.ok /\ req' = [req EXCEPT ![r] = Idle(P')] /\ probe' = probe
    BY <1>4, <1>7 DEF Busy
  <2>3. req'[r] = Idle(P') /\ \A q \in Requests : q # r => req'[q] = req[q]
    BY <2>2, OneRequest
  <2>4. RequestValid(r)' /\ Idle(P') \in Entry
    BY <2>1, <2>3, IdleValid DEF Entry
  <2>5. req' \in [Requests -> Entry]
    BY <2>2, <2>4, OneRequest
  <2>6. /\ probe' \in [DOMAIN P -> Seq(Int)] /\ \A g \in DOMAIN P : Len(probe'[g]) = Len(P[g])
        /\ ~single(P) => \A g \in DOMAIN P : \A i \in DOMAIN P[g] : probe'[g][i] <= P'[g][i].checked
    BY <1>2, <1>4, <2>1, <2>2, ProbeKept
  <2>7. IndInv'
    BY <1>5, <2>1, <2>3, <2>4, <2>5, <2>6, Assembled DEF Entry
  <2>8. req'[r].st = "idle"
    BY <2>3 DEF Idle
  <2>9. ProbeSpaced
    BY <2>3, <2>8, NoProbeTaken
  <2>10. LiveChecked
    <3>1. ASSUME NEW g \in DOMAIN P, NEW i \in DOMAIN P[g] PROVE P[g][i].fails \in Nat
      <4>1. P[g][i] \in Peer
        BY <1>1, GroupFacts
      <4> QED
        BY <4>1 DEF Peer
    <3> QED
      BY <3>1, <2>1 DEF LiveChecked
  <2> QED
    BY <2>7, <2>9, <2>10 DEF StepSafe
<1>8. ASSUME NEW e, Took(a, e), e.group \in Nat, e.tries \in Nat,
             ~single(P) /\ e.group = 1 => u <= Cardinality(e.tried),
             ~single(P) /\ e.group # 1 => u <= Len(P[1]) + Cardinality(e.tried)
      PROVE  StepSafe
  <2> DEFINE b == picked(P[e.group], eligible(P[e.group], e.tried, now))
             t == IF e.tries = 1 /\ e.group < Len(P) THEN 1 + Len(P[e.group + 1]) ELSE e.tries
  <2>0. ~single(P) /\ e.group \in DOMAIN P /\ e.tried \subseteq DOMAIN P[e.group]
    BY <1>8 DEF Took
  <2>1. /\ TablesKept /\ a.ok
        /\ a.d = [group |-> e.group, current |-> b, tried |-> e.tried \union {b}, tries |-> t]
        /\ b \in DOMAIN P[e.group] /\ b \notin e.tried
        /\ failing(P[e.group][b]) => /\ now - P[e.group][b].checked > P[e.group][b].fail_timeout
                                     /\ P'[e.group][b].checked = now
        /\ \A g \in DOMAIN P : \A i \in DOMAIN P[g] : P'[g][i].fails = P[g][i].fails
    BY <1>4, <1>8, TookTables
  <2>2. t \in Nat
    <3>1. CASE e.tries = 1 /\ e.group < Len(P)
      <4>1. e.group + 1 \in DOMAIN P
        BY <3>1, <1>1, <2>0
      <4>2. Len(P[e.group + 1]) \in Nat
        BY <4>1, <1>1, GroupFacts
      <4> QED
        BY <4>2, <3>1
    <3> QED
      BY <3>1, <1>8
  <2> HIDE DEF b, t
  <2>3. G = e.group /\ I = b
    BY <2>1
  <2> DEFINE x == [st |-> "peer", d |-> a.d, used |-> u + 1]
  <2>4. req' = [req EXCEPT ![r] = x]
    BY <1>4, <2>1
  <2>5. req'[r] = x /\ \A q \in Requests : q # r => req'[q] = req[q]
    <3> HIDE DEF x
    <3> QED
      BY <2>4, OneRequest
  <2>6. req'[r] = [st |-> "peer", used |-> u + 1,
                   d |-> [group |-> e.group, current |-> b, tried |-> e.tried \union {b}, tries |-> t]]
    BY <2>1, <2>5
  <2> HIDE DEF x
  <2>7. RequestValid(r)' /\ x \in Entry
    <3> HIDE DEF u
    <3>1. RequestValid(r)' /\ req'[r] \in Entry
      BY <1>1, <1>8, <2>0, <2>1, <2>2, <2>6, TookValid DEF u
    <3> QED
      BY <3>1, <2>5
  <2>8. req' \in [Requests -> Entry]
    BY <2>4, <2>7, OneRequest
  <2>9. /\ probe' \in [DOMAIN P -> Seq(Int)] /\ \A g \in DOMAIN P : Len(probe'[g]) = Len(P[g])
        /\ ~single(P) => \A g \in DOMAIN P : \A i \in DOMAIN P[g] : probe'[g][i] <= P'[g][i].checked
    <3>1. \/ probe' = probe
          \/ /\ probe' = [probe EXCEPT ![G] = [probe[G] EXCEPT ![I] = now]]
             /\ ~single(P) => P'[G][I].checked = now
      BY <1>4, <2>1, <2>3
    <3>2. G \in DOMAIN P /\ I \in DOMAIN P[G]
      BY <2>0, <2>1, <2>3
    <3> HIDE DEF G, I
    <3> QED
      BY <3>1, <3>2, <1>4, <2>1, ProbeKept
  <2>10. IndInv'
    BY <1>5, <2>1, <2>5, <2>7, <2>8, <2>9, Assembled DEF Entry
  <2>11. ProbeSpaced
    <3>1. failing(P[e.group][b]) => now - probe[e.group][b] > P[e.group][b].fail_timeout
      <4>1. P[e.group][b] \in Peer
        BY <1>1, <2>0, <2>1, GroupFacts
      <4>2. P[e.group][b].checked \in Nat /\ P[e.group][b].fail_timeout \in Nat
        BY <4>1 DEF Peer
      <4>3. probe[e.group][b] <= P[e.group][b].checked
        BY <2>0, <2>1 DEF IndInv, ChecksRecorded
      <4>4. probe[e.group][b] \in Int
        <5>1. /\ probe[e.group] \in Seq(Int) /\ Len(probe[e.group]) = Len(P[e.group])
              /\ P[e.group] \in Seq(Peer)
          BY <2>0 DEF IndInv, TypeOK
        <5> QED
          BY <5>1, <2>1
      <4> QED
        BY <4>2, <4>3, <4>4, <1>1, <2>1
    <3>2. req'[r].d.group = e.group /\ req'[r].d.current = b
      BY <2>6
    <3> QED
      BY <2>5, <3>1, <3>2 DEF ProbeSpaced
  <2>12. LiveChecked
    <3>1. ASSUME NEW g \in DOMAIN P, NEW i \in DOMAIN P[g] PROVE P[g][i].fails \in Nat
      <4>1. P[g][i] \in Peer
        BY <1>1, GroupFacts
      <4> QED
        BY <4>1 DEF Peer
    <3> QED
      BY <3>1, <2>1 DEF LiveChecked
  <2> QED
    BY <2>10, <2>11, <2>12 DEF StepSafe
<1>9. CASE Took(a, d)
  BY <1>1, <1>8, <1>9 DEF RequestValid, PeerData
<1>10. CASE d.group = 1 /\ Took(a, AtBackups(P, d))
  <2>0. ~single(P) /\ 2 \in DOMAIN P
    BY <1>10 DEF Took, AtBackups
  <2>1. u <= Cardinality(d.tried) /\ d.tried \subseteq DOMAIN P[1]
    BY <1>1, <1>10, <2>0 DEF RequestValid
  <2>2. Len(P[1]) \in Nat /\ DOMAIN P[1] = 1..Len(P[1]) /\ Len(P[2]) \in Nat
    BY <1>1, <2>0, GroupFacts
  <2>3. Cardinality(d.tried) \in Nat /\ Cardinality(d.tried) <= Len(P[1])
    BY <2>1, <2>2, TriedBound
  <2>4. u <= Len(P[1]) + 0
    BY <1>1, <2>1, <2>2, <2>3
  <2>5. /\ AtBackups(P, d).group = 2 /\ AtBackups(P, d).tries = Len(P[2])
        /\ AtBackups(P, d).tried = {}
    BY DEF AtBackups
  <2>6. Cardinality({}) = 0
    BY FS_EmptySet
  <2> DEFINE e == AtBackups(P, d)
  <2>7. /\ e.group \in Nat /\ e.tries \in Nat /\ e.group # 1
        /\ u <= Len(P[1]) + Cardinality(e.tried)
    BY <2>2, <2>4, <2>5, <2>6
  <2> HIDE DEF e, u
  <2> QED
    BY <1>8, <1>10, <2>7 DEF e
<1> QED
  BY <1>3, <1>6, <1>7, <1>9, <1>10

\* The tables after ngx_http_upstream_free_round_robin_peer.
LEMMA FreeTables ==
    ASSUME IndInv, NEW r \in Requests, NEW state,
           P' = free_round_robin_peer(P, req[r].d, state, now).P, now' = now
    PROVE  TablesKept /\ LiveChecked
<1> DEFINE d == req[r].d
           g0 == d.group
           i0 == d.current
<1>1. /\ now \in Nat /\ P = [g \in DOMAIN P |-> P[g]] /\ \A g \in DOMAIN P : GroupOK(P[g], now)
      /\ g0 \in DOMAIN P /\ i0 \in DOMAIN P[g0]
  BY IndInvParts DEF RequestValid
<1>2. ASSUME NEW g \in DOMAIN P, NEW i \in DOMAIN P[g]
      PROVE  P[g][i].fails \in Nat /\ P[g][i].checked \in Nat
  <2>1. P[g][i] \in Peer
    BY <1>1, GroupFacts
  <2> QED
    BY <2>1 DEF Peer
<1>3. CASE single(P)
  <2>1. P' = P
    BY <1>3 DEF free_round_robin_peer
  <2>2. now <= now' /\ now' \in Nat
    BY <1>1
  <2>3. TablesKept
    BY <2>1, <2>2, SameTables
  <2> QED
    BY <1>2, <2>1, <2>3 DEF LiveChecked
<1>4. CASE ~single(P)
  <2> DEFINE H == [P[g0] EXCEPT ![i0] = IF state = "failed" THEN Failed(@, now) ELSE Passed(@)]
  <2>1. P' = [P EXCEPT ![g0] = H]
    <3> DEFINE f == free_round_robin_peer(P, d, state, now)
               Q == [P EXCEPT ![g0][i0] = IF state = "failed" THEN Failed(@, now) ELSE Passed(@)]
    <3>1. f = [P |-> Q, d |-> Spent(d)]
      BY <1>4, Zenon DEF free_round_robin_peer
    <3>2. Q = [P EXCEPT ![g0] = H]
      BY <1>1
    <3> HIDE DEF Q, f, H
    <3>3. f.P = [P EXCEPT ![g0] = H]
      BY <3>1, <3>2
    <3> QED
      BY <3>3 DEF f
  <2>2. /\ GroupOK(H, now) /\ Later(H, P[g0])
        /\ \A k \in DOMAIN P[g0] : H[k].fails = 0 /\ P[g0][k].fails > 0
                                     => P[g0][k].accessed < P[g0][k].checked
    <3> DEFINE F == P[g0]
    <3>1. GroupOK(F, now) /\ i0 \in DOMAIN F /\ now \in Nat
      BY <1>1
    <3> HIDE DEF F, g0, i0
    <3> QED
      BY <3>1, FreedGroup, Zenon DEF F
  <2> HIDE DEF H, g0, i0
  <2>3. /\ P' = [g \in DOMAIN P |-> P'[g]] /\ P'[g0] = H
        /\ \A g \in DOMAIN P : g # g0 => P'[g] = P[g]
    BY <1>1, <2>1
  <2>4. ASSUME NEW g \in DOMAIN P PROVE GroupOK(P'[g], now) /\ Later(P'[g], P[g])
    <3>1. CASE g = g0
      BY <3>1, <2>2, <2>3
    <3>2. CASE g # g0
      BY <3>2, <1>1, <1>2, <2>3 DEF Later
    <3> QED
      BY <3>1, <3>2
  <2>5. TablesKept
    BY <1>1, <2>3, <2>4 DEF TablesKept
  <2>6. ASSUME NEW g \in DOMAIN P, NEW i \in DOMAIN P[g], P[g][i].fails > 0, P'[g][i].fails = 0
        PROVE  P[g][i].accessed < P[g][i].checked
    <3>1. CASE g = g0
      BY <3>1, <2>2, <2>3, <2>6
    <3>2. CASE g # g0
      BY <3>2, <1>2, <2>3, <2>6
    <3> QED
      BY <3>1, <3>2
  <2> QED
    BY <2>5, <2>6 DEF LiveChecked
<1> QED
  BY <1>3, <1>4

\* A request that gives its peer up and is not at one afterwards.
LEMMA FreeSafe ==
    ASSUME IndInv, NEW r \in Requests, NEW state, NEW x,
           P' = free_round_robin_peer(P, req[r].d, state, now).P, now' = now, probe' = probe,
           turns' \in Nat, gets' \in Nat, req' = [req EXCEPT ![r] = x],
           \/ x = Idle(P')
           \/ /\ ~single(P)
              /\ \E t \in Nat : x = [st |-> "next", d |-> [req[r].d EXCEPT !.tries = t], used |-> req[r].used]
    PROVE  StepSafe
<1>1. TablesKept /\ LiveChecked
  BY FreeTables
<1>2. req'[r] = x /\ \A q \in Requests : q # r => req'[q] = req[q]
  BY OneRequest
<1>3. RequestValid(r)' /\ x \in Entry /\ x.st # "peer"
  <2>1. CASE x = Idle(P')
    <3>1. RequestValid(r)' /\ req'[r] \in Entry
      BY <1>1, <1>2, <2>1, IdleValid DEF Entry
    <3> QED
      BY <3>1, <1>2, <2>1 DEF Idle
  <2>2. CASE ~single(P) /\ \E t \in Nat : x = [st |-> "next", d |-> [req[r].d EXCEPT !.tries = t],
                                               used |-> req[r].used]
    <3>1. PICK t \in Nat : x = [st |-> "next", d |-> [req[r].d EXCEPT !.tries = t],
                                used |-> req[r].used]
      BY <2>2
    <3>2. RequestValid(r) /\ req[r].d \in PeerData /\ req[r].used \in Nat /\ 1 \in DOMAIN P
      BY IndInvParts
    <3> DEFINE d == req[r].d
               f == [d EXCEPT !.tries = t]
    <3>3. f \in PeerData /\ f.group = d.group /\ f.current = d.current /\ f.tried = d.tried
      BY <3>2 DEF PeerData
    <3>4. x = [st |-> "next", d |-> f, used |-> req[r].used]
      BY <3>1
    <3> HIDE DEF f
    <3>5. x \in Entry /\ x.st = "next" /\ x.d = f /\ x.used = req[r].used
      BY <3>2, <3>3, <3>4 DEF Entry
    <3>6. RequestValid(r)'
      <4>1. /\ req'[r].st = "next" /\ req'[r].used = req[r].used /\ req'[r].d.group = d.group
            /\ req'[r].d.current = d.current /\ req'[r].d.tried = d.tried
        BY <1>2, <3>3, <3>5
      <4>2. ~single(P') /\ DOMAIN P' = DOMAIN P /\ Len(P'[1]) = Len(P[1])
            /\ \A g \in DOMAIN P : DOMAIN P'[g] = DOMAIN P[g]
        BY <1>1, <2>2, <3>2, ShapeKept
      <4> QED
        BY <3>2, <4>1, <4>2, <2>2 DEF RequestValid
    <3> QED
      BY <3>5, <3>6
  <2> QED
    BY <2>1, <2>2
<1>4. req' \in [Requests -> Entry]
  BY <1>3, OneRequest
<1>5. /\ probe' \in [DOMAIN P -> Seq(Int)] /\ \A g \in DOMAIN P : Len(probe'[g]) = Len(P[g])
      /\ ~single(P) => \A g \in DOMAIN P : \A i \in DOMAIN P[g] : probe'[g][i] <= P'[g][i].checked
  <2>1. req[r].d.group \in DOMAIN P /\ req[r].d.current \in DOMAIN P[req[r].d.group]
    BY IndInvParts DEF RequestValid
  <2> QED
    BY <1>1, <2>1, ProbeKept
<1>6. IndInv'
  BY <1>1, <1>2, <1>3, <1>4, <1>5, Assembled DEF Entry
<1>7. ProbeSpaced
  BY <1>2, <1>3, NoProbeTaken
<1> QED
  BY <1>1, <1>6, <1>7 DEF StepSafe

\* Every step of the specification.
LEMMA NextSafe ==
    ASSUME IndInv, [Next]_vars
    PROVE  IndInv' /\ (Next => ProbeSpaced /\ LiveChecked)
<1>1. turns \in Nat /\ gets \in Nat /\ now \in Nat
  BY DEF IndInv, TypeOK
<1>2. ASSUME NEW r \in Requests, Get(r) PROVE StepSafe
  BY <1>2, GetSafe
<1>3. ASSUME NEW r \in Requests, NEW state, Next_(r, state) PROVE StepSafe
  <2> DEFINE d == req[r].d
             f == free_round_robin_peer(P, d, state, now)
             x == IF f.d.tries = 0 THEN Idle(f.P) ELSE [st |-> "next", d |-> f.d, used |-> req[r].used]
  <2>1. /\ P' = f.P /\ now' = now /\ probe' = probe /\ turns' \in Nat /\ gets' \in Nat
        /\ req' = [req EXCEPT ![r] = x]
    BY <1>1, <1>3 DEF Next_
  <2>2. \/ x = Idle(P')
        \/ ~single(P) /\ \E t \in Nat : x = [st |-> "next", d |-> [d EXCEPT !.tries = t],
                                            used |-> req[r].used]
    <3>1. CASE f.d.tries = 0
      BY <3>1, <2>1
    <3>2. CASE f.d.tries # 0
      <4>1. d \in PeerData
        BY IndInvParts
      <4>2. ~single(P)
        <5>1. single(P) => f.d = [d EXCEPT !.tries = 0]
          BY DEF free_round_robin_peer
        <5>2. [d EXCEPT !.tries = 0].tries = 0
          BY <4>1 DEF PeerData
        <5> QED
          BY <5>1, <5>2, <3>2
      <4>3. f.d = [d EXCEPT !.tries = IF d.tries > 0 THEN d.tries - 1 ELSE 0]
        BY <4>2 DEF free_round_robin_peer, Spent
      <4>4. (IF d.tries > 0 THEN d.tries - 1 ELSE 0) \in Nat
        BY <4>1 DEF PeerData
      <4> DEFINE t == IF d.tries > 0 THEN d.tries - 1 ELSE 0
      <4>5. t \in Nat /\ f.d = [d EXCEPT !.tries = t]
        BY <4>3, <4>4
      <4> HIDE DEF t, f
      <4>6. x = [st |-> "next", d |-> [d EXCEPT !.tries = t], used |-> req[r].used]
        BY <4>5, <3>2
      <4> QED
        BY <4>2, <4>5, <4>6
    <3> QED
      BY <3>1, <3>2
  <2> HIDE DEF x
  <2> QED
    BY <2>1, <2>2, FreeSafe
<1>4. ASSUME NEW r \in Requests, Done(r) PROVE StepSafe
  BY <1>1, <1>4, FreeSafe DEF Done
<1>5. ASSUME P' = P, req' = req, probe' = probe, turns' = turns, gets' = gets,
             now' \in Nat, now <= now'
      PROVE  IndInv' /\ ProbeSpaced /\ LiveChecked
  <2>1. TablesKept
    BY <1>5, SameTables
  <2>2. IndInv'
    <3>1. /\ probe \in [DOMAIN P -> Seq(Int)] /\ \A g \in DOMAIN P : Len(probe[g]) = Len(P[g])
          /\ req \in [Requests -> [st : {"idle", "next", "peer"}, d : PeerData, used : Nat]]
      BY DEF IndInv, TypeOK
    <3>2. ~single(P) => \A g \in DOMAIN P : \A i \in DOMAIN P[g] : probe[g][i] <= P[g][i].checked
      BY DEF IndInv, ChecksRecorded
    <3> QED
      BY <1>1, <1>5, <2>1, <3>1, <3>2, Assembled
  <2>3. ProbeSpaced
    BY <1>5 DEF ProbeSpaced
  <2>4. LiveChecked
    BY <1>5 DEF LiveChecked
  <2> QED
    BY <2>2, <2>3, <2>4
<1>6. CASE Tick
  BY <1>1, <1>5, <1>6 DEF Tick
<1>7. CASE UNCHANGED vars
  BY <1>1, <1>5, <1>7 DEF vars
<1> QED
  BY <1>2, <1>3, <1>4, <1>6, <1>7 DEF Next, StepSafe

-----------------------------------------------------------------------------
(* The theorems *)

\* Whatever the configuration, the requests and their order: the tables and the data
\* of the requests keep what the inductive invariant says of them.
THEOREM RoundRobinInvariant == Spec => []IndInv
<1>1. IndInv /\ [Next]_vars => IndInv'
  BY NextSafe
<1> QED
  BY InitInd, <1>1, PTL DEF Spec

\* No request is at more peers than the upstream has addresses, and the effective
\* weights keep to 0..weight (ngx_http_upstream_free_round_robin_peer's clamp and
\* ngx_http_upstream_get_peer's recovery).
THEOREM RoundRobinSafe == Spec => []PeersSafe
<1>1. IndInv => PeersSafe
  <2> SUFFICES ASSUME IndInv PROVE PeersSafe
    OBVIOUS
  <2>1. ASSUME NEW r \in Requests PROVE req[r].used <= Addresses
    <3> DEFINE d == req[r].d
               u == req[r].used
    <3>1. /\ Len(P) \in {1, 2} /\ DOMAIN P = 1..Len(P) /\ 1 \in DOMAIN P
          /\ \A g \in DOMAIN P : GroupOK(P[g], now)
          /\ RequestValid(r) /\ u \in Nat /\ now \in Nat
      BY IndInvParts
    <3>2. d.group \in DOMAIN P /\ d.tried \subseteq DOMAIN P[d.group]
      BY <3>1 DEF RequestValid
    <3>3. \A g \in DOMAIN P : Len(P[g]) \in Nat /\ Len(P[g]) # 0 /\ DOMAIN P[g] = 1..Len(P[g])
      BY <3>1, GroupFacts
    <3>4. Cardinality(d.tried) \in Nat /\ Cardinality(d.tried) <= Len(P[d.group])
      BY <3>2, <3>3, TriedBound
    <3>5. CASE single(P)
      <4>1. u <= 1
        BY <3>1, <3>5 DEF RequestValid
      <4> QED
        BY <4>1, <3>5 DEF single, Addresses
    <3>6. CASE ~single(P) /\ d.group = 1
      <4>1. u <= Len(P[1])
        BY <3>1, <3>3, <3>4, <3>6 DEF RequestValid
      <4>2. Len(P) # 1 => Len(P) = 2 /\ 2 \in DOMAIN P
        BY <3>1
      <4>3. Len(P) # 1 => Len(P[1]) <= Len(P[1]) + Len(P[2])
        BY <3>1, <3>3, <4>2
      <4>4. Len(P) # 1 => u <= Len(P[1]) + Len(P[2])
        BY <3>1, <3>3, <4>1, <4>2, <4>3
      <4> QED
        BY <4>1, <4>4 DEF Addresses
    <3>7. CASE ~single(P) /\ d.group # 1
      <4>1. Len(P) = 2 /\ d.group = 2
        BY <3>1, <3>2, <3>7
      <4>2. u <= Len(P[1]) + Cardinality(d.tried)
        BY <3>1, <3>7 DEF RequestValid
      <4>3. u <= Len(P[1]) + Len(P[2])
        BY <3>1, <3>2, <3>3, <3>4, <4>1, <4>2
      <4> QED
        BY <4>1, <4>3 DEF Addresses
    <3> QED
      BY <3>5, <3>6, <3>7
  <2> QED
    BY <2>1 DEF PeersSafe, TriesBounded, IndInv
<1> QED
  BY <1>1, RoundRobinInvariant, PTL

\* The current weights of every group sum to zero after every step, for any number of
\* peers and any weights: ngx_http_upstream_get_peer takes back what it gave.
THEOREM WeightsAlwaysBalance == Spec => []WeightsBalance
<1>1. IndInv => WeightsBalance
  BY DEF IndInv
<1> QED
  BY <1>1, RoundRobinInvariant, PTL

\* A failed peer is probed once per fail_timeout, whatever the requests do between.
THEOREM FailedPeersSpaced == Spec => ProbesSpaced
<1>1. IndInv /\ [Next]_vars => [ProbeSpaced]_vars
  BY NextSafe
<1> QED
  BY <1>1, RoundRobinInvariant, PTL DEF Spec, ProbesSpaced

\* Only a check after its last failure, or a group without a live peer, makes a failed
\* peer live (ngx_http_upstream_free_round_robin_peer's accessed < checked).
THEOREM FailedPeersChecked == Spec => LiveAfterCheck
<1>1. IndInv /\ [Next]_vars => [LiveChecked]_vars
  BY NextSafe
<1> QED
  BY <1>1, RoundRobinInvariant, PTL DEF Spec, LiveAfterCheck
=============================================================================
