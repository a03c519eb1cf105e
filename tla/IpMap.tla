-------------------------------- MODULE IpMap --------------------------------
(***************************************************************************)
(* The map from IP addresses to client data: spans of addresses in a list  *)
(* in order and in a red-black tree for the search.  An address is a number*)
(* below Size, and counting past the end wraps.  Nodes are named by their  *)
(* places in the list once a call has returned.                            *)
(***************************************************************************)
EXTENDS Integers, Sequences, FiniteSets, SequencesExt

CONSTANTS Families, Size, Data, NoData

VARIABLES map,      \* family -> the spans and the tree
          ref,      \* family -> address -> what the calls say of it
          wrong,    \* how the last call did other than it says: "no", "took" or "skipped"
          status    \* "ok", or what became of the last call

vars == <<map, ref, wrong, status>>

Null == 0
Nodes == 1 .. Size + 3
Addr == 0 .. Size - 1
inc(a) == (a + 1) % Size
dec(a) == (a - 1) % Size
Flip == [L |-> "R", R |-> "L"]

NewMap == [list |-> <<>>, root |-> Null, bad |-> "ok",
           min |-> [n \in Nodes |-> 0], max |-> [n \in Nodes |-> 0], data |-> [n \in Nodes |-> NoData],
           parent |-> [n \in Nodes |-> Null], kid |-> [n \in Nodes |-> [L |-> Null, R |-> Null]], color |-> [n \in Nodes |-> "red"]]

(* the list *)
Place(T, n) == CHOOSE i \in DOMAIN T.list : T.list[i] = n
next(T, n) == LET i == Place(T, n) IN IF i = Len(T.list) THEN Null ELSE T.list[i + 1]
prev(T, n) == LET i == Place(T, n) IN IF i = 1 THEN Null ELSE T.list[i - 1]
getHead(T) == IF T.list = <<>> THEN Null ELSE T.list[1]
getTail(T) == IF T.list = <<>> THEN Null ELSE T.list[Len(T.list)]
Fresh(T) == CHOOSE n \in Nodes : n \notin Range(T.list) /\ \A k \in 1 .. n - 1 : k \in Range(T.list)

-----------------------------------------------------------------------------
(* RBNode.  A missing node counts as black. *)
Is(T, n, c) == c = IF n = Null THEN "black" ELSE T.color[n]
getChildDirection(T, p, n) == IF T.kid[p].L = n THEN "L" ELSE "R"
setChild(T, p, n, d) == [T EXCEPT !.kid[p][d] = n, !.parent = IF n = Null THEN @ ELSE [@ EXCEPT ![n] = p]]

rotate(T, n, d) ==
    LET o == Flip[d]  child == T.kid[n][o]  parent == T.parent[n]
        Below(U) == setChild(setChild(U, n, T.kid[child][d], o), child, n, d)
        Above(U) == IF parent = Null THEN [U EXCEPT !.parent[child] = Null]
                    ELSE setChild(U, parent, child, getChildDirection(T, parent, n))
    IN  IF child = Null THEN T ELSE Above(Below(T))

(* rippleStructureFixup(): the root of the tree that n is in *)
RECURSIVE RootOf(_, _)
RootOf(T, n) == IF T.parent[n] = Null THEN n ELSE RootOf(T, T.parent[n])

(* the uncle is black: one rotation or two *)
FixRed(T, x) ==
    LET p == T.parent[x]  g == T.parent[p]  d == getChildDirection(T, g, p)
        Outer(U, q) == rotate([U EXCEPT !.color = [@ EXCEPT ![q] = "black", ![g] = "red"]], g, Flip[d])
    IN  IF T.kid[p][Flip[d]] = x THEN Outer(rotate(T, p, d), x) ELSE Outer(T, p)
RECURSIVE InsertLoop(_, _)
InsertLoop(T, x) ==
    LET p == T.parent[x]
        g == T.parent[p]
        y == T.kid[g][Flip[getChildDirection(T, g, p)]]
    IN  IF ~Is(T, p, "red") THEN T
        ELSE IF g = Null THEN T
        ELSE IF Is(T, y, "red")
             THEN InsertLoop([T EXCEPT !.color = [@ EXCEPT ![p] = "black", ![y] = "black", ![g] = "red"]], g)
        ELSE FixRed(T, x)
BlackRoot(T, n) == LET r == RootOf(T, n) IN [T EXCEPT !.root = r, !.color[r] = "black"]
rebalanceAfterInsert(T, n) == BlackRoot(InsertLoop(T, n), n)

(* replaceWith(): m takes the place and the colour of n; its own children are forgotten *)
replaceWith(T, n, m) ==
    LET p == T.parent[n]
        Up(U) == IF p = Null THEN [U EXCEPT !.parent[m] = Null]
                 ELSE IF p = m THEN setChild(U, p, Null, getChildDirection(T, p, n))
                 ELSE setChild(U, p, m, getChildDirection(T, p, n))
        Kid(U, d) == IF T.kid[n][d] \notin {Null, m} THEN setChild(U, m, T.kid[n][d], d) ELSE U
        Clear(U) == [U EXCEPT !.color[m] = T.color[n], !.kid[m] = [L |-> Null, R |-> Null]]
    IN  [Kid(Kid(Clear(Up(T)), "L"), "R") EXCEPT !.kid[n] = [L |-> Null, R |-> Null]]

(* the far nephew is red: one rotation ends it *)
FarRed(T, parent, near, w) ==
    rotate([T EXCEPT !.color = [@ EXCEPT ![w] = T.color[parent], ![parent] = "black", ![T.kid[w][Flip[near]]] = "black"]],
           parent, near)
(* The loop of rebalanceAfterRemove().  The far nephew is asked for its colour even when it is missing. *)
RECURSIVE RemoveLoop(_, _, _, _)
RemoveLoop(T, n, parent, d) ==
    LET near == IF d # "none" THEN d ELSE getChildDirection(T, parent, n)
        far  == Flip[near]
        Sibling(U, w) ==
            LET wn == U.kid[w][near]  wf == U.kid[w][far] IN
            IF Is(U, wn, "black") /\ Is(U, wf, "black")
            THEN RemoveLoop([U EXCEPT !.color[w] = "red"], parent, U.parent[parent], "none")
            ELSE IF wf = Null THEN [U EXCEPT !.bad = "null"]
            ELSE IF U.color[wf] = "black"
                 THEN FarRed(rotate([U EXCEPT !.color = [@ EXCEPT ![wn] = "black", ![w] = "red"]], w, far), parent, near, wn)
            ELSE FarRed(U, parent, near, w)
        Red(U, w) == IF U.color[w] = "red"
                     THEN rotate([U EXCEPT !.color = [@ EXCEPT ![w] = "black", ![parent] = "red"]], parent, near) ELSE U
        Go(U) == Sibling(U, U.kid[parent][far])
    IN  IF parent = Null THEN T
        ELSE IF n # Null /\ T.color[n] = "red" THEN [T EXCEPT !.color[n] = "black"]
        ELSE Go(Red(T, T.kid[parent][far]))
rebalanceAfterRemove(T, n, c, d) ==
    BlackRoot(CASE c = "red" -> T
                [] c # "red" /\ d = "none" -> RemoveLoop(T, n, T.parent[n], d)
                [] OTHER -> RemoveLoop(T, Null, n, d), n)

(* RBNode::remove() of a node with two children, or with a parent *)
RBNode_remove(T, n) ==
    LET r == IF T.kid[n].L # Null /\ T.kid[n].R # Null THEN next(T, n) ELSE n
        s == IF T.kid[r].L # Null THEN T.kid[r].L ELSE T.kid[r].R
        p == T.parent[r]
        d == getChildDirection(T, p, r)
        Put(U) == IF r # n THEN replaceWith(U, n, r) ELSE U
    IN  IF s # Null THEN rebalanceAfterRemove(Put(replaceWith(T, r, s)), IF s = n THEN r ELSE s, T.color[s], "none")
        ELSE rebalanceAfterRemove(Put(setChild(T, p, Null, d)), IF p = n THEN r ELSE p, T.color[r], d)
OnlyOrOneChild(T, n) ==
    LET k == IF T.kid[n].L # Null THEN T.kid[n].L ELSE T.kid[n].R
    IN  IF k = Null THEN [T EXCEPT !.root = Null]
        ELSE [T EXCEPT !.root = k, !.parent[k] = Null, !.color[k] = "black"]
remove(T, n) ==
    LET Take(U) == [U EXCEPT !.list = SelectSeq(@, LAMBDA k : k # n), !.parent[n] = Null,
                             !.kid[n] = [L |-> Null, R |-> Null], !.color[n] = "red"]
    IN  Take(IF T.parent[n] = Null /\ (T.kid[n].L = Null \/ T.kid[n].R = Null) THEN OnlyOrOneChild(T, n) ELSE RBNode_remove(T, n))

Listed(T, i, n) == [T EXCEPT !.list = SubSeq(@, 1, i) \o <<n>> \o SubSeq(@, i + 1, Len(@))]
insertAfter(T, spot, n) ==
    rebalanceAfterInsert(Listed(IF T.kid[spot].R = Null THEN setChild(T, spot, n, "R") ELSE setChild(T, next(T, spot), n, "L"),
                                Place(T, spot), n), n)
insertBefore(T, spot, n) ==
    rebalanceAfterInsert(Listed(IF T.kid[spot].L = Null THEN setChild(T, spot, n, "L") ELSE setChild(T, prev(T, spot), n, "R"),
                                Place(T, spot) - 1, n), n)
prepend(T, n) ==
    IF T.root = Null THEN [T EXCEPT !.root = n, !.list = <<n>>]
    ELSE Listed(rebalanceAfterInsert(setChild(T, getHead(T), n, "L"), n), 0, n)
append(T, n) ==
    IF T.root = Null THEN [T EXCEPT !.root = n, !.list = <<n>>]
    ELSE Listed(rebalanceAfterInsert(setChild(T, getTail(T), n, "R"), n), Len(T.list), n)

-----------------------------------------------------------------------------
(* IpMapBase *)
NewNode(T, min, max, d) == LET n == Fresh(T) IN [T EXCEPT !.min[n] = min, !.max[n] = max, !.data[n] = d]
NewBefore(T, spot, min, max, d) == insertBefore(NewNode(T, min, max, d), spot, Fresh(T))

(* the node with the largest minimum that is not greater than a *)
RECURSIVE LowerFrom(_, _, _, _)
LowerFrom(T, n, a, best) ==
    IF n = Null THEN best
    ELSE IF a < T.min[n] THEN LowerFrom(T, T.kid[n].L, a, best)
    ELSE IF T.max[n] < a THEN LowerFrom(T, T.kid[n].R, a, n) ELSE n
lowerBound(T, a) == LowerFrom(T, T.root, a, Null)

RECURSIVE Search(_, _, _)
Search(T, n, a) ==
    IF n = Null THEN NoData
    ELSE IF a < T.min[n] THEN Search(T, T.kid[n].L, a)
    ELSE IF T.max[n] < a THEN Search(T, T.kid[n].R, a) ELSE T.data[n]
contains(T, a) == Search(T, T.root, a)

(* fill(): x is a span of the same data that grows over the range, min what is still to be filled *)
RECURSIVE FillLoop(_, _, _, _, _, _)
FillSame(T, n, x, min, max, d) ==
    LET Dropped(U) == FillLoop(U, next(U, x), x, min, max, d)
    IN  CASE x # Null /\ T.max[n] <= max -> Dropped(remove(T, n))
          [] x # Null /\ T.max[n] > max /\ T.min[n] <= inc(max) -> remove([T EXCEPT !.max[x] = T.max[n]], n)
          [] x # Null /\ T.max[n] > max /\ T.min[n] > inc(max) -> [T EXCEPT !.max[x] = max]
          [] x = Null /\ T.max[n] <= max -> FillLoop([T EXCEPT !.min[n] = min], next(T, n), n, min, max, d)
          [] x = Null /\ T.max[n] > max /\ T.min[n] <= inc(max) -> [T EXCEPT !.min[n] = min]
          [] OTHER -> NewBefore(T, n, min, max, d)
FillOther(T, n, x, min, max, d) ==
    LET Past(U) == IF max <= T.max[n] THEN U ELSE FillLoop(U, next(T, n), Null, inc(T.max[n]), max, d)
    IN  CASE x # Null /\ max < T.min[n] -> [T EXCEPT !.max[x] = max]
          [] x = Null /\ max < T.min[n] -> NewBefore(T, n, min, max, d)
          [] x # Null /\ max >= T.min[n] -> Past([T EXCEPT !.max[x] = dec(T.min[n])])
          [] OTHER -> Past(IF min < T.min[n] THEN NewBefore(T, n, min, dec(T.min[n]), d) ELSE T)
FillLoop(T, n, x, min, max, d) ==
    CASE T.bad # "ok" -> T
      [] T.bad = "ok" /\ n = Null ->
            IF x # Null THEN [T EXCEPT !.max[x] = max] ELSE append(NewNode(T, min, max, d), Fresh(T))
      [] T.bad = "ok" /\ n # Null /\ T.data[n] = d -> FillSame(T, n, x, min, max, d)
      [] OTHER -> FillOther(T, n, x, min, max, d)
fill(T, min, max, d) ==
    LET n == lowerBound(T, min)
    IN  CASE n = Null -> FillLoop(T, getHead(T), Null, min, max, d)
          [] n # Null /\ T.min[n] = min -> FillLoop(T, n, Null, min, max, d)
          [] n # Null /\ T.min[n] # min /\ T.max[n] < dec(min) -> FillLoop(T, next(T, n), Null, min, max, d)
          [] n # Null /\ T.min[n] # min /\ T.max[n] >= dec(min) /\ T.max[n] >= max -> T
          [] n # Null /\ T.min[n] # min /\ T.max[n] >= dec(min) /\ T.max[n] < max /\ T.data[n] # d ->
                FillLoop(T, next(T, n), Null, inc(T.max[n]), max, d)
          [] OTHER -> FillLoop(T, next(T, n), n, min, max, d)

(* mark(): x is the node of the range, all spans from n on start at it or past it *)
RECURSIVE MarkLoop(_, _, _, _, _)
MarkLoop(T, n, x, max, d) ==
    CASE T.bad # "ok" \/ n = Null -> T
      [] T.bad = "ok" /\ n # Null /\ T.max[n] <= max -> MarkLoop(remove(T, n), next(T, n), x, max, d)
      [] T.bad = "ok" /\ n # Null /\ T.max[n] > max /\ inc(max) < T.min[n] -> T
      [] T.bad = "ok" /\ n # Null /\ T.max[n] > max /\ inc(max) >= T.min[n] /\ T.data[n] = d ->
            MarkLoop(remove([T EXCEPT !.max[x] = T.max[n]], n), next(T, n), x, max, d)
      [] T.bad = "ok" /\ n # Null /\ T.max[n] > max /\ T.min[n] <= max /\ T.data[n] # d -> [T EXCEPT !.min[n] = inc(max)]
      [] OTHER -> [T EXCEPT !.bad = "hang"]    \* a span of other data right after the range: no branch takes n
MarkNew(T, n, min, max, d) ==
    MarkLoop(IF n # Null THEN NewBefore(T, n, min, max, d) ELSE append(NewNode(T, min, max, d), Fresh(T)), n, Fresh(T), max, d)
(* a span starts where the range does *)
MarkAtMin(T, n, min, max, d) ==
    LET p == prev(T, n)
    IN  CASE p # Null /\ T.data[p] = d /\ T.max[p] = dec(min) -> MarkLoop([T EXCEPT !.max[p] = max], n, p, max, d)
          [] ~(p # Null /\ T.data[p] = d /\ T.max[p] = dec(min)) /\ T.max[n] <= max ->
                MarkLoop([T EXCEPT !.max[n] = max, !.data[n] = d], next(T, n), n, max, d)
          [] ~(p # Null /\ T.data[p] = d /\ T.max[p] = dec(min)) /\ T.max[n] > max /\ T.data[n] = d -> T
          [] OTHER -> NewBefore([T EXCEPT !.min[n] = inc(max)], n, min, max, d)
(* a span starts before the range *)
MarkRightOf(T, n, min, max, d) ==
    LET y == next(T, n)
        Split(U) == insertAfter(NewNode(U, inc(max), T.max[n], T.data[n]), Fresh(T), Fresh(U))
    IN  CASE T.data[n] = d /\ T.max[n] >= dec(min) ->
                IF T.max[n] >= max THEN T ELSE MarkLoop([T EXCEPT !.max[n] = max], y, n, max, d)
          [] ~(T.data[n] = d /\ T.max[n] >= dec(min)) /\ T.max[n] <= max ->
                IF T.max[n] >= min THEN MarkNew([T EXCEPT !.max[n] = dec(min)], y, min, max, d)
                ELSE IF y # Null
                THEN MarkLoop([T EXCEPT !.min[y] = min, !.max[y] = max, !.data[y] = d], next(T, y), y, max, d)
                ELSE MarkNew(T, y, min, max, d)
          [] OTHER -> Split(insertAfter(NewNode([T EXCEPT !.max[n] = dec(min)], min, max, d), n, Fresh(T)))
MarkLeftOfAll(T, h, min, max, d) ==
    IF h # Null /\ T.data[h] = d /\ (T.max[h] <= max \/ T.min[h] <= inc(max))
    THEN MarkLoop([T EXCEPT !.min[h] = min, !.max[h] = IF @ < max THEN max ELSE @], next(T, h), h, max, d)
    ELSE MarkLoop(prepend(NewNode(T, min, max, d), Fresh(T)), h, Fresh(T), max, d)
mark(T, min, max, d) ==
    LET n == lowerBound(T, min)
    IN  IF n = Null THEN MarkLeftOfAll(T, getHead(T), min, max, d)
        ELSE IF T.min[n] = min THEN MarkAtMin(T, n, min, max, d) ELSE MarkRightOf(T, n, min, max, d)
(* The node after a span that ends before the range is taken for the range, whatever it covers. *)
Taken(T, min, max, d) ==
    LET n == lowerBound(T, min)  y == next(T, n)
    IN  IF n = Null THEN {}
        ELSE IF y = Null \/ T.max[n] >= min \/ (T.data[n] = d /\ T.max[n] = dec(min)) THEN {}
        ELSE (T.min[y] .. T.max[y]) \ (min .. max)

RECURSIVE UnmarkLoop(_, _, _)
UnmarkLoop(T, n, max) ==
    CASE T.bad # "ok" \/ n = Null -> T
      [] T.bad = "ok" /\ n # Null /\ T.max[n] <= max -> UnmarkLoop(remove(T, n), next(T, n), max)
      [] OTHER -> IF T.min[n] <= max THEN [T EXCEPT !.min[n] = inc(max)] ELSE T
unmark(T, min, max) ==
    LET n == lowerBound(T, min)
    IN  CASE n = Null -> T
          [] n # Null /\ T.min[n] = min -> UnmarkLoop(T, n, max)
          [] n # Null /\ T.min[n] < min /\ T.max[n] > max ->
                insertAfter(NewNode([T EXCEPT !.max[n] = dec(min)], inc(max), T.max[n], T.data[n]), n, Fresh(T))
          [] OTHER -> UnmarkLoop(IF T.max[n] >= min THEN [T EXCEPT !.max[n] = dec(min)] ELSE T, next(T, n), max)

-----------------------------------------------------------------------------
(* the nodes named by their places *)
Named(T) ==
    LET n == Len(T.list)
        Name(k) == IF k = Null THEN Null ELSE Place(T, k)
        F(f, e) == [i \in Nodes |-> IF i <= n THEN f[T.list[i]] ELSE e]
    IN  [list |-> [i \in 1 .. n |-> i], root |-> Name(T.root), bad |-> T.bad,
         min |-> F(T.min, 0), max |-> F(T.max, 0), data |-> F(T.data, NoData), color |-> F(T.color, "red"),
         parent |-> [i \in Nodes |-> IF i <= n THEN Name(T.parent[T.list[i]]) ELSE Null],
         kid |-> [i \in Nodes |-> IF i <= n THEN [L |-> Name(T.kid[T.list[i]].L), R |-> Name(T.kid[T.list[i]].R)]
                                  ELSE [L |-> Null, R |-> Null]]]
Nothing == [a \in Addr |-> NoData]
Init == map = [f \in Families |-> NewMap] /\ ref = [f \in Families |-> Nothing] /\ wrong = "no" /\ status = "ok"

(* a call on the map of a family that leaves T, and what it should leave *)
Called(f, T, r) ==
    /\ status = "ok"
    /\ IF T.bad = "ok" THEN map' = [map EXCEPT ![f] = Named(T)] /\ ref' = [ref EXCEPT ![f] = r] /\ status' = "ok"
       ELSE status' = T.bad /\ UNCHANGED <<map, ref>>
Mark(f, min, max, d) ==
    \E gone \in {Taken(map[f], min, max, d)} :
        /\ Called(f, mark(map[f], min, max, d),
                  [a \in Addr |-> IF a \in min .. max THEN d ELSE IF a \in gone THEN NoData ELSE ref[f][a]])
        /\ wrong' = IF \E a \in gone : ref[f][a] # NoData THEN "took" ELSE "no"
Fill(f, min, max, d) ==
    /\ Called(f, fill(map[f], min, max, d), [a \in Addr |-> IF a \in min .. max /\ ref[f][a] = NoData THEN d ELSE ref[f][a]])
    /\ wrong' = "no"
Unmark(f, min, max) ==
    LET blind == lowerBound(map[f], min) = Null    \* every span starts past min: none is looked at
    IN  /\ Called(f, unmark(map[f], min, max), [a \in Addr |-> IF a \in min .. max /\ ~blind THEN NoData ELSE ref[f][a]])
        /\ wrong' = IF blind /\ \E a \in min .. max : ref[f][a] # NoData THEN "skipped" ELSE "no"
clear ==
    /\ status = "ok"
    /\ map' = [f \in Families |-> NewMap] /\ ref' = [f \in Families |-> Nothing] /\ wrong' = "no"
    /\ UNCHANGED status
Next ==
    \/ \E f \in Families, min, max \in Addr :
          min <= max /\ (Unmark(f, min, max) \/ \E d \in Data : Mark(f, min, max, d) \/ Fill(f, min, max, d))
    \/ clear
Spec == Init /\ [][Next]_vars

-----------------------------------------------------------------------------
(* iterator: the spans of the one family, then those of the other *)
At(f, n) == <<f, n>>
begin == IF getHead(map[4]) # Null THEN At(4, getHead(map[4])) ELSE IF 6 \in Families THEN At(6, getHead(map[6])) ELSE At(6, Null)
plusplus(it) ==
    LET T == map[it[1]]  x == next(T, it[2])
    IN  IF x = Null /\ it[1] = 4 /\ 6 \in Families THEN At(6, getHead(map[6])) ELSE At(it[1], x)
minusminus(it) ==
    LET six == IF 6 \in Families THEN getTail(map[6]) ELSE Null
    IN  IF it[2] = Null THEN IF six # Null THEN At(6, six) ELSE At(4, getTail(map[4]))
        ELSE LET x == prev(map[it[1]], it[2])
             IN  IF x = Null /\ it[1] = 6 THEN At(4, getTail(map[4])) ELSE At(it[1], x)

(* The painter's algorithm: what the map says of every address is what the calls left there, whichever spans *)
(* were split, clipped, joined or used again for it (a span that a mark took away though it lay beyond its   *)
(* range is counted as gone, and an unmark that starts before the first span as not made).                   *)
PaintersAlgorithm == \A f \in Families, a \in Addr : contains(map[f], a) = ref[f][a]
(* The spans are in order, do not overlap, and no two neighbours could be one: the set of ranges is minimal. *)
RangesMinimal ==
    \A f \in Families : \A i \in 1 .. Len(map[f].list) - 1 :
        /\ map[f].min[i] <= map[f].max[i] /\ map[f].max[i] < map[f].min[i + 1]
        /\ map[f].data[i] = map[f].data[i + 1] => map[f].max[i] + 1 < map[f].min[i + 1]
RECURSIVE InOrder(_, _)
InOrder(T, n) == IF n = Null THEN <<>> ELSE InOrder(T, T.kid[n].L) \o <<n>> \o InOrder(T, T.kid[n].R)
RECURSIVE BlackHeight(_, _)    \* 0: the tree is not balanced
BlackHeight(T, n) ==
    LET Both(l, r) == IF l # r \/ l = 0 \/ (T.color[n] = "red" /\ \E d \in {"L", "R"} : Is(T, T.kid[n][d], "red")) THEN 0
                      ELSE l + (IF T.color[n] = "black" THEN 1 ELSE 0)
    IN  IF n = Null THEN 1 ELSE Both(BlackHeight(T, T.kid[n].L), BlackHeight(T, T.kid[n].R))
(* The tree holds the nodes of the list in their order, is balanced, and every node knows its parent. *)
TreeBalanced ==
    \A f \in Families : LET T == map[f] IN
        /\ InOrder(T, T.root) = T.list /\ BlackHeight(T, T.root) > 0
        /\ \A n \in Range(T.list) : \A d \in {"L", "R"} : T.kid[n][d] # Null => T.parent[T.kid[n][d]] = n
(* From either end the iterator passes every span once, those of IPv4 before those of IPv6. *)
RECURSIVE Walk(_, _)
Walk(it, back) == IF it[2] = Null THEN <<>> ELSE <<it>> \o Walk(IF back THEN minusminus(it) ELSE plusplus(it), back)
Spans == LET All(f) == IF f \in Families THEN [i \in DOMAIN map[f].list |-> At(f, i)] ELSE <<>> IN All(4) \o All(6)
IteratorComplete == Walk(begin, FALSE) = Spans /\ Walk(minusminus(At(6, Null)), TRUE) = Reverse(Spans)

=============================================================================
