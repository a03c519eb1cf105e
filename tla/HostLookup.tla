----------------------------- MODULE HostLookup -----------------------------
(***************************************************************************)
(* The table of host and domain names that the rules of the configuration  *)
(* are found by: a tree of labels, from the top-level domain down to       *)
(* HOST_TABLE_DEPTH, with the rules at the branch where their name ends.   *)
(* Below a branch there is an index by characters (first level), an array, *)
(* or a hash table when the array has become too small.                    *)
(* A name is a sequence of labels, the last one is the top-level domain;   *)
(* a label is a sequence of characters.  Cases of letters are left out.    *)
(***************************************************************************)
EXTENDS Integers, Sequences, FiniteSets, SequencesExt

CONSTANTS Legal,             \* asciiToTable: the characters of host names, in their order
          Names,             \* the names that rules and requests have
          HOST_TABLE_DEPTH, HOST_ARRAY_MAX,
          array_len          \* AllocateSpace(): how many rules there may be

VARIABLES tree,              \* path -> HostBranch
          leaf_array, s      \* HostLookupState, and what it has found

vars == <<tree, leaf_array, s>>

Not == "!"
Dot == <<>>                  \* the label before a leading or after a trailing dot
LegalLabel(l) == \A i \in DOMAIN l : l[i] \in Range(Legal)

(* hostcmp(): a trailing dot is optional *)
NoTrail(n) == IF Len(n) > 1 /\ n[Len(n)] = Dot THEN Front(n) ELSE n
hostcmp(a, b) == NoTrail(a) = NoTrail(b)
(* domaincmp(): the host is the domain or something in it; a leading dot of the domain is optional *)
domaincmp(host, domain) ==
    LET d == NoTrail(domain)
    IN  IsSuffix(IF Len(d) > 1 /\ d[1] = Dot THEN Tail(d) ELSE d, NoTrail(host))

Branch == [type |-> "TERMINAL", keys |-> <<>>, leafs |-> <<>>]
Empty == [p \in {<<>>} |-> Branch]
Keys(t, p) == Range(t[p].keys)

-----------------------------------------------------------------------------
(* InsertBranch(): an array that is full becomes a hash table *)
InsertBranch(t, p, l) ==
    LET full == t[p].type = "ARRAY" /\ Len(t[p].keys) >= HOST_ARRAY_MAX
    IN  [q \in DOMAIN t \union {Append(p, l)} |->
            IF q = Append(p, l) THEN Branch
            ELSE IF q = p THEN [t[p] EXCEPT !.keys = Append(@, l), !.type = IF full THEN "HASH" ELSE @]
            ELSE t[q]]
TableNewLevel(t, p, l) == InsertBranch([t EXCEPT ![p].type = IF p = <<>> THEN "INDEX" ELSE "ARRAY"], p, l)

(* hostArray::Lookup() for a request: the label itself, else the last rule of the kind "not x" *)
ArrayLookup(keys, l) ==
    LET nots == {i \in DOMAIN keys : Len(keys[i]) > 1 /\ keys[i][1] = Not /\ Tail(keys[i]) # l}
    IN  CASE l \in Range(keys) /\ ~(l # Dot /\ l[1] = Not) -> l
          [] (l \notin Range(keys) \/ (l # Dot /\ l[1] = Not)) /\ nots # {} -> keys[CHOOSE i \in nots : \A j \in nots : j <= i]
          [] OTHER -> <<"none">>
(* FindNextLevel() for a request: the key of the next branch *)
FindNextLevel(t, p, l) ==
    IF t[p].type = "ARRAY" THEN ArrayLookup(t[p].keys, l)
    ELSE IF l \in Keys(t, p) /\ ~(t[p].type = "INDEX" /\ l = Dot) THEN l ELSE <<"none">>

(* TableInsert(): empty labels are no tokens *)
Tokens(n) == SelectSeq(n, LAMBDA l : l # Dot)
RECURSIVE Descend(_, _, _)
Descend(t, p, tok) ==
    LET l == tok[Len(tok) - Len(p)]
        Down(u) == Descend(u, Append(p, l), tok)
    IN  IF Len(p) = HOST_TABLE_DEPTH \/ Len(p) = Len(tok) THEN [t |-> t, p |-> p]
        ELSE Down(IF t[p].type = "TERMINAL" THEN TableNewLevel(t, p, l)
                  ELSE IF l \in Keys(t, p) THEN t ELSE InsertBranch(t, p, l))
LeafType(tok, domain) == <<IF domain THEN "DOMAIN" ELSE "HOST", IF Len(tok) > HOST_TABLE_DEPTH THEN "PARTIAL" ELSE "COMPLETE">>
TableInsert(t, n, index) ==
    LET Placed(d) == [d.t EXCEPT ![d.p].leafs = Append(@, index)]
    IN  Placed(Descend(t, <<>>, Tokens(n)))

Idle == [on |-> FALSE, host |-> <<>>, p |-> <<>>, left |-> <<>>, done |-> FALSE, array_index |-> 0, found |-> <<>>]
Init == tree = Empty /\ leaf_array = <<>> /\ s = Idle
NewEntry(n, domain) ==
    /\ s = Idle /\ Len(leaf_array) < array_len    \* the rules are read before any request
    /\ leaf_array' = Append(leaf_array, [match |-> n, type |-> LeafType(Tokens(n), domain)])
    /\ tree' = TableInsert(tree, n, Len(leaf_array) + 1)
    /\ UNCHANGED s

-----------------------------------------------------------------------------
(* MatchArray(): the first rule of the branch from i on that matches, or 0 *)
LeafMatches(leaf, host, host_done) ==
    CASE leaf.type = <<"HOST", "PARTIAL">> -> hostcmp(host, leaf.match)
      [] leaf.type = <<"HOST", "COMPLETE">> -> host_done
      [] leaf.type = <<"DOMAIN", "PARTIAL">> -> domaincmp(host, leaf.match)
      [] OTHER -> TRUE
MatchArray(p, i, host, host_done) ==
    LET leafs == tree[p].leafs
        hits == {j \in i .. Len(leafs) : LeafMatches(leaf_array[leafs[j]], host, host_done)}
    IN  IF hits = {} THEN 0 ELSE CHOOSE j \in hits : \A k \in hits : j <= k

(* the loop of MatchNext(): x with the next rule found, or at its end *)
RECURSIVE Search(_)
Search(x) ==
    LET j == MatchArray(x.p, x.array_index + 1, x.host, x.done)
        l == x.left[Len(x.left)]
        k == FindNextLevel(tree, x.p, l)
        Over == [x EXCEPT !.on = FALSE]
    IN  IF leaf_array = <<>> THEN Over
        ELSE IF j # 0 THEN [x EXCEPT !.array_index = j, !.found = Append(@, tree[x.p].leafs[j])]
        ELSE IF x.done \/ tree[x.p].type = "TERMINAL" \/ k = <<"none">> THEN Over
        ELSE Search([x EXCEPT !.p = Append(@, k), !.array_index = 0, !.left = Front(@), !.done = Len(x.left) = 1])
MatchFirst(host) ==
    /\ ~s.on
    /\ s' = Search([Idle EXCEPT !.on = TRUE, !.host = host, !.left = host])
    /\ UNCHANGED <<tree, leaf_array>>
MatchNext ==
    /\ s.on
    /\ s' = Search(s)
    /\ UNCHANGED <<tree, leaf_array>>

Next == MatchNext \/ \E n \in Names : MatchFirst(n) \/ \E domain \in BOOLEAN : NewEntry(n, domain)
Spec == Init /\ [][Next]_vars /\ WF_vars(MatchNext)

-----------------------------------------------------------------------------
(* charIndex: iter_next() goes through the tables of characters; el is the way to a table, i the index in it, *)
(* skip whether the branch there was returned already                                                         *)
LegalPart(l) == LET bad == {i \in DOMAIN l : l[i] \notin Range(Legal)}
                IN  IF bad = {} THEN l ELSE SubSeq(l, 1, (CHOOSE i \in bad : \A j \in bad : i <= j))
HasLevel(keys, el) == \E l \in keys : IsStrictPrefix(el, LegalPart(l))
RECURSIVE iter_next(_, _, _, _)
iter_next(keys, el, i, skip) ==
    LET here == Append(el, Legal[i])
        up == CHOOSE k \in DOMAIN Legal : Legal[k] = el[Len(el)]
    IN  IF i > Len(Legal) THEN IF el = <<>> THEN <<>> ELSE iter_next(keys, Front(el), up + 1, FALSE)
        ELSE IF here \in keys /\ ~skip THEN here
        ELSE IF HasLevel(keys, here) THEN iter_next(keys, here, 1, FALSE)
        ELSE iter_next(keys, el, i + 1, FALSE)
RECURSIVE IterFrom(_, _)
IterFrom(keys, l) == IF l = <<>> THEN <<>>
                     ELSE <<l>> \o IterFrom(keys, iter_next(keys, Front(l), CHOOSE k \in DOMAIN Legal : Legal[k] = l[Len(l)], TRUE))
Below(p) == IF tree[p].type = "INDEX" THEN IterFrom(Keys(tree, p), iter_next(Keys(tree, p), <<>>, 1, FALSE)) ELSE tree[p].keys
(* PrintHostBranch() *)
RECURSIVE PrintHostBranch(_)
PrintHostBranch(p) ==
    tree[p].leafs \o FlattenSeq([i \in 1 .. Len(Below(p)) |-> PrintHostBranch(Append(p, Below(p)[i]))])

-----------------------------------------------------------------------------
Negated(n) == \E i \in DOMAIN n : n[i] # Dot /\ n[i][1] = Not
Domain(leaf) == leaf.type[1] = "DOMAIN"
(* what a rule says: the host is the name, or in the domain (an empty name is every domain) *)
Says(leaf, host) == IF Domain(leaf) THEN Tokens(leaf.match) = <<>> \/ domaincmp(host, Tokens(leaf.match))
                    ELSE Tokens(leaf.match) # <<>> /\ host = Tokens(leaf.match)
(* MatchFirst() and MatchNext() find the rules for a host each once and all of them, the wider domain first, *)
(* whether a name fits into the tree or is compared at its end, and whether arrays have grown into tables.   *)
(* A host written with an empty label (a trailing dot) is excepted: no branch of the first level is empty.   *)
FindsEveryRule ==
    LET found == Range(s.found)
        Level(i) == LET n == Len(Tokens(leaf_array[i].match)) IN IF n > HOST_TABLE_DEPTH THEN HOST_TABLE_DEPTH ELSE n
        plain == {i \in DOMAIN leaf_array : ~Negated(leaf_array[i].match)}
    IN  s.host # <<>> =>
        /\ \A i, j \in DOMAIN s.found : i < j => s.found[i] # s.found[j] /\ Level(s.found[i]) <= Level(s.found[j])
        /\ \A i \in found \cap plain : Says(leaf_array[i], s.host)
        /\ ~s.on /\ Dot \notin Range(s.host) /\ ~Negated(s.host) => \A i \in plain : Says(leaf_array[i], s.host) => i \in found
(* A rule for "not x" is never found for x. *)
NotIsNot ==
    \A k \in DOMAIN s.found :
        LET tok == Tokens(leaf_array[s.found[k]].match)
        IN  Len(tok) <= Len(s.host) =>
            \A i \in 1 .. HOST_TABLE_DEPTH - 1 : i < Len(tok) /\ tok[Len(tok) - i][1] = Not /\ Len(tok[Len(tok) - i]) > 1
                => s.host[Len(s.host) - i] # Tail(tok[Len(tok) - i])
(* The walk over the table passes every rule once, but for those below a label that no index of characters has. *)
PrintComplete ==
    LET out == PrintHostBranch(<<>>)
        top(n) == LET t == Tokens(n) IN IF t = <<>> THEN <<>> ELSE t[Len(t)]
    IN  \A i \in DOMAIN leaf_array : Cardinality({k \in DOMAIN out : out[k] = i}) = IF LegalLabel(top(leaf_array[i].match)) THEN 1 ELSE 0
=============================================================================
