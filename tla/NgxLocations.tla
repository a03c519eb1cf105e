---------------------------- MODULE NgxLocations ----------------------------
(***************************************************************************)
(* The locations of a server: the location directive, the sorting of the   *)
(* locations, their split into named, regex and static ones, the tree of   *)
(* prefixes the static ones become (http/ngx_http.c), and the search of a  *)
(* request's URI in all of it (http/ngx_http_core_module.c).               *)
(* A name is a sequence of characters; a pointer that may be NULL is a     *)
(* sequence of at most one element.                                        *)
(***************************************************************************)
EXTENDS Integers, Sequences, SequencesExt, FiniteSets

CONSTANTS
    Candidates,    \* locations a configuration may hold
    Uris,          \* URIs of requests
    MaxLocations,  \* locations of one configuration
    Order          \* the characters in the order of ngx_strcmp()

(* A location is [kind, name, auto_redirect, id]. *)
Kinds == {"exact", "prefix", "noregex", "regex", "named", "noname"}
VARIABLES
    conf,   \* the locations in the order of the file, each with its parent: 0 is the server
    phase,  \* "parse", "ready", or "error" when the configuration is refused
    server, \* what the locations were built into
    found   \* the last search: the URI, the return code and the location

vars == <<conf, phase, server, found>>

NULL == <<>>
Rank(c) == CHOOSE k \in DOMAIN Order : Order[k] = c
ngx_strcmp(a, b) ==
    LET diffs == { k \in 1 .. (IF Len(a) < Len(b) THEN Len(a) ELSE Len(b)) : a[k] # b[k] }
        first == CHOOSE k \in diffs : \A h \in diffs : k <= h
    IN CASE diffs # {} -> Rank(a[first]) - Rank(b[first])
         [] diffs = {} -> Len(a) - Len(b)
(* ngx_regex_exec() of a pattern that is a plain string: it occurs. *)
RegexMatches(pattern, s) == \E k \in 1 .. Len(s) - Len(pattern) + 1 : SubSeq(s, k, k + Len(pattern) - 1) = pattern

-----------------------------------------------------------------------------
(* ngx_http_core_location(). *)

Children(p) == SelectSeq([k \in DOMAIN conf |-> [loc |-> conf[k].loc, parent |-> conf[k].parent, at |-> k]],
                         LAMBDA c : c.parent = p)
(* A nested location must stay inside its parent. *)
MayNest(parent, loc) ==
    /\ parent.kind \notin {"exact", "named"}
    /\ loc.kind # "named"
    /\ loc.kind = "regex" \/ IsPrefix(parent.name, loc.name)
ngx_http_core_location(parent, loc) ==
    /\ phase = "parse"
    /\ Len(conf) < MaxLocations
    /\ \A k \in DOMAIN conf : conf[k].loc # loc
    /\ parent # 0 => conf[parent].parent = 0
    /\ IF parent = 0 \/ MayNest(conf[parent].loc, loc)
       THEN conf' = Append(conf, [loc |-> loc, parent |-> parent]) /\ UNCHANGED phase
       ELSE phase' = "error" /\ UNCHANGED conf
    /\ UNCHANGED <<server, found>>

-----------------------------------------------------------------------------
(* ngx_http_add_location(): an entry of the queue has an exact or an       *)
(* inclusive location; joining gives it both.                              *)
ngx_http_add_location(c) ==
    [name |-> c.loc.name, list |-> <<>>,
     exact |-> IF c.loc.kind \in {"prefix", "noregex"} THEN NULL ELSE <<c>>,
     inclusive |-> IF c.loc.kind \in {"prefix", "noregex"} THEN <<c>> ELSE NULL]
Loc(lq) == IF lq.exact # NULL THEN lq.exact[1].loc ELSE lq.inclusive[1].loc

(* Unnamed blocks last, then named, then regex in the order of the file,   *)
(* the others by name with an exact one before the same inclusive one.     *)
ngx_http_cmp_locations(one, two) ==
    LET a == Loc(one) b == Loc(two)
        Group(l) == CASE l.kind = "noname" -> 3 [] l.kind = "named" -> 2 [] l.kind = "regex" -> 1 [] OTHER -> 0
        rc == ngx_strcmp(a.name, b.name)
    IN CASE Group(a) # Group(b) -> Group(a) - Group(b)
         [] Group(a) = Group(b) /\ Group(a) \in {1, 3} -> 0
         [] Group(a) = Group(b) /\ Group(a) = 2 -> rc
         [] OTHER -> IF rc = 0 /\ a.kind # "exact" /\ b.kind = "exact" THEN 1 ELSE rc

(* ngx_queue_sort() is a stable insertion sort. *)
RECURSIVE ngx_queue_sort(_)
ngx_queue_sort(s) ==
    IF s = <<>> THEN <<>>
    ELSE LET sorted == ngx_queue_sort(Front(s))
             q == Last(s)
             after == { k \in DOMAIN sorted : ngx_http_cmp_locations(sorted[k], q) <= 0 }
             place == IF after = {} THEN 0 ELSE CHOOSE k \in after : \A h \in after : h <= k
         IN SubSeq(sorted, 1, place) \o <<q>> \o SubSeq(sorted, place + 1, Len(sorted))

(* ngx_http_init_locations(): the sorted queue is cut at the first unnamed,*)
(* the first named and the first regex location.                           *)
Kept(s, kinds) == SelectSeq(s, LAMBDA lq : Loc(lq).kind \in kinds)
ngx_http_init_locations(p) ==
    LET sorted == ngx_queue_sort([k \in DOMAIN Children(p) |-> ngx_http_add_location(Children(p)[k])])
    IN [named |-> Kept(sorted, {"named"}), regex |-> Kept(sorted, {"regex"}),
        static |-> Kept(sorted, {"exact", "prefix", "noregex"})]

(* ngx_http_join_exact_locations(): neighbours of the same name become one;*)
(* two of the same kind are an error.                                      *)
Duplicate(s) == \E k \in 1 .. Len(s) - 1 :
    /\ s[k].name = s[k + 1].name
    /\ (s[k].exact # NULL /\ s[k + 1].exact # NULL) \/ (s[k].inclusive # NULL /\ s[k + 1].inclusive # NULL)
ngx_http_join_exact_locations(s) ==
    LET joined == [k \in DOMAIN s |->
                     [s[k] EXCEPT !.inclusive = IF k < Len(s) /\ s[k].name = s[k + 1].name THEN s[k + 1].inclusive ELSE @]]
        keep == SelectSeq([k \in DOMAIN s |-> k], LAMBDA k : k = 1 \/ s[k].name # s[k - 1].name)
    IN [k \in DOMAIN keep |-> joined[keep[k]]]

RECURSIVE ngx_http_create_locations_list(_)
(* What an inclusive location is a prefix of moves to its own list. *)
ngx_http_create_locations_list(s) ==
    IF Len(s) <= 1 THEN s
    ELSE LET q == Head(s)
             outside == { k \in 2 .. Len(s) : ~IsPrefix(q.name, s[k].name) }
             x == IF outside = {} THEN Len(s) + 1 ELSE CHOOSE k \in outside : \A h \in outside : k <= h
         IN IF q.inclusive = NULL \/ x = 2
            THEN <<q>> \o ngx_http_create_locations_list(Tail(s))
            ELSE <<[q EXCEPT !.list = ngx_http_create_locations_list(SubSeq(s, 2, x - 1))]>>
                 \o ngx_http_create_locations_list(SubSeq(s, x, Len(s)))

(* The tree: the middle of the queue, what is before and after it, and the *)
(* tree of its own list with the common prefix taken off.                  *)
Middle(s) == Len(s) \div 2 + 1
RECURSIVE ngx_http_create_locations_tree(_, _)
ngx_http_create_locations_tree(s, prefix) ==
    IF s = <<>> THEN NULL
    ELSE LET lq == s[Middle(s)]
             len == Len(lq.name) - prefix
         IN << [name |-> SubSeq(lq.name, prefix + 1, Len(lq.name)), len |-> len % 256,
                exact |-> lq.exact, inclusive |-> lq.inclusive,
                auto_redirect |-> \/ lq.exact # NULL /\ lq.exact[1].loc.auto_redirect
                                  \/ lq.inclusive # NULL /\ lq.inclusive[1].loc.auto_redirect,
                left |-> ngx_http_create_locations_tree(SubSeq(s, 1, Middle(s) - 1), prefix),
                right |-> ngx_http_create_locations_tree(SubSeq(s, Middle(s) + 1, Len(s)), prefix),
                tree |-> ngx_http_create_locations_tree(lq.list, prefix + len)] >>

(* ngx_http_init_static_location_trees() for one level. *)
Built(p) ==
    LET split == ngx_http_init_locations(p)
    IN [regex |-> split.regex, named |-> split.named,
        static |-> ngx_http_create_locations_tree(
                       ngx_http_create_locations_list(ngx_http_join_exact_locations(split.static)), 0)]
ngx_http_block ==
    /\ phase = "parse"
    /\ IF \E p \in 0 .. Len(conf) : Duplicate(ngx_http_init_locations(p).static)
       THEN phase' = "error" /\ UNCHANGED server
       ELSE phase' = "ready" /\ server' = [p \in 0 .. Len(conf) |-> Built(p)]
    /\ UNCHANGED <<conf, found>>

-----------------------------------------------------------------------------
(* ngx_http_core_find_static_location(): loc is r->loc_conf.               *)

RECURSIVE ngx_http_core_find_static_location(_, _, _, _)
ngx_http_core_find_static_location(node, uri, rv, loc) ==
    IF node = NULL THEN [rc |-> rv, loc |-> loc]
    ELSE
    LET nd == node[1]
        n == IF Len(uri) <= nd.len THEN Len(uri) ELSE nd.len
        rc == ngx_strcmp(SubSeq(uri, 1, n), SubSeq(nd.name, 1, n))
    IN CASE rc < 0 -> ngx_http_core_find_static_location(nd.left, uri, rv, loc)
         [] rc > 0 -> ngx_http_core_find_static_location(nd.right, uri, rv, loc)
         [] rc = 0 /\ Len(uri) > nd.len ->
              IF nd.inclusive # NULL
              THEN ngx_http_core_find_static_location(nd.tree, SubSeq(uri, n + 1, Len(uri)), "AGAIN", nd.inclusive[1].at)
              ELSE ngx_http_core_find_static_location(nd.right, uri, rv, loc)
         [] rc = 0 /\ Len(uri) = nd.len ->
              IF nd.exact # NULL THEN [rc |-> "OK", loc |-> nd.exact[1].at]
              ELSE [rc |-> "AGAIN", loc |-> nd.inclusive[1].at]
         [] OTHER ->
              IF Len(uri) + 1 = nd.len /\ nd.auto_redirect
              THEN ngx_http_core_find_static_location(nd.left, uri, "DONE",
                       IF nd.exact # NULL THEN nd.exact[1].at ELSE nd.inclusive[1].at)
              ELSE ngx_http_core_find_static_location(nd.left, uri, rv, loc)

(* ngx_http_core_find_location() below location p (0 is the server). *)
RECURSIVE ngx_http_core_find_location(_, _)
ngx_http_core_find_location(p, uri) ==
    LET static == ngx_http_core_find_static_location(server[p].static, uri, "DECLINED", p)
        noregex == static.rc = "AGAIN" /\ conf[static.loc].loc.kind = "noregex"
        res == IF static.rc = "AGAIN" THEN ngx_http_core_find_location(static.loc, uri) ELSE static
        regex == server[p].regex
        matching == { k \in DOMAIN regex : RegexMatches(regex[k].name, uri) }
        first == CHOOSE k \in matching : \A h \in matching : k <= h
    IN IF res.rc \in {"OK", "DONE"} \/ noregex \/ matching = {} THEN res
       ELSE [rc |-> "OK", loc |-> ngx_http_core_find_location(regex[first].exact[1].at, uri).loc]

Find(uri) ==
    /\ phase = "ready"
    /\ LET res == ngx_http_core_find_location(0, uri)
       IN found' = [uri |-> uri, rc |-> res.rc, loc |-> res.loc]
    /\ UNCHANGED <<conf, phase, server>>

Init ==
    /\ conf = <<>>
    /\ phase = "parse"
    /\ server = <<>>
    /\ found = [uri |-> <<>>, rc |-> "none", loc |-> 0]

Next ==
    \/ \E parent \in 0 .. Len(conf), loc \in Candidates : ngx_http_core_location(parent, loc)
    \/ ngx_http_block
    \/ \E uri \in Uris : found.rc = "none" /\ Find(uri)
Spec == Init /\ [][Next]_vars

-----------------------------------------------------------------------------
(* What the directive promises, from the locations as they are written.    *)
At(p) == { k \in DOMAIN conf : conf[k].parent = p }
Named(k) == conf[k].loc.name
Kind(k) == conf[k].loc.kind
Longest(S) == CHOOSE k \in S : \A h \in S : Len(Named(h)) <= Len(Named(k))
StaticWinner(p, uri) ==
    LET exact == { k \in At(p) : Kind(k) = "exact" /\ Named(k) = uri }
        same == { k \in At(p) : Kind(k) \in {"prefix", "noregex"} /\ Named(k) = uri }
        slash == { k \in At(p) : Kind(k) \in {"exact", "prefix", "noregex"} /\ conf[k].loc.auto_redirect
                                 /\ Named(k) = Append(uri, "/") }
        above == { k \in At(p) : Kind(k) \in {"prefix", "noregex"} /\ IsPrefix(Named(k), uri) }
    IN CASE exact # {} -> [rc |-> "OK", locs |-> exact]
         [] exact = {} /\ same = {} /\ slash # {} -> [rc |-> "DONE", locs |-> slash]
         [] exact = {} /\ ~(same = {} /\ slash # {}) /\ above # {} -> [rc |-> "AGAIN", locs |-> {Longest(above)}]
         [] OTHER -> [rc |-> "DECLINED", locs |-> {p}]

(* The tree finds at every level what the directives say: the exact        *)
(* location, the redirect to a name with a slash, or the longest prefix,   *)
(* whatever the order of the file.                                         *)
LongestPrefixWins ==
    phase = "ready" =>
        \A p \in {0} \union { conf[k].parent : k \in DOMAIN conf }, uri \in Uris :
            LET static == ngx_http_core_find_static_location(server[p].static, uri, "DECLINED", p)
                winner == StaticWinner(p, uri)
            IN static.rc = winner.rc /\ static.loc \in winner.locs

(* A regex location is chosen by the order of the file, before any prefix  *)
(* that does not forbid it, and after an exact one: a request ends in a    *)
(* prefix location of the server only if no regex of the server matches or *)
(* the prefix is a "^~" one.                                               *)
Ancestor(k) == IF k = 0 \/ conf[k].parent = 0 THEN k ELSE conf[k].parent
RegexInOrder ==
    found.rc \in {"OK", "AGAIN", "DECLINED"} =>
        LET top == Ancestor(found.loc)
            matching == { k \in At(0) : Kind(k) = "regex" /\ RegexMatches(Named(k), found.uri) }
            winner == StaticWinner(0, found.uri)
        IN /\ top # 0 /\ Kind(top) = "regex" =>
                 /\ top \in matching /\ \A k \in matching : top <= k
                 /\ winner.rc # "OK"
           /\ (top = 0 \/ Kind(top) = "prefix") /\ found.loc = top => matching = {}

(* A location is only ever used for a URI it covers.                       *)
FoundCovers ==
    found.rc \in {"OK", "AGAIN", "DECLINED"} /\ found.loc # 0 =>
        CASE Kind(found.loc) = "exact" -> Named(found.loc) = found.uri
          [] Kind(found.loc) = "regex" -> RegexMatches(Named(found.loc), found.uri)
          [] OTHER -> Kind(found.loc) \in {"prefix", "noregex"} /\ IsPrefix(Named(found.loc), found.uri)

(* A configuration is refused exactly when a location is outside its       *)
(* parent or two of one level have the same name and kind.                 *)
OnlyBadRefused ==
    phase = "ready" => \A h, k \in DOMAIN conf :
        h # k /\ conf[h].parent = conf[k].parent /\ Named(h) = Named(k) =>
            \/ {Kind(h), Kind(k)} \intersect {"regex", "named", "noname"} # {}
            \/ (Kind(h) = "exact") # (Kind(k) = "exact")
=============================================================================
