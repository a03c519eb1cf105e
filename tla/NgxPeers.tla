------------------------------- MODULE NgxPeers -------------------------------
(* The peer tables of ngx_http_upstream_round_robin.c as values: what a get    *)
(* and a free compute from the tables a worker keeps and the data of one       *)
(* request.  A table set is a sequence of groups (the primaries, then the      *)
(* backups); a group is a sequence of peers.                                   *)
EXTENDS Integers, Sequences, FiniteSets, FiniteSetsExt, SequencesExt

(* One address of a server directive. *)
NewPeer(s) ==
    [weight |-> s.weight, max_fails |-> s.max_fails, fail_timeout |-> s.fail_timeout,
     down |-> s.down, effective_weight |-> s.weight, current_weight |-> 0,
     fails |-> 0, checked |-> 0, accessed |-> 0]

(* A server without parameters, and each address of a host that an upstream    *)
(* name or a resolver answer stands for.                                       *)
PlainPeer == NewPeer([weight |-> 1, max_fails |-> 1, fail_timeout |-> 10, down |-> FALSE])

(* The addresses of the primary or of the backup servers, in order. *)
GroupOf(servers, backup) ==
    LET peers[k \in 0..Len(servers)] ==
          IF k = 0 THEN << >>
          ELSE IF servers[k].backup # backup THEN peers[k - 1]
          ELSE peers[k - 1] \o [j \in 1..servers[k].naddrs |-> NewPeer(servers[k])]
    IN  peers[Len(servers)]

(* ngx_http_upstream_init_round_robin: the primaries, and the backups when     *)
(* there are any; an upstream without a primary is a configuration error.      *)
init_round_robin(servers) ==
    LET primary == GroupOf(servers, FALSE)
        backup  == GroupOf(servers, TRUE)
    IN  IF primary = << >> THEN << >>
        ELSE IF backup = << >> THEN <<primary>> ELSE <<primary, backup>>

(* ngx_http_upstream_create_round_robin_peer and the implicit upstream. *)
create_round_robin_peer(naddrs) == <<[j \in 1..naddrs |-> PlainPeer]>>

(* A lone peer without backups is used whatever its failures were. *)
single(P) == Len(P) = 1 /\ Len(P[1]) = 1

(* ngx_http_upstream_init_round_robin_peer: the data of one request. *)
init_peer(P) == [group |-> 1, current |-> 1, tried |-> {}, tries |-> Len(P[1])]

exhausted(p, now) ==
    p.max_fails # 0 /\ p.fails >= p.max_fails /\ now - p.checked <= p.fail_timeout

eligible(G, tried, now) ==
    {i \in DOMAIN G \ tried : ~G[i].down /\ ~exhausted(G[i], now)}

(* ngx_http_upstream_get_peer: every eligible peer gains its effective weight, *)
(* the first of those with the greatest current weight is chosen and pays the  *)
(* total, and a peer that was not checked for fail_timeout is checked now.     *)
Gained(p) ==
    [p EXCEPT !.current_weight = @ + p.effective_weight,
              !.effective_weight = IF @ < p.weight THEN @ + 1 ELSE @]

best(G, E) ==
    CHOOSE i \in E : \A j \in E : \/ G[i].current_weight > G[j].current_weight
                                  \/ G[i].current_weight = G[j].current_weight /\ i <= j

(* Mutant: the chosen peer pays its own weight only. *)
PaidOwn(p, total, now) ==
    [p EXCEPT !.current_weight = @ - p.weight,
              !.checked = IF now - @ > p.fail_timeout THEN now ELSE @]

(* Mutant: the probe of a failed peer is not recorded. *)
PaidUnchecked(p, total, now) == [p EXCEPT !.current_weight = @ - total]

Paid(p, total, now) ==
    [p EXCEPT !.current_weight = @ - total,
              !.checked = IF now - @ > p.fail_timeout THEN now ELSE @]

(* w[1] + ... + w[n] *)
SumTo(w, n) ==
    LET sum[k \in 0..n] == IF k = 0 THEN 0 ELSE sum[k - 1] + w[k]
    IN  sum[n]

gained(G, E) == [i \in DOMAIN G |-> IF i \in E THEN Gained(G[i]) ELSE G[i]]
gain(G, E) == [i \in DOMAIN G |-> IF i \in E THEN G[i].effective_weight ELSE 0]
picked(G, E) == best(gained(G, E), E)

get_peer(G, E, now) ==
    [gained(G, E) EXCEPT ![picked(G, E)] = Paid(@, SumTo(gain(G, E), Len(G)), now)]

(* All peers failed: they are marked live for quick recovery. *)
live(G) == [i \in DOMAIN G |-> [G[i] EXCEPT !.fails = 0]]

(* One pass of ngx_http_upstream_get_round_robin_peer over the group the       *)
(* request is at: the peer it takes, with the backups added to the tries of    *)
(* the last primary.                                                           *)
Take(P, d, now) ==
    LET G == P[d.group]
        E == eligible(G, d.tried, now)
        b == picked(G, E)
    IN  [P |-> [P EXCEPT ![d.group] = get_peer(G, E, now)],
         d |-> [group |-> d.group, current |-> b, tried |-> d.tried \union {b},
                tries |-> IF d.tries = 1 /\ d.group < Len(P)
                          THEN 1 + Len(P[d.group + 1]) ELSE d.tries],
         ok |-> TRUE]

AtBackups(P, d) == [group |-> 2, current |-> d.current, tried |-> {}, tries |-> Len(P[2])]

(* ngx_http_upstream_get_round_robin_peer: ok is FALSE for NGX_BUSY. *)
get_round_robin_peer(P, d, now) ==
    IF single(P)
    THEN IF P[1][1].down THEN [P |-> <<live(P[1])>>, d |-> d, ok |-> FALSE]
                         ELSE [P |-> P, d |-> d, ok |-> TRUE]
    ELSE LET b == AtBackups(P, d) IN
         CASE eligible(P[d.group], d.tried, now) # {} -> Take(P, d, now)
           [] eligible(P[d.group], d.tried, now) = {} /\ d.group = Len(P) ->
                [P |-> [P EXCEPT ![d.group] = live(@)], d |-> d, ok |-> FALSE]
           [] eligible(P[d.group], d.tried, now) = {} /\ d.group < Len(P) ->
                IF eligible(P[2], b.tried, now) # {} THEN Take(P, b, now)
                ELSE [P |-> [g \in DOMAIN P |-> live(P[g])], d |-> b, ok |-> FALSE]

(* Mutant: the clamp at zero is lost. *)
FailedUnclamped(p, now) ==
    LET cost == IF p.max_fails = 0 THEN 0 ELSE p.weight \div p.max_fails
    IN  [p EXCEPT !.fails = @ + 1, !.accessed = now, !.checked = now,
                  !.effective_weight = @ - cost]

(* The peer's record after a failed, and after a good, use of it. *)
Failed(p, now) ==
    LET cost == IF p.max_fails = 0 THEN 0 ELSE p.weight \div p.max_fails
    IN  [p EXCEPT !.fails = @ + 1, !.accessed = now, !.checked = now,
                  !.effective_weight = IF @ < cost THEN 0 ELSE @ - cost]

(* Mutant: any good answer makes the peer live, one asked for before the       *)
(* failure included.                                                           *)
PassedAlways(p) == [p EXCEPT !.fails = 0]

Passed(p) == IF p.accessed < p.checked THEN [p EXCEPT !.fails = 0] ELSE p

Spent(d) == [d EXCEPT !.tries = IF @ > 0 THEN @ - 1 ELSE 0]

(* ngx_http_upstream_free_round_robin_peer; state is "failed", "next" or "ok". *)
free_round_robin_peer(P, d, state, now) ==
    IF single(P) THEN [P |-> P, d |-> [d EXCEPT !.tries = 0]]
    ELSE [P |-> [P EXCEPT ![d.group][d.current] =
                     IF state = "failed" THEN Failed(@, now) ELSE Passed(@)],
          d |-> Spent(d)]
===============================================================================
