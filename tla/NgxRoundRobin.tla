---------------------------- MODULE NgxRoundRobin -----------------------------
(* The balancer of ngx_http_upstream_round_robin.c as the requests of one      *)
(* worker use it: every request takes peers one after another, other requests  *)
(* do the same between its calls, and the seconds of ngx_time pass.  The       *)
(* upstream side (ngx_http_upstream_connect, _next, _finalize_request) is       *)
(* reduced here to the calls it makes; NgxUpstream models it in full.          *)
EXTENDS NgxPeers

CONSTANTS Requests,      \* requests of the worker
          Servers,       \* the server directives, a sequence of records
          MaxTime,       \* bound on the clock
          MaxTurns,      \* bound on the peers given up, failed or not
          MaxGets        \* bound on the gets of a run

ASSUME ServersAssumption ==
    /\ Servers \in Seq([naddrs : Nat \ {0}, weight : Nat \ {0}, max_fails : Nat,
                        fail_timeout : Nat, down : BOOLEAN, backup : BOOLEAN])
    /\ \E k \in DOMAIN Servers : ~Servers[k].backup

VARIABLES
    P,        \* us->peer.data: the groups of peers
    req,      \* per request: idle, between peers ("next") or at a peer ("peer")
    now,      \* ngx_time
    turns,    \* peers given up so far (bound)
    gets,     \* gets so far (bound)
    probe     \* history: per peer, when a get last took it while it was failed

vars == <<P, req, now, turns, gets, probe>>

NoProbe == -100
Idle(Q) == [st |-> "idle", d |-> init_peer(Q), used |-> 0]

Init ==
    /\ P = init_round_robin(Servers)
    /\ req = [r \in Requests |-> Idle(init_round_robin(Servers))]
    /\ now = 0
    /\ turns = 0
    /\ gets = 0
    /\ probe = [g \in DOMAIN init_round_robin(Servers) |->
                   [i \in DOMAIN init_round_robin(Servers)[g] |-> NoProbe]]

(* A failed peer is one a get would pass over if it had been checked just now. *)
failing(p) == p.max_fails # 0 /\ p.fails >= p.max_fails

(* ngx_http_upstream_connect asks for a peer; NGX_BUSY ends the request with    *)
(* NGX_HTTP_UPSTREAM_FT_NOLIVE.                                                 *)
Get(r) ==
    LET a == get_round_robin_peer(P, req[r].d, now)
        G == a.d.group
        I == a.d.current
    IN  /\ req[r].st \in {"idle", "next"}
        /\ gets < MaxGets
        /\ P' = a.P
        /\ gets' = gets + 1
        /\ req' = [req EXCEPT ![r] = IF a.ok THEN [st |-> "peer", d |-> a.d, used |-> @.used + 1]
                                     ELSE Idle(a.P)]
        /\ probe' = IF a.ok /\ failing(P[G][I]) THEN [probe EXCEPT ![G][I] = now] ELSE probe
        /\ UNCHANGED <<now, turns>>

(* ngx_http_upstream_next: a failure of the peer, or an answer (404) that is    *)
(* not its fault; another peer is asked while tries are left.                   *)
Next_(r, state) ==
    LET f == free_round_robin_peer(P, req[r].d, state, now)
    IN  /\ req[r].st = "peer"
        /\ turns < MaxTurns
        /\ turns' = turns + 1
        /\ P' = f.P
        /\ req' = [req EXCEPT ![r] = IF f.d.tries = 0 THEN Idle(f.P)
                                     ELSE [st |-> "next", d |-> f.d, used |-> @.used]]
        /\ UNCHANGED <<now, gets, probe>>

(* ngx_http_upstream_finalize_request frees the peer of a good response. *)
Done(r) ==
    LET f == free_round_robin_peer(P, req[r].d, "ok", now)
    IN  /\ req[r].st = "peer"
        /\ P' = f.P
        /\ req' = [req EXCEPT ![r] = Idle(f.P)]
        /\ UNCHANGED <<now, turns, gets, probe>>

Tick == now < MaxTime /\ now' = now + 1 /\ UNCHANGED <<P, req, turns, gets, probe>>

Next == \/ \E r \in Requests : Get(r) \/ Next_(r, "failed") \/ Next_(r, "next") \/ Done(r)
        \/ Tick

Spec == Init /\ [][Next]_vars
-------------------------------------------------------------------------------
(* Every weight the balancer computes with keeps to its range: the effective   *)
(* weight never goes below zero (ngx_http_upstream_free_round_robin_peer) nor   *)
(* above the configured weight (ngx_http_upstream_get_peer).                   *)
EffectiveInRange ==
    \A g \in DOMAIN P : \A i \in DOMAIN P[g] : P[g][i].effective_weight \in 0..P[g][i].weight

current_weights(G) == [i \in DOMAIN G |-> G[i].current_weight]

(* The current weights of a group always sum to zero: what the eligible peers  *)
(* gain in a get is exactly what the chosen one pays, whatever was skipped,     *)
(* failed or recovered in between.                                             *)
WeightsBalance ==
    \A g \in DOMAIN P : SumTo(current_weights(P[g]), Len(P[g])) = 0

(* A request is never at more peers, one after another, than the upstream has   *)
(* addresses, whatever the tries counter did at the turn to the backups.        *)
Addresses == IF Len(P) = 1 THEN Len(P[1]) ELSE Len(P[1]) + Len(P[2])
TriesBounded == \A r \in Requests : req[r].used <= Addresses

(* What the tables and the data of the requests are, whatever happened. *)
Peer == [weight : Nat \ {0}, max_fails : Nat, fail_timeout : Nat, down : BOOLEAN,
         effective_weight : Nat, current_weight : Int, fails : Nat, checked : Nat, accessed : Nat]
PeerData == [group : Nat, current : Nat, tried : SUBSET Nat, tries : Nat]

TypeOK ==
    /\ P \in Seq(Seq(Peer)) /\ Len(P) \in {1, 2}
    /\ \A g \in DOMAIN P : P[g] # << >>
    /\ req \in [Requests -> [st : {"idle", "next", "peer"}, d : PeerData, used : Nat]]
    /\ now \in Nat /\ turns \in Nat /\ gets \in Nat
    /\ probe \in [DOMAIN P -> Seq(Int)]
    /\ \A g \in DOMAIN P : Len(probe[g]) = Len(P[g])

(* A check lies in the past, and the probe of a failed peer is a check. *)
ChecksRecorded ==
    \A g \in DOMAIN P : \A i \in DOMAIN P[g] :
       /\ P[g][i].checked <= now
       /\ ~single(P) => probe[g][i] <= P[g][i].checked

(* The data of a request point into the tables, and every peer it was at is    *)
(* marked in tried, so that it is never at one twice.                          *)
RequestValid(r) ==
    LET d == req[r].d
    IN  /\ d.group \in DOMAIN P /\ d.current \in DOMAIN P[d.group]
        /\ d.tried \subseteq DOMAIN P[d.group]
        /\ single(P) => req[r].st # "next" /\ req[r].used <= 1
        /\ req[r].st = "idle" => req[r].used = 0
        /\ ~single(P) /\ d.group = 1 => req[r].used <= Cardinality(d.tried)
        /\ ~single(P) /\ d.group # 1 => req[r].used <= Len(P[1]) + Cardinality(d.tried)

(* The inductive invariant of the proofs: what the tables and the data are, the *)
(* ranges and the balance of the weights, and that the peers a request was at   *)
(* are counted by its marks.                                                    *)
IndInv ==
    /\ TypeOK /\ EffectiveInRange /\ WeightsBalance /\ ChecksRecorded
    /\ \A r \in Requests : RequestValid(r)

(* The balancer is safe: the inductive invariant holds, every weight is in its  *)
(* range, and no request is at more peers than the upstream has addresses.      *)
PeersSafe == IndInv /\ EffectiveInRange /\ TriesBounded

(* A failed peer is probed by one request at a time: two gets take it while it  *)
(* counts as failed only if more than fail_timeout seconds lie between them.    *)
ProbeSpaced ==
    \A g \in DOMAIN P : \A i \in DOMAIN P[g] :
       (\E r \in Requests : /\ req[r].st # "peer" /\ req'[r].st = "peer" /\ ~single(P)
                            /\ req'[r].d.group = g /\ req'[r].d.current = i)
       /\ failing(P[g][i])
       => now - probe[g][i] > P[g][i].fail_timeout
ProbesSpaced == [][ProbeSpaced]_vars

(* A peer that failed is taken as live again only after a check that came later *)
(* than its last failure, or because the upstream had no live peer at all: an   *)
(* answer to a question asked before the failure does not vouch for the peer.   *)
LiveChecked ==
    \A g \in DOMAIN P : \A i \in DOMAIN P[g] :
       (P[g][i].fails > 0 /\ P'[g][i].fails = 0) =>
           \/ P[g][i].accessed < P[g][i].checked
           \/ \A k \in DOMAIN P[g] : P'[g][k].fails = 0
LiveAfterCheck == [][LiveChecked]_vars
===============================================================================
