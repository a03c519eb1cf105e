----------------------------- MODULE MCUpstream -----------------------------
(*****************************************************************************)
(* The balancer and the proxied request that uses it. NgxRoundRobin runs     *)
(* with two requests of one worker on two primaries and a backup;            *)
(* NgxUpstream runs under the settings that make its code differ.            *)
(*****************************************************************************)
EXTENDS NgxRoundRobin, TLC

VARIABLES part,   \* the component that runs
          peers, u, client, out, call


Server(w, f, t, b) ==
    [naddrs |-> 1, weight |-> w, max_fails |-> f, fail_timeout |-> t, down |-> FALSE, backup |-> b]

(* Two weighted primaries and a backup, for the balancer. *)
Backed == <<Server(2, 1, 1, FALSE), Server(1, 1, 1, FALSE), Server(1, 1, 1, TRUE)>>

(* Upstreams of a proxied request: two servers; a server and a backup. *)
Pair == <<Server(1, 1, 10, FALSE), Server(1, 1, 10, FALSE)>>
PairAndBackup == <<Server(1, 1, 10, FALSE), Server(1, 1, 10, TRUE)>>
FailuresThatTurn == {"error", "timeout", "invalid", "http_500"}

-----------------------------------------------------------------------------
Cached == INSTANCE NgxUpstream WITH
    P <- peers, Servers <- Pair, Naddrs <- 0, NextOn <- FailuresThatTurn,
    UseStale <- {"error", "timeout", "http_500"}, CacheOn <- TRUE, StoreOn <- FALSE, Buffering <- TRUE,
    IgnoreAbort <- FALSE, InterceptErrors <- FALSE, HeadOnly <- FALSE, UseSSL <- FALSE, InMemory <- FALSE,
    Upgrades <- FALSE, Redirects <- FALSE, EarlyReplies <- FALSE, Faults <- TRUE, Length <- 2
Unbuffered == INSTANCE NgxUpstream WITH
    P <- peers, Servers <- Pair, Naddrs <- 2, NextOn <- FailuresThatTurn,
    UseStale <- {"error", "timeout", "http_500"}, CacheOn <- FALSE, StoreOn <- FALSE, Buffering <- FALSE,
    IgnoreAbort <- FALSE, InterceptErrors <- TRUE, HeadOnly <- FALSE, UseSSL <- FALSE, InMemory <- FALSE,
    Upgrades <- FALSE, Redirects <- TRUE, EarlyReplies <- FALSE, Faults <- TRUE, Length <- 2
Stored == INSTANCE NgxUpstream WITH
    P <- peers, Servers <- PairAndBackup, Naddrs <- 0, NextOn <- FailuresThatTurn,
    UseStale <- {"error", "timeout", "http_500"}, CacheOn <- FALSE, StoreOn <- TRUE, Buffering <- TRUE,
    IgnoreAbort <- FALSE, InterceptErrors <- FALSE, HeadOnly <- TRUE, UseSSL <- FALSE, InMemory <- FALSE,
    Upgrades <- FALSE, Redirects <- FALSE, EarlyReplies <- FALSE, Faults <- TRUE, Length <- 2
Ssl == INSTANCE NgxUpstream WITH
    P <- peers, Servers <- Pair, Naddrs <- 0, NextOn <- FailuresThatTurn,
    UseStale <- {"error", "timeout", "http_500"}, CacheOn <- FALSE, StoreOn <- FALSE, Buffering <- TRUE,
    IgnoreAbort <- FALSE, InterceptErrors <- FALSE, HeadOnly <- FALSE, UseSSL <- TRUE, InMemory <- TRUE,
    Upgrades <- FALSE, Redirects <- FALSE, EarlyReplies <- TRUE, Faults <- TRUE, Length <- 2
Upgraded == INSTANCE NgxUpstream WITH
    P <- peers, Servers <- Pair, Naddrs <- 0, NextOn <- FailuresThatTurn,
    UseStale <- {"error", "timeout", "http_500"}, CacheOn <- FALSE, StoreOn <- FALSE, Buffering <- TRUE,
    IgnoreAbort <- FALSE, InterceptErrors <- FALSE, HeadOnly <- FALSE, UseSSL <- FALSE, InMemory <- FALSE,
    Upgrades <- TRUE, Redirects <- FALSE, EarlyReplies <- FALSE, Faults <- TRUE, Length <- 2

(* the variables of the components that do not run are idle, those of NgxRoundRobin in an initial state *)
IdleNgxRoundRobin == peers = "idle" /\ u = "idle" /\ client = "idle" /\ out = "idle" /\ call = "idle"
KeepNgxRoundRobin == UNCHANGED <<part, peers, u, client, out, call>>
IdleNgxUpstream == Init
KeepNgxUpstream == UNCHANGED <<part, P, req, now, turns, gets, probe>>

MCInit ==
    \/ part = "balance" /\ Init /\ IdleNgxRoundRobin
    \/ part = "cache" /\ Cached!Init /\ IdleNgxUpstream
    \/ part = "plain" /\ Unbuffered!Init /\ IdleNgxUpstream
    \/ part = "store" /\ Stored!Init /\ IdleNgxUpstream
    \/ part = "ssl" /\ Ssl!Init /\ IdleNgxUpstream
    \/ part = "upgrade" /\ Upgraded!Init /\ IdleNgxUpstream
MCNext ==
    \/ part = "balance" /\ Next /\ KeepNgxRoundRobin
    \/ part = "cache" /\ Cached!Next /\ KeepNgxUpstream
    \/ part = "plain" /\ Unbuffered!Next /\ KeepNgxUpstream
    \/ part = "store" /\ Stored!Next /\ KeepNgxUpstream
    \/ part = "ssl" /\ Ssl!Next /\ KeepNgxUpstream
    \/ part = "upgrade" /\ Upgraded!Next /\ KeepNgxUpstream
mcvars == <<part, P, req, now, turns, gets, probe, peers, u, client, out, call>>
(* The event loop runs handlers to their end and the resolver answers; a timer that is armed again and  *)
(* again fires in the end, because what arms it again is data, and the data are finite.                *)
Handlers ==
    \/ part = "cache" /\ (Cached!Functions \/ Cached!Begin \/ Cached!ResolverAnswers)
    \/ part = "plain" /\ (Unbuffered!Functions \/ Unbuffered!Begin \/ Unbuffered!ResolverAnswers)
WriteTimeouts ==
    \/ part = "cache" /\ (Cached!WriteTimeout)
    \/ part = "plain" /\ (Unbuffered!WriteTimeout)
ReadTimeouts ==
    \/ part = "cache" /\ (Cached!ReadTimeout)
    \/ part = "plain" /\ (Unbuffered!ReadTimeout)
ClientTimeouts ==
    \/ part = "cache" /\ (Cached!ClientTimeout)
    \/ part = "plain" /\ (Unbuffered!ClientTimeout)
MCFair ==
    /\ WF_mcvars(Handlers /\ KeepNgxUpstream)
    /\ SF_mcvars(WriteTimeouts /\ KeepNgxUpstream)
    /\ SF_mcvars(ReadTimeouts /\ KeepNgxUpstream)
    /\ SF_mcvars(ClientTimeouts /\ KeepNgxUpstream)
MCSpec == MCInit /\ [][MCNext]_mcvars /\ MCFair

-----------------------------------------------------------------------------
(* A proxied request takes and gives back each peer once, ends once and then holds nothing, keeps no cut
   response, tells no client that a cut body is over, and never waits for the upstream without a timer:
   with a cache, unbuffered, stored to a file, over TLS and with a switched protocol. *)
UpstreamSafe ==
    /\ part = "cache" => Cached!Settings /\ Cached!IndInv /\ (Cached!Plain => Cached!TimersOK) /\ Cached!ReleasedAtEnd /\ Cached!KeptWhole /\ Cached!EndedWhole /\ Cached!WaitHasTimer
    /\ part = "plain" => Unbuffered!IndInv /\ (Unbuffered!Plain => Unbuffered!TimersOK) /\ Unbuffered!ReleasedAtEnd /\ Unbuffered!EndedWhole
    /\ part = "store" => Stored!IndInv /\ (Stored!Plain => Stored!TimersOK)
    /\ part = "ssl" => Ssl!IndInv
    /\ part = "upgrade" => Upgraded!IndInv /\ (Upgraded!Plain => Upgraded!TimersOK)
(* Every proxied request ends: peers are finitely many and every wait has a timer. *)
UpstreamTerminates == (part \in {"cache", "plain"}) ~> (part # "balance" /\ out.final > 0)
=============================================================================
