-------------------------- MODULE MCHttpTransact --------------------------
(* Families of transactions for HttpTransact: each varies the part of the  *)
(* configuration, the request and the cached object its question is about  *)
(* and leaves the rest at the defaults. A behaviour is one transaction of  *)
(* one family.                                                             *)
EXTENDS HttpTransact


Conf ==
    [cache_http |-> TRUE, cache_dynamic |-> TRUE, ttl_in_cache |-> FALSE, cache_range_lookup |-> TRUE,
     never_cache |-> FALSE, ignore_auth |-> FALSE, ignore_client_no_cache |-> FALSE,
     ignore_server_no_cache |-> FALSE, cookies |-> 3, required_headers |-> 0,
     negative_caching |-> FALSE, negative_revalidating |-> FALSE, connect_port_ok |-> TRUE,
     cta |-> FALSE, disable_ssl_parenting |-> TRUE, uncacheable_bypass |-> FALSE,
     no_dns_forward |-> FALSE, parents |-> 0, bypass_ok |-> TRUE, revalidate_always_ims |-> FALSE,
     remap_for_os |-> FALSE, allowed |-> TRUE, reverse_proxy |-> FALSE, no_host_redirect |-> FALSE,
     remap_required |-> FALSE, force_dns |-> FALSE, no_origin_server_dns |-> FALSE, icp |-> FALSE,
     stale_icp |-> FALSE, transform |-> FALSE, ims_on_client_no_cache |-> TRUE, server_down |-> FALSE,
     max_retries |-> 1, dead_retries |-> 0, rr_retries |-> 1, dns_rr |-> FALSE,
     parent_attempts |-> 3, per_parent |-> 2, expand |-> FALSE, num_expansions |-> 0,
     other_addr |-> FALSE, ip_rules |-> FALSE, plugin_error |-> FALSE, read_retry |-> FALSE,
     odd_server |-> FALSE, msie |-> 0, dns |-> {TRUE}, world |-> "cache"]

Req ==
    [method |-> "GET", ims |-> 0, ius |-> 0, inm |-> NoTag, im |-> NoTag, if_range |-> NoTag,
     range |-> FALSE, range_outcome |-> "REQUESTED", no_cache |-> FALSE, no_store |-> FALSE,
     only_if_cached |-> FALSE, auth |-> FALSE, cookie |-> FALSE, dynamic |-> FALSE,
     max_forwards |-> -1, version |-> 11, proxy_authorized |-> TRUE, host |-> "h", scheme |-> "http",
     length_known |-> TRUE, length_ok |-> TRUE, te_identity_refused |-> FALSE, remap |-> "ok",
     target_in_url |-> TRUE, stat_page |-> FALSE, parsed |-> TRUE, body |-> FALSE,
     self_loop |-> FALSE, dotted |-> FALSE, ip_host |-> FALSE, msie |-> FALSE]

Resp(code) ==
    [status |-> code, version |-> 11, lm |-> 0, etag |-> NoTag, cc |-> {}, expires |-> FALSE,
     set_cookie |-> FALSE, type |-> "text", www_auth |-> FALSE]

Obj ==
    [status |-> 200, lm |-> 2, etag |-> NoTag, cc |-> {}, expires |-> TRUE, set_cookie |-> FALSE,
     type |-> "text", www_auth |-> FALSE, present |-> TRUE, fresh |-> "STALE", cookie |-> FALSE,
     too_old |-> FALSE]


----------------------------------------------------------------------------
(* Conditional requests against a stale or fresh object, with the lock     *)
(* taken, refused or lost to another writer, and the server failing.       *)
CacheConfs ==
    {[Conf EXCEPT !.force_dns = f, !.read_retry = r, !.negative_revalidating = n,
                  !.server_down = n, !.revalidate_always_ims = f, !.msie = IF r THEN 1 ELSE 2] :
        f \in BOOLEAN, r \in BOOLEAN, n \in BOOLEAN}
CacheReqs ==
    {[Req EXCEPT !.method = m, !.ims = i, !.inm = e, !.no_cache = n] :
        m \in {"GET", "HEAD"}, i \in {0, 3}, e \in {NoTag, "a"}, n \in BOOLEAN}
    \cup {[Req EXCEPT !.method = m, !.max_forwards = k] : m \in {"PURGE", "DELETE"}, k \in {0, 1}}
    \cup {[Req EXCEPT !.method = "POST", !.body = TRUE]}
    \cup {[Req EXCEPT !.msie = TRUE, !.ims = i] : i \in {0, 3}}
CacheObjs ==
    {[Obj EXCEPT !.fresh = f, !.lm = l, !.etag = e] : f \in {"FRESH", "STALE"}, l \in {0, 2}, e \in {NoTag, "a"}}
    \cup {[Obj EXCEPT !.present = FALSE]}

CacheResponses == {Resp(304), Resp(503), [Resp(200) EXCEPT !.lm = 4, !.etag = "b"],
                   [Resp(200) EXCEPT !.cc = {"no-store"}], [Resp(304) EXCEPT !.cc = {"no-store"}]}

----------------------------------------------------------------------------
(* Credentials, ranges, transforms, dynamic content, stored failures, and  *)
(* servers that answer 304 unasked, 0.9, 100 or nonsense.                  *)
BodyConfs ==
    {[Conf EXCEPT !.transform = t, !.odd_server = d, !.negative_caching = ~t, !.read_retry = TRUE] :
        t \in BOOLEAN, d \in BOOLEAN}
BodyReqs ==
    {[Req EXCEPT !.method = m, !.auth = a, !.ims = i] : m \in {"GET", "HEAD"}, a \in BOOLEAN, i \in {0, 3}}
    \cup {[Req EXCEPT !.range = TRUE, !.range_outcome = o] :
            o \in {"REQUESTED", "NOT_SATISFIABLE", "NOT_HANDLED"}}
BodyObjs ==
    {[Obj EXCEPT !.fresh = f, !.www_auth = w, !.cc = IF w THEN {"must-revalidate"} ELSE {}] :
        f \in {"FRESH", "WARNING", "STALE"}, w \in BOOLEAN}
    \cup {[Obj EXCEPT !.present = FALSE]}
BodyResponses == {Resp(304), Resp(404), Resp(100), Resp(206), [Resp(200) EXCEPT !.version = 9], Resp(0),
                  [Resp(200) EXCEPT !.expires = TRUE], [Resp(401) EXCEPT !.www_auth = TRUE]}

----------------------------------------------------------------------------
(* The way to the next hop: parents, names, retries. With two parents      *)
(* every name resolves.                                                    *)
RouteConfs ==
    {[Conf EXCEPT !.parents = p[1], !.dns = p[2], !.bypass_ok = b, !.no_dns_forward = n, !.dns_rr = f,
                  !.force_dns = f, !.remap_for_os = m, !.max_retries = 3, !.per_parent = IF m THEN 1 ELSE 2,
                  !.disable_ssl_parenting = ~n] :
        p \in {<<0, BOOLEAN>>, <<1, BOOLEAN>>, <<2, {TRUE}>>}, b \in BOOLEAN, n \in BOOLEAN,
        f \in BOOLEAN, m \in BOOLEAN}
    \cup {[Conf EXCEPT !.cta = TRUE, !.other_addr = o, !.dns = BOOLEAN, !.max_retries = 2, !.dns_rr = r,
                       !.force_dns = f] :
            o \in BOOLEAN, r \in BOOLEAN, f \in BOOLEAN}
    \cup {[Conf EXCEPT !.parents = 1, !.uncacheable_bypass = TRUE, !.cache_http = c, !.ip_rules = TRUE,
                       !.disable_ssl_parenting = d] : c \in BOOLEAN, d \in BOOLEAN}
RouteReqs ==
    {[Req EXCEPT !.method = m] : m \in {"GET", "CONNECT"}}
    \cup {[Req EXCEPT !.scheme = "https"], [Req EXCEPT !.ip_host = TRUE], [Req EXCEPT !.self_loop = TRUE],
          [Req EXCEPT !.method = "POST", !.body = TRUE]}
RouteObjs == {[Obj EXCEPT !.present = p] : p \in BOOLEAN}
RouteResponses == {Resp(200), Resp(304)}
----------------------------------------------------------------------------
(* Requests that are refused, redirected or answered by the proxy itself,  *)
(* PUSH, ICP and plugins that give up.                                     *)
FrontConfs ==
    {[Conf EXCEPT !.allowed = a, !.reverse_proxy = r, !.remap_required = m, !.no_host_redirect = h] :
        a \in BOOLEAN, r \in BOOLEAN, m \in BOOLEAN, h \in BOOLEAN}
    \cup {[Conf EXCEPT !.plugin_error = TRUE]}
    \cup {[Conf EXCEPT !.no_dns_forward = TRUE, !.no_origin_server_dns = n, !.cache_http = c, !.icp = ~n,
                       !.parents = IF n THEN 0 ELSE 1] : n \in BOOLEAN, c \in BOOLEAN}
    \cup {[Conf EXCEPT !.icp = TRUE, !.stale_icp = s_, !.force_dns = f, !.connect_port_ok = FALSE] :
            s_ \in BOOLEAN, f \in BOOLEAN}
FrontReqs ==
    {[Req EXCEPT !.remap = m, !.target_in_url = u, !.version = v, !.host = h] :
        m \in {"ok", "redirect", "none", "permanent_rule", "temporary_rule"}, u \in BOOLEAN,
        v \in {9, 11}, h \in {"", "h"}}
    \cup {[Req EXCEPT !.method = m, !.max_forwards = k] :
            m \in {"TRACE", "OPTIONS", "DELETE", "PURGE", "EXTENSION", "CONNECT"}, k \in {-1, 0, 1}}
    \cup {[Req EXCEPT !.method = "PUSH", !.length_known = k, !.length_ok = o] : k \in BOOLEAN, o \in BOOLEAN}
    \cup {[Req EXCEPT !.parsed = FALSE], [Req EXCEPT !.proxy_authorized = FALSE],
          [Req EXCEPT !.scheme = "other"], [Req EXCEPT !.te_identity_refused = TRUE],
          [Req EXCEPT !.stat_page = TRUE], [Req EXCEPT !.only_if_cached = TRUE],
          [Req EXCEPT !.dynamic = TRUE], [Req EXCEPT !.no_store = TRUE], [Req EXCEPT !.cookie = TRUE]}
FrontResponses == {[Resp(200) EXCEPT !.expires = TRUE, !.set_cookie = k] : k \in BOOLEAN} \cup {Resp(206)}

----------------------------------------------------------------------------
(* All of them. *)
In(w, confs) == {[c EXCEPT !.world = w] : c \in confs}
Few == {"CONNECTION_ERROR", "ACTIVE_TIMEOUT"}
MCWorlds ==
    [cache |-> [confs |-> CacheConfs, reqs |-> CacheReqs, objs |-> CacheObjs,
                responses |-> CacheResponses, failures |-> Few],
     body  |-> [confs |-> In("body", BodyConfs), reqs |-> BodyReqs, objs |-> BodyObjs,
                responses |-> BodyResponses, failures |-> Few],
     route |-> [confs |-> In("route", RouteConfs), reqs |-> RouteReqs, objs |-> RouteObjs,
                responses |-> RouteResponses, failures |-> Few \cup {"CONNECTION_CLOSED"}],
     front |-> [confs |-> In("front", FrontConfs), reqs |-> FrontReqs, objs |-> RouteObjs,
                responses |-> FrontResponses, failures |-> Few]]

MCSpec == Spec /\ Fair("route")

----------------------------------------------------------------------------
(* What is written to the cache is written under the lock and was filled,   *)
(* and what a client is given from the cache it may be given: a stale       *)
(* object with a reason, a 304 that is true of the client's copy, and       *)
(* nothing that the server had to be asked about first.                     *)
CacheSafe == WriteUnderLock /\ StoreIsFilled /\ StaleNeedsReason /\ NotModifiedIsTrue /\ NoCacheAsksServer

(* Connections are opened to known addresses, the parent's own among them,  *)
(* and no more often than the configured attempts allow; what is refused,   *)
(* or has used up its Max-Forwards, reaches no server.                      *)
OpensSafe ==
    /\ OpensHaveAddress /\ ParentAddressIsTried /\ OpensBounded
    /\ RefusedIsNotForwarded /\ MaxForwardsHonoured

(* Every transaction on its way to a next hop ends with an answer, however  *)
(* parents, names and servers fail.                                         *)
RoutesEnd == Terminates("route")
===========================================================================
