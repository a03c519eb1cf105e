---------------------------- MODULE HttpTransact ----------------------------
(***************************************************************************)
(* One transaction of the ATS part: HttpTransact.cpp, driven by            *)
(* HttpStateMachine::set_next_state.                                       *)
(*                                                                         *)
(* HttpTransact is a set of handlers over one State. A handler leaves      *)
(* next_action (what the state machine does next) and                      *)
(* transact_return_point (the handler to call when that is done). A handler*)
(* is an operator here, of the same name, from the State to the State it   *)
(* leaves; handlers call one another as they do in the code. An action of  *)
(* this module is one thing the state machine does: it performs            *)
(* next_action, records the outcome, which the environment chooses, in the *)
(* State, and calls the handler.                                           *)
(*                                                                         *)
(* The configuration, the request and the object the cache holds for it    *)
(* are chosen once and kept. Plugins (other than the hooks' error exit and *)
(* a response transform), server redirects followed by the proxy and the   *)
(* congestion table are not modelled.                                      *)
(***************************************************************************)
EXTENDS Integers, FiniteSets

CONSTANTS
    Worlds,       \* per name of a world a transaction may live in: the configurations, requests and
                  \* cached objects it may start with (confs, reqs, objs), the responses an origin
                  \* server or a parent may give (responses) and the values of current.state other
                  \* than CONNECTION_ALIVE (failures)
    MaxContinue   \* bound on the 100 responses a server sends

VARIABLES
    conf,         \* txn_conf and http_config_param
    req,          \* hdr_info.client_request
    obj,          \* the cached object: present, fresh (what_is_document_freshness), a response
    s             \* HttpTransact::State

vars == <<conf, req, obj, s>>

----------------------------------------------------------------------------
(***************************************************************************)
(* The predicates HttpTransact decides with (http/HttpTransact.cpp,        *)
(* HttpTransactHeaders.cpp and HttpTransactCache.cpp), as operators on the  *)
(* parts of a message they look at:                                        *)
(*                                                                         *)
(*  - a request q: method, ims and ius (the dates of If-Modified-Since and *)
(*    If-Unmodified-Since, 0 when absent), inm and im (the entity tags of  *)
(*    If-None-Match and If-Match), if_range, range, no_cache, no_store,    *)
(*    only_if_cached, auth (Authorization), cookie, dynamic (what          *)
(*    url_looks_dynamic answers), max_forwards (-1 when absent);           *)
(*  - a response p: status, lm (Last-Modified, 0 when absent), etag, cc    *)
(*    (the cooked Cache-Control directives), expires, set_cookie, type,    *)
(*    www_auth;                                                            *)
(*  - the configuration c of the transaction.                              *)
(***************************************************************************)
NoTag == "no tag"

(* HttpTransactHeaders: is_method_cacheable, is_method_cache_lookupable.   *)
is_method_cacheable(m) == m \in {"GET", "HEAD"}

is_method_cache_lookupable(m) ==
    m \in {"GET", "HEAD", "POST", "DELETE", "PUT", "PURGE", "PUSH"}

does_method_require_cache_copy_deletion(m) ==
    m \in {"DELETE", "PURGE", "PUT", "POST"}

is_request_conditional(q) ==
    /\ q.method = "GET"
    /\ q.ims # 0 \/ q.ius # 0 \/ q.inm # NoTag \/ q.im # NoTag \/ q.if_range # NoTag

(* is_request_likely_cacheable *)
is_request_likely_cacheable(q) == q.method = "GET" /\ ~q.auth

(***************************************************************************)
(* match_response_to_request_conditionals: the status a stored response    *)
(* answers a conditional request with.                                     *)
(***************************************************************************)
match_conditionals(q, p) ==
    LET unmodified == q.ims # 0 /\ p.lm # 0 /\ p.lm =< q.ims
        tags_known == q.inm # NoTag /\ p.etag # NoTag
    IN  CASE q.ims # 0 /\ ~unmodified -> p.status
          [] tags_known -> IF q.inm = p.etag THEN 304 ELSE p.status
          [] unmodified -> 304
          [] q.ius # 0 /\ (p.lm = 0 \/ q.ius < p.lm) -> 412
          [] q.im # NoTag /\ q.im # p.etag -> 412
          [] q.ius # 0 \/ q.im # NoTag -> p.status
          [] q.range /\ q.if_range # NoTag /\ q.if_range # p.etag -> 416
          [] OTHER -> p.status

(***************************************************************************)
(* AuthenticationNeeded: whether a request may be answered with an object  *)
(* without asking the origin server for its opinion of the credentials.    *)
(***************************************************************************)
AuthenticationNeeded(c, q, p) ==
    LET cached_auth == p.www_auth /\ q.method = "GET"
    IN  CASE c.ignore_auth \/ ~q.auth ->
                IF cached_auth THEN "CACHE_AUTH" ELSE "SUCCESS"
          [] p.cc \cap {"must-revalidate", "proxy-revalidate"} # {} -> "MUST_REVALIDATE"
          [] "public" \in p.cc -> "SUCCESS"
          [] OTHER -> IF cached_auth THEN "CACHE_AUTH" ELSE "MUST_PROXY"

(* handle_msie_reload_badness: whether the request asks not to be answered *)
(* from the cache once no-cache was added for a browser that leaves it out *)
(* (mode 1: of conditional requests, mode 2: of all).                      *)
handle_msie_reload_badness(c, q) ==
    q.no_cache \/ (q.msie /\ (c.msie = 2 \/ (c.msie = 1 /\ q.ims # 0)))

does_client_request_permit_cached_response(c, q) ==
    c.ignore_client_no_cache \/ ~handle_msie_reload_badness(c, q)

does_client_request_permit_storing(c, q) == c.ignore_client_no_cache \/ ~q.no_store

(* update_cache_control_information_from_config: what the client permits,  *)
(* an HTTP/0.9 client nothing.                                             *)
does_client_permit_lookup(c, q) == q.version # 9 /\ does_client_request_permit_cached_response(c, q)
does_client_permit_storing(c, q) == q.version # 9 /\ does_client_request_permit_storing(c, q)

(* HttpTransactHeaders::does_server_allow_response_to_be_stored            *)
does_server_permit_storing(p) == p.cc \cap {"no-cache", "no-store", "private"} = {}

(***************************************************************************)
(* do_cookies_prevent_caching: cookies is cache_responses_to_cookies, 0 to *)
(* 4; cached_cookie says whether the stored request had a Cookie field.    *)
(***************************************************************************)
do_cookies_prevent_caching(cookies, q, p, cached_cookie) ==
    CASE cookies = 1 -> FALSE
      [] cookies = 0 -> TRUE
      [] ~p.set_cookie /\ ~q.cookie /\ ~cached_cookie -> FALSE
      [] cookies = 2 -> p.type # "image"
      [] p.type = "text" -> ~(cookies = 4 /\ (~p.set_cookie \/ "public" \in p.cc))
      [] OTHER -> FALSE

(* is_negative_caching_appropriate                                         *)
is_negative_caching_appropriate(c, p) ==
    /\ c.negative_caching
    /\ p.status \in {204, 305, 400, 403, 404, 405, 414, 500, 501, 502, 503, 504}

(* response_cacheable_indicated_by_cc: -1, 0 or 1                          *)
response_cacheable_indicated_by_cc(p) ==
    CASE p.cc \cap {"no-store", "private"} # {} -> -1
      [] p.cc \cap {"public", "max-age", "s-maxage", "must-revalidate", "proxy-revalidate"} # {} -> 1
      [] OTHER -> 0

(***************************************************************************)
(* is_request_cache_lookupable: tunnelling is current.mode =               *)
(* TUNNELLING_PROXY, looked says that the cache was looked up before       *)
(* (cache_info.lookup_count > 0).                                          *)
(***************************************************************************)
is_request_cache_lookupable(c, q, tunnelling, looked) ==
    /\ ~tunnelling
    /\ \/ looked
       \/ /\ c.cache_http
          /\ is_method_cache_lookupable(q.method)
          /\ ~c.cache_dynamic /\ q.dynamic => q.max_forwards = 0 \/ c.ttl_in_cache
          /\ q.range => c.cache_range_lookup

(***************************************************************************)
(* is_response_cacheable: whether the response p to q may be stored.       *)
(* lookupable is is_request_cache_lookupable, unhandled_range says         *)
(* range_setup = RANGE_NOT_HANDLED.                                        *)
(***************************************************************************)
is_response_cacheable(c, q, p, lookupable, unhandled_range) ==
    LET has_lifetime == p.expires \/ p.cc \cap {"max-age", "s-maxage"} # {}
        required == CASE c.required_headers = 0 -> TRUE
                      [] c.required_headers = 1 -> has_lifetime \/ p.lm # 0
                      [] OTHER -> has_lifetime
        indicator == response_cacheable_indicated_by_cc(p)
        status_ok == IF c.negative_caching
                     THEN p.status \notin {303, 401, 407}
                     ELSE p.status \in {200, 203, 300, 301, 304, 410}
    IN  /\ is_method_cacheable(q.method)
        /\ lookupable
        /\ ~unhandled_range
        /\ c.ttl_in_cache \/ ~do_cookies_prevent_caching(c.cookies, q, p, FALSE)
        /\ c.ignore_auth \/ ~p.www_auth
        /\ does_server_permit_storing(p) \/ c.ignore_server_no_cache \/ c.ttl_in_cache
        /\ ~c.never_cache
        /\ does_client_permit_storing(c, q)
        /\ p.status = 200 /\ ~c.ttl_in_cache => required
        /\ p.status \notin {206, 416}
        /\ \/ indicator = 1
           \/ /\ indicator = 0 \/ c.ttl_in_cache \/ c.ignore_server_no_cache
              /\ \/ p.expires
                 \/ p.status \notin {302, 307} /\ status_ok

(* check_request_validity: the first thing that is wrong with a request.   *)
check_request_validity(c, q) ==
    CASE ~q.proxy_authorized -> "FAILED_PROXY_AUTHORIZATION"
      [] q.host = "" -> "MISSING_HOST_FIELD"
      [] q.scheme = "other" /\ q.method # "CONNECT" -> "SCHEME_NOT_SUPPORTED"
      [] q.method = "EXTENSION" -> "METHOD_NOT_SUPPORTED"
      [] q.method = "CONNECT" /\ ~c.connect_port_ok -> "BAD_CONNECT_PORT"
      [] q.method \in {"POST", "PUSH", "PUT"} /\ ~q.length_known -> "NO_POST_CONTENT_LENGTH"
      [] q.te_identity_refused -> "UNACCEPTABLE_TE_REQUIRED"
      [] OTHER -> "NO_REQUEST_HEADER_ERROR"

(* is_request_valid: the status of the error response, 0 when the request  *)
(* goes on. An unsupported method goes on as a tunnel (the caller sets the *)
(* mode).                                                                  *)
request_error(c, q) ==
    LET incoming_error == check_request_validity(c, q)
    IN  CASE incoming_error = "FAILED_PROXY_AUTHORIZATION" -> 407
          [] incoming_error = "BAD_CONNECT_PORT" -> 403
          [] incoming_error = "UNACCEPTABLE_TE_REQUIRED" -> 406
          [] incoming_error \in {"METHOD_NOT_SUPPORTED", "NO_REQUEST_HEADER_ERROR"} -> 0
          [] OTHER -> 400

(* handle_internal_request                                                 *)
handle_internal_request(q) == q.stat_page /\ q.method = "GET"

----------------------------------------------------------------------------
(* The State and its updates.                                              *)

PrepareActions == {"PREPARE_TO_DELETE", "PREPARE_TO_UPDATE", "PREPARE_TO_WRITE"}
WriteActions == {"DO_WRITE", "DO_UPDATE", "DO_DELETE", "DO_REPLACE",
                 "DO_SERVE_AND_UPDATE", "DO_SERVE_AND_DELETE"}

(* What set_next_state sends to the client and is done with.               *)
FinalActions == {"PROXY_SEND_ERROR_CACHE_NOOP", "PROXY_INTERNAL_CACHE_NOOP",
                 "PROXY_INTERNAL_CACHE_WRITE", "PROXY_INTERNAL_CACHE_DELETE",
                 "PROXY_INTERNAL_CACHE_UPDATE_HEADERS", "PROXY_INTERNAL_REQUEST",
                 "SERVE_FROM_CACHE", "SERVER_READ", "SSL_TUNNEL", "TRANSFORM_READ"}

NoRequest == [valid |-> FALSE, method |-> "none", ims |-> 0, inm |-> NoTag, version |-> 11]
NoResponse == [status |-> 0]

(* The constructors HttpTransactState() and DNSLookupInfo().               *)
NewState(c) ==
    [next |-> "START", ret |-> "NULL",
     action |-> "UNDEFINED", transform_action |-> "UNDEFINED",
     write_lock |-> "INIT", lookup |-> "NONE", looked |-> FALSE, read |-> FALSE,
     store |-> "none", mode |-> "UNDEFINED", timed |-> FALSE,
     request_to |-> "UNDEFINED_LOOKUP", server |-> "NULL", attempts |-> 0, state |-> "UNDEFINED",
     parent |-> "UNDEFINED", tried |-> 0, parent_addr |-> 0, os_addr |-> c.cta,
     looking_up |-> "UNDEFINED_LOOKUP", dns_attempts |-> 0, lookup_success |-> FALSE,
     force_dns |-> c.force_dns, style |-> IF c.cta THEN "TRY_CLIENT" ELSE "TRY_DEFAULT",
     www_name |-> FALSE, pending |-> FALSE, selfloop_ok |-> FALSE,
     www_auth |-> "NONE", stale_icp |-> FALSE,
     request |-> NoRequest, downgraded |-> FALSE, resp |-> NoResponse,
     cdn_complete |-> FALSE, cdn_saved |-> "NULL", range_setup |-> "NONE",
     ignore |-> FALSE, negative |-> FALSE, connect_fail |-> FALSE, response_error |-> "NO_RESPONSE_HEADER_ERROR",
     max_forwards |-> 0, body_start |-> FALSE,
     client |-> 0, from |-> "none", xform |-> FALSE, warn |-> "none",
     opens |-> 0, continues |-> 0, abort |-> "none"]

Ret(t, n, r) == [t EXCEPT !.next = n, !.ret = r]          \* TRANSACT_RETURN
Next_(t, n) == [t EXCEPT !.next = n]                      \* s->next_action = n

(* ink_release_assert: the process aborts; the rest of the handler is not run. *)
Abort(t, where) == [t EXCEPT !.abort = where, !.next = "ABORTED"]

(* build_error_response                                                    *)
Error(t, code) == [t EXCEPT !.client = code, !.from = "error", !.warn = "none"]

(* build_response: from names the base the response is made from.          *)
Respond(t, base, code) == [t EXCEPT !.client = code, !.from = base, !.xform = FALSE]

tunnelling(t) == t.mode = "TUNNELLING_PROXY"
lookupable(t) == is_request_cache_lookupable(conf, [req EXCEPT !.max_forwards = t.max_forwards],
                                             tunnelling(t), t.looked)
cacheable(t) == is_response_cacheable(conf, req, t.resp, lookupable(t), t.range_setup = "NOT_HANDLED")

(* object_read->response_get(), as far as conditionals and directives go.  *)
is_cache_response_returnable(t) ==
    /\ ~conf.never_cache
    /\ does_client_permit_lookup(conf, req)
    /\ is_method_cacheable(req.method)
    /\ conf.ttl_in_cache \/ ~do_cookies_prevent_caching(conf.cookies, req, obj, obj.cookie)

is_stale_cache_response_returnable(t) ==
    /\ does_client_permit_lookup(conf, req)
    /\ obj.cc \cap {"must-revalidate", "proxy-revalidate", "need-revalidate-once",
                    "no-cache", "no-store", "s-maxage"} = {}
    /\ ~obj.too_old
    /\ AuthenticationNeeded(conf, req, obj) = "SUCCESS"

----------------------------------------------------------------------------
(* Choosing the next hop.                                                  *)

(* ParentConfig: the parents of the request are 1 .. conf.parents, tried   *)
(* in order; when none is left the request goes direct if the rule has     *)
(* bypass_ok and fails otherwise. (External: ParentConfigParams.)          *)
NextParent(t) ==
    IF t.tried < conf.parents THEN "SPECIFIED"
    ELSE IF conf.parents = 0 \/ conf.bypass_ok THEN "DIRECT" ELSE "FAIL"

find_server_and_update_current_info(t) ==
    LET direct == \/ req.scheme = "https"
                  \/ req.method = "CONNECT" /\ conf.disable_ssl_parenting
                  \/ conf.uncacheable_bypass /\ ~conf.no_dns_forward /\ ~lookupable(t)
        asked == ~direct /\ t.parent \in {"UNDEFINED", "SPECIFIED"}
        r == CASE direct -> "DIRECT"
               [] t.parent = "UNDEFINED" -> NextParent(t)
               [] t.parent = "SPECIFIED" ->
                    IF NextParent(t) = "DIRECT" /\ conf.no_dns_forward THEN "FAIL" ELSE NextParent(t)
               [] t.parent = "FAIL" ->
                    IF conf.bypass_ok /\ ~conf.no_dns_forward THEN "DIRECT" ELSE "FAIL"
               [] OTHER -> "DIRECT"
        u == [t EXCEPT !.parent = r, !.tried = IF asked /\ r = "SPECIFIED" THEN t.tried + 1 ELSE t.tried]
    IN  CASE r = "SPECIFIED" ->
               [u EXCEPT !.request_to = "PARENT_PROXY", !.server = "parent_info",
                         !.looking_up = "PARENT_PROXY", !.dns_attempts = 0]
          [] r = "FAIL" -> [u EXCEPT !.request_to = "HOST_NONE"]
          [] OTHER ->
               [u EXCEPT !.request_to = "ORIGIN_SERVER", !.server = "server_info",
                         !.looking_up = "ORIGIN_SERVER", !.dns_attempts = 0]

(* ats_is_ip(&s->current.server->addr)                                     *)
has_addr(t) == \/ t.server = "server_info" /\ t.os_addr
               \/ t.server = "parent_info" /\ t.parent_addr # 0
               \/ t.server = "icp_info"

handle_parent_died(t) == Ret(Error(t, 502), "PROXY_SEND_ERROR_CACHE_NOOP", "NULL")

(* build_request; HttpTransactHeaders::handle_conditional_headers asserts  *)
(* inside it that the cache action is not yet CACHE_DO_UPDATE.             *)
build_request(t) ==
    LET stripped == t.mode = "GENERIC_PROXY" /\ is_request_likely_cacheable(req)
                    /\ ~conf.revalidate_always_ims
    IN  IF t.action = "DO_UPDATE" THEN Abort(t, "handle_conditional_headers")
        ELSE [t EXCEPT !.timed = TRUE,
                       !.request = [valid |-> TRUE, method |-> req.method, version |-> 11,
                                    ims |-> IF stripped THEN 0 ELSE req.ims,
                                    inm |-> IF stripped THEN NoTag ELSE req.inm]]

(* how_to_open_connection, with the assignment of what it returns to       *)
(* next_action by its callers.                                             *)
how_to_open_connection(t) ==
    LET saved == IF req.method = "CONNECT" /\ t.parent # "SPECIFIED"
                 THEN "ORIGIN_SERVER_RAW_OPEN" ELSE "ORIGIN_SERVER_OPEN"
        remap == conf.remap_for_os /\ t.request_to = "ORIGIN_SERVER" /\ ~t.cdn_complete
    IN  CASE t.abort # "none" -> t
          [] t.action \in PrepareActions -> Ret(t, "CACHE_ISSUE_WRITE", "handle_cache_write_lock")
          [] remap ->
               [Ret(t, "DNS_LOOKUP", "OSDNSLookup")
                  EXCEPT !.cdn_saved = saved, !.cdn_complete = TRUE, !.dns_attempts = 0]
          [] OTHER ->
               [Next_(t, saved)
                  EXCEPT !.cdn_saved = saved,
                         !.request.version = IF t.downgraded THEN t.request.version ELSE 11]

----------------------------------------------------------------------------
(* Reading the request.                                                    *)

BadRequest(t) == Ret(Error(t, 400), "PROXY_SEND_ERROR_CACHE_NOOP", "NULL")

ModifyRequest(t) ==
    Ret([t EXCEPT !.max_forwards = req.max_forwards], "HTTP_API_READ_REQUEST_HDR", "StartRemapRequest")

StartRemapRequest(t) == Ret(t, "HTTP_API_PRE_REMAP", "PerformRemap")

PerformRemap(t) == Ret(t, "HTTP_REMAP_REQUEST", "EndRemapRequest")

(* process_quick_http_filter and the checks of url_remap_success: the      *)
(* status the request is refused with, or 0.                               *)
remap_refusal(t) ==
    CASE req.remap = "redirect" -> 301
      [] ~conf.allowed -> 403
      [] req.remap = "none" /\ conf.reverse_proxy /\ ~req.target_in_url ->
            IF conf.no_host_redirect THEN 302 ELSE IF req.host = "" THEN 400 ELSE 404
      [] req.remap = "none" /\ conf.remap_required -> 404
      [] OTHER -> 0

(* handleIfRedirect: the status of a redirect rule, or 0.                  *)
handleIfRedirect(q) ==
    CASE q.remap = "permanent_rule" -> 301
      [] q.remap = "temporary_rule" -> IF q.version = 11 THEN 307 ELSE 302
      [] OTHER -> 0

EndRemapRequest(t) ==
    LET moved == handleIfRedirect(req)
        code == remap_refusal(t)
    IN  CASE moved # 0 -> Ret(Error(t, moved), "PROXY_INTERNAL_CACHE_NOOP", "NULL")
          [] code # 0 -> Ret(Error(t, code), "PROXY_SEND_ERROR_CACHE_NOOP", "NULL")
          [] OTHER -> Ret(t, "HTTP_API_POST_REMAP", "HandleRequest")

(* HandlePushError builds the error and leaves next_action alone.          *)
HandlePushError(t) == Error(t, 400)

LookupSkipOpenServer(t) ==
    LET u == find_server_and_update_current_info(t)
        v == how_to_open_connection(build_request(u))
    IN  IF u.request_to = "PARENT_PROXY" THEN Ret(u, "DNS_LOOKUP", "PPDNSLookup")
        ELSE IF v.next \in {"ORIGIN_SERVER_OPEN", "ORIGIN_SERVER_RAW_OPEN"}
             THEN Ret(v, v.next, "HandleResponse") ELSE v

DecideCacheLookup(t) ==
    LET look == lookupable(t)
        u == [t EXCEPT !.action = IF look THEN "DO_LOOKUP" ELSE "DO_NO_ACTION",
                       !.mode = IF look THEN "GENERIC_PROXY" ELSE "TUNNELLING_PROXY"]
    IN  CASE look -> Ret(u, "CACHE_LOOKUP", "NULL")
          [] req.method = "PUSH" -> HandlePushError(u)
          [] OTHER ->
               Ret([u EXCEPT !.lookup = "SKIPPED"], "HTTP_API_CACHE_LOOKUP_COMPLETE",
                   IF t.force_dns THEN "LookupSkipOpenServer" ELSE "CallOSDNSLookup")

(* StartAccessControl and HandleRequestAuthorized                          *)
StartAccessControl(t) ==
    IF t.force_dns THEN Ret(t, "HTTP_API_OS_DNS", "DecideCacheLookup") ELSE DecideCacheLookup(t)

(* handle_trace_and_options_requests: the answer, or the request with      *)
(* Max-Forwards one less.                                                  *)
is_trace(t) == req.method \in {"TRACE", "OPTIONS"}
answered_here(t) == is_trace(t) /\ req.max_forwards = 0

handle_trace_and_options_requests(t) ==
    CASE ~is_trace(t) -> t
      [] answered_here(t) -> Respond(t, "internal", 200)
      [] OTHER -> [t EXCEPT !.mode = "TUNNELLING_PROXY",
                            !.max_forwards = IF @ = -1 THEN -1 ELSE @ - 1]

HandleRequest(t) ==
    LET code == request_error(conf, req)
        u == [t EXCEPT !.looking_up = "ORIGIN_SERVER", !.dns_attempts = 0, !.mode = "GENERIC_PROXY"]
        v == [u EXCEPT !.action = IF lookupable(u) THEN "DO_LOOKUP" ELSE "DO_NO_ACTION"]
        w == handle_trace_and_options_requests(v)
        x == [w EXCEPT !.force_dns = @ \/ (req.ip_host /\ conf.ip_rules)]
        to_parent == conf.no_dns_forward /\ req.scheme # "https"
    IN  CASE code # 0 -> Next_(Error(t, code), "PROXY_SEND_ERROR_CACHE_NOOP")
          [] handle_internal_request(req) -> Ret(v, "PROXY_INTERNAL_REQUEST", "NULL")
          [] answered_here(v) -> Ret(w, "PROXY_INTERNAL_CACHE_NOOP", "NULL")
          [] to_parent /\ conf.parents > 0 -> StartAccessControl([w EXCEPT !.os_addr = FALSE])
          [] to_parent /\ conf.no_origin_server_dns ->
               Ret(Error(w, 502), "PROXY_SEND_ERROR_CACHE_NOOP", "NULL")
          [] x.force_dns -> Ret(x, "DNS_LOOKUP", "OSDNSLookup")
          [] OTHER -> StartAccessControl(x)

HandleApiErrorJump(t) == Ret(Respond(t, "internal", 500), "PROXY_INTERNAL_CACHE_NOOP", "NULL")

----------------------------------------------------------------------------
(* The cache was looked up.                                                *)

(* delete_all_document_alternates_and_return: a PURGE, or a DELETE that    *)
(* may not be forwarded, is answered here; another DELETE goes on with     *)
(* Max-Forwards one less.                                                  *)
deletes_here(t) == req.method = "PURGE" \/ (req.method = "DELETE" /\ t.max_forwards = 0)
forwarded_delete(t) ==
    IF req.method = "DELETE" /\ t.max_forwards > 0
    THEN [t EXCEPT !.max_forwards = @ - 1] ELSE t

HandleCacheOpenReadMiss(t) ==
    LET act == IF \/ does_method_require_cache_copy_deletion(req.method)
                  \/ t.range_setup \in {"NOT_SATISFIABLE", "NOT_HANDLED"}
               THEN "DO_NO_ACTION" ELSE "PREPARE_TO_WRITE"
        u == [forwarded_delete(t) EXCEPT !.read = FALSE, !.timed = FALSE, !.action = act]
        v == find_server_and_update_current_info(u)
    IN  CASE deletes_here(t) ->
               Next_([Respond(t, "internal", 404) EXCEPT !.action = "DO_NO_ACTION"],
                     "PROXY_INTERNAL_CACHE_NOOP")
          [] conf.icp /\ ~handle_msie_reload_badness(conf, req) -> Next_(u, "ICP_QUERY")
          [] req.only_if_cached -> Next_(Error(u, 504), "PROXY_SEND_ERROR_CACHE_NOOP")
          [] has_addr(v) -> how_to_open_connection(build_request(v))
          [] v.request_to = "PARENT_PROXY" -> Ret(v, "DNS_LOOKUP", "PPDNSLookup")
          [] conf.no_dns_forward -> handle_parent_died(v)
          [] OTHER -> Abort(v, "HandleCacheOpenReadMiss")

(* set_header_for_transform or build_response                              *)
ServeBody(t, base, code, n) ==
    [Next_(Respond(t, base, code), n) EXCEPT !.xform = conf.transform]

build_response_from_cache(t, warning) ==
    LET code == match_conditionals(req, obj)
        noop(u) == Next_([u EXCEPT !.action = "DO_NO_ACTION"], "PROXY_INTERNAL_CACHE_NOOP")
        ranged == code = 200 /\ req.range
        u == IF ranged THEN [t EXCEPT !.range_setup = req.range_outcome] ELSE t
        unhandled == [u EXCEPT !.action = "DO_NO_ACTION"]
    IN  CASE code \in {304, 412} -> [noop(Respond(t, "cache", code)) EXCEPT !.warn = warning]
          [] req.method = "HEAD" -> [noop(Respond(t, "cache", obj.status)) EXCEPT !.warn = warning]
          [] req.method # "GET" -> noop(Error(t, 502))
          [] ranged /\ req.range_outcome = "NOT_SATISFIABLE" ->
               [noop(Error(u, 416)) EXCEPT !.warn = warning]
          [] ranged /\ req.range_outcome = "NOT_HANDLED" ->
               IF t.force_dns THEN HandleCacheOpenReadMiss(unhandled)
               ELSE Ret(unhandled, "DNS_LOOKUP", "OSDNSLookup")
          [] OTHER ->
               [ServeBody([u EXCEPT !.action = "DO_SERVE"], "cache", obj.status, "SERVE_FROM_CACHE")
                  EXCEPT !.warn = warning]

(* issue_revalidate: the cache action of a revalidation, and the validators*)
(* of the cached response put on the request to the server.                *)
issue_revalidate(t) ==
    LET unconditional == req.ims = 0 /\ req.inm = NoTag /\ handle_msie_reload_badness(conf, req)
                         /\ ~conf.ims_on_client_no_cache /\ t.www_auth = "NONE"
        act == IF ~unconditional /\ obj.status = 200
                  /\ does_method_require_cache_copy_deletion(req.method)
               THEN "PREPARE_TO_DELETE" ELSE "PREPARE_TO_UPDATE"
        validate == ~unconditional /\ obj.status = 200 /\ ~conf.revalidate_always_ims
                    /\ t.request.method = "GET"
    IN  CASE t.www_auth = "FRESH" -> [t EXCEPT !.request.method = "HEAD", !.action = "DO_UPDATE"]
          [] t.write_lock # "INIT" -> [t EXCEPT !.action = "DO_NO_ACTION"]
          [] OTHER ->
               [t EXCEPT !.action = act,
                  !.request.ims = IF validate /\ obj.lm > 0 /\ t.range_setup = "NONE" THEN obj.lm ELSE @,
                  !.request.inm = IF validate /\ obj.etag # NoTag THEN obj.etag ELSE @]

(* The part need_to_revalidate and HandleCacheOpenReadHit share.           *)
auth(t) == AuthenticationNeeded(conf, req, obj)
must_revalidate(t) == \/ auth(t) \in {"MUST_REVALIDATE", "MUST_PROXY"}
                      \/ t.lookup = "HIT_STALE"
                      \/ ~is_cache_response_returnable(t)
need_to_revalidate(t) == must_revalidate(t) \/ auth(t) = "CACHE_AUTH"
with_auth(t) ==
    IF auth(t) # "CACHE_AUTH" THEN t
    ELSE [t EXCEPT !.www_auth = IF must_revalidate(t) THEN "STALE" ELSE "FRESH"]

Revalidate(t) ==
    LET u == [with_auth(t) EXCEPT !.dns_attempts = 0]
        icp == conf.icp /\ conf.stale_icp /\ auth(t) = "SUCCESS"
                /\ ~handle_msie_reload_badness(conf, req)
        asked == IF icp THEN [u EXCEPT !.stale_icp = TRUE, !.request_to = "ICP_SUGGESTED_HOST",
                                       !.server = "icp_info", !.attempts = 1]
                 ELSE u
        v == IF asked.stale_icp THEN asked ELSE find_server_and_update_current_info(asked)
        opened == how_to_open_connection(issue_revalidate(build_request(v)))
    IN  IF v.stale_icp \/ has_addr(v)
        THEN CASE opened.next = "ORIGIN_SERVER_RAW_OPEN" -> Abort(opened, "HandleCacheOpenReadHit")
               [] opened.next = "ORIGIN_SERVER_OPEN" /\ v.stale_icp -> Next_(opened, "ICP_QUERY")
               [] OTHER -> opened
        ELSE LET w == [v EXCEPT !.pending = TRUE]
             IN  CASE v.request_to = "PARENT_PROXY" -> Ret(w, "DNS_LOOKUP", "PPDNSLookup")
                   [] v.request_to = "ORIGIN_SERVER" -> Ret(w, "DNS_LOOKUP", "OSDNSLookup")
                   [] OTHER -> handle_parent_died(w)

(* is_server_negative_cached: the host database says that the server       *)
(* failed less than down_server_timeout ago.                               *)
is_server_negative_cached == conf.server_down

(* The origin server is known to be down and the stale object may be given *)
(* out instead.                                                            *)
server_down_but_servable(t) ==
    /\ is_server_negative_cached
    /\ ~(conf.icp /\ conf.stale_icp /\ auth(t) = "SUCCESS" /\ ~handle_msie_reload_badness(conf, req))
    /\ find_server_and_update_current_info(t).request_to = "ORIGIN_SERVER"
    /\ is_cache_response_returnable(t) /\ is_stale_cache_response_returnable(t)

hit_warning(t) == CASE t.lookup = "HIT_WARNING" -> "HEURISTIC_EXPIRATION"
                    [] t.lookup = "HIT_STALE" -> "REVALIDATION_FAILED"
                    [] OTHER -> "none"

HandleCacheOpenReadHit(t) ==
    LET down == need_to_revalidate(t) /\ server_down_but_servable(t)
        u == IF down THEN [find_server_and_update_current_info(with_auth(t))
                             EXCEPT !.dns_attempts = 0, !.request_to = "UNDEFINED_LOOKUP",
                                    !.server = "NULL", !.attempts = 0]
             ELSE t
    IN  CASE auth(t) = "MUST_PROXY" -> HandleCacheOpenReadMiss(t)
          [] need_to_revalidate(t) /\ ~down -> Revalidate(t)
          [] OTHER -> build_response_from_cache(u, hit_warning(t))

HandleCacheOpenReadHitFreshness(t) ==
    LET found == CASE obj.fresh = "FRESH" -> "HIT_FRESH"
                   [] obj.fresh = "WARNING" -> "HIT_WARNING"
                   [] OTHER -> "HIT_STALE"
        u == [forwarded_delete(t) EXCEPT !.timed = TRUE,
                                         !.lookup = IF @ = "NONE" THEN found ELSE @]
    IN  CASE t.timed -> Abort(t, "HandleCacheOpenReadHitFreshness")
          [] deletes_here(t) ->
               Next_([Respond(t, "internal", 200) EXCEPT !.action = "DO_DELETE"],
                     "PROXY_INTERNAL_CACHE_DELETE")
          [] ~t.force_dns /\ need_to_revalidate(u) ->
               Ret(with_auth(u), "HTTP_API_CACHE_LOOKUP_COMPLETE", "CallOSDNSLookup")
          [] OTHER -> Ret(IF t.force_dns THEN u ELSE with_auth(u),
                          "HTTP_API_CACHE_LOOKUP_COMPLETE", "HandleCacheOpenReadHit")

HandleCacheOpenReadPush(t) ==
    Ret([t EXCEPT !.action = IF t.read THEN "PREPARE_TO_UPDATE" ELSE "PREPARE_TO_WRITE"],
        "READ_PUSH_HDR", "HandlePushResponseHdr")

HandleCacheOpenRead(t) ==
    LET busy == ~t.read /\ t.lookup = "DOC_BUSY"
        u == IF busy THEN [t EXCEPT !.lookup = "MISS", !.action = "DO_NO_ACTION"] ELSE t
    IN  CASE req.method = "PUSH" -> HandleCacheOpenReadPush(u)
          [] u.read -> Ret(u, "HTTP_API_READ_CACHE_HDR", "HandleCacheOpenReadHitFreshness")
          [] t.force_dns -> HandleCacheOpenReadMiss(u)
          [] OTHER -> Ret(u, "DNS_LOOKUP", "OSDNSLookup")

(* SET_UNPREPARE_CACHE_ACTION                                              *)
(* Mutant: the pending action is left as it is. *)
StillPrepared(a) == a

Unprepared(a) == CASE a = "PREPARE_TO_DELETE" -> "DO_DELETE"
                   [] a = "PREPARE_TO_UPDATE" -> "DO_UPDATE"
                   [] OTHER -> "DO_WRITE"

(* Mutant: a refused lock is taken for a granted one. *)
proxy_only_keeps_action(t) ==
    [t EXCEPT !.action = Unprepared(@), !.request.ims = req.ims, !.request.inm = req.inm]

(* The lock was refused: the response is only passed on, and the request   *)
(* to the server gets the client's own conditions back.                    *)
proxy_only(t) ==
    [t EXCEPT !.action = "DO_NO_ACTION", !.request.ims = req.ims, !.request.inm = req.inm]

(* Mutant: the times of the request are not reset. *)
read_again_timed(t) == [t EXCEPT !.action = "DO_LOOKUP", !.request = NoRequest]

(* Another transaction has written the object: begin again with it.        *)
read_again(t) == [t EXCEPT !.action = "DO_LOOKUP", !.timed = FALSE, !.request = NoRequest]

handle_cache_write_lock(t) ==
    LET u == CASE t.write_lock = "SUCCESS" -> [t EXCEPT !.action = Unprepared(@)]
               [] t.write_lock = "FAIL" -> proxy_only(t)
               [] OTHER -> read_again(t)
        v == how_to_open_connection(u)
    IN  CASE t.write_lock = "INIT" -> Abort(t, "handle_cache_write_lock")
          [] t.write_lock = "READ_RETRY" -> HandleCacheOpenReadHitFreshness(u)
          [] t.stale_icp -> Ret(u, "ICP_QUERY", "NULL")
          [] v.next = "DNS_LOOKUP" -> v
          [] OTHER -> Ret(v, v.next, "NULL")

HandlePushResponseHdr(t) ==
    LET u == [t EXCEPT !.request = [NoRequest EXCEPT !.valid = TRUE, !.method = "GET"], !.timed = TRUE]
        storable == is_response_cacheable(conf, [req EXCEPT !.method = "GET"], t.resp, lookupable(t),
                                          t.range_setup = "NOT_HANDLED")
    IN  CASE ~req.length_ok -> HandlePushError(t)
          [] storable -> Ret(u, "CACHE_ISSUE_WRITE", "HandlePushCacheWrite")
          [] OTHER -> HandlePushError(u)

HandlePushCacheWrite(t) ==
    CASE t.write_lock = "SUCCESS" ->
           IF t.action \in {"PREPARE_TO_WRITE", "PREPARE_TO_UPDATE"}
           THEN Ret([t EXCEPT !.action = IF @ = "PREPARE_TO_WRITE" THEN "DO_WRITE" ELSE "DO_REPLACE",
                              !.store = "server"], "STORE_PUSH_BODY", "NULL")
           ELSE Abort(t, "HandlePushCacheWrite")
      [] t.write_lock \in {"FAIL", "READ_RETRY"} -> HandlePushError(t)
      [] OTHER -> Abort(t, "HandlePushCacheWrite")

HandlePushTunnelSuccess(t) ==
    Ret(Respond(t, "internal", IF t.action = "DO_WRITE" THEN 201 ELSE 200),
        "PROXY_INTERNAL_CACHE_NOOP", "NULL")

HandleICPLookup(t, found) ==
    LET u == IF found THEN [t EXCEPT !.request_to = "ICP_SUGGESTED_HOST", !.server = "icp_info",
                                     !.attempts = 1]
             ELSE find_server_and_update_current_info([t EXCEPT !.parent_addr = 0])
    IN  CASE has_addr(u) ->
               how_to_open_connection(IF t.stale_icp THEN [u EXCEPT !.stale_icp = FALSE]
                                      ELSE build_request(u))
          [] u.request_to = "PARENT_PROXY" -> Ret(u, "DNS_LOOKUP", "PPDNSLookup")
          [] OTHER -> Abort(u, "HandleICPLookup")

----------------------------------------------------------------------------
(* Name lookups.                                                           *)

(* Mutant: the first parent's address, whichever parent was looked up. *)
first_address(t) == 1

(* parent_info.addr: the address of the parent that was looked up last.    *)
parent_address(t) == t.tried

PPDNSLookup(t) ==
    LET counted == [t EXCEPT !.dns_attempts = @ + 1]
        next_hop == find_server_and_update_current_info(counted)
        u == IF t.lookup_success THEN [counted EXCEPT !.parent_addr = parent_address(t)] ELSE next_hop
        built == build_request(u)
        v == CASE u.request.valid -> u
               [] u.pending -> [issue_revalidate(built) EXCEPT !.pending = FALSE]
               [] OTHER -> built
    IN  CASE has_addr(u) -> how_to_open_connection(v)
          [] u.request_to = "PARENT_PROXY" -> Ret(u, "DNS_LOOKUP", "PPDNSLookup")
          [] OTHER -> handle_parent_died(u)

ReDNSRoundRobin(t) ==
    IF t.lookup_success
    THEN how_to_open_connection([t EXCEPT !.connect_fail = FALSE, !.os_addr = TRUE])
    ELSE [Next_(Error(t, 502), "PROXY_SEND_ERROR_CACHE_NOOP") EXCEPT !.action = "DO_NO_ACTION"]

(* try_to_expand_host_name while the origin server is looked up: the       *)
(* configured domains one after the other, then www.<name>.com.            *)
try_to_expand_host_name(t) ==
    LET max_dns_lookups == 2 + conf.num_expansions
    IN  CASE ~conf.expand -> "EXPANSION_NOT_ALLOWED"
          [] t.dns_attempts >= max_dns_lookups -> "DNS_ATTEMPTS_EXHAUSTED"
          [] t.dns_attempts > conf.num_expansions /\ req.dotted -> "EXPANSION_FAILED"
          [] OTHER -> "RETRY_EXPANDED_NAME"

(* will_this_request_self_loop                                             *)
will_this_request_self_loop(t) == t.lookup_success /\ req.self_loop

(* The name did not resolve.                                               *)
OSDNSFailed(t, max_dns_lookups) ==
    LET outcome == try_to_expand_host_name(t)
        www == t.dns_attempts > conf.num_expansions
    IN  CASE outcome = "RETRY_EXPANDED_NAME" ->
               IF t.dns_attempts < max_dns_lookups
               THEN [Ret(t, "DNS_LOOKUP", "OSDNSLookup") EXCEPT !.www_name = www]
               ELSE Abort(t, "OSDNSLookup")
          [] t.style = "TRY_HOSTDB" -> [t EXCEPT !.lookup_success = TRUE, !.style = "USE_CLIENT"]
          [] outcome = "DNS_ATTEMPTS_EXHAUSTED" /\ t.dns_attempts < max_dns_lookups ->
               Abort(t, "OSDNSLookup")
          [] OTHER -> Ret(Error(t, 502), "PROXY_SEND_ERROR_CACHE_NOOP", "NULL")

(* server_info.addr is set from host_db_info.                              *)
server_address(t) == TRUE

(* The name resolved: the address is the origin server's from now on.      *)
OSDNSFound(t, max_dns_lookups) ==
    LET style == CASE t.style # "TRY_HOSTDB" -> t.style
                   [] conf.other_addr -> "USE_HOSTDB"
                   [] OTHER -> "USE_CLIENT"
        u == [t EXCEPT !.style = style, !.os_addr = server_address(t)]
        os_dns(r) == Ret(u, "HTTP_API_OS_DNS", r)
        opened == how_to_open_connection(u)
    IN  CASE t.dns_attempts = max_dns_lookups /\ style # "USE_CLIENT" ->
               Ret(Respond(u, "internal", 302), "PROXY_INTERNAL_CACHE_NOOP", "NULL")
          [] t.cdn_complete -> Ret([u EXCEPT !.request.version = 11], t.cdn_saved, "NULL")
          [] style \in {"USE_CLIENT", "USE_HOSTDB"} -> Ret(opened, opened.next, "HandleResponse")
          [] req.ip_host /\ conf.ip_rules /\ ~conf.no_dns_forward ->
               Ret(u, "REVERSE_DNS_LOOKUP", "StartAccessControl")
          [] t.force_dns -> StartAccessControl(u)
          [] t.action = "DO_NO_ACTION" /\ t.range_setup \in {"NOT_SATISFIABLE", "NOT_HANDLED"} ->
               os_dns("HandleCacheOpenReadMiss")
          [] t.lookup = "SKIPPED" -> os_dns("LookupSkipOpenServer")
          [] t.lookup \in {"HIT_FRESH", "HIT_WARNING", "HIT_STALE"} -> os_dns("HandleCacheOpenReadHit")
          [] t.lookup = "MISS" \/ t.action = "DO_NO_ACTION" -> os_dns("HandleCacheOpenReadMiss")
          [] OTHER -> Ret(Error(u, 500), "PROXY_SEND_ERROR_CACHE_NOOP", "NULL")

OSDNSLookup(t) ==
    LET max_dns_lookups == 3 + conf.num_expansions
        loops == ~t.selfloop_ok /\ will_this_request_self_loop(t)
        u == [t EXCEPT !.dns_attempts = @ + 1, !.selfloop_ok = ~loops]
    IN  CASE loops -> Ret(Error(u, 400), "PROXY_SEND_ERROR_CACHE_NOOP", "NULL")
          [] t.lookup_success -> OSDNSFound(u, max_dns_lookups)
          [] OTHER -> OSDNSFailed(u, max_dns_lookups)

CallOSDNSLookup(t) == Ret(t, "DNS_LOOKUP", "OSDNSLookup")

----------------------------------------------------------------------------
(* The next hop answered, or did not.                                      *)

(* handle_server_died: the status of the error response. response_error is *)
(* checked last and turns any of them into 502 when no response was ever   *)
(* examined (NO_RESPONSE_HEADER_ERROR is the initial value).               *)
handle_server_died(t) ==
    LET status == IF t.state \in {"ACTIVE_TIMEOUT", "INACTIVE_TIMEOUT"} THEN 504 ELSE 502
    IN  IF \/ t.state = "UNDEFINED"
           \/ t.state = "CONNECTION_ALIVE" /\ t.response_error = "NO_RESPONSE_HEADER_ERROR"
        THEN Abort(t, "handle_server_died")
        ELSE Error(t, IF t.response_error = "NO_RESPONSE_HEADER_ERROR" THEN 502 ELSE status)

OriginServerRawOpen(t) ==
    IF t.state = "CONNECTION_ALIVE"
    THEN Next_(Respond(t, "internal", 200), "SSL_TUNNEL")
    ELSE LET u == handle_server_died(t)
         IN  IF u.abort # "none" THEN u ELSE Next_(u, "PROXY_INTERNAL_CACHE_NOOP")

(* Mutant: the body that was sent is not considered. *)
always_retryable(t) == TRUE

(* is_request_retryable                                                    *)
is_request_retryable(t) == ~t.body_start

delete_server_rr_entry(t) ==
    Ret([t EXCEPT !.looking_up = t.request_to, !.dns_attempts = 0, !.attempts = @ + 1],
        "OS_RR_MARK_DOWN", "ReDNSRoundRobin")

(* retry_server_connection_not_open                                        *)
retry_server_connection_not_open(t) == [t EXCEPT !.attempts = @ + 1]

handle_server_connection_not_open(t) ==
    LET u == handle_server_died(t)
    IN  CASE t.action \in PrepareActions -> Abort(t, "handle_server_connection_not_open")
          [] t.action = "DO_UPDATE" /\ is_stale_cache_response_returnable(t) ->
               build_response_from_cache(t, "REVALIDATION_FAILED")
          [] u.abort # "none" -> u
          [] OTHER -> Next_(u, "PROXY_SEND_ERROR_CACHE_NOOP")

(* downgrade_request; keep-alive is turned off first in either outcome.    *)
can_downgrade(r) == r.version = 11 \/ (r.version = 10 /\ r.method = "GET")

(* The answer was 505: ask again with an older version, or give up.        *)
retry_downgraded(t) ==
    LET u == [how_to_open_connection(t) EXCEPT !.downgraded = TRUE]
    IN  IF can_downgrade(u.request)
        THEN how_to_open_connection([u EXCEPT !.request.version = IF @ = 11 THEN 10 ELSE 9])
        ELSE Next_(Error(u, 505), "PROXY_SEND_ERROR_CACHE_NOOP")

(* is_request_conditional of hdr_info.server_request                       *)
server_request_conditional(t) ==
    t.request.method = "GET" /\ (t.request.ims # 0 \/ t.request.inm # NoTag)

(* What a conditional client is answered from the cached response.         *)
answer_from_object(t) == IF is_request_conditional(req) THEN match_conditionals(req, obj) ELSE 200

(* A 304: the client is answered with the cached response, which is        *)
(* updated, or deleted when it may no longer be stored.                    *)
NotModified(t) ==
    LET code == IF conf.revalidate_always_ims /\ is_request_conditional(req)
                THEN 304 ELSE answer_from_object(t)
        head == req.method = "HEAD"
        ranged == [t EXCEPT !.range_setup = IF req.range /\ ~head THEN req.range_outcome ELSE @]
    IN  CASE t.ignore /\ t.action = "DO_UPDATE" ->
               [st |-> Next_([t EXCEPT !.ignore = FALSE, !.action = "DO_SERVE"], "SERVE_FROM_CACHE"),
                base |-> "cache", code |-> obj.status]
          [] t.action = "DO_DELETE" \/ (t.action = "DO_UPDATE" /\ ~cacheable(t)) ->
               IF answer_from_object(t) # 200
               THEN [st |-> Next_([t EXCEPT !.action = "DO_DELETE"], "PROXY_INTERNAL_CACHE_DELETE"),
                     base |-> "server", code |-> 304]
               ELSE [st |-> IF head THEN Next_([t EXCEPT !.action = "DO_DELETE"], "SERVER_READ")
                            ELSE Next_([t EXCEPT !.action = "DO_SERVE_AND_DELETE"], "SERVE_FROM_CACHE"),
                     base |-> "cache", code |-> obj.status]
          [] t.action = "DO_UPDATE" /\ server_request_conditional(t) ->
               IF code # 200
               THEN IF conf.revalidate_always_ims
                    THEN [st |-> Next_([t EXCEPT !.action = "DO_NO_ACTION"], "PROXY_INTERNAL_CACHE_NOOP"),
                          base |-> "server", code |-> code]
                    ELSE [st |-> Next_(t, "PROXY_INTERNAL_CACHE_UPDATE_HEADERS"),
                          base |-> "cache", code |-> code]
               ELSE [st |-> IF head THEN Next_(t, "SERVER_READ")
                            ELSE Next_([ranged EXCEPT !.action = "DO_SERVE_AND_UPDATE"], "SERVE_FROM_CACHE"),
                     base |-> "cache", code |-> 200]
          [] OTHER ->
               [st |-> Next_([t EXCEPT !.action = "DO_NO_ACTION",
                                       !.warn = IF is_request_likely_cacheable(req) THEN "MISC" ELSE @],
                             "PROXY_INTERNAL_CACHE_NOOP"),
                base |-> "server", code |-> 304]

(* Any other answer: whether it replaces the object or is stored, and what *)
(* a conditional client gets of it.                                        *)
FullResponse(t) ==
    LET code == t.resp.status
        negative == is_negative_caching_appropriate(conf, t.resp)
        act == CASE t.action = "DO_UPDATE" ->
                      CASE t.www_auth = "FRESH" -> "DO_NO_ACTION"
                        [] t.www_auth = "STALE" /\ code = 401 -> "DO_NO_ACTION"
                        [] ~cacheable(t) \/ req.method = "HEAD" -> "DO_DELETE"
                        [] OTHER -> "DO_REPLACE"
                 [] t.action = "DO_WRITE" /\ (req.method = "HEAD" \/ ~(cacheable(t) \/ negative)) ->
                      "DO_NO_ACTION"
                 [] OTHER -> t.action
        keeps == act \in {"DO_WRITE", "DO_NO_ACTION", "DO_REPLACE"}
        answer == IF keeps /\ ~negative /\ is_request_conditional(req) /\ code = 200
                  THEN match_conditionals(req, t.resp) ELSE code
        u == [t EXCEPT !.action = act, !.negative = negative /\ keeps]
        internal == IF act = "DO_NO_ACTION" THEN "PROXY_INTERNAL_CACHE_NOOP" ELSE "PROXY_INTERNAL_CACHE_WRITE"
    IN  IF t.ignore /\ code = 200 /\ t.request.method = "HEAD"
        THEN [st |-> Next_([t EXCEPT !.ignore = FALSE, !.action = "DO_SERVE", !.negative = FALSE],
                           "SERVE_FROM_CACHE"),
              base |-> "cache", code |-> obj.status]
        ELSE [st |-> Next_(u, IF keeps /\ ~negative /\ code = 200 /\ answer \in {304, 412}
                              THEN internal ELSE "SERVER_READ"),
              base |-> "server", code |-> answer]

(* The origin server fails while the object is revalidated: the stale      *)
(* object is given a new lifetime and served.                              *)
negative_revalidates(t) ==
    /\ t.resp.status \in {500, 502, 503, 504}
    /\ t.action = "DO_UPDATE" /\ conf.negative_revalidating
    /\ is_stale_cache_response_returnable(t)

NegativeRevalidated(t) ==
    LET u == [t EXCEPT !.store = "renewed"]
    IN  CASE is_request_conditional(req) /\ match_conditionals(req, obj) = 304 ->
               Next_(Respond(u, "cache", 304), "PROXY_INTERNAL_CACHE_UPDATE_HEADERS")
          [] req.method = "HEAD" -> Next_(Respond(u, "cache", 200), "PROXY_INTERNAL_CACHE_NOOP")
          [] OTHER -> ServeBody([u EXCEPT !.action = "DO_SERVE_AND_UPDATE"], "cache", 200, "SERVE_FROM_CACHE")

(* merge_and_update_headers_for_cache_update, set_headers_for_cache_write: *)
(* what object_store holds.                                                *)
stored(t) ==
    CASE t.action \in {"DO_UPDATE", "DO_SERVE_AND_UPDATE"} -> "merged"
      [] t.action \in {"DO_WRITE", "DO_REPLACE"} -> IF t.negative THEN "negative" ELSE "server"
      [] OTHER -> t.store

handle_cache_operation_on_forward_server_response(t) ==
    LET d == IF t.resp.status = 304 THEN NotModified(t) ELSE FullResponse(t)
        u == [d.st EXCEPT !.store = stored(d.st)]
    IN  CASE t.resp.status = 505 -> retry_downgraded(t)
          [] negative_revalidates(t) -> NegativeRevalidated(t)
          [] d.code \in {304, 412} \/ u.next \notin {"SERVE_FROM_CACHE", "SERVER_READ"} ->
               Respond(u, d.base, d.code)
          [] OTHER -> ServeBody(u, d.base, d.code, u.next)

handle_no_cache_operation_on_forward_server_response(t) ==
    LET code == t.resp.status
    IN  CASE code = 505 -> retry_downgraded(t)
          [] code = 200 /\ req.method = "CONNECT" -> Next_(Respond(t, "server", 200), "SSL_TUNNEL")
          [] code = 304 ->
               [Next_(Respond(t, "server", 304), "PROXY_INTERNAL_CACHE_NOOP")
                  EXCEPT !.warn = IF is_request_conditional(req) THEN @ ELSE "MISC"]
          [] OTHER -> ServeBody(t, "server", code, "SERVER_READ")

(* handle_100_continue_response                                            *)
handle_100_continue_response(t) ==
    IF req.version = 11
    THEN Ret(Respond(t, "server", 100), "PROXY_INTERNAL_100_RESPONSE", "HandleResponse")
    ELSE Ret(t, "SERVER_PARSE_NEXT_HDR", "HandleResponse")

handle_forward_server_connection_open(t) ==
    LET u == [t EXCEPT !.ignore = @ \/ (t.www_auth = "FRESH" /\ t.resp.status = 200)]
    IN  CASE t.resp.version = 9 ->
               Next_([Respond(t, "internal", 200) EXCEPT !.action = "DO_NO_ACTION"], "SERVER_READ")
          [] t.resp.status = 100 -> handle_100_continue_response(t)
          [] t.action \in {"DO_WRITE", "DO_UPDATE", "DO_DELETE"} ->
               handle_cache_operation_on_forward_server_response(u)
          [] t.action \in PrepareActions -> Abort(t, "handle_forward_server_connection_open")
          [] t.action \in {"DO_LOOKUP", "DO_SERVE"} -> u
          [] OTHER -> handle_no_cache_operation_on_forward_server_response(u)

handle_response_from_icp_suggested_host(t) ==
    LET u == find_server_and_update_current_info(t)
    IN  CASE t.server # "icp_info" -> Abort(t, "handle_response_from_icp_suggested_host")
          [] t.state = "CONNECTION_ALIVE" -> handle_forward_server_connection_open(t)
          [] ~is_request_retryable(t) -> handle_server_died(t)
          [] has_addr(u) -> how_to_open_connection(u)
          [] u.request_to = "PARENT_PROXY" -> Ret(u, "DNS_LOOKUP", "PPDNSLookup")
          [] OTHER -> Abort(u, "handle_response_from_icp_suggested_host")

(* A parent is tried per_parent times, all of them together parent_attempts*)
(* times.                                                                  *)
handle_response_from_parent(t) ==
    LET more == t.attempts < conf.parent_attempts
        again == [t EXCEPT !.attempts = @ + 1]
        same == again.attempts > 1 /\ (again.attempts - 1) % conf.per_parent # 0
        u == find_server_and_update_current_info(IF more THEN again ELSE [t EXCEPT !.parent = "FAIL"])
    IN  CASE t.server # "parent_info" -> Abort(t, "handle_response_from_parent")
          [] t.state = "CONNECTION_ALIVE" -> handle_forward_server_connection_open(t)
          [] ~is_request_retryable(t) -> handle_parent_died([t EXCEPT !.parent = "FAIL"])
          [] more /\ same -> how_to_open_connection(again)
          [] u.request_to = "PARENT_PROXY" -> Ret(u, "DNS_LOOKUP", "PPDNSLookup")
          [] u.request_to = "ORIGIN_SERVER" -> how_to_open_connection([u EXCEPT !.attempts = 0])
          [] OTHER -> handle_parent_died(u)

handle_response_from_server(t) ==
    LET max_connect_retries == IF is_server_negative_cached THEN conf.dead_retries ELSE conf.max_retries
        failed == [t EXCEPT !.connect_fail = TRUE]
        retry == is_request_retryable(t) /\ t.attempts < max_connect_retries
    IN  CASE t.server # "server_info" -> Abort(t, "handle_response_from_server")
          [] t.state = "CONNECTION_ALIVE" ->
               handle_forward_server_connection_open([t EXCEPT !.connect_fail = FALSE])
          [] t.state = "ACTIVE_TIMEOUT" \/ ~retry -> handle_server_connection_not_open(failed)
          [] t.style = "TRY_CLIENT" ->
               Ret([failed EXCEPT !.lookup_success = FALSE, !.style = "TRY_HOSTDB"], "DNS_LOOKUP", "OSDNSLookup")
          [] conf.dns_rr /\ conf.rr_retries > 0 /\ t.attempts % conf.rr_retries = 0 ->
               delete_server_rr_entry(failed)
          [] OTHER -> how_to_open_connection(retry_server_connection_not_open(failed))

(* check_response_validity: an HTTP/0.9 answer has no status to check.     *)
check_response_validity(p) ==
    CASE p.version # 9 /\ p.status = 0 -> "MISSING_STATUS_CODE"
      [] p.version # 9 /\ p.status = 500 -> "STATUS_CODE_SERVER_ERROR"
      [] OTHER -> "NO_RESPONSE_HEADER_ERROR"

(* is_response_valid: the State it leaves, with response_error set.        *)
is_response_valid(t) ==
    IF t.state # "CONNECTION_ALIVE" THEN [t EXCEPT !.response_error = "CONNECTION_OPEN_FAILED"]
    ELSE LET response_error == check_response_validity(t.resp)
         IN  [t EXCEPT !.response_error = response_error,
                       !.state = IF response_error = "MISSING_STATUS_CODE" THEN "BAD_INCOMING_RESPONSE" ELSE @]

HandleResponse(t) ==
    LET u == is_response_valid(t)
    IN  CASE \/ t.request_to = "UNDEFINED_LOOKUP"
             \/ t.action \in PrepareActions \cup {"DO_LOOKUP", "DO_SERVE"} -> Abort(t, "HandleResponse")
          [] t.request_to = "ICP_SUGGESTED_HOST" -> handle_response_from_icp_suggested_host(u)
          [] t.request_to = "PARENT_PROXY" -> handle_response_from_parent(u)
          [] t.request_to = "ORIGIN_SERVER" -> handle_response_from_server(u)
          [] OTHER -> u

(* handle_transform_ready, handle_transform_cache_write                    *)
handle_transform_ready(t) ==
    LET u == [t EXCEPT !.xform = FALSE]
    IN  IF t.action \notin {"DO_NO_ACTION", "DO_DELETE"} /\ t.range_setup = "NONE"
        THEN Ret([u EXCEPT !.transform_action = "PREPARE_TO_WRITE"],
                 "CACHE_ISSUE_WRITE_TRANSFORM", "handle_transform_cache_write")
        ELSE Ret([u EXCEPT !.transform_action = "DO_NO_ACTION"], "TRANSFORM_READ", "NULL")

handle_transform_cache_write(t) ==
    CASE t.write_lock = "SUCCESS" -> Ret([t EXCEPT !.transform_action = "DO_WRITE"], "TRANSFORM_READ", "NULL")
      [] t.write_lock = "FAIL" -> Ret([t EXCEPT !.transform_action = "DO_NO_ACTION"], "TRANSFORM_READ", "NULL")
      [] OTHER -> Abort(t, "handle_transform_cache_write")

----------------------------------------------------------------------------
(* The state machine: set_next_state performs next_action, and             *)
(* call_transact_and_set_next_state calls the handler.                     *)

(* transact_return_point(s)                                                *)
Call(t) ==
    CASE t.ret = "StartRemapRequest" -> StartRemapRequest(t)
      [] t.ret = "PerformRemap" -> PerformRemap(t)
      [] t.ret = "EndRemapRequest" -> EndRemapRequest(t)
      [] t.ret = "HandleRequest" -> HandleRequest(t)
      [] t.ret = "StartAccessControl" -> StartAccessControl(t)
      [] t.ret = "DecideCacheLookup" -> DecideCacheLookup(t)
      [] t.ret = "LookupSkipOpenServer" -> LookupSkipOpenServer(t)
      [] t.ret = "CallOSDNSLookup" -> CallOSDNSLookup(t)
      [] t.ret = "OSDNSLookup" -> OSDNSLookup(t)
      [] t.ret = "PPDNSLookup" -> PPDNSLookup(t)
      [] t.ret = "ReDNSRoundRobin" -> ReDNSRoundRobin(t)
      [] t.ret = "HandleCacheOpenReadHitFreshness" -> HandleCacheOpenReadHitFreshness(t)
      [] t.ret = "HandleCacheOpenReadHit" -> HandleCacheOpenReadHit(t)
      [] t.ret = "HandleCacheOpenReadMiss" -> HandleCacheOpenReadMiss(t)
      [] t.ret = "handle_cache_write_lock" -> handle_cache_write_lock(t)
      [] t.ret = "HandlePushResponseHdr" -> HandlePushResponseHdr(t)
      [] t.ret = "HandlePushCacheWrite" -> HandlePushCacheWrite(t)
      [] t.ret = "handle_transform_cache_write" -> handle_transform_cache_write(t)
      [] OTHER -> Abort(t, "call_transact_and_set_next_state")

at(a) == s.next = a
Do(t) == s' = t /\ UNCHANGED <<conf, req, obj>>

(* The request header was parsed, or was not a request.                    *)
Start == at("START") /\ Do(IF req.parsed THEN ModifyRequest(s) ELSE BadRequest(s))

(* A hook: do_api_callout; a plugin may end the transaction with an error. *)
Hook ==
    /\ s.next \in {"HTTP_API_READ_REQUEST_HDR", "HTTP_API_PRE_REMAP", "HTTP_API_POST_REMAP",
                   "HTTP_API_OS_DNS", "HTTP_API_READ_CACHE_HDR", "HTTP_API_CACHE_LOOKUP_COMPLETE"}
    /\ \/ Do(Call(s))
       \/ conf.plugin_error /\ Do(HandleApiErrorJump(s))

(* do_rewrite_request                                                      *)
Remap == at("HTTP_REMAP_REQUEST") /\ Do(Call(s))

(* do_hostdb_lookup, also after OS_RR_MARK_DOWN, and                       *)
(* do_hostdb_reverse_lookup.                                               *)
DnsLookup ==
    /\ s.next \in {"DNS_LOOKUP", "OS_RR_MARK_DOWN"}
    /\ \E ok \in conf.dns : Do(Call([s EXCEPT !.lookup_success = ok]))

ReverseDnsLookup == at("REVERSE_DNS_LOOKUP") /\ Do(Call(s))

(* do_cache_lookup_and_read; another transaction may hold the object.      *)
CacheLookup ==
    /\ at("CACHE_LOOKUP")
    /\ LET t == [s EXCEPT !.looked = TRUE]
       IN  IF obj.present
           THEN Do(HandleCacheOpenRead([t EXCEPT !.read = TRUE]))
           ELSE \E r \in {"MISS", "DOC_BUSY"} : Do(HandleCacheOpenRead([t EXCEPT !.lookup = r]))

(* do_cache_prepare_write: the lock is taken, or refused, or another       *)
(* transaction has written the object meanwhile.                           *)
CacheIssueWrite ==
    /\ at("CACHE_ISSUE_WRITE")
    /\ \/ \E l \in {"SUCCESS", "FAIL"} : Do(Call([s EXCEPT !.write_lock = l]))
       \/ /\ conf.read_retry /\ s.write_lock = "INIT"
          /\ obj' = [obj EXCEPT !.present = TRUE]
          /\ s' = Call([s EXCEPT !.write_lock = "READ_RETRY", !.lookup = "NONE", !.read = TRUE])
          /\ UNCHANGED <<conf, req>>

(* do_http_server_open and the read of the response header.                *)
Opened(t) == [t EXCEPT !.opens = @ + 1, !.resp = NoResponse]

World == Worlds[conf.world]

(* A server that knows the protocol answers 304 only to a condition.       *)
Answers(t) == {p \in World.responses : p.status = 304 => conf.odd_server \/ server_request_conditional(t)}

ServerOpen ==
    /\ at("ORIGIN_SERVER_OPEN")
    /\ \/ \E f \in World.failures, sent \in (IF req.body THEN BOOLEAN ELSE {FALSE}) :
             /\ sent => f # "CONNECTION_ERROR"
             /\ Do(HandleResponse([Opened(s) EXCEPT !.state = f, !.body_start = @ \/ sent]))
       \/ \E p \in Answers(s) :
             Do(HandleResponse([Opened(s) EXCEPT !.state = "CONNECTION_ALIVE", !.resp = p,
                                                 !.body_start = @ \/ req.body]))

(* do_http_server_open(true)                                               *)
RawOpen ==
    /\ at("ORIGIN_SERVER_RAW_OPEN")
    /\ \E r \in {"OPEN_RAW_ERROR", "CONNECTION_ALIVE"} :
          Do(OriginServerRawOpen([Opened(s) EXCEPT !.state = r]))

(* After a 100 response: setup_100_continue_transfer,                      *)
(* setup_server_read_response_header.                                      *)
NextHeader ==
    /\ s.next \in {"PROXY_INTERNAL_100_RESPONSE", "SERVER_PARSE_NEXT_HDR"}
    /\ \/ \E p \in Answers(s) :
             /\ p.status = 100 => s.continues < MaxContinue
             /\ Do(HandleResponse([s EXCEPT !.resp = p, !.continues = IF p.status = 100 THEN @ + 1 ELSE @]))
       \/ \E f \in World.failures \ {"CONNECTION_ERROR"} : Do(HandleResponse([s EXCEPT !.state = f]))

IcpQuery == at("ICP_QUERY") /\ \E found \in BOOLEAN : Do(HandleICPLookup(s, found))

(* setup_push_read_response_header                                         *)
ReadPushHdr ==
    /\ at("READ_PUSH_HDR")
    /\ \/ \E p \in World.responses : Do(HandlePushResponseHdr([s EXCEPT !.resp = p]))
       \/ Do(HandlePushError(s))

(* setup_push_transfer_to_cache                                            *)
StorePushBody ==
    /\ at("STORE_PUSH_BODY")
    /\ \/ Do(HandlePushTunnelSuccess(s))
       \/ Do(HandlePushError(s))

(* The transform answers with its response header.                         *)
TransformReady ==
    /\ s.next \in {"SERVER_READ", "SERVE_FROM_CACHE"} /\ s.xform
    /\ Do(handle_transform_ready(s))

TransformIssueWrite ==
    /\ at("CACHE_ISSUE_WRITE_TRANSFORM")
    /\ \E l \in {"SUCCESS", "FAIL"} : Do(Call([s EXCEPT !.write_lock = l]))

Final == s.next \in FinalActions /\ ~s.xform

(* The response is sent and the cache action performed.                    *)
Send == Final /\ Do([s EXCEPT !.next = "DONE", !.ret = s.next])

Done == s.next \in {"DONE", "ABORTED"} /\ UNCHANGED vars

Init ==
    /\ \E w \in DOMAIN Worlds :
          conf \in Worlds[w].confs /\ req \in Worlds[w].reqs /\ obj \in Worlds[w].objs /\ conf.world = w
    /\ s = NewState(conf)

Step ==
    \/ Start \/ Hook \/ Remap \/ DnsLookup \/ ReverseDnsLookup \/ CacheLookup \/ CacheIssueWrite
    \/ ServerOpen \/ RawOpen \/ NextHeader \/ IcpQuery \/ ReadPushHdr \/ StorePushBody
    \/ TransformReady \/ TransformIssueWrite \/ Send

Next == Step \/ Done

Spec == Init /\ [][Next]_vars

(* The state machine performs what a handler asks for. *)
Fair(w) == WF_vars(conf.world = w /\ Step)

----------------------------------------------------------------------------
(* Properties.                                                             *)

(* The State keeps the values its enumerations have.                       *)
TypeOK ==
    /\ s.action \in PrepareActions \cup WriteActions
                    \cup {"UNDEFINED", "DO_LOOKUP", "DO_NO_ACTION", "DO_SERVE"}
    /\ s.write_lock \in {"INIT", "SUCCESS", "FAIL", "READ_RETRY"}
    /\ s.request_to \in {"UNDEFINED_LOOKUP", "ICP_SUGGESTED_HOST", "PARENT_PROXY", "ORIGIN_SERVER", "HOST_NONE"}
    /\ s.server \in {"NULL", "server_info", "parent_info", "icp_info"}
    /\ s.lookup \in {"NONE", "MISS", "DOC_BUSY", "HIT_FRESH", "HIT_WARNING", "HIT_STALE", "SKIPPED"}
    /\ s.max_forwards \in Nat \cup {-1}
    /\ s.attempts \in Nat /\ s.dns_attempts \in Nat /\ s.opens \in Nat
    /\ s.tried \in 0 .. conf.parents /\ s.parent_addr \in 0 .. conf.parents

(* No ink_release_assert of a handler fails, whatever the order in which   *)
(* lookups, locks and connections succeed and fail.                        *)
ReleaseAsserts == s.abort = "none"

(* The cache is written, updated or deleted from on behalf of a response   *)
(* only by a transaction that holds the write lock (PURGE and DELETE are   *)
(* answered by the proxy itself and delete without it).                    *)
performs_cache_action == s.next \in FinalActions \ {"TRANSFORM_READ"}

WriteUnderLock ==
    performs_cache_action /\ s.action \in WriteActions /\ s.from \in {"server", "cache"}
        => s.write_lock = "SUCCESS"

(* What is written is the response that was received, the object with the  *)
(* new headers, or a failure kept on purpose: never an object_store nobody *)
(* filled.                                                                 *)
StoreIsFilled ==
    performs_cache_action /\ s.from \in {"server", "cache"} =>
        /\ s.action \in {"DO_WRITE", "DO_REPLACE"} => s.store \in {"server", "negative"}
        /\ s.action \in {"DO_UPDATE", "DO_SERVE_AND_UPDATE"} => s.store \in {"merged", "renewed"}

(* A stale object's body or headers are given to a client only with the    *)
(* warning that revalidation failed, or after a server vouched for it, or  *)
(* after it was renewed because the server is failing.                     *)
StaleNeedsReason ==
    s.next = "DONE" /\ s.from = "cache" /\ s.lookup = "HIT_STALE" =>
        \/ s.warn = "REVALIDATION_FAILED"
        \/ s.resp.status = 304
        \/ s.store = "renewed"
        \/ s.www_auth = "FRESH"

(* A client is told 304 only if what it holds is what the server or the    *)
(* cache has now: when the server compared the cached copy's validators,   *)
(* the client's own must match the cached copy. A server's 304 to a request*)
(* without conditions is passed on with a warning.                         *)
NotModifiedIsTrue ==
    s.next = "DONE" /\ s.client = 304 =>
        \/ match_conditionals(req, obj) = 304 /\ s.read
        \/ s.resp.status = 304 /\ s.request.ims = req.ims /\ s.request.inm = req.inm
        \/ s.resp.status = 200 /\ match_conditionals(req, s.resp) = 304
        \/ s.warn = "MISC"

(* An object that may not be given out without the server's word (the      *)
(* client said no-cache, or the object says must-revalidate and the client *)
(* is authorized) is not served from the cache unless the server was asked.*)
NoCacheAsksServer ==
    s.next = "DONE" /\ s.from = "cache" /\ ~does_client_permit_lookup(conf, req) => s.resp.status # 0

(* A connection is opened only to a next hop whose address is known.       *)
OpensHaveAddress == s.next \in {"ORIGIN_SERVER_OPEN", "ORIGIN_SERVER_RAW_OPEN"} => has_addr(s)

(* The parent a connection is opened to is the one the address belongs to. *)
ParentAddressIsTried ==
    s.next = "ORIGIN_SERVER_OPEN" /\ s.server = "parent_info" => s.parent_addr = s.tried

(* The number of connections a transaction opens is bounded by its         *)
(* configured attempts: each parent attempt, the retries to the origin     *)
(* server and one of them more for the client's address, one ICP peer, and *)
(* the two older versions a 505 is retried with.                           *)
OpensBounded ==
    LET os == (IF conf.max_retries > conf.dead_retries THEN conf.max_retries ELSE conf.dead_retries) + 1
        parents == IF conf.parents = 0 THEN 0 ELSE conf.parent_attempts + 1
    IN  s.opens =< os + parents + (IF conf.cta THEN 1 ELSE 0) + (IF conf.icp THEN 1 ELSE 0) + 2

(* A transaction that has begun to send the client's body upstream never   *)
(* opens another connection: the body is gone.                             *)
NoResend == [][s.body_start => s'.opens = s.opens]_s

(* Every transaction of a world ends with an answer.                       *)
Terminates(w) == conf.world = w ~> s.next = "DONE"

(* A TRACE or OPTIONS whose Max-Forwards is used up is answered here, and  *)
(* so are, where caching is on, such a DELETE and every PURGE: none of them*)
(* reaches another server. (With caching off DELETE and PURGE are tunnelled*)
(* and Max-Forwards is not looked at.)                                     *)
MaxForwardsHonoured ==
    s.opens > 0 => /\ ~(req.method \in {"TRACE", "OPTIONS"} /\ req.max_forwards = 0)
                   /\ conf.cache_http => /\ req.method # "PURGE"
                                         /\ ~(req.method = "DELETE" /\ req.max_forwards = 0)

(* What the remap rules or the access rules refuse is neither looked up in *)
(* the cache nor forwarded.                                                *)
RefusedIsNotForwarded ==
    ~conf.allowed \/ (conf.remap_required /\ req.remap = "none") \/ request_error(conf, req) # 0
        => s.opens = 0 /\ ~s.looked

=============================================================================
