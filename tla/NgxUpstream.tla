----------------------------- MODULE NgxUpstream ------------------------------
(* One proxied request as ngx_http_upstream.c drives it: from the cache lookup  *)
(* and the resolver through peers tried one after another to the last byte.     *)
(* The worker is a single thread, so a handler runs to its end before another   *)
(* event is taken: call holds the functions still to be run for the event at    *)
(* hand, one action runs one of them, and an event waits for call to be empty.  *)
(* Peers come from NgxPeers.  What lies outside the repository (sockets, TLS,   *)
(* the resolver, ngx_event_pipe, the protocol module's create_request,          *)
(* process_header and filters) answers in every way its callers distinguish.    *)
EXTENDS NgxPeers

CONSTANTS
    Servers,       \* the upstream block
    Naddrs,        \* addresses of a resolved name; 0: the block is used
    NextOn,        \* proxy_next_upstream: the failures that go to the next peer
    UseStale,      \* proxy_cache_use_stale
    CacheOn, StoreOn, Buffering, IgnoreAbort, InterceptErrors, HeadOnly, UseSSL,
    InMemory,      \* a subrequest kept in memory
    Upgrades,      \* whether the upstream may switch protocols
    Redirects,     \* whether the upstream may send X-Accel-Redirect
    EarlyReplies,  \* whether an upstream may answer before it has the whole request
    Faults,        \* whether allocations and system calls may fail
    Length         \* bytes of a body, and the most the model reads

VARIABLES
    P,        \* the peer tables
    u,        \* r->upstream and the upstream connection
    client,   \* the client connection: "ok", "gone" (closed), "error" (noticed)
    out,      \* what the request came to
    call      \* functions to run before the next event

vars == <<P, u, client, out, call>>

(* NGX_ERROR, NGX_DONE and NGX_DECLINED among the codes a request ends with. *)
ERROR == -1
DONE == -4
DECLINED == -5

U0 == [st |-> "new", resolving |-> FALSE, cleanup |-> FALSE, d |-> [tries |-> 0],
       sock |-> FALSE, conn |-> FALSE, ssl |-> "none", wh |-> "none", rh |-> "none",
       rt |-> FALSE, wt |-> FALSE, ct |-> "off", request_sent |-> FALSE,
       header_sent |-> FALSE, check |-> FALSE, buf |-> {}, att |-> 0,
       cacheable |-> FALSE, cache |-> FALSE, cstat |-> "none", store |-> FALSE,
       status |-> 0, cl |-> -1, length |-> -1, got |-> 0,
       eof |-> FALSE, done |-> FALSE, err |-> FALSE, derr |-> FALSE]

Out0 == [final |-> 0, last |-> FALSE, reply |-> "none", kept |-> "no", gets |-> 0, frees |-> 0]

Init == /\ P = (IF Naddrs > 0 THEN create_round_robin_peer(Naddrs) ELSE init_round_robin(Servers))
        /\ u = U0 /\ client = "ok" /\ out = Out0 /\ call = << >>

(* Running the function on top of call: it is replaced by what it calls last.   *)
Pending(f) == call # << >> /\ Head(call)[1] = f
Tail_(fs) == call' = fs \o Tail(call)
Idle == call = << >>
Live == Idle /\ out.final = 0
Finalize(rc) == <<<<"finalize", rc>>>>
GoNext(ft) == <<<<"next", ft>>>>
May(b) == IF b THEN BOOLEAN ELSE {FALSE}
-------------------------------------------------------------------------------
(* ngx_http_upstream_create, _init and _cache: the outcome of the cache lookup  *)
(* (NgxHttpFileCache) decides between an answer from the file and a fetch.      *)
CacheAnswers == IF CacheOn THEN {"miss", "expired", "scarce", "bypass", "hit"} ELSE {"off"}

cache(a, valid) ==
    [U0 EXCEPT !.cstat = a, !.cache = a # "off", !.cacheable = a \notin {"off", "scarce"}]

Begin ==
    /\ Live /\ u.st = "new"
    /\ \E a \in CacheAnswers, valid \in BOOLEAN :
         /\ u' = [cache(a, valid) EXCEPT !.st = "fetch"]
         /\ call' = IF a = "hit" /\ valid THEN <<<<"cached">>>> ELSE <<<<"init_request">>>>
    /\ UNCHANGED <<P, client, out>>

(* ngx_http_upstream_cache_send on a valid file; the header filter may refuse   *)
(* what it is given, and either way the request ends here.                      *)
cache_send ==
    /\ Pending("cached")
    /\ u' = [u EXCEPT !.st = "done", !.cache = FALSE]
    /\ out' = [out EXCEPT !.final = @ + 1, !.reply = "cached"]
    /\ Tail_(<< >>)
    /\ UNCHANGED <<P, client>>

(* ngx_http_upstream_init_request after the cache declined. *)
init_request ==
    /\ Pending("init_request")
    /\ \E fail \in May(Faults) :
         IF fail
         THEN /\ u' = [u EXCEPT !.store = StoreOn]
              /\ Tail_(<<<<"finalize_request", 500>>>>)
         ELSE /\ u' = [u EXCEPT !.store = StoreOn, !.check = ~StoreOn /\ ~IgnoreAbort,
                                !.cleanup = TRUE, !.resolving = Naddrs > 0, !.d = init_peer(P)]
              /\ Tail_(IF Naddrs > 0 THEN << >> ELSE <<<<"connect">>>>)
    /\ UNCHANGED <<P, client, out>>

(* ngx_http_upstream_resolve_handler. *)
ResolverAnswers ==
    /\ Live /\ u.resolving
    /\ \E ok \in BOOLEAN :
         /\ u' = [u EXCEPT !.resolving = ~ok]
         /\ call' = IF ok THEN <<<<"connect">>>> ELSE Finalize(502)
    /\ UNCHANGED <<P, client, out>>
-------------------------------------------------------------------------------
(* ngx_http_upstream_connect: a peer from the balancer, then the socket.        *)
(* request_sent decides whether the request and the buffer are made ready again *)
(* (ngx_http_upstream_reinit).                                                  *)
Reinit(v) == IF v.request_sent THEN [v EXCEPT !.buf = {}, !.status = 0, !.cl = -1] ELSE v

Connected(v, again) ==
    [Reinit(v) EXCEPT !.conn = TRUE, !.wh = "send", !.rh = "header", !.ssl = "none",
                      !.request_sent = FALSE, !.wt = again, !.rt = FALSE]

connect ==
    /\ Pending("connect")
    /\ LET a == get_round_robin_peer(P, u.d, 0)
           v == [u EXCEPT !.d = a.d, !.sock = TRUE, !.att = @ + 1]
       IN  /\ P' = a.P
           /\ IF ~a.ok
              THEN /\ u' = [u EXCEPT !.d = a.d]
                   /\ out' = out
                   /\ Tail_(GoNext("nolive"))
              ELSE /\ out' = [out EXCEPT !.gets = @ + 1]
                   /\ \/ Faults /\ u' = v /\ Tail_(Finalize(500))
                      \/ u' = v /\ Tail_(GoNext("error"))
                      \/ u' = Connected(v, TRUE) /\ Tail_(<< >>)
                      \/ /\ u' = Connected(v, FALSE)
                         /\ Tail_(<<<<IF UseSSL THEN "ssl_init" ELSE "send_request">>>>)
    /\ UNCHANGED client

(* ngx_http_upstream_ssl_init_connection and ngx_http_upstream_ssl_handshake. *)
ssl_init_connection ==
    /\ Pending("ssl_init")
    /\ \/ u' = u /\ Tail_(GoNext("error"))
       \/ u' = [u EXCEPT !.ssl = "shaking", !.wh = "ssl", !.rh = "ssl"] /\ Tail_(<< >>)
       \/ u' = [u EXCEPT !.ssl = "on", !.wh = "send", !.rh = "header"] /\ Tail_(<<<<"send_request">>>>)
    /\ UNCHANGED <<P, client, out>>

ssl_handshake ==
    /\ Live /\ u.conn /\ u.ssl = "shaking"
    /\ \/ /\ u' = [u EXCEPT !.ssl = "on", !.wh = "send", !.rh = "header"]
          /\ call' = <<<<"send_request">>>>
       \/ u' = u /\ call' = GoNext("error")
    /\ UNCHANGED <<P, client, out>>

(* The whole request is out. *)
Sent(v) == [v EXCEPT !.request_sent = TRUE, !.wt = FALSE, !.rt = TRUE]

(* ngx_http_upstream_send_request. *)
send_request ==
    /\ Pending("send_request")
    /\ \/ ~u.request_sent /\ u' = u /\ Tail_(GoNext("error"))
       \/ u' = [u EXCEPT !.request_sent = TRUE] /\ Tail_(GoNext("error"))
       \/ u' = [u EXCEPT !.request_sent = TRUE, !.wt = TRUE] /\ Tail_(<< >>)
       \/ /\ u' = Sent(u)
          /\ Tail_(<<<<"process_header">>>>)
       \/ /\ u' = [Sent(u) EXCEPT !.wh = "dummy"]
          /\ Tail_(<< >>)
    /\ UNCHANGED <<P, client, out>>

(* ngx_http_upstream_send_request_handler: the write event of the connection. *)
WriteEvent ==
    /\ Live /\ u.conn /\ u.wh \in {"send", "upgraded"}
    /\ IF u.wh = "upgraded" THEN u' = u /\ call' = <<<<"process_upgraded", FALSE>>>>
       ELSE IF UseSSL /\ u.ssl = "none" THEN u' = u /\ call' = <<<<"ssl_init">>>>
       ELSE IF u.header_sent THEN u' = [u EXCEPT !.wh = "dummy"] /\ call' = << >>
       ELSE u' = u /\ call' = <<<<"send_request">>>>
    /\ UNCHANGED <<P, client, out>>

WriteTimeout ==
    /\ Live /\ u.conn /\ u.wt
    /\ u' = [u EXCEPT !.wt = FALSE]
    /\ call' = CASE u.wh = "send" -> GoNext("timeout")
                 [] u.wh = "ssl" -> GoNext("error")
                 [] u.wh = "upgraded" -> Finalize(504)
                 [] OTHER -> << >>
    /\ UNCHANGED <<P, client, out>>

(* The read event of the upstream connection, and its timer. *)
ReadEvent ==
    /\ Live /\ u.conn /\ u.rh \notin {"none", "ssl"}
    /\ call' = <<CASE u.rh = "header" -> <<"process_header">>
                   [] u.rh = "memory" -> <<"process_body_in_memory">>
                   [] u.rh = "plain" -> <<"non_buffered", FALSE>>
                   [] u.rh = "pipe" -> <<"pipe">>
                   [] u.rh = "upgraded" -> <<"process_upgraded", TRUE>>>>
    /\ UNCHANGED <<P, u, client, out>>

ReadTimeout ==
    /\ Live /\ u.conn /\ u.rt
    /\ u' = [u EXCEPT !.rt = FALSE, !.err = (u.rh = "pipe") \/ @]
    /\ call' = CASE u.rh = "header" -> GoNext("timeout")
                 [] u.rh = "pipe" -> <<<<"process_request">>>>
                 [] OTHER -> Finalize(504)
    /\ UNCHANGED <<P, client, out>>
-------------------------------------------------------------------------------
(* ngx_http_upstream_process_header: bytes are read until the module's parser   *)
(* has the header, refuses it, or the buffer is full.                           *)
Statuses == {200, 404, 500}
Parsed(s, n, k) == [u EXCEPT !.status = s, !.cl = n, !.buf = @ \union {u.att}, !.got = k]
ft_of(s) == IF s = 404 THEN "http_404" ELSE "http_500"

(* ngx_http_upstream_test_connect: connect() failed after all. *)
test_connect == ~u.request_sent /\ u' = u /\ Tail_(GoNext("error"))

process_header ==
    /\ Pending("process_header")
    /\ \/ test_connect
       \/ u' = u /\ Tail_(<< >>)                                   \* recv: NGX_AGAIN
       \/ u' = u /\ Tail_(GoNext("error"))                         \* recv: closed, error
       \/ /\ u.att \notin u.buf                                    \* part of a header
          /\ u' = [u EXCEPT !.buf = @ \union {u.att}]
          /\ Tail_(<<<<"process_header">>>>)
       \/ u' = [u EXCEPT !.buf = @ \union {u.att}] /\ Tail_(GoNext("invalid"))
       \/ Faults /\ u' = u /\ Tail_(Finalize(500))
       \/ \E s \in Statuses, n \in {-1, Length}, k \in 0..1 :
            /\ EarlyReplies \/ (u.request_sent /\ ~u.wt)
            /\ u' = Parsed(s, n, k)
            /\ Tail_(<<<<"header_done">>>>)
    /\ UNCHANGED <<P, client, out>>

(* ngx_http_upstream_process_headers: X-Accel-Redirect ends the upstream part,  *)
(* a header that cannot be copied the request.                                  *)
process_headers ==
    \/ Redirects /\ u' = u /\ Tail_(<<<<"finalize", DECLINED>>, <<"redirect">>>>)
    \/ Faults /\ u' = u /\ Tail_(Finalize(500))

(* The content of a subrequest kept in memory; what came with the header        *)
(* counts.                                                                      *)
keep_in_memory ==
    \E n \in {-1, u.cl} :
        /\ u' = [u EXCEPT !.length = n, !.rh = "memory"]
        /\ Tail_(IF n # -1 /\ u.got = n THEN Finalize(0) ELSE <<<<"process_body_in_memory">>>>)

(* ngx_http_upstream_test_next and ngx_http_upstream_intercept_errors, then the *)
(* headers and the start of the body.                                           *)
test_next == u.status \in {404, 500} /\ u.d.tries > 1 /\ ft_of(u.status) \in NextOn
test_stale == u.status \in {404, 500} /\ u.cstat = "expired" /\ ft_of(u.status) \in UseStale

header_done ==
    /\ Pending("header_done")
    /\ IF test_next THEN u' = u /\ Tail_(GoNext(ft_of(u.status)))
       ELSE IF test_stale THEN u' = [u EXCEPT !.cstat = "stale"] /\ Tail_(<<<<"stale_send">>>>)
       ELSE IF u.status >= 300 /\ InterceptErrors
       THEN u' = [u EXCEPT !.cache = FALSE] /\ Tail_(Finalize(u.status))
       ELSE \/ process_headers
            \/ /\ ~InMemory /\ u' = [u EXCEPT !.length = -1] /\ Tail_(<<<<"send_response">>>>)
            \/ InMemory /\ keep_in_memory
    /\ UNCHANGED <<P, client, out>>

(* X-Accel-Redirect: the upstream part is over, the request goes on elsewhere.  *)
redirect ==
    /\ Pending("redirect")
    /\ out' = [out EXCEPT !.final = @ + 1, !.reply = "redirect"]
    /\ Tail_(<< >>)
    /\ UNCHANGED <<P, u, client>>

(* ngx_http_upstream_cache_send of the expired copy, from _test_next or _next;  *)
(* ngx_http_send_header refuses a second header.                                *)
stale_send ==
    /\ Pending("stale_send")
    /\ \E rc \in {0, ERROR} :
         /\ rc = 0 => ~u.header_sent
         /\ out' = [out EXCEPT !.reply = IF rc = 0 THEN "cached" ELSE @]
         /\ Tail_(Finalize(rc))
    /\ UNCHANGED <<P, u, client>>

(* ngx_http_upstream_non_buffered_filter: k more bytes of the body. *)
Received(k) == [u EXCEPT !.got = @ + k]

(* ngx_http_upstream_process_body_in_memory. *)
process_body_in_memory ==
    /\ Pending("process_body_in_memory")
    /\ \/ u' = [u EXCEPT !.eof = TRUE] /\ Tail_(Finalize(0))
       \/ u' = u /\ Tail_(Finalize(ERROR))
       \/ \E k \in 0..1 :
            /\ u.got + k <= Length
            /\ u' = [Received(k) EXCEPT !.rt = u.length # u.got + k]
            /\ Tail_(IF u.length = u.got + k THEN Finalize(0) ELSE << >>)
    /\ UNCHANGED <<P, client, out>>
-------------------------------------------------------------------------------
(* ngx_http_upstream_send_response: the header to the client, then one of the   *)
(* four ways of passing the body on.                                            *)
send_response ==
    /\ Pending("send_response")
    /\ \/ u' = u /\ out' = out /\ client' = client /\ Tail_(Finalize(ERROR))
       \/ LET keeps == u.cacheable \/ u.store
              v == [u EXCEPT !.header_sent = TRUE]
          IN  /\ ~u.header_sent          \* ngx_http_send_header refuses a second one
              /\ out' = [out EXCEPT !.reply = "upstream"]
              /\ client' = IF HeadOnly /\ keeps /\ ~Upgrades THEN "error" ELSE client
              /\ IF Upgrades THEN u' = v /\ Tail_(<<<<"upgrade">>>>)
                 ELSE IF HeadOnly /\ ~keeps THEN u' = v /\ Tail_(Finalize(0))
                 ELSE /\ u' = [v EXCEPT !.check = @ /\ ~HeadOnly]
                      /\ Tail_(<<<<IF Buffering THEN "buffered" ELSE "unbuffered">>>>)
    /\ UNCHANGED P

(* 2192-2257: no buffering; u->length is set by the module's filter. *)
unbuffered ==
    /\ Pending("unbuffered")
    /\ \/ Faults /\ u' = u /\ Tail_(Finalize(ERROR))
       \/ \E n \in {-1, u.cl} :
            /\ n # -1 => u.got <= n
            /\ u' = [u EXCEPT !.rh = "plain", !.length = n]
            /\ IF u.got > 0 THEN Tail_(<<<<"non_buffered", TRUE>>>>)
               ELSE Tail_(<<<<"non_buffered", FALSE>>>>) \/ Tail_(<< >>)
    /\ UNCHANGED <<P, client, out>>

(* 2261-2440: whether the response is kept, and the pipe. *)
buffered ==
    /\ Pending("buffered")
    /\ \/ Faults /\ u' = u /\ Tail_(Finalize(ERROR))
       \/ \E n \in {-1, u.cl}, no_cache \in BOOLEAN, valid \in BOOLEAN :
            LET keep == u.cacheable /\ ~no_cache /\ valid
            IN  /\ u' = [u EXCEPT !.cacheable = keep, !.cache = @ /\ keep, !.rh = "pipe",
                                  !.length = n, !.done = n # -1 /\ u.got = n]
                /\ Tail_(<<<<"pipe">>>>)
    /\ UNCHANGED <<P, client, out>>
-------------------------------------------------------------------------------
(* ngx_http_upstream_process_upstream and _process_downstream: ngx_event_pipe   *)
(* moves what it can, then ngx_http_upstream_process_request.  A pipe that does *)
(* not keep the response may stop reading until the client takes some of it.    *)
pipe ==
    /\ Pending("pipe")
    /\ \/ Faults /\ u' = u /\ Tail_(Finalize(ERROR))                       \* NGX_ABORT
       \/ \E k \in 0..1, e \in {"open", "eof", "error"}, blocked \in BOOLEAN, gone \in BOOLEAN :
            /\ u.got + k <= Length
            /\ blocked => ~u.cacheable /\ ~u.store /\ e = "open"
            /\ gone => client # "ok"
            /\ u' = [u EXCEPT !.got = @ + k, !.eof = e = "eof", !.err = e = "error",
                              !.done = u.length # -1 /\ u.got + k = u.length,
                              !.derr = @ \/ gone, !.rt = ~blocked,
                              !.ct = IF blocked THEN "send" ELSE "off"]
            /\ Tail_(<<<<"process_request">>>>)
    /\ UNCHANGED <<P, client, out>>

(* The announced length, where there is one, is compared with the file's. *)
Whole == u.length = -1 /\ (u.cl = -1 \/ u.cl = u.got)

Ended == u.done \/ u.eof \/ u.err

(* Mutant: an end of the stream is taken for the end of the response. *)
ExitCodeEof == IF u.done \/ u.eof THEN 0 ELSE 502

ExitCode == IF u.done \/ (u.eof /\ u.length = -1) THEN 0 ELSE 502

(* ngx_http_upstream_process_request. *)
Stores == u.store /\ u.status = 200 /\ (u.eof \/ u.done)
          /\ (u.done \/ u.length = -1) /\ (u.cl = -1 \/ u.cl = u.got)
Keeps == u.cacheable /\ (u.done \/ (u.eof /\ Whole))

process_request ==
    /\ Pending("process_request")
    /\ IF u.conn /\ Ended
       THEN /\ u' = [u EXCEPT !.store = @ /\ ~Stores, !.cache = @ /\ ~u.cacheable]
            /\ out' = [out EXCEPT !.kept =
                           IF Stores \/ Keeps THEN IF u.cl \in {-1, u.got} THEN "whole" ELSE "cut"
                           ELSE @]
            /\ Tail_(Finalize(ExitCode))
       ELSE /\ UNCHANGED <<u, out>>
            /\ Tail_(IF u.derr /\ ~u.cacheable /\ ~u.store /\ u.conn
                     THEN Finalize(ERROR) ELSE << >>)
    /\ UNCHANGED <<P, client>>

(* The client took what was sent, or its timer ran out. *)
ClientWritable ==
    /\ Live /\ u.conn /\ client = "ok" /\ u.ct # "off"
    /\ u.rh \in {"pipe", "plain"}
    /\ u' = u
    /\ call' = IF u.rh = "pipe" THEN <<<<"pipe">>>> ELSE <<<<"non_buffered", TRUE>>>>
    /\ UNCHANGED <<P, client, out>>

ClientTimeout ==
    /\ Live /\ u.conn /\ u.ct = "send"
    /\ u' = [u EXCEPT !.ct = "off", !.derr = (u.rh = "pipe") \/ @]
    /\ call' = IF u.rh = "pipe" THEN <<<<"process_request">>>> ELSE Finalize(408)
    /\ UNCHANGED <<P, client, out>>

(* All of the body is there. *)
Complete == u.length = u.got \/ (u.eof /\ u.length = -1)

(* ngx_http_upstream_process_non_buffered_request: one turn of its loop. *)
non_buffered_request ==
    /\ Pending("non_buffered")
    /\ LET w == Head(call)[2] \/ u.length = u.got
       IN  \/ w /\ u' = u /\ Tail_(Finalize(ERROR))
           \/ w /\ Complete /\ u' = u /\ Tail_(Finalize(0))
           \/ w /\ ~Complete /\ (u.eof \/ u.err) /\ u' = u /\ Tail_(Finalize(502))
           \/ \E busy \in BOOLEAN :                     \* nothing to read; wait
                /\ busy => w /\ client # "error"
                /\ w /\ ~busy => ~Complete /\ ~u.eof /\ ~u.err
                /\ u' = [u EXCEPT !.rt = ~u.eof /\ ~u.err, !.ct = IF ~w THEN @ ELSE IF busy THEN "send" ELSE "off"]
                /\ Tail_(<< >>)
           \/ \E k \in 0..1, e \in {"open", "eof", "error"} :
                /\ ~u.eof /\ ~u.err
                /\ w => ~Complete
                /\ u.got + k <= Length /\ (k = 0 => e # "open")
                /\ u' = [Received(k) EXCEPT !.eof = e = "eof", !.err = e = "error"]
                /\ Tail_(<<<<"non_buffered", TRUE>>>>)
    /\ UNCHANGED <<P, client, out>>
-------------------------------------------------------------------------------
(* ngx_http_upstream_upgrade: both directions are tried at once. *)
upgrade ==
    /\ Pending("upgrade")
    /\ \/ Faults /\ u' = u /\ Tail_(Finalize(ERROR))
       \/ \E up \in BOOLEAN, down \in BOOLEAN :
            /\ u' = [u EXCEPT !.rh = "upgraded", !.wh = "upgraded", !.check = FALSE]
            /\ Tail_((IF up THEN <<<<"process_upgraded", TRUE>>>> ELSE << >>)
                     \o (IF down THEN <<<<"process_upgraded", FALSE>>>> ELSE << >>))
    /\ UNCHANGED <<P, client, out>>

(* ngx_http_upstream_process_upgraded. *)
process_upgraded ==
    /\ Pending("process_upgraded") /\ u.conn
    /\ \/ u' = u /\ Tail_(Finalize(ERROR))
       \/ u' = [u EXCEPT !.eof = TRUE] /\ Tail_(Finalize(0))
       \/ \E w \in BOOLEAN, c \in BOOLEAN :
            /\ u' = [u EXCEPT !.wt = w, !.rt = TRUE, !.ct = IF c THEN "send" ELSE "off"]
            /\ Tail_(<< >>)
    /\ UNCHANGED <<P, client, out>>
(* The second of the two calls after the first closed the connection: it uses   *)
(* a null pointer, and the worker process is gone.                              *)
process_upgraded_closed ==
    /\ Pending("process_upgraded") /\ ~u.conn
    /\ out' = [out EXCEPT !.reply = "crash"]
    /\ Tail_(<< >>)
    /\ UNCHANGED <<P, u, client>>
-------------------------------------------------------------------------------
(* ngx_http_upstream_check_broken_connection: the client closes, and whichever  *)
(* handler is installed notices.                                                *)
ClientCloses ==
    /\ Live /\ client = "ok" /\ u.st # "new"
    /\ client' = "gone"
    /\ UNCHANGED <<P, u, out, call>>

ClientBroken ==
    /\ Live /\ client \in {"gone", "error"} /\ u.check
    /\ client' = "error"
    /\ call' = IF ~u.cacheable \/ (client = "gone" /\ ~u.conn) THEN Finalize(499) ELSE << >>
    /\ UNCHANGED <<P, u, out>>

(* ngx_http_upstream_next. *)
status_of(ft) == CASE ft = "timeout" -> 504 [] ft = "http_500" -> 500
                   [] ft = "http_404" -> 404 [] OTHER -> 502

Released(ft) ==
    IF u.sock THEN free_round_robin_peer(P, u.d, IF ft = "http_404" THEN "next" ELSE "failed", 0)
    ELSE [P |-> P, d |-> u.d]

GivenBack(v, f) == [v EXCEPT !.d = f.d, !.sock = FALSE]

(* Mutant: tries are not counted. *)
GoesOnAlways(ft, f) == ft \in NextOn \/ ft = "nolive"

GoesOn(ft, f) == ~(f.d.tries = 0 \/ ft \notin NextOn)

next ==
    /\ Pending("next")
    /\ LET ft == Head(call)[2]
           f  == Released(ft)
           v  == GivenBack(u, f)
       IN  /\ P' = f.P
           /\ out' = [out EXCEPT !.frees = IF u.sock THEN @ + 1 ELSE @]
           /\ IF client = "error" THEN u' = v /\ Tail_(Finalize(499))
              ELSE IF GoesOn(ft, f)
              THEN /\ u' = [v EXCEPT !.conn = FALSE, !.rt = FALSE, !.wt = FALSE]
                   /\ Tail_(<<<<"connect">>>>)
              ELSE IF u.cstat = "expired" /\ ft \in UseStale
              THEN u' = [v EXCEPT !.cstat = "stale"] /\ Tail_(<<<<"stale_send">>>>)
              ELSE u' = v /\ Tail_(Finalize(status_of(ft)))
    /\ UNCHANGED client

(* ngx_http_upstream_finalize_request, and ngx_http_upstream_cleanup when the   *)
(* request is torn down from outside.                                           *)
Reply(rc) ==
    IF ~u.header_sent \/ rc \in {408, 499}
    THEN IF rc = 0 THEN out.reply ELSE IF u.header_sent THEN "aborted" ELSE "error"
    ELSE IF rc = 0 THEN out.reply ELSE "aborted"

Closed(v) ==
    [v EXCEPT !.st = "done", !.cleanup = FALSE, !.resolving = FALSE, !.sock = FALSE,
              !.conn = FALSE, !.rt = FALSE, !.wt = FALSE, !.ct = "off",
              !.cache = FALSE, !.store = FALSE]

finalize ==
    /\ Pending("finalize")
    /\ LET rc == Head(call)[2]
           f  == IF u.sock THEN free_round_robin_peer(P, u.d, "ok", 0) ELSE [P |-> P, d |-> u.d]
       IN  /\ P' = f.P
           /\ u' = [Closed(u) EXCEPT !.d = f.d]
           /\ out' = [out EXCEPT !.frees = IF u.sock THEN @ + 1 ELSE @,
                                 !.final = IF rc = DECLINED THEN @ ELSE @ + 1,
                                 !.reply = IF rc = DECLINED THEN @ ELSE Reply(rc),
                                 !.last = @ \/ (rc = 0 /\ u.header_sent /\ ~HeadOnly)]
           /\ Tail_(<< >>)
    /\ UNCHANGED client

(* Failures before the cleanup is registered go to ngx_http_finalize_request.   *)
finalize_request ==
    /\ Pending("finalize_request")
    /\ out' = [out EXCEPT !.final = @ + 1, !.reply = "error"]
    /\ u' = [u EXCEPT !.st = "done", !.cache = FALSE]
    /\ Tail_(<< >>)
    /\ UNCHANGED <<P, client>>

Cleanup ==
    /\ Live /\ u.cleanup
    /\ call' = Finalize(DONE)
    /\ UNCHANGED <<P, u, client, out>>

Functions ==
    \/ cache_send \/ init_request \/ connect \/ ssl_init_connection \/ send_request
    \/ process_header \/ header_done \/ redirect \/ stale_send \/ process_body_in_memory
    \/ send_response \/ unbuffered \/ buffered \/ pipe \/ process_request
    \/ non_buffered_request \/ upgrade \/ process_upgraded \/ process_upgraded_closed
    \/ next \/ finalize \/ finalize_request

Events ==
    \/ Begin \/ ResolverAnswers \/ ssl_handshake \/ WriteEvent \/ WriteTimeout \/ ReadEvent
    \/ ReadTimeout \/ ClientWritable \/ ClientTimeout \/ ClientCloses \/ ClientBroken \/ Cleanup

Over == out.final > 0 /\ Idle /\ UNCHANGED vars

Next == Functions \/ Events \/ Over

Spec == Init /\ [][Next]_vars

(* The event loop runs a handler to its end; a resolver answers or times out;   *)
(* a timer that is armed again and again fires in the end, because what arms it *)
(* again is data, and the data are finite: strong fairness, as the events that  *)
(* change nothing disable it for as long as their handler runs.                 *)
Fair == /\ WF_vars(Functions) /\ WF_vars(Begin) /\ WF_vars(ResolverAnswers)
        /\ SF_vars(WriteTimeout) /\ SF_vars(ReadTimeout) /\ SF_vars(ClientTimeout)

-------------------------------------------------------------------------------
(* The settings are switches, and lengths are numbers. *)
Settings ==
    /\ Length \in Nat
    /\ {CacheOn, StoreOn, Buffering, IgnoreAbort, InterceptErrors, HeadOnly, UseSSL, InMemory,
        Upgrades, Redirects, EarlyReplies, Faults} \subseteq BOOLEAN

(* Types; the data of the balancer (D) are its own affair. *)
UType(D) ==
    [st : {"new", "fetch", "done"}, resolving : BOOLEAN, cleanup : BOOLEAN, d : D,
     sock : BOOLEAN, conn : BOOLEAN, ssl : {"none", "shaking", "on"},
     wh : {"none", "send", "ssl", "dummy", "upgraded"},
     rh : {"none", "header", "ssl", "memory", "plain", "pipe", "upgraded"},
     rt : BOOLEAN, wt : BOOLEAN, ct : {"off", "send"}, request_sent : BOOLEAN,
     header_sent : BOOLEAN, check : BOOLEAN, buf : SUBSET Int, att : Int,
     cacheable : BOOLEAN, cache : BOOLEAN,
     cstat : CacheAnswers \union {"none", "stale"}, store : BOOLEAN,
     status : {0} \union Statuses, cl : Int, length : Int, got : Int,
     eof : BOOLEAN, done : BOOLEAN, err : BOOLEAN, derr : BOOLEAN]

OType ==
    [final : Int, last : BOOLEAN,
     reply : {"none", "cached", "redirect", "upstream", "error", "aborted", "crash"},
     kept : {"no", "whole", "cut"}, gets : Int, frees : Int]

(* The function on top of call, its argument, and what waits below it. *)
Top == IF call = << >> THEN "none" ELSE Head(call)[1]
Arg == Head(call)[2]
Below == IF call = << >> THEN << >> ELSE Tail(call)

TypeOK ==
    /\ u \in UType({u.d})
    /\ client \in {"ok", "gone", "error"}
    /\ out \in OType
    /\ call # << >> => Top # "none"
    /\ Top = "finalize" => Arg \in Int
    /\ Top \in {"non_buffered", "process_upgraded"} => Arg \in BOOLEAN

(* Only two functions leave another one to be run after them. *)
StackOK ==
    /\ Below \in {<< >>, <<<<"redirect">>>>, <<<<"process_upgraded", FALSE>>>>}
    /\ Top = "finalize" => (Arg = DECLINED <=> Below = <<<<"redirect">>>>)
    /\ Below = <<<<"redirect">>>> => Top = "finalize"
    /\ Below = <<<<"process_upgraded", FALSE>>>> => Top \in {"finalize", "process_upgraded"} /\ Upgrades

(* A request that has no peer, connection, timer or resolver context. *)
Nothing ==
    /\ ~u.sock /\ ~u.conn /\ ~u.rt /\ ~u.wt /\ u.ct = "off"
    /\ ~u.resolving

(* Before the first peer, and after the end. *)
StartOK ==
    /\ u.st = "new" => u = U0 /\ out = Out0 /\ call = << >>
    /\ Top \in {"cached", "init_request", "finalize_request"} =>
          /\ Nothing /\ out.gets = 0 /\ u.rh = "none" /\ u.wh = "none" /\ out.reply = "none"
          /\ ~u.header_sent /\ ~u.eof /\ ~u.err /\ u.ssl = "none"
          /\ Top # "finalize_request" => ~u.store
    /\ u.resolving => ~u.sock /\ ~u.conn /\ ~u.header_sent /\ Top \in {"none", "finalize"}
    /\ Top = "connect" => ~u.sock /\ ~u.conn
EndOK ==
    /\ out.final \in {0, 1}
    /\ out.final = 1 => /\ Nothing /\ ~u.cache /\ (u.store => out.gets = 0)
                        /\ \/ call = << >>
                           \/ Upgrades /\ Top = "process_upgraded" /\ Below = << >>
    /\ Top = "redirect" => Nothing /\ ~u.cache /\ ~u.store

(* The handlers that pass a body on. *)
Passing == {"plain", "pipe", "upgraded"}

(* Which functions run in which phase of a response. *)
PhaseOK ==
    /\ u.rh \in Passing => u.header_sent
    /\ Top \in {"send_request", "process_header", "header_done", "send_response"} => u.rh \notin Passing
    /\ Top \in {"unbuffered", "buffered", "upgrade"} => u.header_sent /\ u.rh \notin Passing
    /\ Top \in {"pipe", "process_request"} => u.rh = "pipe"
    /\ Top = "non_buffered" => u.rh = "plain"
    /\ u.rh = "memory" => InMemory
    /\ Top \in {"send_response", "unbuffered", "buffered", "upgrade"} => ~InMemory
    /\ Top = "process_body_in_memory" => u.rh = "memory"
    /\ u.rh = "upgraded" \/ Top = "upgrade" => Upgrades
    /\ u.wh = "upgraded" <=> u.rh = "upgraded"
    /\ Top = "process_upgraded" \/ Below = <<<<"process_upgraded", FALSE>>>> => u.rh = "upgraded"

(* How much of a body there is. *)
AllOfIt == (u.length = -1 /\ u.eof) \/ u.got = u.length
BodyOK ==
    /\ out.kept # "cut"
    /\ u.rh = "pipe" => /\ u.length \in {-1, u.cl}
                        /\ u.done => u.length # -1 /\ u.got = u.length
    /\ InMemory => out.reply # "upstream"
    /\ out.last => out.final = 1
    /\ (out.reply = "upstream" /\ ~Upgrades /\ (out.last \/ (Top = "finalize" /\ Arg = 0 /\ ~HeadOnly))) =>
          AllOfIt

-------------------------------------------------------------------------------
(* A peer taken from the balancer is given back exactly once: gets and frees    *)
(* differ by the peer now in use (connect, next and finalize_request).          *)
PeersBalanced == out.gets - out.frees = IF u.sock THEN 1 ELSE 0

(* A request ends once, and then holds nothing: no peer, connection, timer,     *)
(* cache node or resolver context, and no file to be stored (the flag stays set *)
(* only if the request failed before a peer was asked).                         *)
ReleasedAtEnd ==
    /\ out.final <= 1
    /\ (out.final = 1 /\ Idle) =>
          /\ ~u.sock /\ ~u.conn /\ ~u.rt /\ ~u.wt /\ u.ct = "off"
          /\ ~u.cache /\ ~u.resolving /\ (u.store => out.gets = 0)

(* No response is kept, in the cache or as a stored file, that was cut short of *)
(* the length its header announced.                                             *)
KeptWhole == out.kept # "cut"

(* The client is told that a body is over only when the upstream sent all of    *)
(* it; a premature end reaches the client as a broken connection.               *)
EndedWhole ==
    (out.last /\ out.reply = "upstream" /\ ~Upgrades) =>
        (u.length = -1 /\ u.eof) \/ u.got = u.length

(* Every wait for the upstream is bounded by a timer of its connection. *)
WaitHasTimer == (Live /\ u.conn) => u.rt \/ u.wt \/ u.ct # "off"

(* With all of them together every step of a request preserves them. *)
IndInv == TypeOK /\ StackOK /\ StartOK /\ EndOK /\ PhaseOK /\ BodyOK /\ PeersBalanced

(* Where the timers are: without TLS, and with upstreams that answer a request  *)
(* they have, a header is read once, and the timer of the function that waits   *)
(* is the one of the phase it is in.                                            *)
Plain == ~UseSSL /\ ~EarlyReplies
TimersOK ==
    /\ u.ssl = "none" /\ u.wh # "ssl" /\ Top # "ssl_init"
    /\ WaitHasTimer
    /\ u.header_sent => Top \notin {"connect", "send_request", "process_header", "header_done",
                                    "send_response", "process_body_in_memory", "next"}
    /\ u.header_sent /\ Live => u.rh \in Passing
    /\ u.wt => u.wh = "upgraded" \/ (u.wh = "send" /\ ~u.header_sent)
    /\ Top = "send_request" => u.wh = "send"
    /\ u.ct # "off" => u.rh \in Passing
    /\ Top = "process_header" => u.rt \/ u.wt
    /\ Top \in {"header_done", "send_response", "unbuffered", "buffered", "upgrade"} => u.rt /\ ~u.wt
    /\ u.eof \/ u.err => u.header_sent \/ Top \in {"finalize", "redirect"} \/ out.final = 1
    /\ Top \in {"unbuffered", "buffered"} => ~u.eof /\ ~u.err
    /\ u.rh = "plain" /\ (u.eof \/ u.err) /\ (Live \/ (Top = "non_buffered" /\ ~Arg)) => u.ct = "send"
    /\ u.rh = "pipe" /\ u.ct = "send" => ~u.cacheable /\ ~u.store
    /\ Top = "process_request" => \/ u.rt \/ u.ct = "send" \/ Ended
                                  \/ u.derr /\ ~u.cacheable /\ ~u.store

(* Every request ends: peers are finitely many and every wait has a timer. *)
Terminates == <>(out.final > 0)
===============================================================================
