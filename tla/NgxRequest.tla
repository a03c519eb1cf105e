----------------------------- MODULE NgxRequest -----------------------------
(***************************************************************************)
(* One client request and its subrequests: the tree built by               *)
(* ngx_http_subrequest, the posted requests, the postpone, copy and write  *)
(* filters that put the output of the tree in order, special responses and *)
(* internal redirects, post_action, finalize, terminate and the reference  *)
(* count.  Phases and the content handler are a nondeterministic producer  *)
(* that writes, creates subrequests, waits for an event of its own and     *)
(* ends.  `call' holds the functions still to run before the worker goes   *)
(* back to its event loop, the innermost first.                            *)
(***************************************************************************)
EXTENDS Integers, Sequences, FiniteSets, SequencesExt

CONSTANTS Settings,         \* by name: the bounds and directives of a tree of requests
          MaxUriChanges     \* NGX_HTTP_MAX_URI_CHANGES
(* Bounds, reqs: requests of a tree, the main one included; outs: pieces a     *)
(* content handler writes; waits: waits for events over the whole tree; subs: *)
(* NGX_HTTP_MAX_SUBREQUESTS.  Directives, aio: file reads are asynchronous;    *)
(* limit_rate: output may be delayed; postpone_output: less than this waits    *)
(* for more; error_pages: the location has some; post_action: "off", "once",   *)
(* or "inherited" by its own target.  failures: the ways a content handler     *)
(* fails; redirects: a handler may redirect to another location.               *)

VARIABLES req,      \* the ngx_http_request_t of the tree
          conn,     \* the connection, and the fields only r->main uses
          call,     \* the functions still to run
          script    \* history: what each request wrote and created, in order

vars == <<req, conn, call, script>>

Set == Settings[conn.set]
Reqs == 1..Set.reqs
Main == 1

Blank == [used |-> FALSE, parent |-> 0, weh |-> "none", reh |-> "block",
          postponed |-> <<>>, copy |-> <<>>, aio |-> FALSE, waited |-> FALSE,
          async |-> FALSE, done |-> FALSE, logged |-> FALSE,
          uri_changes |-> MaxUriChanges + 1, error_page |-> FALSE,
          post_action |-> FALSE]

Used == {q \in Reqs : req[q].used}
Waiting == {q \in Reqs : req[q].async}

do(op, q) == [op |-> op, q |-> q, rc |-> ""]
finalize_with(q, rc) == [op |-> "finalize", q |-> q, rc |-> rc]
Then(next) == call' = next \o Tail(call)
Top(op) == call # <<>> /\ call[1].op = op /\ conn.life = "open"

create_request == [Blank EXCEPT !.used = TRUE, !.weh = "phases"]

Init ==
    \E w \in DOMAIN Settings :
    /\ conn = [set |-> w, data |-> Main, posted |-> <<>>, count |-> 1, blocked |-> 0,
               subrequests |-> Settings[w].subs + 1, error |-> FALSE, out |-> <<>>,
               buffered |-> FALSE, delayed |-> FALSE, timer |-> FALSE,
               waits |-> 0, sent |-> <<>>, life |-> "open", alerts |-> {},
               cleaned |-> FALSE, failed |-> FALSE]
    /\ req = [q \in 1..Settings[w].reqs |-> IF q = Main THEN create_request ELSE Blank]
    /\ call = <<do("phases", Main)>>
    /\ script = [q \in 1..Settings[w].reqs |-> <<>>]

-----------------------------------------------------------------------------
(* Output.  A piece is what one buffer carries: data, the end of the main  *)
(* response with or without data, or the sync buffer of a subrequest's end.  Every filter *)
(* is an operator from a state [req, conn] to the set of its outcomes.      *)

Piece(q, kind) == [q |-> q, n |-> Len(script[q]) + 1, kind |-> kind]
State == [req |-> req, conn |-> conn]
Outcome(s, rc) == [s EXCEPT !.rc = rc]
Start == [req |-> req, conn |-> conn, rc |-> "OK"]

HasLast(chain) == \E i \in 1..Len(chain) : chain[i].kind \in {"last", "page"}
Size(chain) == Len(SelectSeq(chain, LAMBDA p : p.kind \in {"data", "page"}))
Empty(chain) == Size(chain) = 0

(* c->send_chain takes a prefix, and never stops at an empty buffer, or the *)
(* connection fails.  With limit_rate what was sent may have to be waited   *)
(* for.                                                                     *)
Taken(chain) == {k \in 0..Len(chain) :
                    k = Len(chain) \/ ~Empty(<<chain[k + 1]>>)}

Sent(s, chain) ==
    {Outcome([s EXCEPT !.conn.out = SubSeq(chain, k + 1, Len(chain)),
                       !.conn.sent = s.conn.sent \o SubSeq(chain, 1, k),
                       !.conn.buffered = k < Len(chain),
                       !.conn.delayed = d,
                       !.conn.timer = s.conn.timer \/ d],
             IF k < Len(chain) THEN "AGAIN" ELSE "OK") :
        <<k, d>> \in {<<j, e>> \in Taken(chain) \X BOOLEAN :
                        e => Set.limit_rate /\ j > 0}}
    \cup {Outcome([s EXCEPT !.conn.error = TRUE, !.conn.out = chain], "ERROR")}

write_filter(s, in) ==
    LET chain == s.conn.out \o in IN
    IF s.conn.error THEN {Outcome(s, "ERROR")}
    ELSE IF ~HasLast(chain) /\ in # <<>> /\ Size(chain) < Set.postpone_output
         THEN {Outcome([s EXCEPT !.conn.out = chain], "OK")}
    ELSE IF s.conn.delayed
         THEN {Outcome([s EXCEPT !.conn.out = chain, !.conn.buffered = TRUE],
                       "AGAIN")}
    ELSE IF Empty(chain)
         THEN IF HasLast(chain)
              THEN {Outcome([s EXCEPT !.conn.out = <<>>,
                                      !.conn.sent = s.conn.sent \o chain,
                                      !.conn.buffered = FALSE], "OK")}
              ELSE {Outcome([s EXCEPT
                       !.conn.alerts = @ \cup {"output chain is empty"}],
                            "ERROR")}
    ELSE Sent(s, chain)

post_request(s, q) == [s EXCEPT !.conn.posted = Append(@, q)]

IsOut(item) == item.req = 0

(* ngx_http_postpone_filter_add: extend the last item or append a new one. *)
postpone_filter_add(s, q, in) ==
    LET p == s.req[q].postponed IN
    [s EXCEPT !.req[q].postponed =
        IF p # <<>> /\ IsOut(Last(p))
        THEN Append(Front(p), [req |-> 0, out |-> Last(p).out \o in])
        ELSE Append(p, [req |-> 0, out |-> in])]

(* The pieces before the first postponed request go out in order, stopping *)
(* at an error; that request, if any, becomes the active one.              *)
drained(s, q) ==
    LET p == s.req[q].postponed
        stop == SelectInSeq(p, LAMBDA i : ~IsOut(i))
        outs == IF stop = 0 THEN p ELSE SubSeq(p, 1, stop - 1)
        Each(ss, item) ==
            UNION {IF t.rc = "ERROR" THEN {t}
                   ELSE {IF w.rc = "ERROR" THEN w
                         ELSE Outcome([w EXCEPT !.req[q].postponed = Tail(@)],
                                      "OK") : w \in write_filter(t, item.out)}
                     : t \in ss}
        Wake(t) == post_request([t EXCEPT !.req[q].postponed = Tail(@),
                                          !.conn.data = p[stop].req],
                                p[stop].req)
    IN  {IF t.rc = "ERROR" \/ stop = 0 THEN t ELSE Wake(t) :
            t \in FoldLeft(Each, {s}, outs)}

(* Mutant: a request that is not the active one writes directly. *)
postpone_filterEager(s, q, in) ==
    IF s.req[q].postponed = <<>>
    THEN IF in # <<>> \/ s.conn.buffered THEN write_filter(s, in)
         ELSE {Outcome(s, "OK")}
    ELSE drained(IF in # <<>> THEN postpone_filter_add(s, q, in) ELSE s, q)

postpone_filter(s, q, in) ==
    IF q # s.conn.data
    THEN {Outcome(IF in # <<>> THEN postpone_filter_add(s, q, in) ELSE s, "OK")}
    ELSE IF s.req[q].postponed = <<>>
         THEN IF in # <<>> \/ s.conn.buffered THEN write_filter(s, in)
              ELSE {Outcome(s, "OK")}
    ELSE drained(IF in # <<>> THEN postpone_filter_add(s, q, in) ELSE s, q)

(* ngx_http_copy_filter: a buffer that is in a file may have to be read    *)
(* first; the read holds r->main->blocked and everything behind it waits.  *)
copy_aio_handler(s, q, in) ==
    Outcome([s EXCEPT !.req[q].copy = in, !.req[q].aio = TRUE,
                      !.conn.blocked = @ + 1], "AGAIN")

copy_filter(s, q, in) ==
    IF s.req[q].aio
    THEN {Outcome([s EXCEPT !.req[q].copy = @ \o in], "AGAIN")}
    ELSE postpone_filter([s EXCEPT !.req[q].copy = <<>>], q, s.req[q].copy \o in)
         \cup (IF Set.aio /\ s.req[q].copy = <<>> /\ ~Empty(in)
               THEN {copy_aio_handler(s, q, in)} ELSE {})

output_filter(q, in) == copy_filter(Start, q, in)
buffered(s, q) == s.req[q].copy # <<>>

Adopt(s) == req' = s.req /\ conn' = s.conn

-----------------------------------------------------------------------------
(* Phases and content handler. *)

phases ==
    /\ Top("phases")
    /\ req' = [req EXCEPT ![call[1].q].weh = "empty"]
    /\ Then(<<do("content", call[1].q)>>)
    /\ UNCHANGED <<conn, script>>

(* A piece of the response; the handler returns the error of the filters. *)
ContentWrites ==
    /\ Top("content")
    /\ LET q == call[1].q IN
       /\ ~req[q].post_action
       /\ Len(script[q]) < Set.outs
       /\ \E s \in output_filter(q, <<Piece(q, "data")>>) :
             /\ req' = IF s.rc = "ERROR"
                       THEN [s.req EXCEPT ![q].async = FALSE] ELSE s.req
             /\ conn' = s.conn
             /\ IF s.rc = "ERROR" THEN Then(<<finalize_with(q, "ERROR")>>)
                                  ELSE UNCHANGED call
       /\ script' = [script EXCEPT ![q] = Append(@, Piece(q, "data"))]

subrequest(q, sr, waited) ==
    [req |-> [req EXCEPT ![q].postponed = Append(@, [req |-> sr, out |-> <<>>]),
                         ![sr] = [Blank EXCEPT !.used = TRUE, !.parent = q,
                                     !.weh = "phases", !.waited = waited,
                                     !.reh = "empty"]],
     conn |-> [conn EXCEPT
        !.subrequests = @ - 1, !.count = @ + 1,
        !.data = IF @ = q /\ req[q].postponed = <<>> THEN sr ELSE @,
        !.posted = Append(@, sr)]]

ContentCreates ==
    /\ Top("content")
    /\ LET q == call[1].q
           sr == Cardinality(Used) + 1 IN
       /\ ~req[q].post_action
       /\ sr \in Reqs
       /\ req[q].copy = <<>>     \* the filters that create it are below
       /\ IF conn.subrequests = 1
          THEN /\ req' = [req EXCEPT ![q].async = FALSE]
               /\ Then(<<finalize_with(q, "ERROR")>>)
               /\ UNCHANGED <<conn, script>>
          ELSE /\ \E waited \in BOOLEAN : Adopt(subrequest(q, sr, waited))
               /\ script' = [script EXCEPT ![q] = Append(@,
                                [q |-> sr, n |-> 0, kind |-> "sub"])]
               /\ UNCHANGED call

(* The handler waits for an event: the first time it takes a reference and *)
(* returns NGX_DONE.                                                       *)
ContentWaits ==
    /\ Top("content")
    /\ conn.waits < Set.waits
    /\ LET q == call[1].q IN
       /\ req' = [req EXCEPT ![q].async = TRUE]
       /\ conn' = [conn EXCEPT !.waits = @ + 1,
                               !.count = IF req[q].async THEN @ ELSE @ + 1]
       /\ Then(IF req[q].async THEN <<>> ELSE <<finalize_with(q, "DONE")>>)
    /\ UNCHANGED script

EndPiece(q) == Piece(q, IF q = Main THEN "last" ELSE "sync")

ContentEnds ==
    /\ Top("content")
    /\ LET q == call[1].q IN
       /\ IF req[q].post_action
          THEN /\ req' = [req EXCEPT ![q].async = FALSE]
               /\ Then(<<finalize_with(q, "OK")>>)
               /\ UNCHANGED <<conn, script>>
          ELSE /\ \E s \in output_filter(q, <<EndPiece(q)>>) :
                     /\ Adopt([s EXCEPT !.req[q].async = FALSE])
                     /\ Then(<<finalize_with(q, s.rc)>>)
               /\ script' = [script EXCEPT ![q] = Append(@, EndPiece(q))]

ContentFails ==
    /\ Top("content")
    /\ LET q == call[1].q IN
       \E rc \in Set.failures :
          /\ rc = "SPECIAL" => script[q] = <<>> /\ ~req[q].post_action
          /\ req' = [req EXCEPT ![q].async = FALSE]
          /\ Then(<<finalize_with(q, rc)>>)
    /\ UNCHANGED <<conn, script>>

(* A handler that serves another location redirects and returns NGX_DONE. *)
ContentRedirects ==
    /\ Top("content")
    /\ LET q == call[1].q IN
       /\ Set.redirects /\ script[q] = <<>> /\ ~req[q].async /\ req[q].uri_changes # 0
       /\ Then(<<do("redirect", q), finalize_with(q, "DONE")>>)
    /\ UNCHANGED <<req, conn, script>>

-----------------------------------------------------------------------------
(* Redirects and special responses. *)

internal_redirect ==
    /\ Top("redirect")
    /\ LET q == call[1].q
           left == (req[q].uri_changes - 1) % 16 IN   \* unsigned uri_changes:4
       /\ req' = [req EXCEPT ![q].uri_changes = left,
                             ![q].weh = IF left = 0 THEN @ ELSE "phases"]
       /\ conn' = [conn EXCEPT !.count = @ + 1]
       /\ Then(IF left = 0 THEN <<finalize_with(q, "SPECIAL")>>
               ELSE <<do("phases", q)>>)
    /\ UNCHANGED script

special_response_handler ==
    /\ Top("special")
    /\ LET q == call[1].q IN
       IF Set.error_pages /\ ~req[q].error_page /\ req[q].uri_changes # 0
       THEN /\ req' = [req EXCEPT ![q].error_page = TRUE]
            /\ Then(<<do("redirect", q), finalize_with(q, "DONE")>>)
            /\ UNCHANGED <<conn, script>>
       ELSE IF req[q].post_action \/ script[q] # <<>>   \* header_only or sent
       THEN /\ Then(<<finalize_with(q,
                        IF req[q].post_action THEN "OK" ELSE "ERROR")>>)
            /\ UNCHANGED <<req, conn, script>>
       ELSE LET page == [EndPiece(q) EXCEPT !.kind =
                            IF q = Main THEN "page" ELSE "data"] IN
            /\ \E s \in output_filter(q, <<page>>) :
                  Adopt(s) /\ Then(<<finalize_with(q, s.rc)>>)
            /\ script' = [script EXCEPT ![q] = Append(@, page)]

post_action_wanted(q) ==
    /\ Set.post_action # "off"
    /\ (Set.post_action = "once") => ~req[q].post_action
    /\ ~(req[q].post_action /\ req[q].uri_changes = 0)

Broken(rc) == rc \in {"ERROR", "TIME_OUT", "CLOSED"} \/ conn.error

(* ngx_http_post_action *)
post_action(q) ==
    /\ req' = [req EXCEPT ![q].post_action = TRUE, ![q].reh = "block"]
    /\ conn' = [conn EXCEPT !.count = @ - 1, !.failed = @ \/ Broken(call[1].rc)]
    /\ Then(<<do("redirect", q)>>)

-----------------------------------------------------------------------------
(* Finalization. *)

alert(c, bad, text) == IF bad THEN c.alerts \cup {text} ELSE c.alerts

(* ngx_http_close_request *)
close_request(c) ==
    [c EXCEPT !.alerts = alert(c, c.count = 0, "count is zero"),
              !.count = @ - 1,
              !.life = IF c.count # 1 \/ c.blocked # 0 THEN @ ELSE "freed"]

(* ngx_http_finalize_connection: with one reference left the response is   *)
(* over and the connection goes to keepalive, lingering close or close.    *)
finalize_connection(c) ==
    IF c.count # 1 THEN close_request(c) ELSE [c EXCEPT !.life = "complete"]

(* Each waiting handler is cancelled: it finalizes its request with        *)
(* NGX_DONE.                                                               *)
cleanup(c) == [c EXCEPT !.cleaned = TRUE,
                 !.alerts = alert(c, c.count <= Cardinality(Waiting),
                                  "request freed by its own cleanup"),
                 !.count = @ - Cardinality(Waiting)]

(* ngx_http_terminate_request *)
terminate_request(r, c) ==
    LET quiet == [q \in Reqs |-> [r[q] EXCEPT !.async = FALSE]] IN
    IF c.blocked # 0
    THEN req' = quiet /\ conn' = cleanup(c)
    ELSE /\ req' = [quiet EXCEPT ![Main].weh = "terminate"]
         /\ conn' = [cleanup(c) EXCEPT !.posted = <<Main>>]

set_write_handler(q) ==
    /\ req' = [req EXCEPT ![q].reh = "test", ![q].weh = "writer"]
    /\ conn' = [conn EXCEPT !.timer = TRUE]

(* Mutant: the parent is not posted when its subrequest is over. *)
sub_doneUnposted(q) ==
    LET pr == req[q].parent
        p == req[pr].postponed IN
    [req |-> [req EXCEPT ![q].done = TRUE, ![q].logged = TRUE,
                ![pr].postponed = IF p # <<>> /\ p[1].req = q THEN Tail(p) ELSE p],
     conn |-> [conn EXCEPT !.count = @ - 1, !.subrequests = @ + 1, !.data = pr]]

(* A subrequest that is the active one is over: its parent is active again *)
(* and is posted.                                                          *)
sub_done(q) ==
    LET pr == req[q].parent
        p == req[pr].postponed IN
    [req |-> [req EXCEPT ![q].done = TRUE, ![q].logged = TRUE,
                ![pr].postponed = IF p # <<>> /\ p[1].req = q THEN Tail(p) ELSE p],
     conn |-> [conn EXCEPT !.count = @ - 1, !.subrequests = @ + 1,
                 !.data = pr, !.posted = Append(@, pr),
                 !.alerts = alert(conn, req[q].logged,
                                  "logged again")]]

(* A subrequest that is not active finalizes again when its turn comes. *)
sub_waits(q) ==
    [req |-> [req EXCEPT ![q].weh = "finalizer",
                         ![q].done = @ \/ req[q].waited],
     conn |-> [conn EXCEPT !.posted = Append(@, req[q].parent)]]

main_pending ==
    \/ buffered(State, Main) \/ conn.buffered
    \/ req[Main].postponed # <<>> \/ conn.blocked # 0

main_done ==
    IF post_action_wanted(Main)
    THEN post_action(Main)
    ELSE /\ req' = [req EXCEPT ![Main].done = TRUE, ![Main].weh = "empty"]
         /\ conn' = [finalize_connection(conn) EXCEPT !.timer = FALSE,
                                                      !.delayed = FALSE]
         /\ Then(<<>>)

finalize ==
    /\ Top("finalize")
    /\ UNCHANGED script
    /\ LET q == call[1].q
           rc == call[1].rc IN
       IF rc = "DONE"
       THEN conn' = finalize_connection(conn) /\ Then(<<>>) /\ UNCHANGED req
       ELSE IF Broken(rc)
       THEN IF post_action_wanted(q) THEN post_action(q)
            ELSE /\ terminate_request(
                       IF conn.blocked # 0
                       THEN [req EXCEPT ![q].weh = "finalizer"] ELSE req, conn)
                 /\ Then(<<>>)
       ELSE IF rc = "CLOSE" THEN terminate_request(req, conn) /\ Then(<<>>)
       ELSE IF rc = "SPECIAL"
       THEN /\ conn' = [conn EXCEPT !.timer = @ /\ q # Main]
            /\ Then(<<do("special", q)>>) /\ UNCHANGED req
       ELSE IF q # Main
       THEN /\ IF buffered(State, q) \/ req[q].postponed # <<>>
               THEN set_write_handler(q)
               ELSE Adopt(IF q = conn.data THEN sub_done(q) ELSE sub_waits(q))
            /\ Then(<<>>)
       ELSE IF main_pending
       THEN set_write_handler(q) /\ Then(<<>>)
       ELSE IF q # conn.data
       THEN /\ conn' = [conn EXCEPT !.alerts = @ \cup {"non-active request"}]
            /\ Then(<<>>) /\ UNCHANGED req
       ELSE main_done

terminate_handler ==
    /\ Top("terminate")
    /\ conn' = close_request([conn EXCEPT !.count = 1])
    /\ Then(<<>>)
    /\ UNCHANGED <<req, script>>

request_finalizer ==
    /\ Top("finalizer")
    /\ Then(<<finalize_with(call[1].q, "OK")>>)
    /\ UNCHANGED <<req, conn, script>>

(* ngx_http_writer *)
writer ==
    /\ Top("writer")
    /\ UNCHANGED script
    /\ LET q == call[1].q IN
       IF conn.delayed \/ req[q].aio
       THEN Then(<<>>) /\ UNCHANGED <<req, conn>>
       ELSE \E s \in output_filter(q, <<>>) :
            IF s.rc = "ERROR"
            THEN Adopt(s) /\ Then(<<finalize_with(q, "ERROR")>>)
            ELSE IF \/ buffered(s, q) \/ s.req[q].postponed # <<>>
                    \/ q = Main /\ s.conn.buffered
            THEN Adopt([s EXCEPT !.conn.timer = TRUE]) /\ Then(<<>>)
            ELSE /\ Adopt([s EXCEPT !.req[q].weh = "empty"])
                 /\ Then(<<finalize_with(q, s.rc)>>)

empty_handler ==
    /\ Top("empty")
    /\ Then(<<>>)
    /\ UNCHANGED <<req, conn, script>>

-----------------------------------------------------------------------------
(* The event loop. *)

AtLoop == call = <<>> /\ conn.life = "open"

run_posted_requests ==
    /\ AtLoop /\ conn.posted # <<>>
    /\ conn' = [conn EXCEPT !.posted = Tail(@)]
    /\ call' = <<do(req[Head(conn.posted)].weh, Head(conn.posted))>>
    /\ UNCHANGED <<req, script>>

Event == AtLoop /\ conn.posted = <<>>

(* A write event runs the handler of the active request. *)
request_handler == call' = <<do(req[conn.data].weh, conn.data)>>

Writable ==
    /\ Event
    /\ conn.buffered /\ ~conn.delayed
    /\ request_handler
    /\ UNCHANGED <<req, conn, script>>

WriteTimer ==
    /\ Event /\ conn.timer
    /\ IF conn.delayed
       THEN conn' = [conn EXCEPT !.timer = FALSE, !.delayed = FALSE] /\ request_handler
       ELSE /\ conn' = [conn EXCEPT !.timer = FALSE]
            /\ IF req[conn.data].weh = "writer"
               THEN call' = <<finalize_with(conn.data, "TIME_OUT")>>
               ELSE request_handler
    /\ UNCHANGED <<req, script>>

(* ngx_http_test_reading: the client has gone. *)
test_reading ==
    /\ Event
    /\ ~conn.error
    /\ req[conn.data].reh = "test"
    /\ conn' = [conn EXCEPT !.error = TRUE]
    /\ call' = <<finalize_with(conn.data, "CLOSED")>>
    /\ UNCHANGED <<req, script>>

(* An event a content handler waited for. *)
ContentResumes ==
    /\ Event
    /\ \E q \in Waiting : call' = <<do("content", q)>>
    /\ UNCHANGED <<req, conn, script>>

copy_aio_event_handler ==
    /\ Event
    /\ \E q \in Reqs :
          /\ req[q].aio
          /\ req' = [req EXCEPT ![q].aio = FALSE]
          /\ conn' = [conn EXCEPT !.blocked = @ - 1]
    /\ request_handler
    /\ UNCHANGED script

Step ==
    \/ phases \/ ContentWrites \/ ContentCreates \/ ContentWaits \/ ContentEnds
    \/ ContentFails \/ ContentRedirects \/ internal_redirect \/ special_response_handler
    \/ finalize \/ terminate_handler \/ request_finalizer \/ writer
    \/ empty_handler \/ run_posted_requests

Over == conn.life # "open" /\ UNCHANGED vars

Next == \/ Step \/ Writable \/ WriteTimer \/ test_reading
        \/ ContentResumes \/ copy_aio_event_handler \/ Over

Spec == Init /\ [][Next]_vars

-----------------------------------------------------------------------------
(* Properties. *)

TypeOK ==
    /\ conn.count \in 0..2 * Set.reqs + 2 /\ conn.blocked \in 0..Set.reqs
    /\ conn.data \in Used /\ conn.life \in {"open", "complete", "freed"}
    /\ \A q \in Used : req[q].uri_changes \in 0..15
    /\ \A i \in 1..Len(conn.posted) : conn.posted[i] \in Used

(* The program's own assertions: the output chain is not empty when        *)
(* something must be sent, a finished subrequest is not finished again,    *)
(* the main request ends as the active one, its count is not zero at a     *)
(* close, and cancelling what waits does not free the request under        *)
(* terminate_request.                                                      *)
NoAlerts == conn.alerts = {}

(* What the tree says: the output of a subrequest stands where it was      *)
(* created.                                                                *)
tree[q \in Reqs] ==
    FlattenSeq([i \in 1..Len(script[q]) |->
        IF script[q][i].kind = "sub" THEN tree[script[q][i].q]
        ELSE <<script[q][i]>>])

(* Whatever the order in which requests of the tree run, what is written   *)
(* to the client is a prefix of the tree's output.                         *)
OutputInOrder == IsPrefix(conn.sent \o conn.out, tree[Main])

(* Between events every request of the tree that is not finished holds     *)
(* exactly one reference on the main request.                              *)
OneReferenceEach ==
    Event /\ ~conn.cleaned =>
        conn.count = Cardinality({q \in Used : ~req[q].logged})

(* A response that ends without a failure has sent everything the tree     *)
(* wrote, and nothing is left that could touch the request.                *)
WholeAtEnd ==
    conn.life = "complete" /\ ~conn.failed =>
        /\ conn.sent = tree[Main]
        /\ \A q \in Used \ {Main} : req[q].logged
        /\ Waiting = {} /\ conn.blocked = 0

(* Every request ends. *)
Terminates == <>(conn.life # "open")
=============================================================================
