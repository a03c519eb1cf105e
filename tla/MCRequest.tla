----------------------------- MODULE MCRequest ------------------------------
(*****************************************************************************)
(* A client connection, the requests read from it, the tree of subrequests   *)
(* of one request, and the phases each of them runs through.                 *)
(*****************************************************************************)
EXTENDS NgxPhases, TLC

VARIABLES part,   \* the component that runs
          req, conn, call, script, c, sent, peer, exiting, fed, ctx, rc, over


(* A server whose locations rewrite, redirect and refer to each other: A rewrites and uses              *)
(* X-Accel-Redirect, B asks for any of its rules and has an error page and try_files, I is internal,    *)
(* @n is named; everything C and D do leads back to C and D, and L refuses large bodies.                *)
MCUris == {"/a", "/b", "/i", "/c", "/d", "/l"}
MCLocOf == [u \in MCUris |-> CASE u = "/a" -> "A" [] u = "/b" -> "B" [] u = "/i" -> "I"
                               [] u = "/c" -> "C" [] u = "/d" -> "D" [] u = "/l" -> "L"]
Plain == [internal |-> FALSE, satisfy |-> "all", rewrites |-> {}, redirects |-> {},
          try_files |-> "none", errors |-> "none", recursive |-> FALSE, handler |-> FALSE,
          too_large |-> FALSE, post_action |-> "none"]
MCLocs == [l \in {"server", "A", "B", "I", "@n", "C", "D", "@m", "L"} |->
             CASE l = "server" -> [Plain EXCEPT !.rewrites = {"/b", "/i"}]
               [] l = "A" -> [Plain EXCEPT !.rewrites = {"/b"}, !.redirects = {"/i"}]
               [] l = "B" -> [Plain EXCEPT !.satisfy = "any", !.errors = "@n", !.try_files = "@n"]
               [] l = "I" -> [Plain EXCEPT !.internal = TRUE, !.handler = TRUE, !.errors = "/b"]
               [] l = "@n" -> [Plain EXCEPT !.rewrites = {"/a"}, !.try_files = "404",
                                            !.recursive = TRUE]
               [] l = "C" -> [Plain EXCEPT !.errors = "/d", !.recursive = TRUE, !.rewrites = {"/d"},
                                           !.post_action = "/d"]
               [] l = "D" -> [Plain EXCEPT !.errors = "@m", !.recursive = TRUE, !.rewrites = {"/c"},
                                           !.post_action = "@m"]
               [] l = "@m" -> [Plain EXCEPT !.errors = "/c", !.recursive = TRUE]
               [] l = "L" -> [Plain EXCEPT !.too_large = TRUE]]
MCHandlers == [post_read |-> 0, server_rewrite |-> 1, rewrite |-> 1, preaccess |-> 1,
               access |-> 2, content |-> 2]

(* What clients send on a connection: blank lines before, the length of the line and of each header. *)
Msg(ver, keep, blank, line, hdrs) ==
    [ver |-> ver, conn |-> keep, blank |-> blank, line |-> line, hdrs |-> hdrs,
     host |-> TRUE, te |-> "none", len |-> -1, chunks |-> <<>>]
Post(m, n) == [m EXCEPT !.len = n]
InChunks(m, b) == [m EXCEPT !.te = "chunked", !.chunks = b]
(* pipelined requests whose lines and headers outgrow the first buffer *)
ReqsLarge == <<Msg(11, "none", 1, 4, <<2, 3>>), Msg(11, "none", 0, 2, <<3>>),
               Msg(10, "none", 0, 4, <<2>>)>>
(* bodies, the last one followed by a request *)
ReqsBody == <<Post(Msg(11, "none", 0, 1, <<1>>), 4), Post(Msg(10, "keep", 0, 1, <<2>>), 3),
              [Msg(11, "close", 0, 1, <<>>) EXCEPT !.te = "unknown"]>>
(* a chunk within client_max_body_size = 1, then one that exceeds it *)
ReqsChunked ==
    <<InChunks(Msg(11, "none", 0, 1, <<1>>), <<"1", "LF", "x", "CR", "LF", "0", "LF", "LF">>),
      InChunks(Msg(11, "none", 0, 1, <<>>), <<"2", "LF", "x", "x", "LF", "0", "LF", "LF">>),
      Msg(11, "close", 0, 1, <<>>)>>
(* a request without Host on a TLS port, then HTTP/0.9 *)
ReqsBad == <<Msg(11, "keep", 0, 1, <<1>>), [Post(Msg(11, "keep", 0, 1, <<>>), 2) EXCEPT !.host = FALSE],
             Msg(9, "none", 0, 1, <<>>)>>
(* a request line longer than the buffers *)
ReqsLine == <<Msg(11, "none", 0, 1, <<>>), Msg(11, "none", 0, 4, <<1>>)>>

(* One setting for each thing the code of a connection does differently. *)
ConnSetting(reqs, header, large, num, body, answers) ==
    [reqs |-> reqs, header_buf |-> header, large_size |-> large, large_num |-> num, body_buf |-> 2,
     max_body |-> body, lingering |-> "on", keepalive |-> TRUE, ssl |-> FALSE, answers |-> answers]
ConnSettings ==
    [w \in {"body", "chunked", "errors", "large", "limits"} |->
       CASE w = "body" -> ConnSetting(ReqsBody, 4, 4, 1, 0, {"read", "content", "404", "413"})
         [] w = "chunked" -> [ConnSetting(ReqsChunked, 4, 4, 1, 1, {"read", "content"})
                                EXCEPT !.lingering = "always"]
         [] w = "errors" -> [ConnSetting(ReqsBad, 2, 2, 1, 0, {"read", "content", "404"})
                               EXCEPT !.lingering = "off", !.ssl = TRUE]
         [] w = "large" -> ConnSetting(ReqsLarge, 3, 6, 2, 0, {"content"})
         [] w = "limits" -> ConnSetting(ReqsLine, 3, 2, 1, 0, {"content"})]

(* A tree of three requests; one whose files are read asynchronously; and all the ways a request ends. *)
TreeSetting(reqs, outs, waits, post) ==
    [reqs |-> reqs, outs |-> outs, waits |-> waits, subs |-> reqs - 1, aio |-> FALSE, limit_rate |-> FALSE,
     postpone_output |-> 1, error_pages |-> FALSE, post_action |-> post, failures |-> {}, redirects |-> FALSE]
TreeSettings ==
    [w \in {"tree", "aio", "ends"} |->
       CASE w = "tree" -> TreeSetting(3, 2, 1, "off")
         [] w = "aio" -> [TreeSetting(3, 1, 0, "off") EXCEPT !.aio = TRUE]
         [] w = "ends" -> [TreeSetting(2, 1, 0, "inherited")
                             EXCEPT !.limit_rate = TRUE, !.postpone_output = 2, !.error_pages = TRUE,
                                    !.failures = {"ERROR", "SPECIAL", "CLOSE"}, !.redirects = TRUE]]

-----------------------------------------------------------------------------
Tree == INSTANCE NgxRequest WITH
    Settings <- TreeSettings, MaxUriChanges <- 2
Conn == INSTANCE NgxConnection WITH
    Settings <- ConnSettings

(* A chunked body taken from the socket by ngx_http_discard_request_body(): fed is what the client has sent,
   over how many bytes of the last read follow the body; the first buffer is what was read along with the
   header, every further read is bounded by the promise of the parser. *)
ByteClasses == {"0", "1", "CR", "LF", "x"}
MaxBytes == 6
BodyInit == fed = <<>> /\ ctx = Conn!NewChunked /\ rc = "AGAIN" /\ over = 0
Feed(bytes) ==
    LET f == Conn!FilterChunked(ctx, bytes) IN
    /\ rc = "AGAIN"
    /\ Len(fed) + Len(bytes) <= MaxBytes
    /\ fed' = fed \o bytes
    /\ ctx' = f.ctx
    /\ rc' = f.rc
    /\ over' = Len(bytes) - f.used
(* what header_in holds *)
Preread == /\ fed = <<>> /\ ctx.length = 0
           /\ \E n \in 0..3 : \E bytes \in [1..n -> ByteClasses] : Feed(bytes)
(* ngx_http_read_discarded_request_body(): at most content_length_n bytes *)
ReadMore == /\ ctx.length > 0
            /\ \E n \in 1..(IF ctx.length < 3 THEN ctx.length ELSE 3) :
                  \E bytes \in [1..n -> ByteClasses] : Feed(bytes)
(* the client sends no more *)
NoMoreBody == UNCHANGED <<fed, ctx, rc, over>>
BodyNext == Preread \/ ReadMore \/ NoMoreBody
(* However the bytes are cut into reads, the filter ends where one pass over all of them ends: ctx carries
   everything from one call to the next. *)
SplitIndependent ==
    LET whole == Conn!FilterChunked(Conn!NewChunked, fed) IN
    fed # <<>> => /\ whole.rc = rc
                  /\ whole.ctx.state = ctx.state
                  /\ rc = "AGAIN" => whole.ctx = ctx

(* the variables of the components that do not run are idle, those of NgxPhases in an initial state *)
IdleNgxPhases == req = "idle" /\ conn = "idle" /\ call = "idle" /\ script = "idle" /\ c = "idle" /\ sent = "idle"
    /\ peer = "idle" /\ exiting = "idle" /\ fed = "idle" /\ ctx = "idle" /\ rc = "idle" /\ over = "idle"
KeepNgxPhases == UNCHANGED <<part, req, conn, call, script, c, sent, peer, exiting, fed, ctx, rc, over>>
IdleNgxRequest == Init /\ r.main /\ r.uri = "/a" /\ c = "idle" /\ sent = "idle" /\ peer = "idle" /\ exiting = "idle"
    /\ fed = "idle" /\ ctx = "idle" /\ rc = "idle" /\ over = "idle"
KeepNgxRequest == UNCHANGED <<part, r, c, sent, peer, exiting, fed, ctx, rc, over>>
IdleNgxConnection == Init /\ r.main /\ r.uri = "/a" /\ req = "idle" /\ conn = "idle" /\ call = "idle" /\ script = "idle"
    /\ fed = "idle" /\ ctx = "idle" /\ rc = "idle" /\ over = "idle"
KeepNgxConnection == UNCHANGED <<part, r, req, conn, call, script, fed, ctx, rc, over>>
IdleBody == Init /\ r.main /\ r.uri = "/a" /\ req = "idle" /\ conn = "idle" /\ call = "idle" /\ script = "idle"
    /\ c = "idle" /\ sent = "idle" /\ peer = "idle" /\ exiting = "idle"
KeepBody == UNCHANGED <<part, r, req, conn, call, script, c, sent, peer, exiting>>

MCInit ==
    \/ part = "phases" /\ Init /\ IdleNgxPhases
    \/ part = "tree" /\ Tree!Init /\ IdleNgxRequest
    \/ part = "connection" /\ Conn!ConnInit /\ IdleNgxConnection
    \/ part = "chunks" /\ BodyInit /\ IdleBody
MCNext ==
    \/ part = "phases" /\ Next /\ KeepNgxPhases
    \/ part = "tree" /\ Tree!Next /\ KeepNgxRequest
    \/ part = "connection" /\ Conn!Next /\ KeepNgxConnection
    \/ part = "chunks" /\ BodyNext /\ KeepBody
mcvars == <<part, r, req, conn, call, script, c, sent, peer, exiting, fed, ctx, rc, over>>
(* The event loop runs handlers to their end; what a handler waits for comes, if only as its timer. *)
Works == \/ part = "phases" /\ Next /\ KeepNgxPhases
         \/ part = "tree" /\ Tree!Step /\ KeepNgxRequest
         \/ part = "connection" /\ Conn!TimerExpires /\ KeepNgxConnection
Goes(A) == part = "phases" /\ A /\ r'.state # "wait" /\ KeepNgxPhases
Comes(A) == part = "tree" /\ A /\ KeepNgxRequest
MCFair == /\ WF_mcvars(Works)
          /\ SF_mcvars(Goes(Generic) \/ Comes(Tree!WriteTimer))
          /\ SF_mcvars(Goes(Access) \/ Comes(Tree!ContentResumes))
          /\ SF_mcvars(Goes(Content) \/ Comes(Tree!copy_aio_event_handler))
          /\ ([]<>(part # "connection" \/ ~Conn!ServerReady)) \/ ([]<><<TRUE>>_c)
MCSpec == MCInit /\ [][MCNext]_mcvars /\ MCFair

-----------------------------------------------------------------------------
(* A tree of requests that write, wait and end in any order while the client takes any prefix: what is
   sent is a prefix of what the tree says, and all of it when the response ends without a failure; every
   request of the tree that is not finished holds one reference, and no alert of the program is raised.
   The phases of a request keep the invariant of NgxPhases. *)
RequestSafe ==
    /\ IndInv
    /\ part = "tree" => Tree!OutputInOrder /\ Tree!WholeAtEnd /\ Tree!OneReferenceEach /\ Tree!NoAlerts
(* A connection cuts every request, header and body out of the stream where the client put it, gives a
   handler that asked for the body all of it, keeps its large buffers within their arrays, and never waits
   without a timer; a chunked body ends at the same byte however it is cut into reads. *)
ConnectionSafe ==
    /\ part = "connection" => Conn!FramedRight /\ Conn!WholeBody /\ Conn!LargeBuffers /\ Conn!WaitHasTimer
    /\ part = "chunks" => SplitIndependent
(* Requests and connections end: cycles of rewrites, error pages and post actions are cut, every request
   of a tree is resumed, and no connection waits for ever for its client. *)
RequestsEnd ==
    <>(\/ part = "chunks"
       \/ part = "phases" /\ r.state = "done"
       \/ part = "tree" /\ conn.life # "open"
       \/ part = "connection" /\ c.h = "closed")
=============================================================================
