--------------------------- MODULE NgxConnection ---------------------------
(***************************************************************************)
(* One client connection of the HTTP server: waiting for a request, reading *)
(* the request line and the headers through client_header_buffer and the   *)
(* large header buffers, reading or discarding the body, keeping the       *)
(* connection alive for the next (possibly pipelined) request, lingering   *)
(* close.  The phases, the content and the output filters are NgxRequest's *)
(* and NgxPhases' subject: here a request that was read is answered in one *)
(* of the ways of answers, and its response takes a while to be sent.      *)
(*                                                                         *)
(* The client sends the bytes of reqs in order and cuts them into packets  *)
(* as it likes, may stop for ever, close or reset.  Bytes are abstracted   *)
(* to tokens; a buffer holds the positions in the stream of its tokens, so *)
(* that a property can tell where every token ended up.  A handler's loop  *)
(* takes one step per c->recv() or per parsed line.                        *)
(***************************************************************************)
EXTENDS Integers, Sequences, SequencesExt, FiniteSets

CONSTANT Settings   \* by name: what the client sends, and the directives of the server
(* reqs: the requests the client sends; header_buf: client_header_buffer_size;
   large_size, large_num: large_client_header_buffers (the same in every server
   block); body_buf: client_body_buffer_size; max_body: client_max_body_size as
   the chunked filter sees it, 0: none; lingering: lingering_close; keepalive:
   keepalive_timeout > 0; ssl: the port speaks TLS; answers: what the phases
   do, a subset of {"read", "content", "404", "413"} *)

VARIABLES
    c,         \* ngx_connection_t, ngx_http_connection_t, ngx_http_request_t
    sent,      \* how many tokens the client has sent
    peer,      \* "open", "fin" or "rst"
    exiting    \* ngx_exiting
cvars == <<c, sent, peer, exiting>>

-----------------------------------------------------------------------------
(* A chunked body: ngx_http_parse_chunked(), the incremental parser, with the   *)
(* loop of the body filters around it.  A byte is one of the classes the parser *)
(* tells apart: the hexadecimal digits "0" "1" "2", "CR", "LF", ";" (also blank *)
(* and tab) and anything else.  The parser promises in ctx.length how many      *)
(* bytes the body still has at least, and its callers read no more than that,   *)
(* so that the first bytes of the next pipelined request stay in the socket.    *)
Digits == {"0", "1", "2"}
Value(ch) == CASE ch = "0" -> 0 [] ch = "1" -> 1 [] ch = "2" -> 2

ChunkStates == {"start", "size", "ext", "extCR", "data", "after", "afterCR",
                "lastExt", "lastExtCR", "trailer", "trailerCR", "trailerHdr",
                "trailerHdrCR", "done", "invalid"}

(* ngx_http_chunked_t, zeroed by ngx_pcalloc() *)
NewChunked == [state |-> "start", size |-> 0, length |-> 0]

(* the bytes that follow a chunk size: end of line, an extension, or an error *)
AfterSize(ch, cr, lf, ext) ==
    CASE ch = "CR" -> cr [] ch = "LF" -> lf [] ch = ";" -> ext
      [] OTHER -> "invalid"

(* one byte in every state but "data", where the bytes belong to the caller *)
ChunkByte(ctx, ch) ==
    LET To(s) == [ctx EXCEPT !.state = s]
        OnlyLF(s) == To(IF ch = "LF" THEN s ELSE "invalid")
        Line(cr, lf) == To(CASE ch = "CR" -> cr [] ch = "LF" -> lf
                             [] OTHER -> ctx.state)
    IN  CASE ctx.state = "start" ->
               IF ch \in Digits
               THEN [ctx EXCEPT !.state = "size", !.size = Value(ch)]
               ELSE To("invalid")
          [] ctx.state = "size" ->
               IF ch \in Digits
               THEN [ctx EXCEPT !.size = @ * 16 + Value(ch)]
               ELSE IF ctx.size = 0
               THEN To(AfterSize(ch, "lastExtCR", "trailer", "lastExt"))
               ELSE To(AfterSize(ch, "extCR", "data", "ext"))
          [] ctx.state = "ext" -> Line("extCR", "data")
          [] ctx.state = "extCR" -> OnlyLF("data")
          [] ctx.state = "after" -> Line("afterCR", "start")
          [] ctx.state = "afterCR" -> OnlyLF("start")
          [] ctx.state = "lastExt" -> Line("lastExtCR", "trailer")
          [] ctx.state = "lastExtCR" -> OnlyLF("trailer")
          [] ctx.state = "trailer" ->
               To(CASE ch = "CR" -> "trailerCR" [] ch = "LF" -> "done"
                    [] OTHER -> "trailerHdr")
          [] ctx.state = "trailerCR" -> OnlyLF("done")
          [] ctx.state = "trailerHdr" -> Line("trailerHdrCR", "trailer")
          [] ctx.state = "trailerHdrCR" -> OnlyLF("trailer")
          [] OTHER -> ctx

(* the fewest bytes that can still follow *)
ChunkLength(state, size) ==
    CASE state = "start" -> 3
      [] state = "size" -> 1 + (IF size # 0 THEN size + 4 ELSE 1)
      [] state \in {"ext", "extCR"} -> 1 + size + 4
      [] state = "data" -> size + 4
      [] state \in {"after", "afterCR"} -> 4
      [] state \in {"lastExt", "lastExtCR", "trailerHdr", "trailerHdrCR"} -> 2
      [] state \in {"trailer", "trailerCR"} -> 1
      [] OTHER -> 0

(* the entry of ngx_http_parse_chunked(): a consumed chunk is followed by CRLF *)
Resume(ctx) ==
    IF ctx.state = "data" /\ ctx.size = 0 THEN [ctx EXCEPT !.state = "after"]
    ELSE ctx

(* ngx_http_parse_chunked() on the bytes that remain in the buffer: OK with
   the buffer at the first data byte, DONE after the last byte of the body,
   AGAIN at the end of the buffer, ERROR.  at[i] is ctx after i bytes. *)
ChunkStop(at, n) ==
    LET stops == {i \in 0..n : \/ at[i].state \in {"done", "invalid"}
                               \/ at[i].state = "data" /\ i < n}
    IN  IF stops = {} THEN n ELSE CHOOSE k \in stops : \A m \in stops : k <= m
ChunkResult(end, i, n) ==
    [rc |-> CASE end.state = "done" -> "DONE" [] end.state = "invalid" -> "ERROR"
              [] end.state = "data" /\ i < n -> "OK" [] OTHER -> "AGAIN",
     ctx |-> [end EXCEPT !.length = ChunkLength(end.state, end.size)],
     used |-> i]
ParseChunked(ctx0, bytes) ==
    LET at[i \in 0..Len(bytes)] == IF i = 0 THEN Resume(ctx0)
                                   ELSE ChunkByte(at[i - 1], bytes[i])
        Result(run, n, i) == ChunkResult(run[i], i, n)
        Whole(run, n) == Result(run, n, ChunkStop(run, n))
    IN  Whole(at, Len(bytes))

(* the loop of the body filters: parse, then take the data of the chunk.
   took counts the data bytes, peak the largest took + size seen at a chunk. *)
TakeChunk(s, p, left) ==
    LET m == IF left < p.ctx.size THEN left ELSE p.ctx.size
    IN  IF p.rc = "OK"
        THEN [rc |-> "OK", ctx |-> [p.ctx EXCEPT !.size = @ - m], used |-> s.used + p.used + m,
              took |-> s.took + m, peak |-> s.took + p.ctx.size]
        ELSE [s EXCEPT !.rc = p.rc, !.ctx = p.ctx, !.used = s.used + p.used]
FilterChunked(ctx0, bytes) ==
    LET n == Len(bytes)
        Take(s, p) == TakeChunk(s, p, n - s.used - p.used)
        Turn(s) == IF s.rc # "OK" THEN s ELSE Take(s, ParseChunked(s.ctx, SubSeq(bytes, s.used + 1, n)))
        loop[k \in 0..(2 * n + 2)] ==
            IF k = 0 THEN [rc |-> "OK", ctx |-> ctx0, used |-> 0, took |-> 0, peak |-> 0]
            ELSE Turn(loop[k - 1])
    IN  loop[2 * n + 2]

-----------------------------------------------------------------------------
(* The client's stream *)
Times(n, k) == [i \in 1..(IF n > 0 THEN n ELSE 0) |-> k]
BodyOf(m) == IF m.te = "chunked" THEN m.chunks ELSE Times(m.len, "b")
HeadersOf(m) == FlattenSeq([j \in DOMAIN m.hdrs |-> Append(Times(m.hdrs[j] - 1, "h"), "H")])
Wire(m) == Times(m.blank, "nl") \o Append(Times(m.line - 1, "l"), "L")
           \o (IF m.ver = 9 THEN <<>> ELSE Append(HeadersOf(m), "E") \o BodyOf(m))
WireOf(reqs) == FlattenSeq([q \in DOMAIN reqs |-> Wire(reqs[q])])
Offset(reqs, q) == Len(WireOf(SubSeq(reqs, 1, q - 1))) + reqs[q].blank
Range2(a, n) == [i \in 1..n |-> a + i]
LineOf(reqs, q) == Range2(Offset(reqs, q), reqs[q].line)
HeaderOf(reqs, q, j) ==
    Range2(Offset(reqs, q) + reqs[q].line
           + Len(FlattenSeq([i \in 1..(j - 1) |-> Times(reqs[q].hdrs[i], "h")])), reqs[q].hdrs[j])
BodyPlace(reqs, q) == Range2(Offset(reqs, q) + reqs[q].line + Len(HeadersOf(reqs[q])) + 1,
                             Len(BodyOf(reqs[q])))
Streams == [w \in DOMAIN Settings |-> WireOf(Settings[w].reqs)]

(* the settings of the connection in hand *)
Set == Settings[c.set]
Reqs == Set.reqs
Stream == Streams[c.set]

Kinds(idx) == [i \in DOMAIN idx |-> Stream[idx[i]]]
Min2(a, b) == IF a < b THEN a ELSE b

-----------------------------------------------------------------------------
(* c->recv() *)
Waiting(s) == sent - s.rd
Readable(s) == Waiting(s) > 0 \/ peer # "open"
Recv(s, room) == Range2(s.rd, Min2(room, Waiting(s)))

NoBuf == [d |-> <<>>, p |-> 0]
NoRequest == [q |-> 0]
(* ngx_http_create_request(); q counts the requests of the connection *)
create_request(s) ==
    [s EXCEPT !.requests = @ + 1,
              !.hin = IF s.busy # <<>> THEN s.busy[1] ELSE 0,
              !.r = [q |-> s.requests + 1, state |-> 0, start |-> 0, line |-> <<>>,
                     hdrs |-> <<>>, len |-> -1, chunked |-> FALSE, keepalive |-> FALSE,
                     lingering |-> FALSE, count |-> 1, reading |-> FALSE,
                     hasBody |-> FALSE, rest |-> -1, cap |-> 0, fill |-> 0,
                     pend |-> <<>>, ctx |-> NewChunked, body |-> <<>>, discard |-> FALSE,
                     given |-> FALSE, bad |-> FALSE, resp |-> "no"]]

Size(b) == IF b = 0 THEN Set.header_buf ELSE Set.large_size
Rest(s) == LET b == s.buf[s.hin] IN SubSeq(b.d, b.p + 1, Len(b.d))
Empty(s) == Rest(s) = <<>>

(* ngx_http_close_connection(), the pools and the buffers with it *)
Closed(s) == [s EXCEPT !.h = "closed", !.r = NoRequest, !.timer = FALSE, !.reuse = FALSE,
                       !.busy = <<>>, !.free = <<>>, !.hin = 0,
                       !.buf = [b \in DOMAIN @ |-> NoBuf]]
(* ngx_http_close_request() *)
close_request(s) ==
    IF s.r.count > 1 THEN [s EXCEPT !.r.count = @ - 1] ELSE Closed(s)

-----------------------------------------------------------------------------
(* ngx_http_set_keepalive() *)
(* all the large buffers but the last one, which holds the next request *)
FreeLarge(s) ==
    LET old == Front(s.busy) IN
    [s EXCEPT !.free = @ \o old, !.busy = <<s.hin>>,
              !.buf = [b \in DOMAIN @ |-> IF b \in Range(old) THEN NoBuf ELSE @[b]]]

(* the next request is already in the buffer: its handler is posted *)
Pipelined(s) == [create_request(s) EXCEPT !.timer = FALSE, !.h = "line"]

(* an idle connection keeps no buffer memory *)
Idle(s) == [s EXCEPT !.buf = [b \in DOMAIN @ |-> NoBuf], !.busy = <<>>, !.free = <<>>,
                     !.hin = 0, !.r = NoRequest, !.h = "keepalive", !.reuse = TRUE,
                     !.timer = TRUE]

set_keepalive(s) ==
    CASE s.r.discard -> [s EXCEPT !.timer = TRUE]
      [] ~s.r.discard /\ ~Empty(s) ->
           Pipelined(IF s.hin # 0 THEN FreeLarge(s) ELSE s)
      [] OTHER -> Idle(s)

(* ngx_http_set_lingering_close() *)
set_lingering_close(s) == [s EXCEPT !.h = "linger", !.timer = TRUE]

(* the branch count # 1 of ngx_http_finalize_connection() *)
StillDiscarding(s) ==
    close_request(IF s.r.discard THEN [s EXCEPT !.timer = TRUE] ELSE s)

(* ngx_http_finalize_connection() *)
finalize_connection(s) ==
    CASE s.r.count # 1 -> StillDiscarding(s)
      [] s.r.count = 1 /\ ~exiting /\ s.r.keepalive /\ Set.keepalive -> set_keepalive(s)
      [] s.r.count = 1 /\ ~(~exiting /\ s.r.keepalive /\ Set.keepalive) ->
           IF \/ Set.lingering = "always"
              \/ Set.lingering = "on" /\ (s.r.lingering \/ ~Empty(s) \/ Readable(s))
           THEN set_lingering_close(s) ELSE close_request(s)

-----------------------------------------------------------------------------
(* The body.  ngx_http_request_body_length_filter(), _chunked_filter(): the
   tokens taken join r.body; rest is what is still wanted, at least. *)
LengthFilter(r, idx) ==
    LET rest == IF r.rest = -1 THEN r.len ELSE r.rest
        n == Min2(Len(idx), rest)
    IN  [rc |-> "OK", used |-> n,
         r |-> [r EXCEPT !.rest = rest - n, !.body = @ \o SubSeq(idx, 1, n)]]

ChunkedFilter(r, idx) ==
    LET first == r.rest = -1
        r1 == IF first THEN [r EXCEPT !.rest = 3, !.len = 0] ELSE r
        Taken(f, over) ==
            [rc |-> CASE over -> "413" [] ~over /\ f.rc = "ERROR" -> "400" [] OTHER -> "OK",
             used |-> f.used,
             r |-> [r1 EXCEPT !.ctx = f.ctx, !.len = @ + f.took,
                              !.rest = IF f.rc = "DONE" THEN 0 ELSE f.ctx.length,
                              !.lingering = @ \/ over,
                              !.body = @ \o SubSeq(idx, 1, f.used)]]
        Filtered(f) == Taken(f, Set.max_body > 0 /\ r1.len + f.peak > Set.max_body)
    IN  IF idx = <<>> /\ first THEN [rc |-> "OK", used |-> 0, r |-> r1]
        ELSE Filtered(FilterChunked(r1.ctx, Kinds(idx)))

request_body_filter(r, idx) == IF r.chunked THEN ChunkedFilter(r, idx) ELSE LengthFilter(r, idx)

Consume(s, n) == [s EXCEPT !.buf[s.hin].p = @ + n]

(* post_handler: the content handler has the body and starts the response *)
PostHandler(s) == [s EXCEPT !.r.reading = FALSE, !.r.given = TRUE, !.r.resp = "sending"]

(* ngx_http_read_client_request_body() up to its first c->recv() *)
ReadBody(s0) ==
    LET s == [s0 EXCEPT !.r.count = @ + 1]
        pre == Rest(s0)
        room == Size(s0.hin) - Len(s0.buf[s0.hin].d)
        Cap(rest) ==
            CASE ~s0.r.chunked /\ pre # <<>> /\ rest <= room -> room
              [] ~s0.r.chunked /\ ~(pre # <<>> /\ rest <= room) /\ rest < Set.body_buf + (Set.body_buf \div 4) -> rest
              [] OTHER -> Set.body_buf
        Filtered(f, s1) ==
            IF f.rc # "OK" THEN [rc |-> f.rc, s |-> [s1 EXCEPT !.r.count = @ - 1]]
            ELSE IF f.r.rest = 0 THEN [rc |-> "OK", s |-> PostHandler(s1)]
            ELSE [rc |-> "AGAIN", s |-> [s1 EXCEPT !.r.reading = TRUE, !.r.cap = Cap(f.r.rest),
                                                   !.r.fill = 0, !.timer = ~Readable(s1)]]
        With(f) == Filtered(f, [Consume(s, f.used) EXCEPT !.r = f.r])
    IN  CASE s.r.hasBody \/ s.r.discard -> [rc |-> "OK", s |-> PostHandler(s)]
          [] ~(s.r.hasBody \/ s.r.discard) /\ s.r.len < 0 /\ ~s.r.chunked ->
               [rc |-> "OK", s |-> PostHandler([s EXCEPT !.r.hasBody = TRUE])]
          [] OTHER -> With(request_body_filter([s.r EXCEPT !.hasBody = TRUE], pre))

-----------------------------------------------------------------------------
(* ngx_http_discard_request_body_filter() *)
DiscardFilter(r, idx) ==
    LET n == Min2(Len(idx), r.len)
        Taken(f) ==
            [rc |-> IF f.rc = "ERROR" THEN "400" ELSE "OK", used |-> f.used,
             r |-> [r EXCEPT !.ctx = f.ctx, !.hasBody = TRUE,
                             !.len = IF f.rc = "DONE" THEN 0 ELSE f.ctx.length,
                             !.body = @ \o SubSeq(idx, 1, f.used)]]
    IN  IF r.chunked THEN Taken(FilterChunked(r.ctx, Kinds(idx)))
        ELSE [rc |-> "OK", used |-> n,
              r |-> [r EXCEPT !.len = @ - n, !.body = @ \o SubSeq(idx, 1, n)]]

(* the bound of a read of the discarded body (buffer of DISCARD_BUFFER_SIZE) *)
DiscardRoom(r) == Min2(r.len, Set.body_buf)

(* ngx_http_read_discarded_request_body(): the end of the body, the end of the
   client (taken for the end of the body), no data, or one more read *)
ReadDiscarded(s) ==
    LET got == Recv(s, DiscardRoom(s.r))
        Taken(f) == [rc |-> IF f.rc # "OK" THEN f.rc ELSE "MORE",
                     s |-> [s EXCEPT !.rd = @ + Len(got), !.r = f.r]]
    IN  CASE s.r.len = 0 \/ (Waiting(s) = 0 /\ peer # "open") -> [rc |-> "OK", s |-> s]
          [] s.r.len # 0 /\ ~Readable(s) -> [rc |-> "AGAIN", s |-> s]
          [] OTHER -> Taken(DiscardFilter(s.r, got))

(* ngx_http_discard_request_body(): MORE stands for the next turn of its loop,
   which the read event of the discarded body takes *)
DiscardBody(s) ==
    LET none == s.r.len <= 0 /\ ~s.r.chunked
        Read(d) ==
            CASE d.rc = "OK" -> [rc |-> "OK", s |-> [d.s EXCEPT !.r.lingering = FALSE]]
              [] d.rc \in {"AGAIN", "MORE"} ->
                   [rc |-> "OK", s |-> [d.s EXCEPT !.r.count = @ + 1, !.r.discard = TRUE]]
              [] OTHER -> d
        Filtered(f, s1) == IF f.rc # "OK" \/ f.r.len = 0 THEN [rc |-> f.rc, s |-> s1] ELSE Read(ReadDiscarded(s1))
        With(f) == Filtered(f, [Consume(s, f.used) EXCEPT !.r = f.r, !.timer = FALSE])
    IN  CASE s.r.discard \/ s.r.hasBody -> [rc |-> "OK", s |-> s]
          [] ~(s.r.discard \/ s.r.hasBody) /\ none ->
               [rc |-> "OK", s |-> [s EXCEPT !.timer = FALSE]]
          [] ~(s.r.discard \/ s.r.hasBody) /\ ~none ->
               With(IF Empty(s) /\ ~s.r.chunked THEN [rc |-> "OK", used |-> 0, r |-> s.r]
                    ELSE DiscardFilter(s.r, Rest(s)))

-----------------------------------------------------------------------------
(* ngx_http_special_response_handler(): after these the stream is not trusted *)
NoKeepalive == {"400", "413", "414", "497", "500", "501"}

(* ngx_http_special_response_handler() and the start of its response *)
special_response(s, rc) ==
    LET s1 == [s EXCEPT !.r.keepalive = @ /\ rc \notin NoKeepalive,
                        !.r.lingering = @ /\ rc \notin {"400", "497"},
                        !.timer = FALSE, !.h = "request", !.r.reading = FALSE]
        Answered(d) == [d.s EXCEPT !.r.keepalive = @ /\ d.rc = "OK", !.r.resp = "sending"]
    IN  Answered(DiscardBody(s1))

(* ngx_http_finalize_request() for the codes of this module *)
finalize_request(s, rc) == IF rc = "DONE" THEN finalize_connection(s) ELSE special_response(s, rc)

(* the connection_type switch of ngx_http_handler() *)
Keepalive(m) == m.conn = "keep" \/ (m.conn = "none" /\ m.ver > 10)

(* ngx_http_handler(), the phases and the content handler *)
http_handler(s0, answer) ==
    LET m == Reqs[s0.r.q]
        s == [s0 EXCEPT !.r.keepalive = Keepalive(m),
                        !.r.lingering = s0.r.len > 0 \/ s0.r.chunked]
        Took(b, rc) == IF rc = "sent" THEN [b EXCEPT !.r.resp = "sending"] ELSE finalize_request(b, rc)
        Read(b) == Took(b.s, IF b.rc \in {"OK", "AGAIN"} THEN "DONE" ELSE b.rc)
        Content(d) == Took(d.s, IF d.rc = "OK" THEN "sent" ELSE d.rc)
    IN  CASE answer = "read" -> Read(ReadBody(s))
          [] answer = "content" -> Content(DiscardBody(s))
          [] OTHER -> finalize_request(s, answer)

(* ngx_http_process_request() *)
process_request(s, answer) ==
    IF Set.ssl /\ ~s.tls THEN finalize_request(s, "497")
    ELSE http_handler([s EXCEPT !.timer = FALSE, !.h = "request"], answer)

(* ngx_http_process_request_header(): Host, Content-Length, Transfer-Encoding *)
process_request_header(s, answer) ==
    LET m == Reqs[s.r.q]
        s1 == [s EXCEPT !.r.len = m.len]
    IN  CASE m.ver > 10 /\ ~m.host -> finalize_request(s, "400")
          [] ~(m.ver > 10 /\ ~m.host) /\ m.te = "chunked" ->
               process_request([s EXCEPT !.r.chunked = TRUE], answer)
          [] ~(m.ver > 10 /\ ~m.host) /\ m.te = "unknown" -> finalize_request(s1, "501")
          [] OTHER -> process_request(s1, answer)

-----------------------------------------------------------------------------
(* ngx_http_alloc_large_header_buffer(): a buffer of the free list or a new
   one; the incomplete line moves to its start *)
MayAlloc(s) == Len(s.busy) < Set.large_num

(* Mutant: an incomplete line is not copied *)
MoveLine_Lost(s) == <<>>
MoveLine(s) ==
    LET old == s.buf[s.hin] IN
    IF s.r.state = 0 THEN <<>> ELSE SubSeq(old.d, s.r.start + 1, old.p)

TooLong(line) == Len(line) >= Set.large_size

alloc_large_header_buffer(s) ==
    LET fresh == CHOOSE b \in 1..(Set.large_num + 1) : b \notin Range(s.busy) \cup Range(s.free)
        b == IF s.free # <<>> THEN Last(s.free) ELSE fresh
        line == MoveLine(s)
    IN  IF TooLong(line) \/ (s.free = <<>> /\ ~MayAlloc(s))
        THEN [rc |-> "DECLINED", s |-> s]
        ELSE [rc |-> "OK",
              s |-> [s EXCEPT !.free = IF @ # <<>> THEN Front(@) ELSE @,
                              !.busy = Append(@, b), !.hin = b, !.r.start = 0,
                              !.buf[b] = [d |-> line, p |-> Len(line)]]]

(* ngx_http_read_request_header() once the buffer is used up: the data, or
   AGAIN with the timer, or the end of the client (an error: terminate) *)
read_request_header(s) ==
    LET got == Recv(s, Size(s.hin) - Len(s.buf[s.hin].d)) IN
    CASE ~Empty(s) -> [rc |-> "OK", s |-> s]
      [] Empty(s) /\ got # <<>> ->
           [rc |-> "OK", s |-> [s EXCEPT !.buf[s.hin].d = @ \o got, !.rd = @ + Len(got)]]
      [] Empty(s) /\ got = <<>> /\ peer = "open" -> [rc |-> "AGAIN", s |-> [s EXCEPT !.timer = TRUE]]
      [] OTHER -> [rc |-> "ERROR", s |-> Closed(s)]

(* the parsers on the unread part of header_in, by the kinds of the tokens:
   how many tokens the line takes, or 0 when its end is not there *)
FirstOf(t, ks) == SelectInSeq(t, LAMBDA k : k \in ks)
Blanks(t) == LET n == FirstOf(t, {"l", "L", "h", "H", "E", "b", "0", "1", "CR", "LF", "x"}) IN
             IF n = 0 THEN Len(t) ELSE n - 1

(* one turn of ngx_http_process_request_line(); resets is its state 0 case *)
LineParsed(s, t, b, answer) ==
    LET skip == IF s.r.state = 0 THEN Blanks(t) ELSE 0
        end == FirstOf(t, {"L"})
        start == IF s.r.state = 0 THEN b.p + skip ELSE s.r.start
        bad == \E i \in (skip + 1)..Len(t) : (end = 0 \/ i <= end) /\ t[i] \notin {"l", "L"}
        ok == [s EXCEPT !.buf[s.hin].p = b.p + end, !.r.state = 0, !.r.start = b.p + end,
                        !.r.line = SubSeq(b.d, start + 1, b.p + end), !.h = "headers"]
        Alloc(a) == IF a.rc = "OK" THEN a.s ELSE finalize_request(a.s, "414")
        More(more) ==
            IF Len(b.d) # Size(s.hin) THEN more
            ELSE IF more.r.state = 0 THEN [more EXCEPT !.buf[s.hin] = NoBuf]
            ELSE Alloc(alloc_large_header_buffer(more))
    IN  CASE bad -> finalize_request([s EXCEPT !.r.bad = TRUE], "400")
          [] ~bad /\ end # 0 -> IF Reqs[s.r.q].ver = 9 THEN process_request(ok, answer) ELSE ok
          [] OTHER -> More([s EXCEPT !.buf[s.hin].p = Len(b.d), !.r.start = start,
                                     !.r.state = IF skip = Len(t) /\ s.r.state = 0 THEN 0 ELSE 1])
LineTurn(s0, answer) ==
    LET Turn(rd) == IF rd.rc # "OK" THEN rd.s
                    ELSE LineParsed(rd.s, Kinds(Rest(rd.s)), rd.s.buf[rd.s.hin], answer)
    IN  Turn(read_request_header(s0))

(* one turn of ngx_http_process_request_headers() *)
HeadersParsed(s, t, b, answer) ==
    LET end == FirstOf(t, {"H", "E"})
        start == IF s.r.state = 0 THEN b.p ELSE s.r.start
        bad == \E i \in DOMAIN t : (end = 0 \/ i <= end) /\ t[i] \notin {"h", "H", "E"}
        eaten == [s EXCEPT !.buf[s.hin].p = b.p + end, !.r.state = 0, !.r.start = b.p + end]
    IN  CASE bad -> finalize_request([s EXCEPT !.r.bad = TRUE], "400")
          [] ~bad /\ end = 0 -> [s EXCEPT !.buf[s.hin].p = Len(b.d), !.r.state = 1, !.r.start = start]
          [] ~bad /\ end # 0 /\ t[end] = "H" ->
               [eaten EXCEPT !.r.hdrs = Append(@, SubSeq(b.d, start + 1, b.p + end))]
          [] OTHER -> process_request_header(eaten, answer)
HeadersTurn(s0, answer) ==
    LET Turn(rd) == IF rd.rc # "OK" THEN rd.s
                    ELSE HeadersParsed(rd.s, Kinds(Rest(rd.s)), rd.s.buf[rd.s.hin], answer)
        Alloc(a) == IF a.rc # "OK" THEN finalize_request([s0 EXCEPT !.r.lingering = TRUE], "494")
                    ELSE Turn(read_request_header(a.s))
    IN  Alloc(IF Empty(s0) /\ Len(s0.buf[s0.hin].d) = Size(s0.hin)
              THEN alloc_large_header_buffer(s0) ELSE [rc |-> "OK", s |-> s0])

-----------------------------------------------------------------------------
(* ngx_http_init_connection(): data may already be there (deferred accept) *)
ConnInit ==
    /\ sent \in {0, 1} /\ peer = "open" /\ exiting = FALSE
    /\ \E w \in DOMAIN Settings :
          c = [set |-> w, h |-> IF Settings[w].ssl THEN "ssl" ELSE "wait", tls |-> FALSE, rd |-> 0,
               timer |-> sent = 0, reuse |-> sent = 0, requests |-> 0, r |-> NoRequest, hin |-> 0,
               buf |-> [b \in 0..(Settings[w].large_num + 1) |-> NoBuf], busy |-> <<>>, free |-> <<>>]

Step(s) == c' = s /\ UNCHANGED <<sent, peer, exiting>>

(* the client *)
ClientSends == /\ peer = "open" /\ sent < Len(Stream)
               /\ \E n \in (sent + 1)..Len(Stream) : sent' = n
               /\ UNCHANGED <<c, peer, exiting>>
ClientEnds == /\ peer = "open" /\ peer' \in {"fin", "rst"} /\ UNCHANGED <<c, sent, exiting>>

(* ngx_http_ssl_handshake(): the byte peeked at starts a TLS handshake or a
   plain request, or there is none; ngx_http_ssl_handshake_handler() *)
SslPeek == /\ c.h = "ssl"
           /\ \/ Step([c EXCEPT !.h = "shake", !.timer = TRUE, !.reuse = FALSE])
              \/ Waiting(c) > 0 /\ Step([c EXCEPT !.h = "wait"])
              \/ Readable(c) /\ Waiting(c) = 0 /\ Step(Closed(c))
SslHandshake == /\ c.h = "shake"
                /\ \/ Step([c EXCEPT !.h = "wait", !.tls = TRUE, !.reuse = TRUE])
                   \/ Step(Closed(c))

(* ngx_http_wait_request_handler(), ngx_http_keepalive_handler(): c->buffer is
   allocated again, filled, and a request is created *)
FirstBytes(s) ==
    LET got == Recv(s, Set.header_buf)
        s1 == [s EXCEPT !.buf[0] = [d |-> got, p |-> 0], !.rd = @ + Len(got),
                        !.reuse = FALSE, !.h = "line"]
    IN  IF got = <<>> THEN Closed(s) ELSE create_request(s1)

wait_request_handler == c.h = "wait" /\ Readable(c) /\ Step(FirstBytes(c))
keepalive_handler ==
    /\ c.h = "keepalive" /\ Readable(c)
    /\ Step([FirstBytes(c) EXCEPT !.timer = FALSE])

process_request_line ==
    /\ c.h = "line" /\ (~Empty(c) \/ Readable(c) \/ ~c.timer)
    /\ \E a \in Set.answers : Step(LineTurn(c, a))
process_request_headers ==
    /\ c.h = "headers" /\ (~Empty(c) \/ Readable(c) \/ ~c.timer)
    /\ \E a \in Set.answers : Step(HeadersTurn(c, a))

(* ngx_http_read_client_request_body_handler(): one c->recv() of
   ngx_http_do_read_client_request_body(), the buffer flushed when full *)
BodyTurn(s0) ==
    LET Done(s1, rc) ==
            CASE rc # "OK" -> finalize_request(s1, rc)
              [] rc = "OK" /\ s1.r.rest = 0 -> PostHandler([s1 EXCEPT !.timer = FALSE])
              [] OTHER -> [s1 EXCEPT !.timer = @ \/ Waiting(s1) = 0]
        Whole(s1, f) == Done([s1 EXCEPT !.r = [f.r EXCEPT !.pend = <<>>]], f.rc)
        Got(r0, got, want) ==
            LET r1 == [r0 EXCEPT !.fill = @ + Len(got), !.pend = @ \o got]
                s1 == [s0 EXCEPT !.rd = @ + Len(got), !.r = r1]
            IN  CASE got = <<>> -> Closed(s0)
                  [] got # <<>> /\ Len(got) = want -> Whole(s1, request_body_filter(r1, r1.pend))
                  [] OTHER -> Done(s1, "OK")
        Recvd(r0, want) == Got(r0, Recv(s0, Min2(r0.cap - r0.fill, want)), want)
        Flushed(f) == IF f.rc # "OK" THEN finalize_request([s0 EXCEPT !.r = [f.r EXCEPT !.fill = 0, !.pend = <<>>]], f.rc)
                      ELSE Recvd([f.r EXCEPT !.fill = 0, !.pend = <<>>], f.r.rest)
    IN  IF s0.r.fill = s0.r.cap THEN Flushed(request_body_filter(s0.r, s0.r.pend))
        ELSE Recvd(s0.r, s0.r.rest - Len(s0.r.pend))
read_client_request_body_handler ==
    c.h = "request" /\ c.r.reading /\ Readable(c) /\ Step(BodyTurn(c))

(* ngx_http_discarded_request_body_handler(); over: lingering_time has passed *)
DiscardTurn(s, over) ==
    LET Read(d) ==
            CASE d.rc = "OK" -> finalize_request([d.s EXCEPT !.r.discard = FALSE, !.r.lingering = FALSE], "DONE")
              [] d.rc \in {"AGAIN", "MORE"} -> [d.s EXCEPT !.timer = @ \/ s.r.resp = "sent"]
              [] OTHER -> Closed(s)
    IN  IF over /\ s.r.resp = "sent" THEN Closed(s) ELSE Read(ReadDiscarded(s))
discarded_request_body_handler ==
    /\ c.h = "request" /\ c.r.discard /\ (Readable(c) \/ c.r.len = 0)
    /\ \E over \in BOOLEAN : Step(DiscardTurn(c, over))

(* the response has been sent: ngx_http_finalize_request(r, NGX_OK) *)
ResponseSent ==
    /\ c.h = "request" /\ c.r.resp = "sending"
    /\ Step(finalize_connection([c EXCEPT !.r.resp = "sent"]))
(* sending failed or timed out: ngx_http_terminate_request() *)
ResponseFails == c.h = "request" /\ c.r.resp = "sending" /\ Step(Closed(c))

(* ngx_http_lingering_close_handler() *)
lingering_close_handler ==
    /\ c.h = "linger" /\ Readable(c)
    /\ \/ Step(Closed(c))        \* lingering_time has passed, or recv() gives 0 or an error
       \/ Waiting(c) > 0 /\ Step([c EXCEPT !.rd = sent])

(* the read timer: every handler closes the connection, with the request
   (408, NGX_ERROR) when there is one *)
TimerExpires ==
    /\ c.timer /\ (c.h \in {"line", "headers"} => Empty(c))
    /\ Step(Closed(c))

(* ngx_drain_connections(), and the worker's exit, close reusable connections *)
Drain == c.reuse /\ Step(Closed(c))
Exit == ~exiting /\ exiting' = TRUE /\ UNCHANGED <<c, sent, peer>>

Finished == c.h = "closed" /\ UNCHANGED cvars

Server == \/ SslPeek \/ SslHandshake \/ wait_request_handler \/ keepalive_handler
          \/ process_request_line \/ process_request_headers
          \/ read_client_request_body_handler \/ discarded_request_body_handler
          \/ ResponseSent \/ lingering_close_handler
Next == Server \/ ClientSends \/ ClientEnds \/ ResponseFails \/ TimerExpires
        \/ Drain \/ Exit \/ Finished

(* the guards of Server: an event is pending, a handler is posted or in its loop *)
ServerReady ==
    \/ c.h \in {"ssl", "shake"}
    \/ c.h \in {"wait", "keepalive", "linger"} /\ Readable(c)
    \/ c.h \in {"line", "headers"} /\ (~Empty(c) \/ Readable(c) \/ ~c.timer)
    \/ c.h = "request" /\ c.r.reading /\ Readable(c)
    \/ c.h = "request" /\ c.r.discard /\ (Readable(c) \/ c.r.len = 0)
    \/ c.h = "request" /\ c.r.resp = "sending"

-----------------------------------------------------------------------------
(* Every request is cut out of the stream where the client put it: the line,
   the headers and the body of the request in hand are exactly those of the
   client's request of the same number and none is met where the other is
   expected, however the bytes arrived, whatever
   buffers they went through and whatever became of the previous requests. *)
FramedRight ==
    c.r.q # 0 =>
      /\ ~c.r.bad
      /\ c.r.line # <<>> => c.r.q \in DOMAIN Reqs /\ c.r.line = LineOf(Reqs, c.r.q)
      /\ \A j \in DOMAIN c.r.hdrs : c.r.hdrs[j] = HeaderOf(Reqs, c.r.q, j)
      /\ c.r.body # <<>> => IsPrefix(c.r.body, BodyPlace(Reqs, c.r.q))

(* A content handler that asked for the body has all of it when it answers. *)
WholeBody == c.r.q # 0 /\ c.r.given => c.r.body = BodyPlace(Reqs, c.r.q)

(* The large header buffers stay within the arrays hc->busy and hc->free, no
   buffer is on both, and header_in is the newest busy one (c->buffer if none). *)
LargeBuffers ==
    /\ Len(c.busy) + Len(c.free) <= Set.large_num
    /\ IsInjective(c.busy \o c.free)
    /\ c.hin = IF c.busy = <<>> THEN 0 ELSE Last(c.busy)

(* A connection never waits for its client without a timer. *)
WaitHasTimer ==
    ~Readable(c) =>
      /\ c.h \in {"wait", "ssl", "shake", "keepalive", "linger"} => c.timer
      /\ c.h = "request" /\ c.r.reading => c.timer
      /\ c.h = "request" /\ c.r.discard /\ c.r.resp = "sent" /\ c.r.len # 0 => c.timer

(* Every connection ends, whatever the client does: no state waits for ever. *)
Ends == <>(c.h = "closed")

=============================================================================
