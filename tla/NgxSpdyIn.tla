----------------------------- MODULE NgxSpdyIn -----------------------------
(***************************************************************************)
(* The reading side of a SPDY connection: the frame parser of              *)
(* ngx_http_spdy.c, a chain of state handlers that save what they have not *)
(* used when the bytes run out, the inflater the header blocks of all      *)
(* streams share, and the request bodies.  The client sends well-formed    *)
(* frames; the connection delivers them in pieces of any size.             *)
(*                                                                         *)
(* A byte is a record: frame f, offset k, content u.  Compression is the   *)
(* identity, but the inflater stops when its output is full.               *)
(***************************************************************************)
EXTENDS Integers, Sequences, SequencesExt, FiniteSets, FiniteSetsExt

CONSTANTS
    Sessions,     \* the sequences of frames a client may send
    Sids,         \* stream identifiers
    HeadSize,     \* NGX_SPDY_FRAME_HEADER_SIZE
    SynSize,      \* NGX_SPDY_SYN_STREAM_SIZE
    CtlSize,      \* NGX_SPDY_RST_STREAM_SIZE, NGX_SPDY_PING_SIZE
    PairSize,     \* NGX_SPDY_SETTINGS_PAIR_SIZE; the number of pairs is one byte
    StateBuffer,  \* NGX_SPDY_STATE_BUFFER_SIZE
    MaxStreams,   \* spdy_max_concurrent_streams
    HeaderBuf, LargeSize, LargeNum,  \* the header buffers
    MaxBody       \* client_max_body_size

VARIABLES fs, \* the frames of this session
          got, \* bytes of the wire received so far
          p,   \* the connection: parser, inflater, output
          st   \* the streams
ivars == <<fs, got, p, st>>

FrameLen(f) == CASE f.type = "syn" -> SynSize + Len(f.block)
                 [] f.type = "data" -> Len(f.data)
                 [] f.type \in {"rst", "ping"} -> CtlSize
                 [] f.type = "settings" -> 1 + PairSize * Len(f.pairs)
                 [] OTHER -> f.len
(* what a byte of the frame says to the handler that reads it *)
Content(f, k) ==
    CASE f.type = "syn" /\ k >= HeadSize + SynSize -> f.block[k - HeadSize - SynSize + 1]
      [] f.type = "data" /\ k >= HeadSize -> f.data[k - HeadSize + 1]
      [] OTHER -> "-"
Bytes(i, f) == [j \in 1..(HeadSize + FrameLen(f)) |-> [f |-> i, k |-> j - 1, u |-> Content(f, j - 1)]]
Wire(frames) == FlattenSeq([i \in DOMAIN frames |-> Bytes(i, frames[i])])
Blocks(frames) == FlattenSeq([i \in DOMAIN frames |->
                                IF frames[i].type = "syn" THEN frames[i].block ELSE <<>>])

-----------------------------------------------------------------------------
NoStream == [open |-> FALSE, used |-> FALSE, hpend |-> <<>>, hused |-> 0, hcap |-> HeaderBuf,
             large |-> 0, hs |-> "nl", hname |-> "-", num |-> -1, hdrs |-> <<>>, ran |-> FALSE,
             in_closed |-> FALSE, skip |-> "no", init |-> FALSE, cl |-> -1, rest |-> 0,
             body |-> <<>>, wants |-> FALSE, calls |-> 0, answer |-> "none"]

Avail(s) == Len(s.p.in)
Eat(s, n) == [s EXCEPT !.p.in = SubSeq(@, n + 1, Len(@))]
cur(s) == s.st[s.p.stream]
Upd(s, rec) == [s EXCEPT !.st[s.p.stream] = rec]

(* ngx_http_spdy_state_save(), ngx_http_spdy_state_complete() *)
(* Mutant: what was not used is not kept *)
saveDrops(s, h) == [s EXCEPT !.p.h = h, !.p.more = FALSE, !.p.waiting = TRUE, !.p.in = <<>>]
save(s, h) == [s EXCEPT !.p.h = h, !.p.more = FALSE, !.p.waiting = TRUE]
complete(s) == [s EXCEPT !.p.h = "head", !.p.more = Len(s.p.in) > 0]

Queue(s, what) == [s EXCEPT !.p.out = Append(@, what)]

(* ngx_http_spdy_close_stream(): a stream that has not answered is reset *)
close_stream(s, sid) ==
    [s EXCEPT !.st[sid].open = FALSE, !.p.processing = @ - 1,
              !.p.out = IF s.st[sid].answer = "none" THEN Append(@, "rst") ELSE @]
(* ngx_http_spdy_state_protocol_error(): ngx_http_spdy_finalize_connection() *)
protocol_error(s) == [s EXCEPT !.p.h = "dead", !.p.more = FALSE, !.p.processing = 0,
                               !.st = [i \in Sids |-> [@[i] EXCEPT !.open = FALSE]]]
(* ngx_http_finalize_request() with an error of the request *)
finalize(s, sid, code) == close_stream([s EXCEPT !.st[sid].answer = code], sid)

(* ngx_http_spdy_state_skip() *)
state_skip(s) ==
    IF Avail(s) < s.p.length
    THEN save([s EXCEPT !.p.length = @ - Avail(s), !.p.in = <<>>], "skip")
    ELSE complete(Eat(s, s.p.length))

(* ngx_http_spdy_state_headers_skip() *)
state_headers_skip(s) ==
    LET n == Min({Avail(s), s.p.length})
        z == [Eat(s, n) EXCEPT !.p.inflated = @ + n, !.p.length = @ - n]
    IN  IF s.p.length = 0 THEN complete(s)
        ELSE IF Avail(s) < s.p.length THEN save(z, "headers_skip") ELSE complete(z)

-----------------------------------------------------------------------------
(* Header blocks *)

(* inflate() into what is left of the header buffer, one byte of it reserved *)
inflate(s, avail) ==
    LET r == cur(s)
        n == Min({avail, r.hcap - r.hused - 1})
        out == [i \in 1..n |-> s.p.in[i].u]
    IN  [Upd(Eat(s, n), [r EXCEPT !.hpend = @ \o out, !.hused = @ + n])
           EXCEPT !.p.inflated = @ + n, !.p.length = @ - n]

HeaderOrder == <<"nl", "nm", "vl", "v">>
(* ngx_http_spdy_parse_header(): one header, or as much of it as there is *)
parse_header(r) ==
    LET at == CHOOSE i \in 1..4 : HeaderOrder[i] = r.hs
        n == Min({Len(r.hpend), 5 - at})
        name == IF at <= 2 /\ at + n > 2 THEN r.hpend[3 - at].name ELSE r.hname
        done == at + n = 5
        r1 == [r EXCEPT !.hpend = SubSeq(@, n + 1, Len(@)), !.hname = name,
                        !.hs = IF done THEN "nl" ELSE HeaderOrder[at + n]]
    IN  [done |-> done,
         r |-> IF done THEN [r1 EXCEPT !.num = @ - 1,
                                       !.hdrs = Append(@, <<name, r.hpend[n].val>>)] ELSE r1]

(* ngx_http_spdy_alloc_large_header_buffer() *)
LargeDeclined(r) == r.large = LargeNum \/ Len(r.hpend) >= LargeSize
alloc_large(r) == [r EXCEPT !.large = @ + 1, !.hcap = LargeSize, !.hused = Len(r.hpend)]

Pseudo == {"method", "scheme", "url", "version"}
(* ngx_http_spdy_handle_request_header(): a second method, scheme, url or version *)
Repeated(r) == \E i, j \in DOMAIN r.hdrs : i # j /\ r.hdrs[i][1] = r.hdrs[j][1] /\ r.hdrs[i][1] \in Pseudo
(* ngx_http_spdy_construct_request_line() *)
LineComplete(r) == {"method", "url", "version"} \subseteq {h[1] : h \in Range(r.hdrs)}

ContentLength(r) ==
    LET c == SelectSeq(r.hdrs, LAMBDA h : h[1] = "content-length") IN IF c = <<>> THEN -1 ELSE c[1][2]
(* ngx_http_spdy_run_request() *)
run_request(s) ==
    LET r == cur(s) IN
    IF ~LineComplete(r) THEN finalize(s, s.p.stream, "400")
    ELSE Upd(s, [r EXCEPT !.ran = TRUE, !.cl = ContentLength(r)])

(* ngx_http_spdy_state_headers_error(): the error has been answered *)
headers_error(s) == state_headers_skip(s)

Whole(s) == Avail(s) >= s.p.length
InflateLeft(s) == Min({Avail(s), s.p.length})

(* ngx_http_spdy_state_headers() up to the loop; fails: inflate() without room
   may answer Z_BUF_ERROR *)
state_headers(s, fails) ==
    LET full == cur(s).hcap - cur(s).hused = 1
        z == inflate(s, InflateLeft(s))
        r == cur(z)
        numbered == [r EXCEPT !.num = r.hpend[1].num, !.hpend = Tail(@)]
    IN  CASE Avail(s) = 0 -> save(s, "headers")
          [] Avail(s) > 0 /\ full /\ fails -> protocol_error(close_stream(s, s.p.stream))
          [] Avail(s) > 0 /\ ~(full /\ fails) /\ r.num < 0 /\ r.hpend = <<>> -> save(z, "headers")
          [] OTHER -> [Upd(z, IF r.num < 0 THEN numbered ELSE r) EXCEPT !.p.h = "loop"]

(* one turn of its loop over the headers *)
header_loop(s) ==
    LET r == cur(s)
        h == parse_header(r)
        s1 == Upd(s, h.r) IN
    CASE r.num = 0 /\ r.hpend # <<>> -> protocol_error(close_stream(s, s.p.stream))
      [] r.num = 0 /\ r.hpend = <<>> /\ ~Whole(s) -> save(s, "headers")
      [] r.num = 0 /\ r.hpend = <<>> /\ Whole(s) -> complete(run_request(s))
      [] r.num > 0 /\ h.done -> IF Repeated(h.r) THEN protocol_error(close_stream(s1, s.p.stream)) ELSE s1
      [] r.num > 0 /\ ~h.done /\ InflateLeft(s) > 0 ->
           IF LargeDeclined(h.r) THEN headers_error(finalize(s1, s.p.stream, "414"))
           ELSE inflate(Upd(s1, alloc_large(h.r)), InflateLeft(s))
      [] OTHER -> IF s.p.length = 0 THEN protocol_error(close_stream(s1, s.p.stream))
                  ELSE save(s1, "headers")

(* ngx_http_spdy_create_stream() *)
create_stream(s, f) ==
    [s EXCEPT !.st[f.sid] = [NoStream EXCEPT !.open = TRUE, !.used = TRUE, !.in_closed = f.fin],
              !.p.stream = f.sid, !.p.processing = @ + 1]

(* ngx_http_spdy_state_syn_stream() *)
AtLimit(s) == s.p.processing >= MaxStreams
state_syn_stream(s, f, fails) ==
    LET s1 == [Eat(s, SynSize) EXCEPT !.p.length = @ - SynSize] IN
    IF Avail(s) < SynSize THEN save(s, "syn_stream")
    ELSE IF AtLimit(s) THEN state_headers_skip(Queue(s1, "refused"))
    ELSE state_headers(create_stream(s1, f), fails)

-----------------------------------------------------------------------------
(* Bodies *)
PostHandler(r) == [r EXCEPT !.calls = @ + 1, !.wants = FALSE]
BodyError(r) == IF r.cl = -1 THEN "413" ELSE "400"

(* ngx_http_spdy_state_data(); a frame cut short by the read is counted at once.
   A stream closed since the frame began is only memory: fails decides. *)
DataEnds(f, whole) == f.fin /\ whole

state_data(s, f, fails) ==
    LET sid == s.p.stream
        r == s.st[sid]
        size == Min({Avail(s), s.p.length})
        whole == Whole(s)
        s0 == IF whole THEN s ELSE [s EXCEPT !.p.length = @ - size]
        rest == r.rest + size
        over == size > 0 /\ IF r.cl # -1 /\ r.cl < rest THEN TRUE ELSE MaxBody < rest
        bad == [Upd(s0, [r EXCEPT !.init = TRUE, !.rest = rest, !.skip = "error"])
                  EXCEPT !.p.over = @ \/ ~whole]
        r1 == [r EXCEPT !.init = TRUE, !.rest = rest,
                        !.body = @ \o [i \in 1..size |-> s.p.in[i].u],
                        !.in_closed = @ \/ DataEnds(f, whole)]
        ok == Eat(Upd(s0, IF r1.in_closed /\ r.wants THEN PostHandler(r1) ELSE r1), size)
    IN  CASE sid = "none" -> state_skip(s)
          [] sid # "none" /\ ~r.open -> IF fails THEN protocol_error(s) ELSE state_skip(s)
          [] sid # "none" /\ r.open /\ r.in_closed -> protocol_error(s)
          [] sid # "none" /\ r.open /\ ~r.in_closed /\ r.skip # "no" ->
               state_skip(Upd(s, [r EXCEPT !.in_closed = f.fin]))
          [] sid # "none" /\ r.open /\ ~r.in_closed /\ r.skip = "no" /\ over ->
               state_skip(IF r.wants THEN finalize(bad, sid, BodyError(r)) ELSE bad)
          [] OTHER -> IF whole THEN complete(ok) ELSE save(ok, "data")

(* ngx_http_spdy_state_rst_stream(): the request is told; it may not listen *)
state_rst_stream(s, f, deaf) ==
    LET s1 == Eat(s, CtlSize)
        open == f.sid \in Sids /\ s.st[f.sid].open
        r == [s.st[f.sid] EXCEPT !.in_closed = TRUE, !.answer = "cancelled"]
    IN  CASE Avail(s) < CtlSize -> save(s, "rst_stream")
          [] Avail(s) >= CtlSize /\ f.status \notin {"cancel", "internal", "refused", "invalid"} ->
               protocol_error(s)
          [] Avail(s) >= CtlSize /\ f.status \in {"cancel", "internal"} /\ open ->
               IF deaf THEN complete([s1 EXCEPT !.st[f.sid] = r])
               ELSE complete(close_stream([s1 EXCEPT !.st[f.sid] = r], f.sid))
          [] OTHER -> complete(s1)

(* ngx_http_spdy_state_ping() *)
state_ping(s) == IF Avail(s) < CtlSize THEN save(s, "ping")
                 ELSE complete(Eat(Queue(s, "ping"), CtlSize))

(* ngx_http_spdy_state_noop() *)
state_noop(s) == IF s.p.length > 0 THEN protocol_error(s) ELSE complete(s)

(* ngx_http_spdy_state_settings(), one pair a turn; -1: the number is to come *)
state_settings(s, f) ==
    LET one(n, headers) == [Eat(s, n) EXCEPT !.p.length = @ - n, !.p.headers = headers] IN
    CASE s.p.headers = -1 -> IF Avail(s) < 1 THEN save(s, "settings")
                             ELSE [one(1, Len(f.pairs)) EXCEPT !.p.h = "settings"]
      [] s.p.headers = 0 -> complete(Queue(s, "settings"))
      [] s.p.headers > 0 /\ Avail(s) < PairSize -> save(s, "settings")
      [] OTHER ->
           LET pair == f.pairs[Len(f.pairs) - s.p.headers + 1] IN
           IF pair = 0 THEN one(PairSize, s.p.headers - 1)
           ELSE state_skip(IF pair = MaxStreams THEN s ELSE Queue(s, "settings"))

-----------------------------------------------------------------------------
(* ngx_http_spdy_get_stream_by_id() *)
get_stream_by_id(s, sid) == IF sid \in Sids /\ s.st[sid].open THEN sid ELSE "none"

Dispatch(s, h, f, luck) ==
    CASE h \in {"syn", "syn_stream"} -> state_syn_stream(s, f, luck)
      [] h = "headers" -> state_headers(s, luck)
      [] h = "loop" -> header_loop(s)
      [] h = "headers_skip" -> state_headers_skip(s)
      [] h = "data" -> state_data(s, f, luck)
      [] h \in {"rst", "rst_stream"} -> state_rst_stream(s, f, luck)
      [] h = "ping" -> state_ping(s)
      [] h = "noop" -> state_noop(s)
      [] h = "settings" -> state_settings(s, f)
      [] h \in {"syn_reply", "headers_frame"} -> protocol_error(s)
      [] OTHER -> state_skip(s)

(* ngx_http_spdy_state_head(): it believes that a frame starts here *)
state_head(s, luck) ==
    LET f == fs[s.p.in[1].f]
        s1 == [Eat(s, HeadSize) EXCEPT !.p.length = FrameLen(f), !.p.frame = s.p.in[1].f,
                 !.p.stream = IF f.type = "data" THEN get_stream_by_id(s, f.sid) ELSE @]
    IN  IF Avail(s) < HeadSize THEN save(s, "head")
        ELSE IF s.p.in[1].k # 0 THEN [protocol_error(s) EXCEPT !.p.lost = TRUE]
        ELSE Dispatch(s1, IF f.type = "settings" THEN "skip" ELSE f.type, f, luck)

(* ngx_http_spdy_state_detect_settings() *)
state_detect_settings(s, luck) ==
    LET f == fs[1] IN
    IF Avail(s) < HeadSize THEN save(s, "detect_settings")
    ELSE IF f.type = "settings"
    THEN state_settings([Eat(s, HeadSize) EXCEPT !.p.length = FrameLen(f), !.p.frame = 1], f)
    ELSE state_head(Queue(s, "settings"), luck)

Handle(s, luck) ==
    CASE s.p.h = "detect_settings" -> state_detect_settings(s, luck)
      [] s.p.h = "head" -> state_head(s, luck)
      [] OTHER -> Dispatch(s, s.p.h, fs[s.p.frame], luck)

S == [p |-> p, st |-> st]
Becomes(s) == p' = s.p /\ st' = s.st

Init == /\ fs \in Sessions /\ got = 0
        /\ p = [h |-> "detect_settings", in |-> <<>>, more |-> FALSE, waiting |-> FALSE, length |-> 0,
                frame |-> 1, stream |-> "none", headers |-> -1, processing |-> 0, out |-> <<>>,
                inflated |-> 0, lost |-> FALSE, over |-> FALSE]
        /\ st = [i \in Sids |-> NoStream]

(* ngx_http_spdy_read_handler(): what recv() returns is put after what was saved *)
Recv == /\ ~p.more /\ p.h # "dead"
        /\ \E n \in 1..(Len(Wire(fs)) - got) :
             /\ got' = got + n
             /\ p' = [p EXCEPT !.in = @ \o SubSeq(Wire(fs), got + 1, got + n), !.more = TRUE,
                               !.waiting = FALSE]
        /\ UNCHANGED <<fs, st>>
Step == /\ p.more /\ \E luck \in BOOLEAN : Becomes(Handle(S, luck))
        /\ UNCHANGED <<fs, got>>

(* the request of a stream acts between two frames of a read or between reads *)
Running(i) == st[i].open /\ st[i].ran /\ (~p.more \/ p.h = "head") /\ p.h # "dead"
Changes(s) == Becomes(s) /\ UNCHANGED <<fs, got>>

(* ngx_http_spdy_read_request_body() *)
BodyThere(r) == r.skip = "discard" \/ r.in_closed
read_request_body(i) ==
    LET r == st[i] IN
    /\ Running(i) /\ ~r.wants /\ r.calls = 0 /\ r.answer = "none"
    /\ CASE r.skip = "error" -> Changes(finalize(S, i, BodyError(r)))
         [] r.skip # "error" /\ BodyThere(r) -> Changes([S EXCEPT !.st[i] = PostHandler(r)])
         [] OTHER -> Changes([S EXCEPT !.st[i] = [r EXCEPT !.init = TRUE, !.wants = TRUE]])
(* ngx_http_discard_request_body() *)
discard_request_body(i) ==
    /\ Running(i) /\ ~st[i].wants /\ st[i].calls = 0 /\ st[i].skip = "no"
    /\ Changes([S EXCEPT !.st[i].skip = "discard"])
(* ngx_http_close_request() of a request that has answered *)
Answer(i) == /\ Running(i)
             /\ Changes(close_stream([S EXCEPT !.st[i].answer = "200"], i))

AllRead == got = Len(Wire(fs)) /\ ~p.more
Idle == AllRead /\ UNCHANGED ivars
Gone == p.h = "dead" /\ UNCHANGED ivars
Next == Recv \/ Step \/ Idle \/ Gone
        \/ \E i \in Sids : read_request_body(i) \/ discard_request_body(i) \/ Answer(i)
Spec == Init /\ [][Next]_ivars

-----------------------------------------------------------------------------
(* Types; processing counts the open streams and stays within the limit; what
   a handler leaves for the next read fits the connection's state buffer. *)
TypeOK == /\ p.processing = Cardinality({i \in Sids : st[i].open}) /\ p.processing <= MaxStreams
          /\ p.stream \in Sids \cup {"none"} /\ p.length >= 0
          /\ ~p.more /\ p.h # "dead" => Len(p.in) < StateBuffer

(* Wherever the reads cut the frames, the parser takes the first byte of a
   frame for a frame header and nothing else, unless a body has outgrown its
   limit in a frame that was cut: that frame is counted twice. *)
InSync == p.lost => p.over

(* Every byte of every header block goes through the shared inflater, once and
   in order, the blocks of refused and of broken streams too. *)
InflatesAll ==
    LET before == IF p.in = <<>> THEN Len(fs) + (IF AllRead THEN 0 ELSE -99) ELSE p.in[1].f - 1 IN
    p.h = "head" /\ ~p.lost /\ before >= 0 /\ (p.in # <<>> => p.in[1].k = 0)
      => p.inflated = Len(Blocks(SubSeq(fs, 1, before)))

Sent(i) == CHOOSE f \in Range(fs) : f.type = "syn" /\ f.sid = i
SentHeaders(f) == [j \in 1..f.block[1].num |-> <<f.block[4 * j - 1].name, f.block[4 * j + 1].val>>]
SentBody(i) == FlattenSeq([j \in DOMAIN fs |->
                  IF fs[j].type = "data" /\ fs[j].sid = i THEN fs[j].data ELSE <<>>])

(* A request runs with the headers its client sent, in their order, wherever
   the reads and the header buffers cut them. *)
HeadersAsSent == \A i \in Sids : st[i].ran => st[i].hdrs = SentHeaders(Sent(i))

(* A request is told of its body at most once, when all of it is there (or
   when the request gave it up). *)
BodyAsSent == \A i \in Sids :
    /\ st[i].calls <= 1
    /\ st[i].calls = 1 /\ st[i].skip = "no" /\ st[i].answer # "cancelled" => st[i].body = SentBody(i)

(* A request that asked for a body that has ended has been told. *)
NoneForgotten == \A i \in Sids : AllRead /\ st[i].open /\ st[i].in_closed /\ st[i].answer = "none"
                                   => ~st[i].wants
=============================================================================
