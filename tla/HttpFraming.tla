----------------------------- MODULE HttpFraming -----------------------------
(***************************************************************************)
(* How HttpTransact decides where a message ends and what becomes of the   *)
(* connection: the Connection headers of both sides, Content-Length,       *)
(* Transfer-Encoding, the hop-by-hop fields, and what an error response    *)
(* does to a request body that was not read.                               *)
(*                                                                         *)
(* A header is [fields, conn, pconn, cl, te]: the names of its other       *)
(* fields, the tokens of Connection and Proxy-Connection, Content-Length   *)
(* (Absent, a negative number when it is malformed) and the transfer       *)
(* codings.  The versions are 9, 10 and 11.                                *)
(*                                                                         *)
(* Then ChunkedHandler of HttpChunk.cpp, on its own variables: the reader  *)
(* of chunked bodies, which works on whatever part of the body has come,   *)
(* and the writer.  A byte is a hex digit, CR, LF or another byte; data    *)
(* bytes are numbered.                                                     *)
(***************************************************************************)
EXTENDS Integers, Sequences, FiniteSets, SequencesExt, FiniteSetsExt

CONSTANTS
    Requests,        \* [ver, method, h, body]
    Answers,         \* [ver, status, h, body]: body is what the server really sends
    Objects,         \* [h, size]: cached responses; size RWW while it is being written
    Conf,            \* [ka_in, ka_out, pipeline, http11, chunking, fwd_auth, to_parent,
                     \*  insert_ip, remove, agent]: whether Client-ip is inserted, the names
                     \*  anonymised away, and whether there is a global User-Agent
    MaxRequests,     \* bound: requests of a connection
    MaxData,         \* bytes of data in a chunked body
    max_chunk_size,
    IntBits          \* width of running_sum

VARIABLES
    s,               \* HttpTransact::State, the part about framing
    phase,           \* idle, request, sent, response, closed
    hostdb,          \* the version HostDB remembers of the server
    sent,            \* the last response to the client
    asked,           \* the last request to the server
    n,               \* requests so far
    input,           \* [bytes, data, good]: a chunked body, what it says, and whether it is in order
    come,            \* bytes of it that have come
    reader           \* ChunkedHandler: [state, used, sum, digits, left, out]

vars == <<s, phase, hostdb, sent, asked, n>>
cvars == <<input, come, reader>>

Absent == -2
Undefined == -1      \* HTTP_UNDEFINED_CL
RWW == 99            \* INT64_MAX as the object's size
HopByHop == {"Keep-Alive", "Proxy-Authorization", "TE", "Upgrade"}
ProxyAuth == {"Proxy-Authorization"}
NoBodyMethods == {"GET", "HEAD", "OPTIONS", "PURGE", "DELETE", "TRACE"}

precluded(status, method) == status \in {304, 204} \/ status \in 100 .. 199 \/ method = "HEAD"

con_token(tokens) ==
    LET known == SelectSeq(tokens, LAMBDA t : t \in {"keep-alive", "close"})
    IN  IF known = <<>> THEN "none" ELSE known[1]

is_header_keep_alive(ver, request_ver, tokens) ==
    \/ ver = 10 /\ con_token(tokens) = "keep-alive"
    \/ ver = 11 /\ (con_token(tokens) = "keep-alive" \/ (con_token(tokens) = "none" /\ request_ver = 11))

(* Copy all non hop-by-hop header fields. *)
copy_header_fields(h, retain) ==
    [h EXCEPT !.conn = <<>>, !.pconn = <<>>,
              !.fields = @ \ {f \in HopByHop : ~(retain /\ f \in ProxyAuth)}]

(* The fields that the tokens of a Connection header name. *)
named_by(tokens) ==
    IF tokens \in {<<"keep-alive">>, <<"close">>} THEN {}
    ELSE ToSet(tokens) \ {"keep-alive", "close", "Host", "Date"}

process_connection_headers(base, out) ==
    [out EXCEPT !.fields = @ \ (named_by(base.conn) \union named_by(base.pconn))]

-----------------------------------------------------------------------------
Reset == [client |-> [ka |-> FALSE, ver |-> 0, proxy_connect |-> FALSE, chunked |-> FALSE],
          server |-> [ka |-> FALSE, ver |-> 0, chunked |-> FALSE],
          method |-> "GET", req |-> [fields |-> {}, conn |-> <<>>, pconn |-> <<>>, cl |-> Absent, te |-> <<>>],
          req_cl |-> Undefined, body |-> 0, read |-> 0, resp |-> [status |-> 0], trust |-> FALSE,
          source |-> "none"]

NoMsg == [status |-> 0]

(* initialize_state_variables_from_request *)
Receive(q) ==
    /\ phase = "idle" /\ n < MaxRequests
    /\ LET tokens == IF q.h.pconn # <<>> THEN q.h.pconn ELSE q.h.conn
       IN  s' = [Reset EXCEPT !.method = q.method, !.req = q.h, !.body = q.body,
                    !.client = [ka |-> Conf.ka_in /\ is_header_keep_alive(q.ver, q.ver, tokens), ver |-> q.ver,
                                proxy_connect |-> q.h.pconn # <<>>, chunked |-> FALSE],
                    !.req_cl = IF q.method = "TRACE" THEN 0
                               ELSE IF q.h.cl < 0 \/ q.h.te # <<>> THEN Undefined ELSE q.h.cl]
    /\ phase' = "request" /\ n' = n + 1
    /\ UNCHANGED <<hostdb, sent, asked>>

(* The body is passed on while the request is. *)
ReadBody ==
    /\ phase \in {"request", "sent"} /\ s.read < s.body
    /\ s' = [s EXCEPT !.read = s.body]
    /\ UNCHANGED <<phase, hostdb, sent, asked, n>>

(* get_ka_info_from_host_db *)
ka_info(db) ==
    LET v11 == Conf.http11 = "always" \/ (Conf.http11 = "hostdb" /\ db = 11)
               \/ (Conf.http11 = "if_request" /\ s.client.ver = 11 /\ db = 11)
        ver == IF v11 THEN 11 ELSE IF db = 9 THEN 9 ELSE 10
    IN  [ver |-> ver, ka |-> ver # 9 /\ Conf.ka_out /\ Conf.pipeline, chunked |-> FALSE]

(* handle_request_keep_alive_headers: the request's header and the server's state *)
request_keep_alive(srv, h) ==
    LET connect == srv.ka /\ srv.ver # 9 /\ (s.method \in NoBodyMethods \/ h.cl >= 0)
        say(t)  == IF Conf.to_parent THEN [h EXCEPT !.conn = <<>>, !.pconn = t] ELSE [h EXCEPT !.conn = t, !.pconn = <<>>]
    IN  CASE connect -> [h |-> say(IF srv.ver = 10 THEN <<"keep-alive">> ELSE <<>>), ka |-> TRUE]
          [] ~connect /\ (srv.ka \/ srv.ver = 11) -> [h |-> say(<<"close">>), ka |-> FALSE]
          [] OTHER -> [h |-> say(<<>>), ka |-> srv.ka]

(* add_client_ip_to_outgoing_request: before the tokens of Connection are obeyed. *)
add_client_ip(h) ==
    [h EXCEPT !.fields = @ \union (IF Conf.insert_ip /\ "Client-ip" \notin Conf.remove THEN {"Client-ip"} ELSE {})
                           \union (IF Conf.insert_ip THEN {"X-Forwarded-For"} ELSE {})]

(* remove_privacy_headers_from_request, then add_global_user_agent_header_to_request, *)
(* then the Host field that is missing.                                               *)
own_fields(h) ==
    [h EXCEPT !.fields = (@ \ Conf.remove) \union (IF Conf.agent THEN {"User-Agent"} ELSE {}) \union {"Host"}]

(* build_request, and convert_request for a server that speaks HTTP/0.9 *)
Forward ==
    /\ phase = "request"
    /\ LET srv == ka_info(hostdb)
           h   == own_fields(process_connection_headers(s.req, add_client_ip(copy_header_fields(s.req, Conf.fwd_auth))))
           k   == request_keep_alive(srv, h)
       IN  /\ s' = [s EXCEPT !.server = [srv EXCEPT !.ka = k.ka]]
           /\ asked' = [status |-> 1, ver |-> srv.ver,
                        h |-> IF srv.ver = 9 THEN [k.h EXCEPT !.fields = {}, !.conn = <<>>, !.pconn = <<>>] ELSE k.h]
    /\ hostdb' = IF hostdb = 0 /\ ka_info(hostdb).ver # 11 THEN 10 ELSE hostdb
    /\ phase' = "sent"
    /\ UNCHANGED <<sent, n>>

-----------------------------------------------------------------------------
(* initialize_state_variables_from_response: "chunked" is taken from the codings, *)
(* for the body is dechunked; the length is trusted when there is one.            *)
Reply(a) ==
    /\ phase = "sent"
    /\ LET tokens  == IF Conf.to_parent /\ a.h.pconn # <<>> THEN a.h.pconn ELSE a.h.conn
           chunked == \E i \in DOMAIN a.h.te : a.h.te[i] = "chunked"
           none    == precluded(a.status, s.method)
       IN  s' = [s EXCEPT !.server.ka = is_header_keep_alive(a.ver, asked.ver, tokens),
                          !.server.chunked = chunked,
                          !.trust = ~chunked /\ (none \/ a.h.cl # Absent),
                          !.resp = [status |-> a.status, body |-> IF none THEN 0 ELSE a.body,
                                    h |-> IF chunked
                                          THEN LET i == SelectInSeq(a.h.te, LAMBDA t : t = "chunked")
                                               IN  [a.h EXCEPT !.te = RemoveAt(@, i)]
                                          ELSE a.h]]
    /\ hostdb' = IF a.ver # s.server.ver THEN a.ver ELSE hostdb
    /\ phase' = "response"
    /\ UNCHANGED <<sent, asked, n>>

(* handle_content_length_header: the length of the server stays as it was judged, *)
(* that of the cache must agree with the object, that of a transform be known.    *)
content_length(z, h, status, size) ==
    CASE h.cl >= 0 -> [h |-> h, trust |-> CASE z.source = "server" -> z.trust
                                            [] z.source = "cache" -> size = h.cl
                                            [] OTHER -> size # Undefined]
      [] h.cl \notin {Absent} \union Nat -> [h |-> [h EXCEPT !.cl = Absent], trust |-> FALSE]
      [] h.cl = Absent /\ z.source = "cache" -> [h |-> [h EXCEPT !.cl = IF size = RWW THEN Absent ELSE size],
                                                trust |-> size # RWW]
      [] OTHER -> [h |-> h, trust |-> precluded(status, z.method)]

(* handle_response_keep_alive_headers; an untrusted length is replaced by chunks, *)
(* or else by the end of the connection.                                          *)
response_keep_alive(z, status, h, trust) ==
    LET able  == z.client.ka /\ z.client.ver # 9 /\ status # 204
        chunk == /\ able /\ z.client.ver = 11 /\ Conf.chunking /\ ~precluded(status, z.method)
                 /\ \/ z.source \in {"server", "transform"} /\ z.resp.status \notin {0, 304}
                       /\ (z.server.chunked \/ ~trust)
                    \/ z.source \in {"cache", "transform"} /\ ~trust
        ka    == able /\ (trust \/ chunk \/ z.method = "PUSH")
    IN  [h |-> IF chunk THEN [h EXCEPT !.te = Append(@, "chunked"), !.cl = Absent] ELSE h, ka |-> ka, chunk |-> chunk,
         say |-> IF ka THEN "keep-alive" ELSE IF z.client.ka \/ z.client.ver = 11 THEN "close" ELSE "none"]

(* The end of build_response, and what the state machine sends with it; code is  *)
(* the status that was asked for, 0 when it is that of the base.                 *)
Send(z, status, code, h, trust, body) ==
    LET k == response_keep_alive(z, status, h, trust \/ precluded(code, z.method))
    IN  /\ sent' = [status |-> status, h |-> k.h, say |-> k.say, chunked |-> k.chunk,
                    body |-> IF precluded(status, z.method) THEN 0 ELSE body,
                    method |-> z.method, ver |-> z.client.ver, unread |-> z.body - z.read]
        /\ s' = [z EXCEPT !.client.ka = k.ka, !.client.chunked = k.chunk]
        /\ phase' = IF k.ka THEN "idle" ELSE "closed"
        /\ UNCHANGED <<hostdb, asked, n>>

(* build_response from a base header. *)
SendBased(z, status, base, size, body) ==
    LET c == content_length(z, process_connection_headers(base, copy_header_fields(base, Conf.fwd_auth)), status, size)
    IN  Send(z, status, 0, c.h, c.trust, body)

(* What the server sent is passed on; by now it has the whole request. *)
FromServer ==
    /\ phase = "response" /\ s.resp.status # 304 /\ s.read = s.body
    /\ SendBased([s EXCEPT !.source = "server"], s.resp.status, s.resp.h, Undefined, s.resp.body)

(* The cache answers, at once or after the server's 304: with the object, *)
(* or with a 304 that has the fields a 304 may have.                       *)
FromCache(o, status) ==
    /\ phase = "request" \/ (phase = "response" /\ s.resp.status = 304)
    /\ s.read = s.body
    /\ LET z == [s EXCEPT !.source = "cache"]
       IN  IF status = 200 THEN SendBased(z, 200, o.h, o.size, IF o.size = RWW THEN 5 ELSE o.size)
           ELSE Send(z, 304, 304, [Reset.req EXCEPT !.fields = o.h.fields \intersect {"ETag", "Vary"}], z.trust, 0)

(* A transform: set_header_for_transform took the length away, and the transform *)
(* may have set the one it knows.                                                *)
FromTransform(len) ==
    /\ phase = "response" /\ s.resp.status = 200 /\ s.read = s.body
    /\ SendBased([s EXCEPT !.source = "transform"], 200,
                 [s.resp.h EXCEPT !.cl = IF len = Undefined THEN Absent ELSE len], len,
                 IF len = Undefined THEN 5 ELSE len)

(* If there is a request body, we must disable keep-alive to prevent the body      *)
(* being read as the next header.                                                  *)
unread_body(z) == z.req_cl # 0 /\ z.read < z.req_cl

(* build_error_response, before or after the request went to the server. *)
Fail(status) ==
    /\ phase \in {"request", "sent"}
    /\ LET z == [s EXCEPT !.source = "internal", !.client.ka = @ /\ ~unread_body(s)]
       IN  Send(z, status, status, [Reset.req EXCEPT !.cl = 3], s.trust \/ ~unread_body(s), 3)

-----------------------------------------------------------------------------
Init ==
    /\ s = Reset /\ phase = "idle" /\ hostdb \in {0, 9, 10, 11}
    /\ sent = NoMsg /\ asked = NoMsg /\ n = 0

Next ==
    \/ \E q \in Requests : Receive(q)
    \/ ReadBody \/ Forward
    \/ \E a \in Answers : Reply(a)
    \/ FromServer
    \/ \E o \in Objects, st \in {200, 304} : FromCache(o, st)
    \/ \E len \in {Undefined, 4} : FromTransform(len)
    \/ Fail(502)

Spec == Init /\ [][Next]_vars

-----------------------------------------------------------------------------
TypeOK ==
    /\ phase \in {"idle", "request", "sent", "response", "closed"}
    /\ hostdb \in {0, 9, 10, 11}
    /\ sent # NoMsg => sent.h.cl \in {Absent} \union Nat /\ sent.unread \in Nat

(* A client that is told the connection stays can tell where the response ends:  *)
(* there is no body, or its true length is given, or it is chunked.              *)
Delimited ==
    sent # NoMsg /\ sent.say = "keep-alive" =>
        precluded(sent.status, sent.method) \/ sent.chunked \/ sent.h.cl = sent.body

(* make sure no content length header is send when transfer encoding is chunked; *)
(* and chunks go only to a client that knows them, once.                          *)
ChunkedAlone ==
    sent # NoMsg =>
        LET coded == SelectSeq(sent.h.te, LAMBDA t : t = "chunked")
        IN  coded # <<>> => sent.chunked /\ sent.ver = 11 /\ sent.h.cl = Absent /\ Len(coded) = 1

(* Neither side gets a field that was meant for the proxy: a hop-by-hop field, or *)
(* one that the other side's Connection header names.                             *)
HopByHopStops ==
    /\ asked # NoMsg => asked.h.fields \intersect HopByHop \subseteq (IF Conf.fwd_auth THEN ProxyAuth ELSE {})
    /\ phase = "sent" => asked.h.fields \intersect (ToSet(s.req.conn) \union ToSet(s.req.pconn)) \subseteq {"Host", "Date"}
    /\ sent # NoMsg => sent.h.fields \intersect HopByHop \subseteq (IF Conf.fwd_auth THEN ProxyAuth ELSE {})

(* The connection to the client stays open exactly when it was told so, and only  *)
(* for a client that asked for it.                                                 *)
ToldTheTruth ==
    sent # NoMsg /\ phase \in {"idle", "closed"} =>
        (phase = "idle") = (sent.say = "keep-alive") /\ (sent.ver = 9 => phase = "closed")

(* The body of a request is never left on a connection where the next header is   *)
(* read.                                                                           *)
BodyNeverHeader == phase = "idle" /\ sent # NoMsg => sent.unread = 0

(* A server that is told nothing else may keep the connection, so its reply must   *)
(* be one the proxy can find the end of: a request with a body of unknown length   *)
(* says close.                                                                     *)
ClosesUnknown ==
    asked # NoMsg /\ phase = "sent" /\ s.method \notin NoBodyMethods /\ asked.h.cl < 0 /\ asked.ver = 11 =>
        "close" \in ToSet(asked.h.conn) \union ToSet(asked.h.pconn)

-----------------------------------------------------------------------------
Hex(m) == [k |-> "hex", v |-> m]
CR == [k |-> "cr", v |-> 0]
LF == [k |-> "lf", v |-> 0]
Other == [k |-> "other", v |-> 0]
Datum(m) == [k |-> "data", v |-> m]
CRLF == <<CR, LF>>
Run(from, m) == [i \in 1..m |-> Datum(from + i - 1)]

(* generate_chunked_content(): one call for what has been read since the last *)
ChunkOf(from, m) == <<Hex(m)>> \o CRLF \o Run(from, m) \o CRLF
generate_chunked_content(from, m) ==
    FlattenSeq([j \in 1..((m + max_chunk_size - 1) \div max_chunk_size) |->
                  LET f == from + (j - 1) * max_chunk_size
                  IN  ChunkOf(f, Min({max_chunk_size, from + m - f}))])
LastChunk == <<Hex(0)>> \o CRLF \o CRLF
Generated == {[bytes |-> generate_chunked_content(1, a) \o generate_chunked_content(a + 1, b) \o LastChunk,
               data |-> a + b, good |-> TRUE] : a \in 0..MaxData, b \in 0..MaxData}
(* bodies of others: extensions, leading zeros, trailers; a sign that is no digit, a size that is negative *)
Foreign ==
    {[bytes |-> <<Hex(0), Hex(2)>> \o ext \o CRLF \o Run(1, 2) \o CRLF \o <<Hex(0)>> \o CRLF \o tr \o CRLF,
      data |-> 2, good |-> TRUE] : ext \in {<<>>, <<Other, Hex(1)>>}, tr \in {<<>>, <<Other, CR, Other>> \o CRLF, <<Other>> \o CRLF}}
Broken ==
    {[bytes |-> b \o CRLF \o Run(1, 2) \o CRLF, data |-> 0, good |-> FALSE] : b \in {<<Other>>, <<>>, <<Hex(15), Hex(15)>>}}

ReaderInit ==
    /\ input \in Generated \cup Foreign \cup Broken
    /\ come = 0
    /\ reader = [state |-> "SIZE", used |-> 0, sum |-> 0, digits |-> 0, left |-> 0, out |-> <<>>]

Wrap(m) == LET w == m % 2^IntBits IN IF w >= 2^(IntBits - 1) THEN w - 2^IntBits ELSE w

(* read_size(): one byte *)
read_size(g, c) ==
    CASE g.state = "SIZE_START" -> IF c.k = "lf" THEN [g EXCEPT !.state = "SIZE", !.sum = 0, !.digits = 0] ELSE g
      [] g.state = "SIZE" -> IF c.k = "hex" THEN [g EXCEPT !.sum = Wrap(@ * 16 + c.v), !.digits = @ + 1]
                             ELSE [g EXCEPT !.state = IF g.digits = 0 \/ g.sum < 0 THEN "ERROR" ELSE "SIZE_CRLF"]
      [] OTHER -> IF c.k = "lf" THEN [g EXCEPT !.left = g.sum, !.state = IF g.sum = 0 THEN "TRAILER_BLANK" ELSE "CHUNK"] ELSE g
(* read_chunk() and transfer_bytes() *)
read_chunk(g, c) ==
    [g EXCEPT !.out = Append(@, c), !.left = @ - 1, !.state = IF g.left = 1 THEN "SIZE_START" ELSE @]
(* read_trailer(): one byte *)
read_trailer(g, c) ==
    [g EXCEPT !.state = CASE c.k = "cr" -> IF g.state = "TRAILER_BLANK" THEN "TRAILER_CR" ELSE "TRAILER_LINE"
                          [] c.k = "lf" -> IF g.state \in {"TRAILER_CR", "TRAILER_BLANK"} THEN "DONE" ELSE "TRAILER_BLANK"
                          [] OTHER -> "TRAILER_LINE"]

ReaderEnded == reader.state \in {"DONE", "ERROR"}
(* some bytes come *)
Arrive == /\ come < Len(input.bytes) /\ reader.used = come /\ ~ReaderEnded
          /\ \E m \in 1..(Len(input.bytes) - come) : come' = come + m
          /\ UNCHANGED <<input, reader>>
(* process_chunked_content(): byte by byte, whichever of its readers is at work *)
process_chunked_content ==
    /\ reader.used < come /\ ~ReaderEnded
    /\ LET c == input.bytes[reader.used + 1]
           g == [reader EXCEPT !.used = @ + 1]
       IN  reader' = CASE reader.state \in {"SIZE", "SIZE_CRLF", "SIZE_START"} -> read_size(g, c)
                       [] reader.state = "CHUNK" -> read_chunk(g, c)
                       [] OTHER -> read_trailer(g, c)
    /\ UNCHANGED <<input, come>>
ReaderRests == (ReaderEnded \/ (reader.used = come /\ come = Len(input.bytes))) /\ UNCHANGED cvars
ReaderNext == Arrive \/ process_chunked_content \/ ReaderRests

-----------------------------------------------------------------------------
(* What has been taken out of the chunks is the beginning of what was sent, however the body was cut. *)
DataAsSent == IsPrefix(reader.out, Run(1, input.data)) \/ ~input.good
(* A body in order ends at its last byte, no sooner, with all its data; a broken one is refused. *)
EndsExactly ==
    /\ reader.state = "DONE" => input.good /\ reader.used = Len(input.bytes) /\ Len(reader.out) = input.data
    /\ reader.state = "ERROR" => ~input.good
    /\ reader.used = Len(input.bytes) => ReaderEnded
=============================================================================
