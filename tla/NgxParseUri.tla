----------------------------- MODULE NgxParseUri -----------------------------
(***************************************************************************)
(* The request line: ngx_http_parse_request_line reads it one character at *)
(* a time, ngx_http_process_request_uri takes the URI from it, and         *)
(* ngx_http_parse_complex_uri normalises the URI when the first pass       *)
(* flagged it.                                                             *)
(*                                                                         *)
(* A character is one of each class the parser's state tells apart: "a" is *)
(* any character the table "usual" lists, "x" one that is wrong there.  An *)
(* escape ("%2F", "%2E", "%25", "%00") is one symbol: the digits after the *)
(* percent sign change nothing in the first pass; "%" is one that is cut.  *)
(***************************************************************************)
EXTENDS Integers, Sequences, FiniteSets, SequencesExt

CONSTANTS
    MaxUri,          \* bound: characters of the URI
    UriChars,        \* the classes a URI is made of
    MergeSlashes     \* merge_slashes on;

VARIABLES
    st,              \* r->state
    r,               \* what the parser noted
    res              \* the outcome, and the URI the request gets

vars == <<st, r, res>>

Escapes == {"%2F", "%2E", "%25", "%00", "%"}
NoRes == [code |-> "again"]
Fail(code) == res' = [code |-> code] /\ UNCHANGED <<st, r>>
Bad == Fail("invalid_request")
Goto(s, q) == st' = s /\ r' = q /\ UNCHANGED res
Stay == UNCHANGED <<st, r, res>>

(* The character becomes part of what follows uri_start. *)
Read(c) == [r EXCEPT !.raw = Append(@, c)]
At == Len(r.raw)

-----------------------------------------------------------------------------
(* ngx_http_parse_complex_uri, one operator per state.  x is the scan:     *)
(* its state, what it wrote to r->uri.data, the place after the last "." of *)
(* the extension and where it stopped.                                     *)

Put(x, s, c) == [x EXCEPT !.st = s, !.out = Append(@, c)]
Stop(x, why) == [x EXCEPT !.end = why]

(* What ends the path in every state, and a character that means nothing. *)
Common(x, c) ==
    CASE c = "?" -> Stop(x, "args")
      [] c = "#" -> Stop(x, "done")
      [] OTHER -> Put([x EXCEPT !.plus = @ \/ c = "+"], "usual", c)

complex_usual(x, c) ==
    CASE c = "/" -> Put([x EXCEPT !.ext = 0], "slash", c)
      [] c = "." -> Put([x EXCEPT !.ext = Len(x.out) + 2], "usual", c)
      [] OTHER -> Common(x, c)

complex_slash(x, c) ==
    CASE c = "/" -> IF MergeSlashes THEN x ELSE Put(x, "slash", c)
      [] c = "." -> Put(x, "dot", c)
      [] OTHER -> Common(x, c)

complex_dot(x, c) ==
    CASE c = "/" -> [x EXCEPT !.st = "slash", !.out = Front(@)]
      [] c = "." -> Put(x, "dot_dot", c)
      [] OTHER -> Common(x, c)

(* Mutant: only the dots are taken back. *)
complex_dot_dot_Short(x, c) ==
    CASE c = "/" -> [x EXCEPT !.st = "slash", !.out = SubSeq(@, 1, Len(@) - 2)]
      [] OTHER -> Common(x, c)

(* "/x/../": back to the slash before x, which is five characters back or more. *)
complex_dot_dot(x, c) ==
    LET back == {i \in 1 .. Len(x.out) - 4 : x.out[i] = "/"}
    IN  CASE c = "/" /\ back = {} -> Stop(x, "invalid")
          [] c = "/" /\ back # {} ->
                [x EXCEPT !.st = "slash", !.out = SubSeq(@, 1, CHOOSE i \in back : \A j \in back : j <= i)]
          [] OTHER -> Common(x, c)

Plain(x, c) ==
    CASE x.st = "usual" -> complex_usual(x, c)
      [] x.st = "slash" -> complex_slash(x, c)
      [] x.st = "dot" -> complex_dot(x, c)
      [] OTHER -> complex_dot_dot(x, c)

(* An escape is decoded and then read in the state it was met in; a decoded      *)
(* percent sign is an ordinary character, a decoded zero an error.  A cut one    *)
(* waits for its digits: what comes next is wrong, but the URI may end there.    *)
complex_quoted(x, c) ==
    CASE c = "%2F" -> Plain(x, "/")
      [] c = "%2E" -> Plain(x, ".")
      [] c = "%25" -> Put(x, "usual", "pct")
      [] c = "%" -> [x EXCEPT !.st = "quoted"]
      [] OTHER -> Stop(x, "invalid")

ngx_http_parse_complex_uri(uri) ==
    LET Visit(x, c) == IF x.end # "no" THEN x
                       ELSE IF x.st = "quoted" THEN Stop(x, "invalid")
                       ELSE IF c \in Escapes THEN complex_quoted([x EXCEPT !.n = @ + 1], c)
                       ELSE Plain([x EXCEPT !.n = @ + 1], c)
        x == FoldLeft(Visit, [st |-> "usual", out |-> <<>>, ext |-> 0, plus |-> FALSE, end |-> "no", n |-> 0], uri)
        rest == SubSeq(uri, x.n + 1, Len(uri))
        hash == {i \in DOMAIN rest : rest[i] = "#"}
    IN  [ok   |-> x.end # "invalid", uri |-> x.out, ext |-> x.ext,
         args |-> IF x.end # "args" THEN <<>>
                  ELSE IF hash = {} THEN rest
                  ELSE SubSeq(rest, 1, (CHOOSE i \in hash : \A j \in hash : i <= j) - 1)]

(* ngx_http_parse_uri: the URI of a SPDY request, which starts with a slash, is *)
(* looked through as a whole for what the first pass notes.                     *)
ngx_http_parse_uri(uri) ==
    LET Look(x, c) ==
            CASE x.st = "uri" -> [x EXCEPT !.complex = @ \/ c = "#"]
              [] c = "/" -> [x EXCEPT !.uri_ext = IF x.st = "check_uri" THEN 0 ELSE @,
                                      !.complex = x.st # "check_uri",
                                      !.st = IF x.st = "check_uri" THEN "after_slash_in_uri" ELSE "uri"]
              [] c = "." /\ x.st = "after_slash_in_uri" -> [x EXCEPT !.complex = TRUE, !.st = "uri"]
              [] c = "." /\ x.st = "check_uri" -> [x EXCEPT !.uri_ext = x.n + 1]
              [] c \in Escapes -> [x EXCEPT !.quoted = TRUE, !.st = "uri"]
              [] c = "?" -> [x EXCEPT !.args_start = x.n + 1, !.st = "uri"]
              [] c = "#" -> [x EXCEPT !.complex = TRUE, !.st = "uri"]
              [] c = "+" -> [x EXCEPT !.plus = TRUE]
              [] OTHER -> [x EXCEPT !.st = "check_uri"]
    IN  FoldLeft(LAMBDA x, c : Look([x EXCEPT !.n = @ + 1], c),
                 [st |-> "after_slash_in_uri", n |-> 1, args_start |-> 0, uri_ext |-> 0, complex |-> FALSE,
                  quoted |-> FALSE, plus |-> FALSE], Tail(uri))

(* ngx_http_process_request_uri *)
process_request_uri(q) ==
    LET whole == SubSeq(q.raw, 1, q.uri_end)
        len   == IF q.args_start # 0 THEN q.args_start - 2 ELSE q.uri_end
        c     == ngx_http_parse_complex_uri(whole)
    IN  IF q.complex \/ q.quoted
        THEN IF ~c.ok THEN [code |-> "invalid_request"]
             ELSE [code |-> "ok", uri |-> c.uri, args |-> c.args, ext |-> c.ext, room |-> len + 1, q |-> q]
        ELSE [code |-> "ok", uri |-> SubSeq(whole, 1, len),
              args |-> IF q.args_start # 0 THEN SubSeq(whole, q.args_start, Len(whole)) ELSE <<>>,
              ext |-> q.uri_ext, room |-> len + 1, q |-> q]

(* done: HTTP/0.9 knows only GET. *)
Done(q) ==
    /\ res' = IF q.v09 /\ q.method # "GET" THEN [code |-> "invalid_09_method"] ELSE process_request_uri(q)
    /\ r' = q
    /\ st' = "start"

-----------------------------------------------------------------------------
sw_start(c) ==
    /\ st = "start" /\ c \in {"CR", "LF", "G", "x"}
    /\ CASE c \in {"CR", "LF"} -> Stay
         [] c = "x" -> Fail("invalid_method")
         [] OTHER -> Goto("method", r)

sw_method(c) ==
    /\ st = "method" /\ c \in {"G", " ", "x"}
    /\ CASE c = " " -> \E m \in {"GET", "other"} : Goto("spaces_before_uri", [r EXCEPT !.method = m])
         [] c = "x" -> Fail("invalid_method")
         [] OTHER -> Stay

sw_spaces_before_uri(c) ==
    /\ st = "spaces_before_uri" /\ c \in {"/", "a", " ", "x"}
    /\ CASE c = "/" -> Goto("after_slash_in_uri", Read(c))
         [] c = "a" -> Goto("schema", r)
         [] c = " " -> Stay
         [] OTHER -> Bad

sw_schema(c) ==
    /\ st \in {"schema", "schema_slash", "schema_slash_slash"} /\ c \in {"a", ":", "/", "x"}
    /\ CASE st = "schema" /\ c = "a" -> Stay
         [] st = "schema" /\ c = ":" -> Goto("schema_slash", r)
         [] st = "schema_slash" /\ c = "/" -> Goto("schema_slash_slash", r)
         [] st = "schema_slash_slash" /\ c = "/" -> Goto("host_start", r)
         [] OTHER -> Bad

(* The host ends: "http://host HTTP/1.1" asks for "/", the slash of the scheme. *)
HostEnd(c) ==
    CASE c = "/" -> Goto("after_slash_in_uri", Read(c))
      [] c = " " -> Goto("host_http_09", [Read("/") EXCEPT !.uri_end = 1])
      [] OTHER -> Bad

sw_host(c) ==
    /\ st \in {"host_start", "host", "host_end"} /\ c \in {"a", "[", ":", "/", " ", "x"}
    /\ CASE st = "host_start" /\ c = "[" -> Goto("host_ip_literal", r)
         [] st # "host_end" /\ c = "a" -> Goto("host", r)
         [] c = ":" -> Goto("port", r)
         [] OTHER -> HostEnd(c)

sw_host_ip_literal(c) ==
    /\ st = "host_ip_literal" /\ c \in {"a", "]", "x"}
    /\ CASE c = "a" -> Stay
         [] c = "]" -> Goto("host_end", r)
         [] OTHER -> Bad

sw_port(c) ==
    /\ st = "port" /\ c \in {"1", "/", " ", "x"}
    /\ IF c = "1" THEN Stay ELSE HostEnd(c)

sw_host_http_09(c) ==
    /\ st = "host_http_09" /\ c \in {" ", "CR", "LF", "H", "x"}
    /\ CASE c = " " -> Stay
         [] c = "CR" -> Goto("almost_done", [r EXCEPT !.v09 = TRUE])
         [] c = "LF" -> Done([r EXCEPT !.v09 = TRUE])
         [] c = "H" -> Goto("http_H", r)
         [] OTHER -> Bad

(* The URI ends: with a space a version may follow, with the line HTTP/0.9. *)
UriEnd(c, next) ==
    CASE c = " " -> Goto(next, [r EXCEPT !.uri_end = At, !.raw = Append(@, c)])
      [] c = "CR" -> Goto("almost_done", [r EXCEPT !.uri_end = At, !.v09 = TRUE])
      [] c = "LF" -> Done([r EXCEPT !.uri_end = At, !.v09 = TRUE])
      [] OTHER -> Bad

(* check "/.", "//", "%" and "#" in the URI *)
sw_after_slash_in_uri(c) ==
    /\ st = "after_slash_in_uri" /\ c \in UriChars
    /\ CASE c \in {" ", "CR", "LF", "NUL"} -> UriEnd(c, "check_uri_http_09")
         [] c \in {".", "/", "#"} -> Goto("uri", [Read(c) EXCEPT !.complex = TRUE])
         [] c \in Escapes -> Goto("uri", [Read(c) EXCEPT !.quoted = TRUE])
         [] c = "?" -> Goto("uri", [Read(c) EXCEPT !.args_start = At + 2])
         [] c = "+" -> Goto(st, [Read(c) EXCEPT !.plus = TRUE])
         [] OTHER -> Goto("check_uri", Read(c))

(* check "/", "%" and "#" in the URI *)
sw_check_uri(c) ==
    /\ st = "check_uri" /\ c \in UriChars
    /\ CASE c \in {" ", "CR", "LF", "NUL"} -> UriEnd(c, "check_uri_http_09")
         [] c = "/" -> Goto("after_slash_in_uri", [Read(c) EXCEPT !.uri_ext = 0])
         [] c = "." -> Goto(st, [Read(c) EXCEPT !.uri_ext = At + 2])
         [] c \in Escapes -> Goto("uri", [Read(c) EXCEPT !.quoted = TRUE])
         [] c = "?" -> Goto("uri", [Read(c) EXCEPT !.args_start = At + 2])
         [] c = "#" -> Goto("uri", [Read(c) EXCEPT !.complex = TRUE])
         [] OTHER -> Goto(st, [Read(c) EXCEPT !.plus = @ \/ c = "+"])

(* A space in the URI, or the version: the character after a space that is not *)
(* an "H" is read as part of the URI and not looked at.                        *)
sw_check_uri_http_09(c) ==
    /\ st \in {"check_uri_http_09", "http_09"} /\ c \in UriChars \union {"H"}
    /\ CASE c = " " -> Goto(st, Read(c))
         [] c = "CR" -> Goto("almost_done", [r EXCEPT !.v09 = TRUE])
         [] c = "LF" -> Done([r EXCEPT !.v09 = TRUE])
         [] c = "H" -> Goto("http_H", r)
         [] OTHER -> Goto(IF st = "http_09" THEN "uri" ELSE "check_uri", [Read(c) EXCEPT !.space = TRUE])

sw_uri(c) ==
    /\ st = "uri" /\ c \in UriChars
    /\ CASE c \in {" ", "CR", "LF", "NUL"} -> UriEnd(c, "http_09")
         [] OTHER -> Goto(st, [Read(c) EXCEPT !.complex = @ \/ c = "#"])

(* "HTTP/", then the two numbers. *)
sw_http_H(c) ==
    /\ st \in {"http_H", "http_HT", "http_HTT", "http_HTTP"} /\ c \in {"T", "P", "/", "x"}
    /\ CASE st = "http_H" /\ c = "T" -> Goto("http_HT", r)
         [] st = "http_HT" /\ c = "T" -> Goto("http_HTT", r)
         [] st = "http_HTT" /\ c = "P" -> Goto("http_HTTP", r)
         [] st = "http_HTTP" /\ c = "/" -> Goto("first_major_digit", r)
         [] OTHER -> Bad

sw_digits(c) ==
    /\ st \in {"first_major_digit", "major_digit", "first_minor_digit", "minor_digit"}
    /\ c \in {"1", ".", " ", "CR", "LF", "x"}
    /\ CASE st = "first_major_digit" /\ c = "1" -> Goto("major_digit", r)
         [] st = "major_digit" /\ c = "." -> Goto("first_minor_digit", r)
         [] st = "first_minor_digit" /\ c = "1" -> Goto("minor_digit", r)
         [] st \in {"major_digit", "minor_digit"} /\ c = "1" -> Stay
         [] st = "minor_digit" /\ c = "CR" -> Goto("almost_done", r)
         [] st = "minor_digit" /\ c = "LF" -> Done(r)
         [] st = "minor_digit" /\ c = " " -> Goto("spaces_after_digit", r)
         [] OTHER -> Bad

sw_spaces_after_digit(c) ==
    /\ st = "spaces_after_digit" /\ c \in {" ", "CR", "LF", "x"}
    /\ CASE c = " " -> Stay
         [] c = "CR" -> Goto("almost_done", r)
         [] c = "LF" -> Done(r)
         [] OTHER -> Bad

sw_almost_done(c) ==
    /\ st = "almost_done" /\ c \in {"LF", "x"}
    /\ IF c = "LF" THEN Done(r) ELSE Bad

-----------------------------------------------------------------------------
Init ==
    /\ st = "start"
    /\ r = [raw |-> <<>>, method |-> "none", uri_end |-> 0, args_start |-> 0, uri_ext |-> 0, complex |-> FALSE,
            quoted |-> FALSE, plus |-> FALSE, space |-> FALSE, v09 |-> FALSE]
    /\ res = NoRes

AllChars == UriChars \union {"G", "H", "T", "P", "1", ":", "[", "]", "x"}

Char(c) ==
    /\ res = NoRes
    /\ Len(r.raw) = MaxUri => c \in {" ", "CR", "LF", "H"} \/ st \notin
         {"after_slash_in_uri", "check_uri", "check_uri_http_09", "uri", "http_09"}
    /\ Len(r.raw) <= MaxUri
    /\ \/ sw_start(c) \/ sw_method(c) \/ sw_spaces_before_uri(c) \/ sw_schema(c) \/ sw_host(c)
       \/ sw_host_ip_literal(c) \/ sw_port(c) \/ sw_host_http_09(c)
       \/ sw_after_slash_in_uri(c) \/ sw_check_uri(c) \/ sw_check_uri_http_09(c) \/ sw_uri(c)
       \/ sw_http_H(c) \/ sw_digits(c) \/ sw_spaces_after_digit(c) \/ sw_almost_done(c)

Next == \E c \in AllChars : Char(c)

Spec == Init /\ [][Next]_vars

-----------------------------------------------------------------------------
TypeOK ==
    /\ res.code \in {"again", "ok", "invalid_request", "invalid_method", "invalid_09_method"}
    /\ Len(r.raw) <= MaxUri + 1
    /\ \A i \in DOMAIN r.raw : r.raw[i] \in UriChars

Ok == res.code = "ok" /\ ~res.q.space

(* The path as a reader of the URI would see it: decoded once, up to the first *)
(* question mark or fragment, cut into segments.                               *)
Decode(c) == CASE c = "%2F" -> "/" [] c = "%2E" -> "." [] c = "%25" -> "pct" [] OTHER -> c
Until(s, stops) ==
    LET S == {i \in DOMAIN s : s[i] \in stops}
    IN  IF S = {} THEN s ELSE SubSeq(s, 1, (CHOOSE i \in S : \A j \in S : i <= j) - 1)
Path == LET p == SelectSeq(Until(SubSeq(res.q.raw, 1, res.q.uri_end), {"?", "#"}), LAMBDA c : c # "%")
        IN  [i \in DOMAIN p |-> Decode(p[i])]

Pieces ==
    LET cut == SelectSeq([i \in DOMAIN Path |-> i], LAMBDA i : Path[i] = "/") \o <<Len(Path) + 1>>
    IN  [k \in 1 .. Len(cut) - 1 |-> SubSeq(Path, cut[k] + 1, cut[k + 1] - 1)]

(* What a directory stack makes of the segments that a slash ends.  With        *)
(* merge_slashes off an empty segment stays, and ".." takes it away together    *)
(* with the one before it.                                                      *)
Walk(dirs, p) ==
    CASE p = <<".">> \/ (MergeSlashes /\ p = <<>>) -> dirs
      [] p = <<".", ".">> -> LET n == IF dirs # <<>> /\ dirs[Len(dirs)] = <<>> THEN 2 ELSE 1
                             IN  SubSeq(dirs, 1, Len(dirs) - n)
      [] OTHER -> Append(dirs, p)

(* A URI without spaces comes out normalised, whether the first pass found it    *)
(* simple or sent it to ngx_http_parse_complex_uri: the directories are those a  *)
(* walk over the decoded segments leaves, and the last segment is kept.          *)
Normalised ==
    Ok => LET dirs == FoldLeft(Walk, <<>>, Front(Pieces))
          IN  res.uri = FlattenSeq([k \in DOMAIN dirs |-> <<"/">> \o dirs[k]]) \o <<"/">> \o Pieces[Len(Pieces)]

(* What is written stays in the buffer that was allocated for the URI before its *)
(* escapes and its dots were looked at.                                          *)
FitsBuffer == res.code = "ok" => Len(res.uri) <= res.room - 1

(* A path without dot segments and empty ones is what the reader sees, decoded   *)
(* once: nothing is lost, added or decoded twice.                                *)
PlainPathKept ==
    Ok /\ (\A k \in DOMAIN Pieces : Pieces[k] \notin {<<>>, <<".">>, <<".", ".">>}) => res.uri = Path

(* The arguments are what stands between the first question mark and the         *)
(* fragment, in both ways through the parser.                                    *)
ArgsFound ==
    Ok => LET whole == SubSeq(res.q.raw, 1, res.q.uri_end)
              path  == Until(whole, {"?", "#"})
              rest  == SubSeq(whole, Len(path) + 2, Len(whole))
          IN  res.args = IF Len(path) < Len(whole) /\ whole[Len(path) + 1] = "?" THEN Until(rest, {"#"}) ELSE <<>>

(* The parser of the request line and that of a SPDY path note the same about   *)
(* the same URI: which way it then goes does not depend on the protocol.        *)
ParsersAgree ==
    Ok => LET x == ngx_http_parse_uri(SubSeq(res.q.raw, 1, res.q.uri_end))
          IN  \A f \in {"args_start", "uri_ext", "complex", "quoted", "plus"} : x[f] = res.q[f]

(* The extension, which chooses the MIME type, starts after a dot of the last    *)
(* segment and contains no slash.                                                *)
ExtensionInLastSegment ==
    Ok /\ res.ext # 0 =>
        /\ res.ext - 1 \in DOMAIN res.uri => res.uri[res.ext - 1] = "."
        /\ \A i \in DOMAIN res.uri : i >= res.ext => res.uri[i] # "/"
=============================================================================
