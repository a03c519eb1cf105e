---------------------------- MODULE AtsHttpParser ----------------------------
(***************************************************************************)
(* The parser of HTTP headers: the line scanner and the field parser of    *)
(* hdr/MIME.cpp, and the request line and status line of http/Http.cpp.    *)
(* Input arrives in pieces of any size, and its end is announced with the  *)
(* last piece or after it.  A character is a string; "CR" and "LF" end     *)
(* lines.                                                                  *)
(***************************************************************************)
EXTENDS Integers, Sequences, FiniteSets, SequencesExt

CONSTANTS
    Kind,        \* "req" or "resp"
    Inputs,      \* what the other side sends
    LateEof      \* whether the end may be announced without data

VARIABLES
    input,       \* what is sent
    fed,         \* how much of it has been given to the parser
    p            \* HTTPParser and the header it fills

vars == <<input, fed, p>>

WS == {" ", "TAB"}
Space == WS \union {"CR", "LF"}
Digit == {"0", "1", "2", "9"}
Val(d) == CASE d = "0" -> 0 [] d = "1" -> 1 [] d = "2" -> 2 [] OTHER -> 9
NotToken == Space \union {":", "/", "@"}
None == <<>>

(* The first position from i on that has one of C, or the length + 1. *)
Next_(s, i, C) == LET hit == {j \in i .. Len(s) : s[j] \in C} IN IF hit = {} THEN Len(s) + 1 ELSE CHOOSE j \in hit : \A k \in hit : j <= k
(* The first position from i on that has none of C. *)
Past(s, i, C) == LET hit == {j \in i .. Len(s) : s[j] \notin C} IN IF hit = {} THEN Len(s) + 1 ELSE CHOOSE j \in hit : \A k \in hit : j <= k
(* The last position up to i that has none of C, or 0. *)
Before(s, i, C) == LET hit == {j \in 1 .. i : s[j] \notin C} IN IF hit = {} THEN 0 ELSE CHOOSE j \in hit : \A k \in hit : j >= k
Cut(s, i, j) == SubSeq(s, i, j)

-----------------------------------------------------------------------------
(* The loop of mime_scanner_get: state st, i characters of the piece taken, cr  *)
(* whether a lone CR was put back.                                              *)
RECURSIVE scan(_, _, _, _, _)
scan(st, s, i, type, cr) ==
    LET c    == s[i + 1]
        lf   == Next_(s, i + 1, {"LF"})
        stop(ret, x, j) == [ret |-> ret, st |-> x, i |-> j, cr |-> cr]
    IN  CASE i = Len(s) -> stop("CONT", st, i)
          [] i < Len(s) /\ st = "BEFORE" ->
                CASE c = "CR" /\ i + 2 <= Len(s) /\ s[i + 2] = "LF" -> stop("DONE", st, i + 2)
                  [] c = "CR" /\ ~(i + 2 <= Len(s) /\ s[i + 2] = "LF") -> scan("FOUND_CR", s, i + 1, type, cr)
                  [] c = "LF" -> stop("DONE", st, i + 1)
                  [] OTHER -> scan("INSIDE", s, i, type, cr)
          [] i < Len(s) /\ st = "FOUND_CR" ->
                IF c = "LF" THEN stop("DONE", st, i + 1) ELSE scan("INSIDE", s, i, type, TRUE)
          [] i < Len(s) /\ st = "INSIDE" ->
                CASE lf > Len(s) -> stop("CONT", st, Len(s))
                  [] lf <= Len(s) /\ type = "LINE" -> stop("OK", "BEFORE", lf)
                  [] OTHER -> scan("AFTER", s, lf, type, cr)
          [] OTHER -> IF c \in WS THEN scan("INSIDE", s, i, type, cr) ELSE stop("OK", "BEFORE", i)

(* The verdict when the data is used up: at the end of the input there is one. *)
Verdict(r, eof) ==
    CASE r.ret # "CONT" \/ ~eof -> r.ret
      [] r.ret = "CONT" /\ eof /\ r.i = 0 -> IF r.st # "INSIDE" THEN "DONE" ELSE "ERROR"
      [] OTHER -> IF r.st = "AFTER" THEN "OK" ELSE "ERROR"

(* Data that is not a whole line yet is saved, and comes before the data of the next call. *)
Scanned(r, ret, line, data) ==
    [ret |-> ret, out |-> IF ret = "CONT" THEN None ELSE line \o data, used |-> r.i,
     S |-> [st |-> IF ret # r.ret /\ ret # "ERROR" THEN "BEFORE" ELSE r.st, line |-> IF ret = "CONT" THEN line \o data ELSE None]]
mime_scanner_get(S, s, eof, type) ==
    LET With(r) == Scanned(r, Verdict(r, eof), IF r.cr THEN Append(S.line, "CR") ELSE S.line, Cut(s, 1, r.i))
    IN  With(scan(S.st, s, 0, type, FALSE))

(* A name:value line; garbage lines are tossed away. *)
field_of(l) ==
    LET colon == Next_(l, 1, {":"})
        v1    == Past(l, colon + 1, WS)
        v2    == Before(l, Len(l), Space)
    IN  IF (l[1] \in NotToken /\ l[1] # "@") \/ colon > Len(l) THEN None
        ELSE <<[name |-> Cut(l, 1, Before(l, colon - 1, WS)), value |-> IF v2 < v1 THEN None ELSE Cut(l, v1, v2)]>>

Empty(l) == l[1] = "LF" \/ (Len(l) >= 2 /\ l[1] = "CR" /\ l[2] = "LF")
(* What the scanner took is taken off the input. *)
Taken(q, g) == [q EXCEPT !.S = g.S, !.used = @ + g.used, !.ret = g.ret]

(* mime_parser_parse *)
RECURSIVE mime_parser_parse(_, _, _)
mime_parser_parse(q, s, eof) ==
    LET With(g) ==
          CASE g.ret # "OK" -> Taken(q, g)
            [] g.ret = "OK" /\ Empty(g.out) -> [Taken(q, g) EXCEPT !.ret = "DONE"]
            [] OTHER -> mime_parser_parse([Taken(q, g) EXCEPT !.fields = @ \o field_of(g.out)], Cut(s, g.used + 1, Len(s)), eof)
    IN  With(mime_scanner_get(q.S, s, eof, "FIELD"))

-----------------------------------------------------------------------------
http_parse_version(s) ==
    LET dot  == Next_(s, 6, {"."})
        maj  == Cut(s, 6, Past(s, 6, Digit) - 1)
        min  == Cut(s, dot + 1, Past(s, dot + 1, Digit) - 1)
        num(x) == FoldLeft(LAMBDA a, d : 10 * a + Val(d), 0, x)
    IN  IF Len(s) < 8 THEN <<0, 9>> ELSE <<num(maj), num(min)>>

(* Where the version starts that ends at position e, read backwards, or 0. *)
version_start(s, e) ==
    LET d2 == Before(s, e, Digit)
        d1 == Before(s, d2 - 1, Digit)
    IN  IF d2 > 1 /\ s[d2] = "." /\ d1 > 4 /\ s[d1] = "/" /\ Cut(s, d1 - 4, d1 - 1) = <<"H", "T", "T", "P">> THEN d1 - 4 ELSE 0

(* The slow case of http_parser_parse_req for a line that is not empty. *)
slow_req(l) ==
    LET m1 == Past(l, IF l[1] = "CR" THEN 2 ELSE 1, WS)
        m2 == Next_(l, m1 + 1, WS)
        e  == LET a == IF l[Len(l)] = "LF" THEN Len(l) - 1 ELSE Len(l)
                  b == IF a > 0 /\ l[a] = "CR" THEN a - 1 ELSE a
              IN  Before(l, b, WS)
        v  == version_start(l, e)
        u1 == Past(l, m2 + 1, WS)
        u2 == Before(l, IF v > 0 THEN v - 1 ELSE Len(l), Space)
    IN  [ok |-> m1 <= Len(l) /\ m2 <= Len(l), method |-> Cut(l, m1, m2 - 1), url |-> Cut(l, u1, u2),
         version |-> IF v > 0 THEN http_parse_version(Cut(l, v, e)) ELSE <<0, 9>>]

(* Whether the fast case of http_parser_parse_req takes the line. *)
fast_req(l) ==
    LET n == Len(l)
    IN  /\ n >= 16 /\ Cut(l, 1, 3) = <<"G", "E", "T">>
        /\ Cut(l, n - 9, n - 5) = <<"H", "T", "T", "P", "/">> /\ l[n - 3] = "." /\ l[n - 1] = "CR" /\ l[n] = "LF"
        /\ l[n - 4] \in Digit /\ l[n - 2] \in Digit
        /\ l[4] \in Space /\ l[5] \notin Space /\ l[n - 11] \notin Space /\ l[n - 10] \in Space
        /\ 5 < n - 10

req_line(l) ==
    LET n == Len(l)
    IN  IF fast_req(l) THEN [ok |-> TRUE, method |-> Cut(l, 1, 3), url |-> Cut(l, 5, n - 11), version |-> <<Val(l[n - 4]), Val(l[n - 2])>>]
        ELSE slow_req(l)

(* http_parser_parse_req: a line with only a CR and a LF is skipped. *)
RECURSIVE request_line(_, _, _)
request_line(q, s, eof) ==
    LET Accept(z, l, line) == [z EXCEPT !.method = l.method, !.url = l.url, !.version = l.version, !.line = line, !.parsing = FALSE,
                                        !.ret = IF l.version = <<0, 9>> THEN "DONE" ELSE "OK"]
        Line(z, l, line) == IF ~l.ok THEN [z EXCEPT !.ret = "ERROR"] ELSE Accept(z, l, line)
        With(g) == CASE g.ret \in {"ERROR", "DONE"} -> [Taken(q, g) EXCEPT !.ret = "ERROR"]
                     [] g.ret = "CONT" -> Taken(q, g)
                     [] g.ret = "OK" /\ Empty(g.out) -> request_line(Taken(q, g), Cut(s, g.used + 1, Len(s)), eof)
                     [] OTHER -> Line(Taken(q, g), req_line(g.out), g.out)
    IN  With(mime_scanner_get(q.S, s, eof, "LINE"))
(* What follows the first line is a header. *)
Header(q, z, s, eof) ==
    IF z.parsing \/ z.ret \in {"ERROR", "DONE"} THEN z
    ELSE mime_parser_parse(z, Cut(s, z.used - q.used + 1, Len(s)), eof)
http_parser_parse_req(q, s, eof) == Header(q, IF q.parsing THEN request_line(q, s, eof) ELSE q, s, eof)

(* The slow case of http_parser_parse_resp; eoh: this is not a header. *)
slow_resp(l) ==
    LET d1 == Past(l, 6, Digit)
        d2 == Past(l, d1 + 1, Digit)
        s1 == Past(l, d2 + 1, WS)
        s2 == Past(l, s1, Digit)
        r1 == Past(l, s2 + 1, WS)
        eoh == ~(/\ Len(l) > 5 /\ Cut(l, 1, 5) = <<"H", "T", "T", "P", "/">>
                 /\ d1 <= Len(l) /\ l[d1] = "." /\ d2 <= Len(l) /\ l[d2] \in WS /\ d2 < Len(l))
    IN  IF eoh THEN [eoh |-> TRUE, version |-> <<0, 9>>, status |-> 0, reason |-> None]
        ELSE [eoh |-> FALSE, version |-> http_parse_version(Cut(l, 1, d2 - 1)),
              status |-> FoldLeft(LAMBDA a, d : 10 * a + Val(d), 0, Cut(l, s1, s2 - 1)),
              reason |-> IF s2 < Len(l) /\ l[s2] \in WS /\ r1 <= Len(l) THEN Cut(l, r1, Before(l, Len(l), {"CR", "LF"})) ELSE None]

fast_resp(l) ==
    /\ Len(l) >= 16 /\ Cut(l, 1, 5) = <<"H", "T", "T", "P", "/">> /\ l[7] = "." /\ l[9] = " "
    /\ \A i \in {6, 8, 10, 11, 12} : l[i] \in Digit
    /\ l[14] \notin Space

resp_line(l) ==
    IF fast_resp(l)
    THEN [eoh |-> FALSE, version |-> <<Val(l[6]), Val(l[8])>>, status |-> 100 * Val(l[10]) + 10 * Val(l[11]) + Val(l[12]),
          reason |-> Cut(l, 14, Before(l, Len(l), Space))]
    ELSE slow_resp(l)

(* http_parser_parse_resp: when this is not a header the piece is given back. *)
status_line(q, s, eof) ==
    LET Line(z, l, line) == IF l.eoh THEN [z EXCEPT !.ret = "DONE", !.used = q.used, !.eoh = TRUE]
                            ELSE [z EXCEPT !.version = l.version, !.status = l.status, !.reason = l.reason,
                                           !.line = line, !.parsing = FALSE]
        With(g) == IF g.ret # "OK" THEN Taken(q, g) ELSE Line(Taken(q, g), resp_line(g.out), g.out)
    IN  With(mime_scanner_get(q.S, s, eof, "LINE"))
http_parser_parse_resp(q, s, eof) == Header(q, IF q.parsing THEN status_line(q, s, eof) ELSE q, s, eof)

-----------------------------------------------------------------------------
(* http_parser_init, mime_parser_init *)
Fresh == [parsing |-> TRUE, S |-> [st |-> "BEFORE", line |-> None], used |-> 0, ret |-> "CONT", method |-> None, url |-> None,
          version |-> <<0, 9>>, status |-> 0, reason |-> None, fields |-> None, line |-> None, eoh |-> FALSE]

Parse(q, s, eof) == IF Kind = "req" THEN http_parser_parse_req(q, s, eof) ELSE http_parser_parse_resp(q, s, eof)

Init == input \in Inputs /\ fed = 0 /\ p = Fresh

(* A read of n bytes; the end is announced with the last of them, or later. *)
Feed(n, eof) ==
    /\ p.ret = "CONT"
    /\ n > 0 \/ (eof /\ LateEof)
    /\ eof => fed + n = Len(input)
    /\ fed' = fed + n /\ p' = Parse(p, Cut(input, fed + 1, fed + n), eof)
    /\ UNCHANGED input

Next == \E n \in 0 .. Len(input) - fed, eof \in BOOLEAN : Feed(n, eof)

Spec == Init /\ [][Next]_vars

-----------------------------------------------------------------------------
Whole == Parse(Fresh, input, TRUE)

(* However the bytes were split into reads, the header that comes out, the verdict *)
(* and the place where the body starts are those of one read of everything. (The   *)
(* place is excepted when what came is no header at all: a status line that was    *)
(* begun in an earlier read cannot be given back.)                                  *)
SplitsDoNotMatter ==
    LET Same(w) == /\ p.ret = w.ret /\ p.fields = w.fields /\ p.line = w.line
                   /\ p.method = w.method /\ p.url = w.url /\ p.version = w.version /\ p.status = w.status
                   /\ p.eoh \/ p.used = w.used
    IN  p.ret # "CONT" => Same(Whole)

(* The fast case is only faster: a line it takes means what the slow case makes of  *)
(* it. (For a status line only the version and a status followed by a blank.)       *)
FastIsSlow ==
    p.line # None =>
        IF Kind = "req" THEN LET l == slow_req(p.line) IN p.method = l.method /\ p.url = l.url /\ p.version = l.version
        ELSE LET l == slow_resp(p.line) IN p.version = l.version /\ (p.line[13] = " " => p.status = l.status)

(* The parser never takes a byte of the body: it stops right after the first empty  *)
(* line.                                                                            *)
StopsAtBlankLine ==
    p.ret = "DONE" /\ ~p.eoh /\ p.version # <<0, 9>> =>
        LET u == p.used
            empty(i) == input[i] = "LF" /\ (input[i + 1] = "LF" \/ (i + 2 <= u /\ input[i + 1] = "CR" /\ input[i + 2] = "LF"))
        IN  /\ u < Len(input) => empty(u - 1) \/ empty(u - 2)
            /\ \A i \in Len(p.line) + 1 .. u - 3 : ~empty(i)

=============================================================================
