---------------------------- MODULE NgxParseLines ----------------------------
(***************************************************************************)
(* The lines after the first: ngx_http_parse_header_line reads a header of *)
(* a client (or of an upstream server) one character at a time, keeping    *)
(* the hash and the lower-case copy of the name as it goes, and            *)
(* ngx_http_process_request_headers takes each line over.  An upstream's   *)
(* reply starts with a status line, which ngx_http_parse_status_line reads.*)
(*                                                                         *)
(* The copy is a ring of LcLen characters that is not cleared between two  *)
(* lines.  ngx_hash is modelled without collisions: the hash of a name is  *)
(* the sequence of the characters it was made from.  "HTTP" is one symbol. *)
(***************************************************************************)
EXTENDS Integers, Sequences, FiniteSets, SequencesExt

CONSTANTS
    LcLen,           \* NGX_HTTP_LC_HEADER_LEN, a power of two
    MaxChars,        \* bound: characters of the header lines
    MaxStatus,       \* bound: characters of the status line
    Upstream,        \* the lines are a reply, not a request
    Underscores,     \* underscores_in_headers on;
    IgnoreInvalid    \* ignore_invalid_headers on;

VARIABLES
    st,              \* r->state
    p,               \* the line that is read: hash, ring, index, name, value, end
    status,          \* ngx_http_status_t
    headers,         \* the lines that were taken over
    raw,             \* every character read
    res              \* again, done or error

vars == <<st, p, status, headers, raw, res>>

Chars == {"a", "A", "_", ":", " ", "x", "NUL", "CR", "LF", "HTTP", "/"}
Lowcase == [c \in {"a", "A"} |-> "a"]
Lower(name) == [i \in DOMAIN name |-> IF name[i] = "A" THEN "a" ELSE name[i]]

Fresh == [hash |-> <<>>, ring |-> [k \in 0 .. LcLen - 1 |-> "none"], i |-> 0,
          name |-> <<>>, text |-> <<>>, end |-> 0, invalid |-> FALSE]

Goto(s, q) == st' = s /\ p' = q /\ UNCHANGED <<status, headers, res>>
Fail(why) == res' = why /\ UNCHANGED <<st, p, status, headers>>

(* One more character of the name. *)
Hashed(q, c) == [q EXCEPT !.hash = Append(@, c), !.ring[q.i] = c, !.i = (@ + 1) % LcLen]

(* The line is complete; the copy is used when it is as long as the name. *)
Taken(q) ==
    [key |-> q.name, hash |-> q.hash, value |-> SubSeq(q.text, 1, q.end), invalid |-> q.invalid,
     lowcase |-> IF Len(q.name) = q.i THEN [k \in 1 .. q.i |-> q.ring[k - 1]] ELSE Lower(q.name)]

Done(q) ==
    /\ headers' = IF q.invalid /\ IgnoreInvalid THEN headers ELSE Append(headers, Taken(q))
    /\ st' = "start" /\ p' = q
    /\ UNCHANGED <<status, res>>

(* The first character: one that has no lower case spoils the header and leaves *)
(* the hash and the index as the last line left them.                           *)
sw_start(c) ==
    /\ st = "start"
    /\ LET q == [p EXCEPT !.name = <<c>>, !.text = <<>>, !.end = 0, !.invalid = FALSE]
       IN  CASE c = "CR" -> Goto("header_almost_done", p)
             [] c = "LF" -> Fail("done")
             [] c = "NUL" -> Fail("error")
             [] c = "HTTP" -> Goto("name", Hashed([q EXCEPT !.hash = <<>>, !.i = 0], "HTTP"))
             [] c \in DOMAIN Lowcase -> Goto("name", Hashed([q EXCEPT !.hash = <<>>, !.i = 0], Lowcase[c]))
             [] OTHER -> Goto("name", [q EXCEPT !.invalid = TRUE])

sw_name(c) ==
    /\ st = "name"
    /\ LET q == [p EXCEPT !.name = Append(@, c)]
       IN  CASE c \in DOMAIN Lowcase -> Goto(st, Hashed(q, Lowcase[c]))
             [] c = "HTTP" -> Goto(st, Hashed(q, c))
             [] c = "_" -> Goto(st, IF Underscores THEN Hashed(q, c) ELSE [q EXCEPT !.invalid = TRUE])
             [] c = ":" -> Goto("space_before_value", p)
             [] c = "CR" -> Goto("almost_done", p)
             [] c = "LF" -> Done(p)
             [] c = "/" /\ Upstream /\ p.name = <<"HTTP">> -> Goto("ignore_line", p)
             [] c = "NUL" -> Fail("error")
             [] OTHER -> Goto(st, [q EXCEPT !.invalid = TRUE])

sw_space_before_value(c) ==
    /\ st = "space_before_value"
    /\ CASE c = " " -> Goto(st, p)
         [] c = "CR" -> Goto("almost_done", p)
         [] c = "LF" -> Done(p)
         [] c = "NUL" -> Fail("error")
         [] OTHER -> Goto("value", [p EXCEPT !.text = <<c>>, !.end = 0])

Ended(q) == [q EXCEPT !.end = Len(q.text)]

sw_value(c) ==
    /\ st = "value"
    /\ LET q == [p EXCEPT !.text = Append(@, c)]
       IN  CASE c = " " -> Goto("space_after_value", [q EXCEPT !.end = Len(p.text)])
             [] c = "CR" -> Goto("almost_done", Ended(p))
             [] c = "LF" -> Done(Ended(p))
             [] c = "NUL" -> Fail("error")
             [] OTHER -> Goto(st, q)

sw_space_after_value(c) ==
    /\ st = "space_after_value"
    /\ LET q == [p EXCEPT !.text = Append(@, c)]
       IN  CASE c = " " -> Goto(st, q)
             [] c = "CR" -> Goto("almost_done", p)
             [] c = "LF" -> Done(p)
             [] c = "NUL" -> Fail("error")
             [] OTHER -> Goto("value", q)

(* IIS may send the duplicate "HTTP/1.1 ..." lines *)
sw_ignore_line(c) ==
    /\ st = "ignore_line"
    /\ Goto(IF c = "LF" THEN "start" ELSE st, p)

sw_almost_done(c) ==
    /\ st = "almost_done"
    /\ CASE c = "LF" -> Done(p)
         [] c = "CR" -> Goto(st, p)
         [] OTHER -> Fail("error")

sw_header_almost_done(c) ==
    /\ st = "header_almost_done"
    /\ IF c = "LF" THEN Fail("done") ELSE Fail("error")

Char(c) ==
    /\ res = "again" /\ st # "status"
    /\ Len(raw) < MaxChars
    /\ raw' = Append(raw, c)
    /\ \/ sw_start(c) \/ sw_name(c) \/ sw_space_before_value(c) \/ sw_value(c) \/ sw_space_after_value(c)
       \/ sw_ignore_line(c) \/ sw_almost_done(c) \/ sw_header_almost_done(c)

-----------------------------------------------------------------------------
(* ngx_http_parse_status_line *)
StatusChars == {"H", "T", "P", "/", ".", "1", " ", "CR", "LF", "x"}

Step(s) == status' = [status EXCEPT !.st = s] /\ UNCHANGED <<st, p, headers, res>>
StatusDone(n) ==
    /\ st' = "start"
    /\ status' = [status EXCEPT !.st = "done", !.end = IF @ = 0 THEN n ELSE @]
    /\ UNCHANGED <<p, headers, res>>

sw_HTTP(c) ==
    /\ status.st \in {"start", "H", "HT", "HTT", "HTTP"}
    /\ CASE status.st = "start" /\ c = "H" -> Step("H")
         [] status.st = "H" /\ c = "T" -> Step("HT")
         [] status.st = "HT" /\ c = "T" -> Step("HTT")
         [] status.st = "HTT" /\ c = "P" -> Step("HTTP")
         [] status.st = "HTTP" /\ c = "/" -> Step("first_major_digit")
         [] OTHER -> Fail("error")

sw_version(c) ==
    /\ status.st \in {"first_major_digit", "major_digit", "first_minor_digit", "minor_digit"}
    /\ CASE status.st = "first_major_digit" /\ c = "1" -> Step("major_digit")
         [] status.st = "major_digit" /\ c = "." -> Step("first_minor_digit")
         [] status.st = "first_minor_digit" /\ c = "1" -> Step("minor_digit")
         [] status.st = "minor_digit" /\ c = " " -> Step("status")
         [] status.st \in {"major_digit", "minor_digit"} /\ c = "1" -> Step(status.st)
         [] OTHER -> Fail("error")

(* HTTP status code: three digits, its place noted at the third *)
sw_status(c) ==
    /\ status.st = "status"
    /\ CASE c = " " -> Step("status")
         [] c = "1" -> /\ status' = [status EXCEPT !.code = @ * 10 + 1, !.count = @ + 1,
                                        !.st = IF status.count = 2 THEN "space_after_status" ELSE @,
                                        !.start = IF status.count = 2 THEN Len(raw) - 1 ELSE @]
                       /\ UNCHANGED <<st, p, headers, res>>
         [] OTHER -> Fail("error")

sw_status_text(c) ==
    /\ status.st \in {"space_after_status", "status_text"}
    /\ CASE c = "CR" -> Step("almost_done")
         [] c = "LF" -> StatusDone(Len(raw) + 1)
         [] status.st = "space_after_status" /\ c \notin {" ", "."} -> Fail("error")
         [] OTHER -> Step("status_text")

sw_status_almost_done(c) ==
    /\ status.st = "almost_done"
    /\ IF c # "LF" THEN Fail("error") ELSE StatusDone(Len(raw))

StatusChar(c) ==
    /\ res = "again" /\ st = "status"
    /\ Len(raw) < MaxStatus
    /\ sw_HTTP(c) \/ sw_version(c) \/ sw_status(c) \/ sw_status_text(c) \/ sw_status_almost_done(c)
    /\ raw' = IF st' = "start" THEN <<>> ELSE Append(raw, c)

-----------------------------------------------------------------------------
Init ==
    /\ st = IF Upstream THEN "status" ELSE "start"
    /\ p = Fresh
    /\ status = [st |-> "start", code |-> 0, count |-> 0, start |-> 0, end |-> 0]
    /\ headers = <<>>
    /\ raw = <<>>
    /\ res = "again"

Next == (\E c \in Chars : Char(c)) \/ (\E c \in StatusChars : StatusChar(c))

Spec == Init /\ [][Next]_vars

-----------------------------------------------------------------------------
TypeOK ==
    /\ res \in {"again", "done", "error"}
    /\ p.i \in 0 .. LcLen - 1
    /\ p.end <= Len(p.text)
    /\ \A k \in DOMAIN headers : headers[k].value = <<>> \/ Last(headers[k].value) \in Chars

(* The lines of what was read, without their ends. *)
Lines ==
    LET cut == <<0>> \o SelectSeq([k \in DOMAIN raw |-> k], LAMBDA k : raw[k] = "LF")
    IN  [n \in 1 .. Len(cut) - 1 |-> SelectSeq(SubSeq(raw, cut[n] + 1, cut[n + 1] - 1), LAMBDA c : c # "CR")]
Colon(line) == SelectSeq([k \in DOMAIN line |-> k], LAMBDA k : k > 1 /\ line[k] = ":")
NameOf(line) == IF Colon(line) = <<>> THEN line ELSE SubSeq(line, 1, Colon(line)[1] - 1)
Solid(line, from) == {k \in from .. Len(line) : line[k] # " "}
ValueOf(line) ==
    IF Colon(line) = <<>> \/ Solid(line, Colon(line)[1] + 1) = {} THEN <<>>
    ELSE LET S == Solid(line, Colon(line)[1] + 1)
         IN  SubSeq(line, CHOOSE k \in S : \A j \in S : k <= j, CHOOSE k \in S : \A j \in S : j <= k)
Ignored(line) ==
    \/ line = <<>>
    \/ Upstream /\ Len(line) > 1 /\ SubSeq(line, 1, 2) = <<"HTTP", "/">>
Invalid(line) ==
    \E k \in DOMAIN NameOf(line) :
        line[k] \in {" ", "x", "/", ":"} \/ (line[k] = "_" /\ (k = 1 \/ ~Underscores))

(* Every line that was read became the header it spells, in order: the name up  *)
(* to the first colon, the value without the spaces around it, and nothing of   *)
(* another line; the lines skipped are a server's repeated status lines and,    *)
(* when asked for, those with an invalid name.                                  *)
HeadersAsSent ==
    LET kept == SelectSeq(Lines, LAMBDA l : ~Ignored(l) /\ ~(IgnoreInvalid /\ Invalid(l)))
    IN  res # "error" => /\ Len(headers) = Len(kept)
                         /\ \A k \in DOMAIN kept : headers[k].key = NameOf(kept[k])
                                                     /\ headers[k].value = ValueOf(kept[k])

(* A header is found by hash and lower-case name: whatever the length of its    *)
(* name and of the names before it, both are those of its own name.  A name that *)
(* starts with an invalid character, which gets in only when such headers are    *)
(* not ignored, may have both from the line before.                              *)
NameHashed ==
    \A k \in DOMAIN headers :
        LET h == headers[k]
        IN  h.key[1] \in {"a", "A", "HTTP"} =>
              /\ h.lowcase = Lower(h.key)
              /\ ~h.invalid => h.hash = Lower(h.key)

(* The header is over exactly at the first empty line. *)
EndsAtEmptyLine ==
    LET n == Len(Lines)
    IN  res # "error" => (res = "done") = (\E k \in 1 .. n : Lines[k] = <<>>)

(* A status line that was accepted has a code of three digits, and the text that *)
(* is passed on starts with the code and ends before the end of the line.        *)
StatusRead ==
    status.st = "done" => /\ status.count = 3 /\ status.code = 111
                          /\ status.start > 0 /\ status.end >= status.start + 3
=============================================================================
