--------------------------- MODULE HttpAlternates ---------------------------
(***************************************************************************)
(* Which of the alternates of a cached document answers a request:         *)
(* HttpTransactCache::SelectFromAlternates, the four quality matches, Vary *)
(* and the plugin hook, with the list matching of HttpCompat; and the      *)
(* response header that HttpTransact keeps with one alternate, from the    *)
(* response that filled it through the 304 answers that renew it, and the  *)
(* copy that goes to a client while the object is stale (Spec and          *)
(* StoredSpec: what is chosen and what is stored do not depend on each     *)
(* other, they only share the clock).                                      *)
(*                                                                         *)
(* A header that lists values is a sequence of [v, q] (the Accept headers) or  *)
(* of values (Content, Vary); the empty sequence is a missing header.      *)
(* Qualities are in thousandths.  A media type is <<type, subtype>>, a     *)
(* language a sequence of subtags, "*" matches everything.                 *)
(* A stored header is [h, date, age]: the fields in order, each [name, v]  *)
(* with v the values of its comma list; the Date (0 when absent) and the   *)
(* Age (-1 when absent).                                                   *)
(***************************************************************************)
EXTENDS Integers, Sequences, FiniteSets, SequencesExt

CONSTANTS
    Requests,      \* the headers clients send
    Responses,     \* the headers the server may answer with
    Conf,          \* CacheLookupHttpConfig
    HookAnswers,   \* what a SELECT_ALT plugin may say, in thousandths
    Force,         \* the answer that forces the alternate (FLT_MAX)
    MaxAlternates, \* bound of the vector
    MaxTime,       \* bound of the clock
    Fills,         \* the responses that are written to the cache
    Renewals,      \* the 304 responses
    MaxNow,        \* bound of the clock of StoredSpec
    MaxSteps       \* bound of the answers of the server

VARIABLES
    vector,        \* the alternates of the document
    now,
    asked,         \* the last request, the plugin's answers and the choice
    times,         \* how many requests were answered from the vector or not
    object,        \* cache_info.object_store.response_get()
    last,          \* [op, before, resp, at]: the last answer of the server, and what it met
    shown,         \* the Warning values that the last client got
    n              \* how many answers the server gave

vars == <<vector, now, asked, times>>
storedvars == <<object, now, last, shown, n>>

None == -1000          \* no match
Exact == 1001          \* 1.001, "slightly higher weight to this guy"
One == 1000
Trace == 1             \* 0.001
Mul(a, b) == (a * b) \div 1000

Where(list, Test(_)) == {i \in DOMAIN list : Test(list[i])}
BestQ(list, S) == list[CHOOSE i \in S : \A j \in S : list[j].q <= list[i].q].q
LastQ(list, S) == list[CHOOSE i \in S : \A j \in S : j <= i].q
FirstOf(S) == CHOOSE i \in S : \A j \in S : i <= j

-----------------------------------------------------------------------------
(* Accept against Content-Type: the best explicit value, else the last   *)
(* type with any subtype, else the last that takes any type.              *)
calculate_quality_of_accept_match(accept, ctype) ==
    LET any  == Where(accept, LAMBDA a : a.v[1] = "*")
        sub  == Where(accept, LAMBDA a : a.v[1] = ctype.type /\ a.v[2] = "*")
        same == Where(accept, LAMBDA a : a.v = <<ctype.type, ctype.subtype>>)
    IN  IF same # {} THEN BestQ(accept, same)
        ELSE IF sub # {} THEN LastQ(accept, sub)
        ELSE IF any # {} THEN LastQ(accept, any)
        ELSE None

(* Accept-Charset against the charset of Content-Type. *)
calculate_quality_of_accept_charset_match(accept, ctype, cached) ==
    LET any  == Where(accept, LAMBDA a : a.v = "*")
        same == Where(accept, LAMBDA a : a.v = ctype.charset)
    IN  IF accept # <<>> /\ accept = cached THEN Exact
        ELSE IF accept = <<>> \/ ctype.type = "" THEN One
        ELSE IF same # {} THEN BestQ(accept, same)
        ELSE IF any # {} THEN LastQ(accept, any)
        ELSE IF ctype.charset = "utf-8" THEN One
        ELSE None

-----------------------------------------------------------------------------
does_encoding_match(a, c) ==
    \/ a = "*" \/ a = c
    \/ {a, c} \in {{"gzip", "x-gzip"}, {"compress", "x-compress"}}

(* Does the client take gzip? *)
match_gzip(accept) == \E i \in DOMAIN accept : accept[i].q # 0 /\ does_encoding_match(accept[i].v, "gzip")

(* The first value of the header that names the coding, or a "*" before it. *)
match_accept_content_encoding(c, accept) ==
    LET hits == Where(accept, LAMBDA a : does_encoding_match(a.v, c))
    IN  IF hits = {} THEN [found |-> FALSE, wild |-> FALSE, q |-> None]
        ELSE [found |-> TRUE, wild |-> accept[FirstOf(hits)].v = "*", q |-> accept[FirstOf(hits)].q]

(* Several codings: a coding that only "*" covers counts as -1. *)
CombinedEncoding(accept, codings) ==
    LET m == [i \in DOMAIN codings |-> match_accept_content_encoding(codings[i], accept)]
        factor(i) == IF m[i].wild THEN None ELSE m[i].q
    IN  [q    |-> IF \A i \in DOMAIN codings : m[i].found
                    THEN FoldLeft(LAMBDA x, i : Mul(x, factor(i)), One, [i \in DOMAIN codings |-> i])
                    ELSE None,
         wild |-> {i \in DOMAIN codings : m[i].wild}]

calculate_quality_of_accept_encoding_match(accept, codings, cached) ==
    LET identity == codings = <<>> \/ \E i \in DOMAIN codings : codings[i] = "identity"
        all  == IF codings = <<>> THEN <<"identity">> ELSE codings
        star == Where(accept, LAMBDA a : a.v = "*")
        Wild(c) == IF c.q = None /\ c.wild # {} THEN accept[FirstOf(star)].q ELSE c.q
        Gzip(q) ==
            IF q = None /\ identity
            THEN IF match_gzip(accept) THEN IF match_gzip(cached) THEN One ELSE None
                 ELSE IF cached # <<>> /\ ~match_gzip(cached) THEN Trace ELSE None
            ELSE q
    IN  IF accept # <<>> /\ accept = cached THEN Exact
        ELSE IF accept = <<>> /\ codings = <<>> THEN One
        ELSE IF accept = <<>>
            THEN IF ~identity THEN None ELSE IF cached = <<>> THEN One ELSE Trace
        ELSE IF codings = <<>> /\ ~match_accept_content_encoding("identity", accept).found
                 /\ match_gzip(accept) /\ match_gzip(cached)
            THEN One
        ELSE Gzip(Wild(CombinedEncoding(accept, all)))

-----------------------------------------------------------------------------
(* A range matches a tag it equals or is a prefix of. *)
does_language_range_match(range, tag) == IsPrefix(range, tag)

match_accept_content_language(c, accept) ==
    LET hits == Where(accept, LAMBDA a : a.v = <<"*">> \/ does_language_range_match(a.v, c))
    IN  IF hits = {} THEN [found |-> FALSE, wild |-> FALSE, q |-> None]
        ELSE [found |-> TRUE, wild |-> accept[FirstOf(hits)].v = <<"*">>, q |-> accept[FirstOf(hits)].q]

(* The least quality over the languages of the content.  A language that only  *)
(* "*" covers counts with the quality of the language before it.               *)
calculate_quality_of_accept_language_match(accept, langs, cached) ==
    LET m  == [i \in DOMAIN langs |-> match_accept_content_language(langs[i], accept)]
        found == Where(m, LAMBDA x : x.found)
        named == Where(m, LAMBDA x : x.found /\ ~x.wild)
        Q(i) == LET before == {j \in named : j <= i}
                IN  IF before = {} THEN None ELSE m[CHOOSE j \in before : \A k \in before : k <= j].q
        Least == CHOOSE x \in {Q(i) : i \in found} \union {One} : \A i \in found : x <= Q(i)
        wq == accept[FirstOf(Where(accept, LAMBDA a : a.v = <<"*">>))].q
        NoLanguage(id) == CASE ~id.found -> One
                            [] id.found /\ id.wild -> wq
                            [] OTHER -> id.q
        Star(q) == IF q = None /\ \E i \in found : m[i].wild THEN wq ELSE q
    IN  IF accept # <<>> /\ accept = cached THEN Exact
        ELSE IF accept = <<>> THEN One
        ELSE IF langs = <<>> THEN NoLanguage(match_accept_content_language(<<"identity">>, accept))
        ELSE Star(IF found = {} THEN None ELSE Least)

-----------------------------------------------------------------------------
(* The headers the alternate varies by. *)
vary_list(resp) ==
    IF resp.vary # <<>> THEN resp.vary
    ELSE IF ~Conf.default_vary THEN <<>>
    ELSE CASE resp.ctype.type = "text" -> Conf.vary_text
           [] resp.ctype.type = "image" -> Conf.vary_images
           [] OTHER -> Conf.vary_other

(* Mutant: a header only one of the two requests has is not compared. *)
Varies_Lenient(name, req, cached) ==
    /\ name # "*" => req[name] # <<>> /\ cached[name] # <<>>
    /\ name = "*" \/ req[name] # cached[name]

(* Do the two requests differ in a header, so that the alternate may too? *)
Varies(name, req, cached) ==
    \/ name = "*"
    \/ /\ ~(name = "agent" /\ Conf.global_user_agent)
       /\ ~(name = "encoding" /\ Conf.ignore_encoding # 0)
       /\ req[name] # cached[name]

CalcVariability(req, cached, resp) ==
    LET l == vary_list(resp) IN \E i \in DOMAIN l : Varies(l[i], req, cached)

(* A check is skipped always (1), or only when the response has no Vary (2). *)
Skip(conf, resp) == conf = 1 \/ (conf = 2 /\ resp.vary = <<>>)

(* Absence in both requests is an exact match. *)
OrBothAbsent(a, cached, q) == IF a = <<>> /\ cached = <<>> THEN Exact ELSE q

(* The four qualities; each is asked only when those before it matched. *)
Qualities(req, alt) ==
    LET r == alt.resp  c == alt.req
    IN  << IF Skip(Conf.ignore_accept, r) \/ r.ctype.type = "" \/ req.accept = <<>> THEN One
           ELSE calculate_quality_of_accept_match(req.accept, r.ctype),
           IF Skip(Conf.ignore_charset, r) THEN One
           ELSE OrBothAbsent(req.charset, c.charset,
                    calculate_quality_of_accept_charset_match(req.charset, r.ctype, c.charset)),
           IF Skip(Conf.ignore_encoding, r) THEN One
           ELSE OrBothAbsent(req.encoding, c.encoding,
                    calculate_quality_of_accept_encoding_match(req.encoding, r.cenc, c.encoding)),
           IF Skip(Conf.ignore_language, r) THEN One
           ELSE OrBothAbsent(req.language, c.language,
                    calculate_quality_of_accept_language_match(req.language, r.clang, c.language)) >>

(* The plugin scales a quality that is positive, or forces the alternate. *)
Hooked(q, answer) ==
    IF q <= 0 THEN [q |-> q, force |-> FALSE]
    ELSE [q |-> Mul(q, IF answer = Force THEN One ELSE answer), force |-> answer = Force]

calculate_quality_of_match(req, alt, answer) ==
    LET Product(qs) == IF \E i \in 1 .. 4 : qs[i] < 0 THEN None ELSE Mul(Mul(Mul(qs[1], qs[2]), qs[3]), qs[4])
        Varied(h) == IF h.q >= 0 /\ ~h.force /\ CalcVariability(req, alt.req, alt.resp) THEN None ELSE h.q
    IN  IF req.purge \/ alt.resp.status # 200 THEN One
        ELSE Varied(Hooked(Product(Qualities(req, alt)), answer))

(* Quality first, then age, then the last one; 0 when nothing is acceptable. *)
SelectFromAlternates(req, answers) ==
    LET ok == {i \in DOMAIN vector : vector[i].whole}
        Better(q, i, j) ==
            \/ q[i] > q[j]
            \/ q[i] = q[j] /\ (vector[i].born > vector[j].born \/ (vector[i].born = vector[j].born /\ i >= j))
        Best(q) == LET b == CHOOSE i \in ok : \A j \in ok : Better(q, i, j)
                   IN  IF ok # {} /\ q[b] > 0 THEN b ELSE 0
    IN  Best([i \in ok |-> calculate_quality_of_match(req, vector[i], answers[i])])

-----------------------------------------------------------------------------
NoRequest == [done |-> FALSE]

(* A client asks; what is not in the cache is fetched and being written. *)
Ask(req) ==
    /\ times <= MaxAlternates
    /\ times' = times + 1
    /\ \E answers \in [DOMAIN vector -> HookAnswers] :
         \E i \in {SelectFromAlternates(req, answers)} :
             /\ asked' = [done |-> TRUE, req |-> req, answers |-> answers, choice |-> i]
             /\ \/ /\ i # 0
                   /\ UNCHANGED vector
                \/ /\ i = 0
                   /\ req.purge \/ Len(vector) = MaxAlternates
                   /\ UNCHANGED vector
                \/ /\ i = 0
                   /\ ~req.purge /\ Len(vector) < MaxAlternates
                   /\ \E resp \in Responses :
                        vector' = Append(vector, [req |-> req, resp |-> resp, born |-> now, whole |-> FALSE])
    /\ UNCHANGED now

(* The body of an alternate arrived: its object key is set. *)
Complete(i) ==
    /\ ~vector[i].whole
    /\ vector' = [vector EXCEPT ![i].whole = TRUE]
    /\ asked' = NoRequest
    /\ UNCHANGED <<now, times>>

(* The document of an alternate was renewed by a revalidation. *)
Renew(i) ==
    /\ vector[i].born < now
    /\ vector' = [vector EXCEPT ![i].born = now]
    /\ asked' = NoRequest
    /\ UNCHANGED <<now, times>>

Tick ==
    /\ now < MaxTime
    /\ now' = now + 1
    /\ asked' = NoRequest
    /\ UNCHANGED <<vector, times>>

Init ==
    /\ vector = <<>>
    /\ now = 0
    /\ asked = NoRequest
    /\ times = 0

Next ==
    \/ \E r \in Requests : Ask(r)
    \/ \E i \in DOMAIN vector : Complete(i) \/ Renew(i)
    \/ Tick

Spec == Init /\ [][Next]_vars

-----------------------------------------------------------------------------
TypeOK ==
    /\ Len(vector) <= MaxAlternates
    /\ asked.done => asked.choice \in 0 .. Len(vector)

Chosen == vector[asked.choice]
Served == asked.done /\ asked.choice # 0 /\ ~asked.req.purge

(* An alternate that was stored for a request answers the next one only if the *)
(* two agree in every header the response varies by, unless a plugin forced it. *)
VaryRespected ==
    Served /\ Chosen.resp.status = 200 /\ asked.answers[asked.choice] # Force =>
        \A i \in DOMAIN Chosen.resp.vary :
            LET h == Chosen.resp.vary[i]
            IN  \/ h = "encoding" /\ Conf.ignore_encoding # 0
                \/ h = "agent" /\ Conf.global_user_agent
                \/ h # "*" /\ asked.req[h] = Chosen.req[h]

(* "Quality is job 1": no complete alternate is better for this request than    *)
(* the one that was chosen, and none of the same quality is younger.            *)
QualityFirst ==
    Served => \A i \in DOMAIN vector : vector[i].whole =>
        LET q(k) == calculate_quality_of_match(asked.req, vector[k], asked.answers[k])
            Worse(a, b) == a < b \/ (a = b /\ vector[i].born <= Chosen.born)
        IN  Worse(q(i), q(asked.choice))

(* A client never gets a content coding that it refuses: one it does not name,  *)
(* or names with quality 0, unless it repeats the header the alternate was      *)
(* fetched with.                                                                *)
Takes(req, coding) ==
    LET named == {i \in DOMAIN req.encoding : req.encoding[i].v # "*" /\ does_encoding_match(req.encoding[i].v, coding)}
        star  == {i \in DOMAIN req.encoding : req.encoding[i].v = "*"}
    IN  IF named # {} THEN \E i \in named \union star : req.encoding[i].q > 0
        ELSE \E i \in star : req.encoding[i].q > 0
CodingTaken ==
    Served /\ Chosen.resp.status = 200 /\ Conf.ignore_encoding = 0 /\ asked.req.encoding # Chosen.req.encoding =>
        \A i \in DOMAIN Chosen.resp.cenc : Chosen.resp.cenc[i] # "identity" => Takes(asked.req, Chosen.resp.cenc[i])

(* The request an alternate was stored for finds an alternate again, unless the  *)
(* response varies by everything or its type is one the request does not accept. *)
RepeatFinds ==
    \A i \in DOMAIN vector :
        LET a == vector[i]
        IN  /\ a.whole /\ ~a.req.purge
            /\ \A j \in DOMAIN a.resp.vary : a.resp.vary[j] # "*"
            /\ a.req.accept = <<>> \/ a.resp.ctype.type = ""
                 \/ calculate_quality_of_accept_match(a.req.accept, a.resp.ctype) > 0
            => SelectFromAlternates(a.req, [j \in DOMAIN vector |-> One]) # 0

-----------------------------------------------------------------------------
(* The header that is stored with an alternate. *)
NoHeader == [h |-> <<>>, date |-> 0, age |-> -1]
OneXX == {"110", "111"}             \* warn codes 100 to 199; 111 is REVALIDATION_FAILED
HopByHop == {"Connection", "Upgrade"}
LeftAlone == HopByHop \union {"Content-Length", "Set-Cookie", "Content-Type", "Warning"}

values(h, name) == LET f == SelectSeq(h, LAMBDA x : x.name = name) IN [i \in DOMAIN f |-> f[i].v]
field_delete(h, names) == SelectSeq(h, LAMBDA x : x.name \notin names)
warnings(h) == FlattenSeq(values(h, "Warning"))
with_warnings(h, ws) == field_delete(h, {"Warning"}) \o (IF ws = <<>> THEN <<>> ELSE <<[name |-> "Warning", v |-> ws]>>)

(* Set-Cookie should not be put in the cache. *)
set_headers_for_cache_write(r) == [r EXCEPT !.h = field_delete(@, {"Set-Cookie"})]

delete_warning_value(h, code) ==
    IF \E i \in DOMAIN warnings(h) : warnings(h)[i] = code
    THEN with_warnings(h, SelectSeq(warnings(h), LAMBDA w : w # code))
    ELSE h

(* The 1xx warnings of the cached header go, those of the response are appended. *)
merge_warning_header(c, r) == with_warnings(c, SelectSeq(warnings(c), LAMBDA w : w \notin OneXX) \o warnings(r))

(* value_set: a single field of the name takes the value where it is; several *)
(* are deleted and a new one is added.                                        *)
value_set(h, f) ==
    LET i == SelectInSeq(h, LAMBDA x : x.name = f.name)
    IN  IF Len(values(h, f.name)) = 1 THEN [h EXCEPT ![i] = f] ELSE Append(field_delete(h, {f.name}), f)

has_dup(r, i) == \E j \in i + 1 .. Len(r) : r[j].name = r[i].name

(* The loop of merge_response_header_with_cached_header: until a field with a    *)
(* duplicate is met each field replaces; there, this and all later names of the  *)
(* response are deleted, and from then on fields are added.                      *)
merge_fields(c, r) ==
    LET Dup  == {i \in DOMAIN r : r[i].name \notin LeftAlone /\ has_dup(r, i)}
        at   == IF Dup = {} THEN Len(r) + 1 ELSE CHOOSE i \in Dup : \A j \in Dup : i <= j
        mine(s) == SelectSeq(s, LAMBDA f : f.name \notin LeftAlone)
        head == FoldLeft(value_set, c, mine(SubSeq(r, 1, at - 1)))
    IN  field_delete(head, {r[j].name : j \in at .. Len(r)}) \o mine(SubSeq(r, at, Len(r)))

merge_response_header_with_cached_header(c, r) == merge_warning_header(merge_fields(c, r), r)

(* merge_and_update_headers_for_cache_update: a 304 without a Date dates from *)
(* now; its Age is brought up to date.                                        *)
renewed(c, r) ==
    LET date == IF r.date > 0 THEN r.date ELSE now
    IN  [h |-> delete_warning_value(merge_response_header_with_cached_header(c.h, r.h), "111"),
         date |-> date,
         age |-> IF r.age >= 0 THEN (IF now > date THEN now - date ELSE 0) + r.age ELSE c.age]

Store(r) ==
    /\ n < MaxSteps /\ n' = n + 1
    /\ object' = set_headers_for_cache_write(r)
    /\ last' = [op |-> "store", before |-> NoHeader, resp |-> r, at |-> now]
    /\ UNCHANGED <<now, shown>>

Revalidate(r) ==
    /\ n < MaxSteps /\ n' = n + 1 /\ object # NoHeader
    /\ object' = renewed(object, r)
    /\ last' = [op |-> "renew", before |-> object, resp |-> r, at |-> now]
    /\ UNCHANGED <<now, shown>>

(* build_response_from_cache with REVALIDATION_FAILED: a copy gets the warning, *)
(* in place of those it had.                                                    *)
warned(h) == warnings(value_set(delete_warning_value(h, "111"), [name |-> "Warning", v |-> <<"111">>]))

ServeStale ==
    /\ object # NoHeader /\ last.op # "serve"
    /\ shown' = warned(object.h)
    /\ last' = [last EXCEPT !.op = "serve"]
    /\ UNCHANGED <<object, now, n>>

StoredTick == now < MaxNow /\ now' = now + 1 /\ UNCHANGED <<object, last, shown, n>>

StoredInit == object = NoHeader /\ now = 1 /\ shown = <<>> /\ n = 0
        /\ last = [op |-> "none", before |-> NoHeader, resp |-> NoHeader, at |-> 0]

StoredNext ==
    \/ \E r \in Fills : Store(r)
    \/ \E r \in Renewals : Revalidate(r)
    \/ ServeStale \/ StoredTick

StoredSpec == StoredInit /\ [][StoredNext]_storedvars

-----------------------------------------------------------------------------
(* No person's cookie is ever kept, whatever was filled in and merged. *)
NoCookie == values(object.h, "Set-Cookie") = <<>>

(* After a 304 every field it may renew has exactly the values of the 304, in    *)
(* their order, and every field it does not name is as it was.                   *)
RenewedExactly ==
    last.op = "renew" =>
        \A name \in {f.name : f \in ToSet(last.before.h) \union ToSet(last.resp.h)} \ LeftAlone :
            values(object.h, name) = IF values(last.resp.h, name) # <<>> THEN values(last.resp.h, name)
                                     ELSE values(last.before.h, name)

(* dont overwrite the cached content type as this wreaks havoc with transformed  *)
(* content; nor the length of the object: whatever the 304 says, both stay.      *)
ContentKept ==
    last.op = "renew" => \A name \in {"Content-Type", "Content-Length"} : values(object.h, name) = values(last.before.h, name)

(* A stored 1xx warning is one that the last answer of the server carried: what  *)
(* a stale copy was sent with does not live on, and the warnings that last do.   *)
LastingWarnings ==
    /\ ToSet(warnings(object.h)) \intersect OneXX \subseteq ToSet(warnings(last.resp.h))
    /\ last.op = "renew" => ToSet(warnings(last.before.h)) \ OneXX \subseteq ToSet(warnings(object.h))

(* If the cached response has an Age we should update it: after a 304 it is what *)
(* the 304 makes it, never what an earlier fetch left.                           *)
AgeUpdated ==
    last.op = "renew" =>
        object.age <= (IF last.at > object.date THEN last.at - object.date ELSE 0)
                      + (IF last.resp.age >= 0 THEN last.resp.age ELSE 0)
=============================================================================
