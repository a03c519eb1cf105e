---------------------------- MODULE HttpFreshness ----------------------------
(***************************************************************************)
(* How long a cached document may be served: HttpTransact's freshness      *)
(* arithmetic (calculate_document_freshness_limit, calculate_document_age, *)
(* what_is_document_freshness, is_stale_cache_response_returnable) with    *)
(* the clock that drives it and the 304 that renews a document             *)
(* (merge_and_update_headers_for_cache_update).                            *)
(*                                                                         *)
(* Headers are reduced to the values this arithmetic reads.  A header that *)
(* is missing is NoValue.  Times are seconds of the proxy's clock; Year    *)
(* and IntMax stand for 31536000 and 2^31 - 1.                             *)
(***************************************************************************)
EXTENDS Integers, FiniteSets

CONSTANTS
    Year,        \* NUM_SECONDS_IN_ONE_YEAR
    IntMax,      \* the largest int
    MaxTime,     \* bound of the clock
    Responses,   \* what the origin server may answer
    Requests,    \* what the client may ask
    Confs,       \* the configurations a transaction may have
    MaxBack      \* how often the proxy's clock may be set back

ASSUME YearAssumption == Year \in Nat /\ IntMax \in Nat /\ Year < IntMax
ASSUME BoundsAssumption == MaxTime \in Nat \ {0} /\ MaxBack \in Nat
ASSUME ConfsAssumption ==
    Confs \subseteq [guaranteed_min : Int, guaranteed_max : Int, heuristic_min : Int, heuristic_max : Int,
                     lm_tenths : Int, ignore_max_age : BOOLEAN, revalidate_after : Int, ttl_in_cache : Int,
                     when_to_revalidate : Int, fuzz : SUBSET Nat, max_stale_age : Int]
ASSUME ResponsesAssumption ==
    Responses \subseteq [lag : Int, age : Int, s_maxage : Int, max_age : Int, expires_in : Int, modified : Int,
                         must_revalidate : BOOLEAN, revalidate_once : BOOLEAN]
ASSUME RequestsAssumption ==
    Requests \subseteq [max_age : Int, max_stale : Int, min_fresh : Int,
                        ims : BOOLEAN, no_cache : BOOLEAN, auth : BOOLEAN]

VARIABLES
    conf,        \* the transaction's configuration
    now,         \* the proxy's clock
    real,        \* seconds that really went by
    back,        \* how often the clock was set back
    doc,         \* the cached document, or NoDoc
    pend,        \* the request under way to the server, or NoPend
    out          \* the last answer to a client

vars == <<conf, now, real, back, doc, pend, out>>

NoValue == -1000
NoDoc == [have |-> FALSE]
NoPend == [sent |-> -1]
NoOut == [kind |-> "none"]

Has(v) == v # NoValue
MinOf(a, b) == IF a < b THEN a ELSE b
MaxOf(a, b) == IF a > b THEN a ELSE b
Clip(v, lo, hi) == MaxOf(MinOf(v, hi), lo)

(* A 32-bit int after a sum. *)
Wrap(v) == ((v + IntMax + 1) % (2 * (IntMax + 1))) - IntMax - 1

-----------------------------------------------------------------------------
(* Mutant: the time on the way is not counted. *)
calculate_document_age_NoDelay(d, t) ==
    LET n == MaxOf(t, d.recv)
        apparent == IF d.date > 0 THEN MaxOf(0, d.recv - d.date) ELSE 0
    IN  MaxOf(apparent, IF Has(d.age) THEN d.age ELSE 0) + (n - d.recv)

(* Mutant: the resident time has the wrong sign. *)
calculate_document_age_Swapped(d, t) ==
    LET n == MaxOf(t, d.recv)
        apparent == IF d.date > 0 THEN MaxOf(0, d.recv - d.date) ELSE 0
    IN  MaxOf(apparent, IF Has(d.age) THEN d.age ELSE 0)
            + (d.recv - d.sent) + (d.recv - n)

(* The document's age, after RFC 2616 section 13.2.3. *)
calculate_document_age(d, t) ==
    LET n == MaxOf(t, d.recv)
        apparent == IF d.date > 0 THEN MaxOf(0, d.recv - d.date) ELSE 0
    IN  MaxOf(apparent, IF Has(d.age) THEN d.age ELSE 0)
            + (d.recv - d.sent) + (n - d.recv)

(* The limit the response's own headers give, and whether it is a guess. *)
StatedLimit(d) ==
    LET date == IF d.date > 0 THEN d.date ELSE d.sent
        cc   == IF Has(d.s_maxage) THEN d.s_maxage ELSE d.max_age
        lm   == MinOf(d.last_modified, date)
    IN  IF Has(cc)
            THEN [limit |-> Clip(cc, 0, Year), heuristic |-> FALSE]
        ELSE IF Has(d.expires)
            THEN [limit |-> Clip(MaxOf(d.expires, date) - date, 0, Year), heuristic |-> FALSE]
        ELSE IF d.date > 0 /\ Has(d.last_modified)
            THEN [limit |-> ((date - lm) * conf.lm_tenths) \div 10, heuristic |-> TRUE]
            ELSE [limit |-> conf.heuristic_min, heuristic |-> TRUE]

calculate_document_freshness_limit(d) ==
    LET s  == StatedLimit(d)
        lo == MaxOf(MaxOf(0, conf.guaranteed_min),
                    IF s.heuristic THEN conf.heuristic_min ELSE 0)
        hi == MinOf(MinOf(Year, conf.guaranteed_max),
                    IF s.heuristic THEN conf.heuristic_max ELSE Year)
    IN  [limit |-> Clip(s.limit, lo, hi), heuristic |-> s.heuristic]

(* The seconds by which one request in some may bring revalidation forward. *)
calculate_freshness_fuzz == {0} \union conf.fuzz

(* The client's own limits on the age. *)
ClientLimit(d, r, fresh) ==
    LET relaxed == IF ~Has(r.max_stale) \/ d.must_revalidate THEN fresh
                   ELSE IF r.max_stale = IntMax THEN IntMax
                   ELSE Wrap(fresh + r.max_stale)
        least   == IF Has(r.min_fresh) THEN MinOf(relaxed, fresh - r.min_fresh) ELSE relaxed
    IN  IF Has(r.max_age) /\ ~conf.ignore_max_age THEN MinOf(least, r.max_age) ELSE least

(* Mutant: the server's must-revalidate is forgotten. *)
Verdict_Trusting(d, r, fresh, age) ==
    LET limit == IF conf.revalidate_after >= 0 THEN conf.revalidate_after
                 ELSE ClientLimit(d, r, fresh)
    IN  CASE age > limit -> "stale" [] age > fresh -> "warning" [] OTHER -> "fresh"

(* The comparison that decides. *)
Verdict(d, r, fresh, age) ==
    LET limit == IF conf.revalidate_after >= 0 THEN conf.revalidate_after
                 ELSE ClientLimit(d, r, fresh)
        asked == r.max_age = 0 /\ ~conf.ignore_max_age
    IN  CASE asked \/ age > limit -> "stale"
          [] ~(asked \/ age > limit) /\ age > fresh /\ d.must_revalidate -> "stale"
          [] ~(asked \/ age > limit) /\ age > fresh /\ ~d.must_revalidate -> "warning"
          [] OTHER -> "fresh"

(* The administrator's rules that come before the arithmetic. *)
what_is_document_freshness(d, r, fuzz) ==
    LET lim   == calculate_document_freshness_limit(d)
        fresh == Clip(lim.limit - fuzz, 0, Year)
        age   == MinOf(Year, calculate_document_age(d, now))
    IN  IF conf.ttl_in_cache > 0
            THEN IF now - d.recv > conf.ttl_in_cache THEN "stale" ELSE "fresh"
        ELSE IF d.revalidate_once /\ conf.revalidate_after <= 0 THEN "stale"
        ELSE IF conf.when_to_revalidate = 1 /\ lim.heuristic THEN "stale"
        ELSE IF conf.when_to_revalidate = 2 THEN "stale"
        ELSE IF conf.when_to_revalidate = 3 THEN "fresh"
        ELSE IF conf.when_to_revalidate = 4 /\ r.ims THEN "stale"
        ELSE Verdict(d, r, fresh, age)

(* May a stale document stand in for a server that does not answer? *)
is_stale_cache_response_returnable(d, r) ==
    /\ ~r.no_cache
    /\ ~d.must_revalidate /\ ~d.revalidate_once /\ ~Has(d.s_maxage)
    /\ calculate_document_age(d, now) <= conf.max_stale_age
    /\ ~r.auth

-----------------------------------------------------------------------------
(* A response at this time: its dates are the server's, which lag or lead. *)
Dated(p, sent) ==
    LET date == IF Has(p.lag) THEN MaxOf(now - p.lag, 0) ELSE 0
    IN  [have |-> TRUE, date |-> date, age |-> p.age, s_maxage |-> p.s_maxage,
         max_age |-> p.max_age,
         expires |-> IF Has(p.expires_in) THEN date + p.expires_in ELSE NoValue,
         last_modified |-> IF Has(p.modified) THEN date - p.modified ELSE NoValue,
         must_revalidate |-> p.must_revalidate, revalidate_once |-> p.revalidate_once,
         sent |-> sent, recv |-> now, born |-> real - (now - sent)]

(* The cached document's times as HandleCacheOpenReadHitFreshness takes them. *)
Skewed(d) == [d EXCEPT !.sent = MinOf(@, now), !.recv = MinOf(@, now)]

(* The client's request finds the document fresh enough, or the server is asked. *)
Ask(r) ==
    /\ pend = NoPend
    /\ IF ~doc.have
         THEN /\ pend' = [sent |-> now, req |-> r]
              /\ out' = NoOut
         ELSE \E f \in calculate_freshness_fuzz :
                LET v == what_is_document_freshness(Skewed(doc), r, f)
                IN  IF v = "stale"
                      THEN /\ pend' = [sent |-> now, req |-> r]
                           /\ out' = NoOut
                      ELSE /\ out' = [kind |-> v, req |-> r, real |-> real - doc.born, clock |-> back]
                           /\ UNCHANGED pend
    /\ UNCHANGED <<now, real, back, doc>>

(* A new document. *)
ReplyDocument(p) ==
    /\ pend # NoPend
    /\ doc' = Dated(p, pend.sent)
    /\ pend' = NoPend
    /\ out' = NoOut
    /\ UNCHANGED <<now, real, back>>

(* The fields a 304 brings replace the cached ones, the others stay; a missing  *)
(* Date is the time of the request, and only an Age that came is brought up to  *)
(* date.                                                                        *)
Merged(d, p) ==
    LET n    == Dated(p, pend.sent)
        date == IF n.date > 0 THEN n.date ELSE pend.sent
        New(new, old) == IF Has(new) THEN new ELSE old
        cc   == Has(n.max_age) \/ Has(n.s_maxage) \/ n.must_revalidate \/ n.revalidate_once
    IN  [n EXCEPT !.date = date,
                  !.age = IF Has(n.age) THEN n.age + MaxOf(now - date, 0) ELSE d.age,
                  !.s_maxage = IF cc THEN n.s_maxage ELSE d.s_maxage,
                  !.max_age = IF cc THEN n.max_age ELSE d.max_age,
                  !.must_revalidate = IF cc THEN n.must_revalidate ELSE d.must_revalidate,
                  !.revalidate_once = IF cc THEN n.revalidate_once ELSE d.revalidate_once,
                  !.expires = New(n.expires, d.expires),
                  !.last_modified = New(n.last_modified, d.last_modified)]

(* A 304 renews the cached document. *)
ReplyNotModified(p) ==
    /\ pend # NoPend
    /\ doc.have
    /\ doc' = Merged(doc, p)
    /\ pend' = NoPend
    /\ out' = NoOut
    /\ UNCHANGED <<now, real, back>>

(* The server does not answer: the stale document stands in, or an error does. *)
ServerDown ==
    /\ pend # NoPend
    /\ out' = IF doc.have /\ is_stale_cache_response_returnable(doc, pend.req)
                THEN [kind |-> "stand_in", req |-> pend.req, real |-> real - doc.born, clock |-> back]
                ELSE NoOut
    /\ pend' = NoPend
    /\ UNCHANGED <<now, real, back, doc>>

Tick ==
    /\ real < MaxTime
    /\ now' = now + 1
    /\ real' = real + 1
    /\ out' = NoOut
    /\ UNCHANGED <<back, doc, pend>>

(* The clock is set back between two requests. *)
ClockBack ==
    /\ pend = NoPend
    /\ back < MaxBack
    /\ now > 1
    /\ now' = now - 1
    /\ back' = back + 1
    /\ out' = NoOut
    /\ UNCHANGED <<real, doc, pend>>

Init ==
    /\ conf \in Confs
    /\ now = 1
    /\ real = 1
    /\ back = 0
    /\ doc = NoDoc
    /\ pend = NoPend
    /\ out = NoOut

Next ==
    /\ \/ \E r \in Requests : Ask(r)
       \/ \E p \in Responses : ReplyDocument(p) \/ ReplyNotModified(p)
       \/ ServerDown
       \/ Tick
       \/ ClockBack
    /\ UNCHANGED conf

Spec == Init /\ [][Next]_vars

-----------------------------------------------------------------------------
TypeOK ==
    /\ conf \in Confs
    /\ now \in 1 .. MaxTime /\ real \in 1 .. MaxTime /\ back \in 0 .. MaxBack
    /\ doc.have \in BOOLEAN
    /\ pend # NoPend => pend.sent \in 1 .. MaxTime /\ pend.req \in Requests
    /\ out.kind \in {"none", "fresh", "warning", "stand_in"}

(* The seconds the server's headers allow, plus what each reset of the clock *)
(* can hide.                                                                 *)
Allowed == calculate_document_freshness_limit(doc).limit + out.clock

(* A document served as fresh is really no older, measured from the moment its *)
(* request left, than its limit allows: the age what_is_document_freshness     *)
(* computes never falls behind the time that went by, whatever the dates and   *)
(* the Age of the server say and however the clock was set back.  The age is   *)
(* cut at a year, so a limit of a year or more never runs out.                 *)
FreshMeansYoung ==
    out.kind = "fresh" /\ conf.when_to_revalidate # 3 /\ conf.ttl_in_cache <= 0
        => \/ out.real <= Allowed
           \/ calculate_document_freshness_limit(doc).limit >= Year

(* A document its server marked must-revalidate is never served past its      *)
(* limit, not to a client that accepts stale documents and not in place of a   *)
(* dead server.                                                                *)
MustRevalidateKept ==
    doc.have /\ doc.must_revalidate => out.kind \notin {"warning", "stand_in"}

(* A max-stale that the sum of what_is_document_freshness cannot overflow. *)
MaxStaleFits(r) == r.max_stale \in {NoValue, IntMax} \/ r.max_stale \in -IntMax .. (IntMax - Year)

(* A document that was too old for a request stays too old for it as time goes *)
(* by, until the server renewed it.  A max-stale so large that the sum         *)
(* overflows an int is left out: the limit then jumps.                         *)
StaleStays ==
    [][doc' = doc /\ doc.have /\ now' > now =>
         \A r \in Requests :
            MaxStaleFits(r) /\ what_is_document_freshness(Skewed(doc), r, 0) = "stale" =>
                what_is_document_freshness(Skewed(doc), r, 0)' = "stale"]_vars

=============================================================================
