------------------------- MODULE HttpFreshnessProofs -------------------------
(* The freshness of a cached document, proved for every configuration, every   *)
(* set of responses and requests, and every sequence of clock steps back:      *)
(* what is served as fresh is no older, in real time, than its limit allows,   *)
(* what must be revalidated is never served without it, and what became too    *)
(* old stays too old.  The clock is the difficulty: the age is computed from   *)
(* two readings of a clock that may have been set back between them, so the    *)
(* invariant relates both to the real time that went by.                       *)
EXTENDS HttpFreshness, TLAPS

(* What is known of a configuration, a request and a stored document. *)
Conf ==
    [guaranteed_min : Int, guaranteed_max : Int, heuristic_min : Int, heuristic_max : Int,
     lm_tenths : Int, ignore_max_age : BOOLEAN, revalidate_after : Int, ttl_in_cache : Int,
     when_to_revalidate : Int, fuzz : SUBSET Nat, max_stale_age : Int]
Request == [max_age : Int, max_stale : Int, min_fresh : Int,
            ims : BOOLEAN, no_cache : BOOLEAN, auth : BOOLEAN]
Document ==
    [have : {TRUE}, date : Int, age : Int, s_maxage : Int, max_age : Int, expires : Int,
     last_modified : Int, must_revalidate : BOOLEAN, revalidate_once : BOOLEAN,
     sent : Int, recv : Int, born : Int]

(* The clock lags the time that went by by exactly its resets, and a document   *)
(* was born, in real time, no earlier than the clock said when its request left. *)
ClockInv ==
    /\ real = now + back
    /\ doc = NoDoc \/ (doc \in Document /\ doc.born >= doc.sent)

IndInv == TypeOK /\ ClockInv /\ FreshMeansYoung /\ MustRevalidateKept

(* The configuration is one of those the assumptions speak of. *)
LEMMA ConfType == TypeOK => conf \in Conf
  BY ConfsAssumption DEF TypeOK, Conf

(* The limit before the clipping is an integer, whichever header it comes from. *)
LEMMA StatedLimitType ==
    ASSUME conf \in Conf, NEW d \in Document
    PROVE  StatedLimit(d).limit \in Int
<1> DEFINE date == IF d.date > 0 THEN d.date ELSE d.sent
           cc   == IF Has(d.s_maxage) THEN d.s_maxage ELSE d.max_age
           lm   == MinOf(d.last_modified, date)
           guess == ((date - lm) * conf.lm_tenths) \div 10
<1>4. /\ date \in Int /\ cc \in Int /\ d.expires \in Int /\ d.last_modified \in Int
      /\ conf.lm_tenths \in Int /\ conf.heuristic_min \in Int
  BY DEF Document, Conf
<1> HIDE DEF date, cc
<1>5. date - lm \in Int /\ MaxOf(d.expires, date) - date \in Int
  BY <1>4 DEF MinOf, MaxOf
<1>6. guess \in Int
  <2> HIDE DEF lm
  <2>1. \A x, y \in Int : (x * y) \div 10 \in Int
    OBVIOUS
  <2>2. PICK x \in Int, y \in Int : x = date - lm /\ y = conf.lm_tenths
    BY <1>4, <1>5
  <2>3. guess = (x * y) \div 10
    BY <2>2
  <2> QED
    BY <2>1, <2>3
<1>7. /\ Clip(cc, 0, Year) \in Int /\ Clip(MaxOf(d.expires, date) - date, 0, Year) \in Int
  BY <1>4, <1>5, YearAssumption DEF Clip, MinOf, MaxOf
<1>8. StatedLimit(d).limit \in {Clip(cc, 0, Year), Clip(MaxOf(d.expires, date) - date, 0, Year),
                               guess, conf.heuristic_min}
  <2> HIDE DEF guess
  <2>1. StatedLimit(d) =
          IF Has(cc) THEN [limit |-> Clip(cc, 0, Year), heuristic |-> FALSE]
          ELSE IF Has(d.expires)
            THEN [limit |-> Clip(MaxOf(d.expires, date) - date, 0, Year), heuristic |-> FALSE]
          ELSE IF d.date > 0 /\ Has(d.last_modified)
            THEN [limit |-> guess, heuristic |-> TRUE]
            ELSE [limit |-> conf.heuristic_min, heuristic |-> TRUE]
    BY DEF StatedLimit, guess, date, cc
  <2> HIDE DEF lm
  <2> QED
    BY <2>1
<1> QED
  BY <1>4, <1>6, <1>7, <1>8

(* After the clipping it is a natural number. *)
LEMMA LimitBounds ==
    ASSUME conf \in Conf, NEW d \in Document
    PROVE  calculate_document_freshness_limit(d).limit \in Nat
  BY StatedLimitType, YearAssumption
     DEF calculate_document_freshness_limit, Clip, MinOf, MaxOf, Conf

(* The document whose times lie after t as the proxy takes it at t. *)
SkewedAt(d, t) == [d EXCEPT !.sent = MinOf(@, t), !.recv = MinOf(@, t)]

(* Two documents that differ in the times of their transactions only. *)
SameHeaders(d, e) ==
    /\ d \in Document /\ e \in Document
    /\ e.date = d.date /\ e.age = d.age /\ e.s_maxage = d.s_maxage /\ e.max_age = d.max_age
    /\ e.expires = d.expires /\ e.last_modified = d.last_modified
    /\ e.must_revalidate = d.must_revalidate /\ e.revalidate_once = d.revalidate_once

(* Skewed changes the two times of the transaction only. *)
LEMMA SkewedFields ==
    ASSUME NEW d \in Document, NEW t \in Int
    PROVE  LET e == SkewedAt(d, t) IN
           SameHeaders(d, e) /\ e.sent = MinOf(d.sent, t) /\ e.recv = MinOf(d.recv, t)
<1> DEFINE x == MinOf(d.sent, t)
           y == MinOf(d.recv, t)
           e1 == [d EXCEPT !.sent = x]
           e2 == [e1 EXCEPT !.recv = y]
<1>1. x \in Int /\ y \in Int
  BY DEF MinOf, Document
<1>2. SkewedAt(d, t) = e2
  <2> HIDE DEF x, y
  <2> QED
    BY Zenon DEF SkewedAt, x, y
<1> HIDE DEF x, y
<1>3. SameHeaders(d, e1) /\ e1.sent = x
  BY <1>1 DEF Document, SameHeaders
<1> HIDE DEF e1
<1>4. SameHeaders(e1, e2) /\ e2.sent = x /\ e2.recv = y
  BY <1>1, <1>3 DEF Document, SameHeaders
<1> HIDE DEF e2
<1> QED
  BY <1>2, <1>3, <1>4 DEF x, y, SameHeaders

(* The same, for the proxy's clock. *)
LEMMA SkewedNow ==
    ASSUME NEW d \in Document, now \in Int
    PROVE  /\ Skewed(d) = SkewedAt(d, now) /\ Skewed(d) \in Document /\ SameHeaders(d, Skewed(d))
           /\ Skewed(d).sent = MinOf(d.sent, now) /\ Skewed(d).recv = MinOf(d.recv, now)
<1>1. Skewed(d) = SkewedAt(d, now)
  BY Zenon DEF Skewed, SkewedAt
<1> QED
  BY <1>1, SkewedFields DEF SameHeaders

(* The age never falls behind the time since the request left. *)
LEMMA AgeCounts ==
    ASSUME NEW d \in Document, now \in Int
    PROVE  /\ calculate_document_age(Skewed(d), now) \in Int
           /\ calculate_document_age(Skewed(d), now) >= now - MinOf(d.sent, now)
<1>1. /\ Skewed(d) \in Document
      /\ Skewed(d).sent = MinOf(d.sent, now) /\ Skewed(d).recv = MinOf(d.recv, now)
  BY SkewedNow
<1>2. MaxOf(now, Skewed(d).recv) = now
  BY <1>1 DEF MinOf, MaxOf, Document
<1> QED
  BY <1>1, <1>2 DEF calculate_document_age, MaxOf, Document

(* The freshness of a document is one of the three values of the enumeration. *)
LEMMA VerdictRange ==
    ASSUME NEW d, NEW r, NEW f
    PROVE  what_is_document_freshness(d, r, f) \in {"fresh", "warning", "stale"}
<1>1. ASSUME NEW fresh, NEW age PROVE Verdict(d, r, fresh, age) \in {"fresh", "warning", "stale"}
  BY DEF Verdict
<1> QED
  BY <1>1 DEF what_is_document_freshness

(* The verdict of the arithmetic is "fresh" only for an age within the limit. *)
LEMMA FreshVerdict ==
    ASSUME TypeOK, NEW d \in Document, NEW r \in Requests, NEW f \in calculate_freshness_fuzz,
           conf.when_to_revalidate # 3, conf.ttl_in_cache <= 0,
           what_is_document_freshness(Skewed(d), r, f) = "fresh",
           calculate_document_freshness_limit(Skewed(d)).limit < Year
    PROVE  calculate_document_age(Skewed(d), now)
               <= calculate_document_freshness_limit(Skewed(d)).limit
<1> DEFINE lim   == calculate_document_freshness_limit(Skewed(d))
           fresh == Clip(lim.limit - f, 0, Year)
           age   == MinOf(Year, calculate_document_age(Skewed(d), now))
<1>0. conf \in Conf /\ Skewed(d) \in Document /\ now \in Int
  BY ConfType, SkewedNow, BoundsAssumption DEF TypeOK
<1>1. lim.limit \in Nat /\ calculate_document_age(Skewed(d), now) \in Int /\ f \in Nat
  BY <1>0, LimitBounds, AgeCounts DEF calculate_freshness_fuzz, Conf
<1> HIDE DEF lim
<1>2. fresh <= lim.limit /\ fresh \in Int
  BY <1>1, YearAssumption DEF Clip, MinOf, MaxOf
<1>3. age \in Int
  BY <1>1, YearAssumption DEF MinOf
<1> HIDE DEF fresh, age
<1>4. Verdict(Skewed(d), r, fresh, age) = "fresh"
  BY <1>0 DEF what_is_document_freshness, fresh, age, lim, Conf
<1>5. ~(age > fresh)
  BY <1>0, <1>4 DEF Verdict, Document
<1>6. age <= lim.limit
  BY <1>1, <1>2, <1>3, <1>5
<1> QED
  BY <1>1, <1>6, YearAssumption DEF age, MinOf, lim

(* The limit does not depend on the skew while the request lies in the past. *)
LEMMA SkewedLimit ==
    ASSUME NEW d \in Document, now \in Int, d.sent <= now
    PROVE  calculate_document_freshness_limit(Skewed(d)) = calculate_document_freshness_limit(d)
<1> DEFINE e == Skewed(d)
<1>0. MinOf(d.sent, now) = d.sent
  BY DEF Document, MinOf
<1>1. /\ e.date = d.date /\ e.sent = d.sent /\ e.s_maxage = d.s_maxage /\ e.max_age = d.max_age
      /\ e.expires = d.expires /\ e.last_modified = d.last_modified
  BY <1>0, SkewedNow DEF SameHeaders
<1> HIDE DEF e
<1>2. StatedLimit(e) = StatedLimit(d)
  BY <1>1 DEF StatedLimit
<1> QED
  BY <1>2 DEF calculate_document_freshness_limit, e

(* A document in the cache is a typed one, and was born after its request left. *)
LEMMA HasDocument == IndInv /\ doc.have => doc \in Document /\ doc.born >= doc.sent
  BY DEF IndInv, ClockInv, NoDoc

(* The limit of a document that stays is the same before and after a step. *)
LEMMA LimitStays ==
    ASSUME conf' = conf, doc' = doc
    PROVE  calculate_document_freshness_limit(doc)' = calculate_document_freshness_limit(doc)
<1>1. StatedLimit(doc)' = StatedLimit(doc)
  BY DEF StatedLimit
<1> QED
  BY <1>1 DEF calculate_document_freshness_limit

(* An answer from the cache keeps both properties. *)
LEMMA AskKeeps ==
    ASSUME IndInv, NEW r \in Requests, Ask(r), conf' = conf
    PROVE  FreshMeansYoung' /\ MustRevalidateKept'
<1>1. CASE out' = NoOut
  BY <1>1 DEF NoOut, FreshMeansYoung, MustRevalidateKept
<1>2. CASE out' # NoOut
  <2>1. doc.have /\ doc' = doc
    BY <1>2 DEF Ask
  <2>2. PICK f \in calculate_freshness_fuzz :
          /\ what_is_document_freshness(Skewed(doc), r, f) # "stale"
          /\ out' = [kind |-> what_is_document_freshness(Skewed(doc), r, f), req |-> r,
                     real |-> real - doc.born, clock |-> back]
    BY <1>2, <2>1 DEF Ask
  <2> DEFINE v == what_is_document_freshness(Skewed(doc), r, f)
             limit == calculate_document_freshness_limit(doc).limit
             skewed == calculate_document_freshness_limit(Skewed(doc)).limit
             age == calculate_document_age(Skewed(doc), now)
  <2>3. out'.kind = v /\ out'.real = real - doc.born /\ out'.clock = back
    BY <2>2
  <2>4. /\ doc \in Document /\ doc.sent \in Int /\ doc.born \in Int /\ doc.born >= doc.sent
        /\ now \in Int /\ back \in Int /\ real = now + back /\ conf \in Conf
    <3>1. doc \in Document /\ doc.born >= doc.sent
      BY <2>1, HasDocument
    <3>2. now \in Int /\ back \in Int /\ real = now + back
      BY BoundsAssumption DEF IndInv, TypeOK, ClockInv
    <3>3. conf \in Conf
      BY ConfType DEF IndInv
    <3> QED
      BY <3>1, <3>2, <3>3 DEF Document
  <2>a. calculate_document_freshness_limit(doc)' = calculate_document_freshness_limit(doc)
    BY <2>1, LimitStays
  <2>b. limit \in Nat
    BY <2>4, LimitBounds
  <2>5. limit \in Nat /\ calculate_document_freshness_limit(doc)'.limit = limit
    BY <2>a, <2>b
  <2>6. FreshMeansYoung'
    <3> SUFFICES ASSUME v = "fresh", conf.when_to_revalidate # 3, conf.ttl_in_cache <= 0, limit < Year
                 PROVE  real - doc.born <= limit + back
      BY <2>3, <2>5, YearAssumption DEF FreshMeansYoung, Allowed
    <3>1. CASE doc.sent <= now
      <4>1. skewed = limit
        BY <3>1, <2>4, SkewedLimit
      <4>2. age <= limit
        BY <4>1, <2>4, FreshVerdict DEF IndInv
      <4>3. age \in Int /\ age >= now - MinOf(doc.sent, now)
        BY <2>4, AgeCounts
      <4>4. MinOf(doc.sent, now) = doc.sent
        BY <3>1, <2>4 DEF MinOf
      <4> HIDE DEF limit, age
      <4> QED
        BY <4>2, <4>3, <4>4, <2>4, <2>5
    <3>2. CASE doc.sent > now
      <4> HIDE DEF limit
      <4> QED
        BY <3>2, <2>4, <2>5
    <3> QED
      BY <3>1, <3>2, <2>4
  <2>7. MustRevalidateKept'
    <3> SUFFICES ASSUME doc.must_revalidate PROVE v \notin {"warning", "stand_in"}
      BY <2>1, <2>3 DEF MustRevalidateKept
    <3>1. Skewed(doc).must_revalidate
      BY <2>4, SkewedNow DEF SameHeaders
    <3>2. ASSUME NEW fresh, NEW age_ PROVE Verdict(Skewed(doc), r, fresh, age_) \in {"fresh", "stale"}
      BY <3>1 DEF Verdict
    <3> QED
      BY <3>2 DEF what_is_document_freshness
  <2> QED
    BY <2>6, <2>7
<1> QED
  BY <1>1, <1>2

(* A document just received is a document, born no earlier than it was asked for. *)
LEMMA DatedDocument ==
    ASSUME IndInv, NEW p \in Responses, pend # NoPend
    PROVE  /\ Dated(p, pend.sent) \in Document
           /\ Dated(p, pend.sent).born >= Dated(p, pend.sent).sent
<1> DEFINE date == IF Has(p.lag) THEN MaxOf(now - p.lag, 0) ELSE 0
           n == Dated(p, pend.sent)
<1>1. /\ p.lag \in Int /\ p.age \in Int /\ p.s_maxage \in Int /\ p.max_age \in Int
      /\ p.expires_in \in Int /\ p.modified \in Int
      /\ p.must_revalidate \in BOOLEAN /\ p.revalidate_once \in BOOLEAN
  BY ResponsesAssumption
<1>2. /\ now \in Int /\ real \in Int /\ back \in Nat /\ real = now + back /\ pend.sent \in Int
  BY BoundsAssumption DEF IndInv, TypeOK, ClockInv
<1>3. date \in Int
  <2>0. now - p.lag \in Int
    BY <1>1, <1>2
  <2>1. MaxOf(now - p.lag, 0) \in Int
    BY <2>0 DEF MaxOf
  <2> QED
    BY <2>1
<1> HIDE DEF date
<1>4. n = [have |-> TRUE, date |-> date, age |-> p.age, s_maxage |-> p.s_maxage,
           max_age |-> p.max_age,
           expires |-> IF Has(p.expires_in) THEN date + p.expires_in ELSE NoValue,
           last_modified |-> IF Has(p.modified) THEN date - p.modified ELSE NoValue,
           must_revalidate |-> p.must_revalidate, revalidate_once |-> p.revalidate_once,
           sent |-> pend.sent, recv |-> now, born |-> real - (now - pend.sent)]
  BY DEF Dated, date
<1> DEFINE x == IF Has(p.expires_in) THEN date + p.expires_in ELSE NoValue
           m == IF Has(p.modified) THEN date - p.modified ELSE NoValue
<1>5. x \in Int /\ m \in Int
  <2>1. x = NoValue \/ x = date + p.expires_in
    OBVIOUS
  <2>2. m = NoValue \/ m = date - p.modified
    OBVIOUS
  <2> QED
    BY <2>1, <2>2, <1>1, <1>3 DEF NoValue
<1> HIDE DEF n, x, m
<1>6. n \in Document
  BY <1>1, <1>2, <1>3, <1>4, <1>5 DEF Document, x, m
<1>7. n.born = real - (now - pend.sent) /\ n.sent = pend.sent
  BY <1>4
<1> QED
  BY <1>2, <1>6, <1>7 DEF n


(* So is one that a 304 renewed. *)
LEMMA MergedDocument ==
    ASSUME IndInv, NEW p \in Responses, pend # NoPend, doc.have
    PROVE  Merged(doc, p) \in Document /\ Merged(doc, p).born >= Merged(doc, p).sent
<1> DEFINE n == Dated(p, pend.sent)
           date == IF n.date > 0 THEN n.date ELSE pend.sent
           age == IF Has(n.age) THEN n.age + MaxOf(now - date, 0) ELSE doc.age
           cc == Has(n.max_age) \/ Has(n.s_maxage) \/ n.must_revalidate \/ n.revalidate_once
           s_maxage == IF cc THEN n.s_maxage ELSE doc.s_maxage
           max_age == IF cc THEN n.max_age ELSE doc.max_age
           must == IF cc THEN n.must_revalidate ELSE doc.must_revalidate
           once == IF cc THEN n.revalidate_once ELSE doc.revalidate_once
           expires == IF Has(n.expires) THEN n.expires ELSE doc.expires
           modified == IF Has(n.last_modified) THEN n.last_modified ELSE doc.last_modified
<1>1. n \in Document /\ n.born >= n.sent /\ doc \in Document
  BY DatedDocument, HasDocument
<1>2. Merged(doc, p) = [n EXCEPT !.date = date, !.age = age, !.s_maxage = s_maxage, !.max_age = max_age,
                                 !.must_revalidate = must, !.revalidate_once = once,
                                 !.expires = expires, !.last_modified = modified]
  BY DEF Merged
<1>3. now \in Int /\ pend.sent \in Int
  BY BoundsAssumption DEF IndInv, TypeOK
<1> HIDE DEF n, cc
<1>4. date \in Int
  BY <1>1, <1>3 DEF Document
<1> HIDE DEF date
<1>5. age \in Int
  <2>1. MaxOf(now - date, 0) \in Int
    BY <1>3, <1>4 DEF MaxOf
  <2> QED
    BY <1>1, <2>1 DEF Document
<1>6. /\ s_maxage \in Int /\ max_age \in Int /\ must \in BOOLEAN /\ once \in BOOLEAN
      /\ expires \in Int /\ modified \in Int
  BY <1>1 DEF Document
<1> HIDE DEF age, s_maxage, max_age, must, once, expires, modified
<1>7. LET m == [n EXCEPT !.date = date, !.age = age, !.s_maxage = s_maxage, !.max_age = max_age,
                         !.must_revalidate = must, !.revalidate_once = once,
                         !.expires = expires, !.last_modified = modified]
      IN  m \in Document /\ m.born = n.born /\ m.sent = n.sent
  BY <1>1, <1>4, <1>5, <1>6 DEF Document
<1> QED
  BY <1>1, <1>2, <1>7

(* Init establishes the invariant. *)
LEMMA InitInv == Init => IndInv
  BY BoundsAssumption DEF Init, IndInv, TypeOK, ClockInv, FreshMeansYoung, MustRevalidateKept,
     NoDoc, NoPend, NoOut

(* Every step keeps the invariant: questions, answers, 304s, the clock and its resets. *)
LEMMA NextInv == IndInv /\ [Next]_vars => IndInv'
<1> SUFFICES ASSUME IndInv, [Next]_vars PROVE IndInv'
  OBVIOUS
<1>n. out' = NoOut => FreshMeansYoung' /\ MustRevalidateKept'
  BY DEF NoOut, FreshMeansYoung, MustRevalidateKept
<1>1. ASSUME NEW r \in Requests, Ask(r), conf' = conf PROVE IndInv'
  <2>1. FreshMeansYoung' /\ MustRevalidateKept'
    BY <1>1, AskKeeps
  <2>2. ClockInv'
    BY <1>1 DEF IndInv, ClockInv, Ask
  <2>3. TypeOK'
    <3>1. out'.kind \in {"none", "fresh", "warning", "stand_in"}
      BY <1>1, VerdictRange DEF Ask, NoOut
    <3>2. pend' = pend \/ pend' = [sent |-> now, req |-> r]
      BY <1>1 DEF Ask
    <3> QED
      BY <1>1, <3>1, <3>2 DEF IndInv, TypeOK, Ask, NoPend
  <2> QED
    BY <2>1, <2>2, <2>3 DEF IndInv
<1>2. ASSUME NEW p \in Responses, ReplyDocument(p), conf' = conf PROVE IndInv'
  <2>1. doc' \in Document /\ doc'.born >= doc'.sent
    BY <1>2, DatedDocument DEF ReplyDocument
  <2>2. ClockInv'
    BY <1>2, <2>1 DEF IndInv, ClockInv, ReplyDocument
  <2>3. TypeOK'
    BY <1>2, <2>1 DEF IndInv, TypeOK, ReplyDocument, NoOut, Document
  <2> QED
    BY <1>2, <1>n, <2>2, <2>3 DEF IndInv, ReplyDocument
<1>3. ASSUME NEW p \in Responses, ReplyNotModified(p), conf' = conf PROVE IndInv'
  <2>1. doc' \in Document /\ doc'.born >= doc'.sent
    BY <1>3, MergedDocument DEF ReplyNotModified
  <2>2. ClockInv'
    BY <1>3, <2>1 DEF IndInv, ClockInv, ReplyNotModified
  <2>3. TypeOK'
    BY <1>3, <2>1 DEF IndInv, TypeOK, ReplyNotModified, NoOut, Document
  <2> QED
    BY <1>3, <1>n, <2>2, <2>3 DEF IndInv, ReplyNotModified
<1>4. ASSUME ServerDown, conf' = conf PROVE IndInv'
  <2>1. out' = NoOut \/ (doc.have /\ ~doc.must_revalidate /\ out'.kind = "stand_in")
    BY <1>4 DEF ServerDown, is_stale_cache_response_returnable
  <2>2. FreshMeansYoung' /\ MustRevalidateKept'
    BY <1>4, <2>1, <1>n DEF ServerDown, FreshMeansYoung, MustRevalidateKept
  <2>3. ClockInv'
    BY <1>4 DEF IndInv, ClockInv, ServerDown
  <2>4. TypeOK'
    BY <1>4, <2>1 DEF IndInv, TypeOK, ServerDown, NoOut
  <2> QED
    BY <2>2, <2>3, <2>4 DEF IndInv
<1>5. ASSUME Tick \/ ClockBack, conf' = conf PROVE IndInv'
  <2>1. TypeOK' /\ ClockInv'
    BY <1>5, BoundsAssumption DEF IndInv, TypeOK, ClockInv, Tick, ClockBack, NoOut, NoPend
  <2> QED
    BY <1>5, <1>n, <2>1 DEF IndInv, Tick, ClockBack
<1>6. CASE UNCHANGED vars
  <2>1. calculate_document_freshness_limit(doc)' = calculate_document_freshness_limit(doc)
    BY <1>6, LimitStays DEF vars
  <2>2. FreshMeansYoung'
    BY <1>6, <2>1 DEF IndInv, vars, FreshMeansYoung, Allowed
  <2> QED
    BY <1>6, <2>2 DEF IndInv, vars, TypeOK, ClockInv, MustRevalidateKept
<1> QED
  BY <1>1, <1>2, <1>3, <1>4, <1>5, <1>6 DEF Next

(* The inductive invariant: types, the clock and what was handed out. *)
THEOREM FreshnessInvariant == Spec => []IndInv
  BY InitInv, NextInv, PTL DEF Spec

(* What HttpTransact::what_is_document_freshness calls fresh is, in real time, no older than the
   limit the headers and the configuration give it, however the clock was set in between. *)
THEOREM FreshIsYoung == Spec => []FreshMeansYoung
  BY FreshnessInvariant, PTL DEF IndInv

(* A document that must be revalidated is never served with a warning, nor in place of an answer
   the server did not give. *)
THEOREM MustRevalidate == Spec => []MustRevalidateKept
  BY FreshnessInvariant, PTL DEF IndInv

-----------------------------------------------------------------------------
(* StaleStays *)

(* The remainder of a number below the divisor. *)
LEMMA SmallMod == ASSUME NEW a \in Int, NEW b \in Int, 0 <= a, a < b PROVE a % b = a
  OBVIOUS

(* A sum within the range of an int is not changed. *)
LEMMA WrapInRange ==
    ASSUME NEW v \in Int, -IntMax <= v, v <= IntMax
    PROVE  Wrap(v) = v
<1> DEFINE a == v + IntMax + 1
           b == 2 * (IntMax + 1)
<1>1. a \in Int /\ b \in Int /\ 0 <= a /\ a < b
  BY YearAssumption
<1>2. a % b = a
  <2> HIDE DEF a, b
  <2> QED
    BY <1>1, SmallMod
<1>3. Wrap(v) = (a % b) - IntMax - 1
  BY DEF Wrap
<1> QED
  BY <1>2, <1>3, YearAssumption

(* The limit never grows with the time the request was sent. *)
LEMMA LimitFalls ==
    ASSUME conf \in Conf, NEW d, NEW e, SameHeaders(d, e), d.sent <= e.sent
    PROVE  /\ calculate_document_freshness_limit(e).limit <= calculate_document_freshness_limit(d).limit
           /\ calculate_document_freshness_limit(e).heuristic
                 = calculate_document_freshness_limit(d).heuristic
<1> DEFINE cc == IF Has(d.s_maxage) THEN d.s_maxage ELSE d.max_age
           S == StatedLimit(d)
           T == StatedLimit(e)
<1>1. S.limit \in Int /\ T.limit \in Int
  BY StatedLimitType DEF SameHeaders
<1>2. T.limit <= S.limit /\ T.heuristic = S.heuristic
  <2>1. CASE Has(cc)
    <3>1. S = [limit |-> Clip(cc, 0, Year), heuristic |-> FALSE]
      BY <2>1 DEF StatedLimit
    <3>2. T = S
      BY <2>1 DEF StatedLimit, SameHeaders
    <3> QED
      BY <1>1, <3>2
  <2>2. CASE ~Has(cc) /\ Has(d.expires)
    <3> DEFINE date(x) == IF x.date > 0 THEN x.date ELSE x.sent
               L(x) == Clip(MaxOf(x.expires, date(x)) - date(x), 0, Year)
    <3>1. S = [limit |-> L(d), heuristic |-> FALSE]
      BY <2>2 DEF StatedLimit
    <3>2. T = [limit |-> L(e), heuristic |-> FALSE]
      BY <2>2 DEF StatedLimit, SameHeaders
    <3>3. /\ date(d) \in Int /\ date(e) \in Int /\ date(d) <= date(e)
          /\ d.expires \in Int /\ e.expires = d.expires
      BY DEF SameHeaders, Document
    <3>4. L(e) <= L(d)
      <4> HIDE DEF date
      <4> QED
        BY <3>3, YearAssumption DEF Clip, MinOf, MaxOf
    <3> QED
      BY <3>1, <3>2, <3>4
  <2>3. CASE ~Has(cc) /\ ~Has(d.expires)
    <3>1. CASE d.date > 0 /\ Has(d.last_modified)
      <4> DEFINE g == [limit |-> ((d.date - MinOf(d.last_modified, d.date)) * conf.lm_tenths) \div 10,
                       heuristic |-> TRUE]
      <4>1. S = g
        BY <2>3, <3>1 DEF StatedLimit
      <4>2. T = g
        BY <2>3, <3>1 DEF StatedLimit, SameHeaders
      <4> HIDE DEF g
      <4> QED
        BY <1>1, <4>1, <4>2
    <3>2. CASE ~(d.date > 0 /\ Has(d.last_modified))
      <4>1. S = [limit |-> conf.heuristic_min, heuristic |-> TRUE]
        BY <2>3, <3>2 DEF StatedLimit
      <4>2. T = [limit |-> conf.heuristic_min, heuristic |-> TRUE]
        BY <2>3, <3>2 DEF StatedLimit, SameHeaders
      <4> QED
        BY <1>1, <4>1, <4>2
    <3> QED
      BY <3>1, <3>2
  <2> QED
    BY <2>1, <2>2, <2>3
<1> DEFINE lo == MaxOf(MaxOf(0, conf.guaranteed_min), IF S.heuristic THEN conf.heuristic_min ELSE 0)
           hi == MinOf(MinOf(Year, conf.guaranteed_max), IF S.heuristic THEN conf.heuristic_max ELSE Year)
<1> HIDE DEF S, T
<1>3. lo \in Int /\ hi \in Int
  BY YearAssumption DEF MinOf, MaxOf, Conf
<1>4. /\ calculate_document_freshness_limit(d) = [limit |-> Clip(S.limit, lo, hi), heuristic |-> S.heuristic]
      /\ calculate_document_freshness_limit(e) = [limit |-> Clip(T.limit, lo, hi), heuristic |-> S.heuristic]
  BY <1>2 DEF calculate_document_freshness_limit, S, T
<1> HIDE DEF lo, hi
<1>5. Clip(T.limit, lo, hi) <= Clip(S.limit, lo, hi)
  BY <1>1, <1>2, <1>3 DEF Clip, MinOf, MaxOf
<1> QED
  BY <1>4, <1>5

(* The age never shrinks. *)
LEMMA AgeGrows ==
    ASSUME NEW d, NEW e, SameHeaders(d, e), NEW t \in Int, NEW u \in Int,
           d.recv <= t, e.recv <= u, d.recv <= e.recv, t - d.sent <= u - e.sent
    PROVE  calculate_document_age(d, t) <= calculate_document_age(e, u)
<1>1. /\ d.recv \in Int /\ e.recv \in Int /\ d.sent \in Int /\ e.sent \in Int
      /\ d.date \in Int /\ d.age \in Int /\ e.date = d.date /\ e.age = d.age
  BY DEF SameHeaders, Document
<1>2. MaxOf(t, d.recv) = t /\ MaxOf(u, e.recv) = u
  BY <1>1 DEF MaxOf
<1> DEFINE app(x) == IF x.date > 0 THEN MaxOf(0, x.recv - x.date) ELSE 0
           A(x) == IF Has(x.age) THEN x.age ELSE 0
           M(x) == MaxOf(app(x), A(x))
<1>3. app(d) \in Int /\ app(e) \in Int /\ app(d) <= app(e)
  BY <1>1 DEF MaxOf
<1>4. A(d) \in Int /\ A(e) = A(d)
  BY <1>1
<1>5. M(d) \in Int /\ M(e) \in Int /\ M(d) <= M(e)
  <2> HIDE DEF app, A
  <2> QED
    BY <1>3, <1>4 DEF MaxOf
<1>6. /\ calculate_document_age(d, t) = M(d) + (d.recv - d.sent) + (t - d.recv)
      /\ calculate_document_age(e, u) = M(e) + (e.recv - e.sent) + (u - e.recv)
  <2>1. /\ calculate_document_age(d, t) = M(d) + (d.recv - d.sent) + (MaxOf(t, d.recv) - d.recv)
        /\ calculate_document_age(e, u) = M(e) + (e.recv - e.sent) + (MaxOf(u, e.recv) - e.recv)
    BY DEF calculate_document_age
  <2> HIDE DEF M
  <2> QED
    BY <2>1, <1>2
<1> HIDE DEF M
<1> QED
  BY <1>1, <1>5, <1>6

(* The client's limit follows the document's, unless the sum overflows. *)
LEMMA ClientLimitFalls ==
    ASSUME conf \in Conf, NEW r \in Requests, MaxStaleFits(r), NEW d, NEW e, SameHeaders(d, e),
           NEW g \in 0 .. Year, NEW h \in 0 .. Year, h <= g
    PROVE  /\ ClientLimit(d, r, g) \in Int /\ ClientLimit(e, r, h) \in Int
           /\ ClientLimit(e, r, h) <= ClientLimit(d, r, g)
<1> DEFINE relaxed(x, f) == IF ~Has(r.max_stale) \/ x.must_revalidate THEN f
                            ELSE IF r.max_stale = IntMax THEN IntMax
                            ELSE Wrap(f + r.max_stale)
           least(x, f) == IF Has(r.min_fresh) THEN MinOf(relaxed(x, f), f - r.min_fresh) ELSE relaxed(x, f)
<1>1. r.max_stale \in Int /\ r.min_fresh \in Int /\ r.max_age \in Int
  BY RequestsAssumption
<1>2. relaxed(d, g) \in Int /\ relaxed(e, h) \in Int /\ relaxed(e, h) <= relaxed(d, g)
  <2>1. CASE ~Has(r.max_stale) \/ d.must_revalidate
    BY <2>1, YearAssumption DEF SameHeaders
  <2>2. CASE ~(~Has(r.max_stale) \/ d.must_revalidate) /\ r.max_stale = IntMax
    BY <2>2, YearAssumption DEF SameHeaders
  <2>3. CASE ~(~Has(r.max_stale) \/ d.must_revalidate) /\ r.max_stale # IntMax
    <3>1. r.max_stale \in -IntMax .. (IntMax - Year)
      BY <2>3 DEF MaxStaleFits, Has
    <3>2. Wrap(g + r.max_stale) = g + r.max_stale /\ Wrap(h + r.max_stale) = h + r.max_stale
      <4>1. /\ g + r.max_stale \in Int /\ -IntMax <= g + r.max_stale /\ g + r.max_stale <= IntMax
            /\ h + r.max_stale \in Int /\ -IntMax <= h + r.max_stale /\ h + r.max_stale <= IntMax
        BY <1>1, <3>1, YearAssumption
      <4> QED
        BY <4>1, WrapInRange
    <3>3. relaxed(d, g) = g + r.max_stale /\ relaxed(e, h) = h + r.max_stale
      BY <2>3, <3>2 DEF SameHeaders
    <3> HIDE DEF relaxed
    <3> QED
      BY <1>1, <3>3, YearAssumption
  <2> QED
    BY <2>1, <2>2, <2>3
<1> HIDE DEF relaxed
<1>3. least(d, g) \in Int /\ least(e, h) \in Int /\ least(e, h) <= least(d, g)
  BY <1>1, <1>2, YearAssumption DEF MinOf, Has
<1>4. /\ ClientLimit(d, r, g) = IF Has(r.max_age) /\ ~conf.ignore_max_age THEN MinOf(least(d, g), r.max_age)
                                ELSE least(d, g)
      /\ ClientLimit(e, r, h) = IF Has(r.max_age) /\ ~conf.ignore_max_age THEN MinOf(least(e, h), r.max_age)
                                ELSE least(e, h)
  BY DEF ClientLimit, relaxed
<1> HIDE DEF least
<1> QED
  BY <1>1, <1>3, <1>4 DEF MinOf

(* An older document with a lower limit is no fresher. *)
LEMMA VerdictStays ==
    ASSUME conf \in Conf, NEW r \in Requests, MaxStaleFits(r), NEW d, NEW e, SameHeaders(d, e),
           NEW g \in 0 .. Year, NEW h \in 0 .. Year, h <= g,
           NEW a \in Int, NEW b \in Int, a <= b,
           Verdict(d, r, g, a) = "stale"
    PROVE  Verdict(e, r, h, b) = "stale"
<1> DEFINE limit(x, f) == IF conf.revalidate_after >= 0 THEN conf.revalidate_after ELSE ClientLimit(x, r, f)
           asked == r.max_age = 0 /\ ~conf.ignore_max_age
<1>1. limit(d, g) \in Int /\ limit(e, h) \in Int /\ limit(e, h) <= limit(d, g)
  BY ClientLimitFalls DEF Conf
<1>2. asked \/ a > limit(d, g) \/ (a > g /\ d.must_revalidate)
  BY DEF Verdict
<1>3. asked \/ b > limit(e, h) \/ (b > h /\ e.must_revalidate)
  <2>1. e.must_revalidate = d.must_revalidate
    BY DEF SameHeaders
  <2> HIDE DEF limit, asked
  <2> QED
    BY <1>1, <1>2, <2>1, YearAssumption
<1> QED
  BY <1>3 DEF Verdict

(* One step of the clock. *)
LEMMA StaleStep ==
    ASSUME IndInv, conf' = conf, doc' = doc, doc.have, now' \in Int, now' > now,
           NEW r \in Requests, MaxStaleFits(r),
           what_is_document_freshness(Skewed(doc), r, 0) = "stale"
    PROVE  what_is_document_freshness(Skewed(doc), r, 0)' = "stale"
<1> DEFINE t == now'
           d == SkewedAt(doc, now)
           e == SkewedAt(doc, t)
           lim(x) == calculate_document_freshness_limit(x)
           fresh(x) == Clip(lim(x).limit - 0, 0, Year)
           age(x, n) == MinOf(Year, calculate_document_age(x, n))
           Rules(x, n) ==
               IF conf.ttl_in_cache > 0
                   THEN IF n - x.recv > conf.ttl_in_cache THEN "stale" ELSE "fresh"
               ELSE IF x.revalidate_once /\ conf.revalidate_after <= 0 THEN "stale"
               ELSE IF conf.when_to_revalidate = 1 /\ lim(x).heuristic THEN "stale"
               ELSE IF conf.when_to_revalidate = 2 THEN "stale"
               ELSE IF conf.when_to_revalidate = 3 THEN "fresh"
               ELSE IF conf.when_to_revalidate = 4 /\ r.ims THEN "stale"
               ELSE Verdict(x, r, fresh(x), age(x, n))
<1>1. doc \in Document /\ conf \in Conf /\ now \in Int /\ t \in Int /\ now < t
  <2>1. now \in Int
    BY BoundsAssumption DEF IndInv, TypeOK
  <2> QED
    BY <2>1, HasDocument, ConfType DEF IndInv
<1>2. what_is_document_freshness(Skewed(doc), r, 0) = Rules(d, now)
  BY Zenon DEF what_is_document_freshness, Skewed, SkewedAt
<1>3. what_is_document_freshness(Skewed(doc), r, 0)' = Rules(e, t)
  <2> DEFINE F == Clip(calculate_document_freshness_limit(Skewed(doc)).limit - 0, 0, Year)
             A == MinOf(Year, calculate_document_age(Skewed(doc), now))
  <2> HIDE DEF d, e
  <2>1. Skewed(doc)' = e
    BY Zenon DEF Skewed, SkewedAt, e
  <2>2. StatedLimit(Skewed(doc))' = StatedLimit(e)
    BY <2>1 DEF StatedLimit
  <2>3. calculate_document_freshness_limit(Skewed(doc))' = lim(e)
    BY <2>2 DEF calculate_document_freshness_limit
  <2>4. F' = fresh(e) /\ A' = age(e, t)
    BY <2>1, <2>3
  <2> HIDE DEF F, A
  <2>5. ClientLimit(Skewed(doc), r, F)' = ClientLimit(e, r, F')
    BY <2>1 DEF ClientLimit
  <2>6. Verdict(Skewed(doc), r, F, A)' = Verdict(e, r, F', A')
    BY <2>1, <2>5 DEF Verdict
  <2>7. Verdict(Skewed(doc), r, F, A)' = Verdict(e, r, fresh(e), age(e, t))
    BY <2>4, <2>6
  <2> QED
    BY <2>1, <2>3, <2>7 DEF what_is_document_freshness, F, A
<1> HIDE DEF t, d, e
<1>4. /\ SameHeaders(doc, d) /\ d.sent = MinOf(doc.sent, now) /\ d.recv = MinOf(doc.recv, now)
      /\ SameHeaders(doc, e) /\ e.sent = MinOf(doc.sent, t) /\ e.recv = MinOf(doc.recv, t)
  BY <1>1, SkewedFields DEF d, e
<1>5. SameHeaders(d, e)
  BY <1>4 DEF SameHeaders
<1>6. /\ d.sent <= e.sent /\ d.recv <= now /\ e.recv <= t /\ d.recv <= e.recv
      /\ now - d.sent <= t - e.sent /\ now - d.recv <= t - e.recv
      /\ d.recv \in Int /\ e.recv \in Int
  BY <1>1, <1>4 DEF MinOf, Document
<1>7. lim(e).limit <= lim(d).limit /\ lim(e).heuristic = lim(d).heuristic
  BY <1>1, <1>5, <1>6, LimitFalls
<1>8. lim(d).limit \in Nat /\ lim(e).limit \in Nat
  BY <1>1, <1>4, LimitBounds DEF SameHeaders
<1>9. fresh(e) \in 0 .. Year /\ fresh(d) \in 0 .. Year /\ fresh(e) <= fresh(d)
  <2> HIDE DEF lim
  <2> QED
    BY <1>7, <1>8, YearAssumption DEF Clip, MinOf, MaxOf
<1>10. age(d, now) \in Int /\ age(e, t) \in Int /\ age(d, now) <= age(e, t)
  <2>1. calculate_document_age(d, now) <= calculate_document_age(e, t)
    BY <1>1, <1>5, <1>6, AgeGrows
  <2>2. calculate_document_age(d, now) \in Int /\ calculate_document_age(e, t) \in Int
    BY <1>1, <1>4 DEF calculate_document_age, MaxOf, SameHeaders, Document, Has
  <2> QED
    BY <2>1, <2>2, YearAssumption DEF MinOf
<1> HIDE DEF fresh, age
<1>11. Verdict(d, r, fresh(d), age(d, now)) = "stale" => Verdict(e, r, fresh(e), age(e, t)) = "stale"
  BY <1>1, <1>5, <1>9, <1>10, VerdictStays
<1>12. conf.ttl_in_cache > 0 /\ now - d.recv > conf.ttl_in_cache => t - e.recv > conf.ttl_in_cache
  BY <1>1, <1>6 DEF Conf
<1>13. e.revalidate_once = d.revalidate_once
  BY <1>5 DEF SameHeaders
<1> HIDE DEF lim
<1> QED
  BY <1>2, <1>3, <1>7, <1>11, <1>12, <1>13

(* While the document is not renewed and the clock goes forward, a document that was stale for a
   request whose max-stale does not overflow stays stale for it. *)
THEOREM StaleDocumentsStay == Spec => StaleStays
<1>1. IndInv /\ IndInv' /\ [Next]_vars =>
        [doc' = doc /\ doc.have /\ now' > now =>
           \A r \in Requests :
              MaxStaleFits(r) /\ what_is_document_freshness(Skewed(doc), r, 0) = "stale" =>
                  what_is_document_freshness(Skewed(doc), r, 0)' = "stale"]_vars
  <2> SUFFICES ASSUME IndInv, IndInv', Next, doc' = doc, doc.have, now' > now,
                      NEW r \in Requests, MaxStaleFits(r),
                      what_is_document_freshness(Skewed(doc), r, 0) = "stale"
               PROVE  what_is_document_freshness(Skewed(doc), r, 0)' = "stale"
    OBVIOUS
  <2>1. conf' = conf /\ now' \in Int
    BY BoundsAssumption DEF Next, IndInv, TypeOK
  <2> QED
    BY <2>1, StaleStep
<1> QED
  BY <1>1, FreshnessInvariant, PTL DEF Spec, StaleStays
=============================================================================
