---------------------------- MODULE MCHttpProxy -----------------------------
(*****************************************************************************)
(* What the proxy decides about a stored document: how long it may be        *)
(* served, which alternate of it answers, and what a renewal leaves of its   *)
(* header.                                                                   *)
(*****************************************************************************)
EXTENDS HttpFreshness, Sequences, SequencesExt, TLC

VARIABLES part,   \* the component that runs
          vector, clock, asked, times, cached, last, shown, n


(* Documents, clients and configurations for HttpFreshness. *)
PlainResponse == [lag |-> 0, age |-> NoValue, s_maxage |-> NoValue, max_age |-> NoValue,
                  expires_in |-> NoValue, modified |-> NoValue,
                  must_revalidate |-> FALSE, revalidate_once |-> FALSE]
PlainRequest == [max_age |-> NoValue, max_stale |-> NoValue, min_fresh |-> NoValue,
                 ims |-> FALSE, no_cache |-> FALSE, auth |-> FALSE]
MCResponses ==
    { PlainResponse,
      [PlainResponse EXCEPT !.max_age = 2, !.age = 1],
      [PlainResponse EXCEPT !.max_age = 1, !.must_revalidate = TRUE],
      [PlainResponse EXCEPT !.s_maxage = 1, !.max_age = 3, !.lag = NoValue],
      [PlainResponse EXCEPT !.expires_in = 2, !.lag = 1],
      [PlainResponse EXCEPT !.modified = 4, !.lag = -1],
      [PlainResponse EXCEPT !.max_age = 3, !.revalidate_once = TRUE] }
MCRequests ==
    { PlainRequest,
      [PlainRequest EXCEPT !.max_age = 0],
      [PlainRequest EXCEPT !.max_age = 1],
      [PlainRequest EXCEPT !.max_stale = 1],
      [PlainRequest EXCEPT !.max_stale = IntMax],
      [PlainRequest EXCEPT !.min_fresh = 1, !.auth = TRUE],
      [PlainRequest EXCEPT !.no_cache = TRUE, !.ims = TRUE] }
DefaultConf == [guaranteed_min |-> 0, guaranteed_max |-> 20, heuristic_min |-> 1, heuristic_max |-> 3,
                lm_tenths |-> 5, ignore_max_age |-> FALSE, revalidate_after |-> -1, ttl_in_cache |-> 0,
                when_to_revalidate |-> 0, fuzz |-> {1}, max_stale_age |-> 3]
MCConfs == { DefaultConf,
             [DefaultConf EXCEPT !.revalidate_after = 2, !.fuzz = {}, !.guaranteed_max = 2, !.ignore_max_age = TRUE],
             [DefaultConf EXCEPT !.ttl_in_cache = 2, !.fuzz = {}],
             [DefaultConf EXCEPT !.when_to_revalidate = 1, !.guaranteed_min = 1] }

(* Clients, documents and configurations for HttpAlternates: codings, languages and types. *)
V(v, q) == [v |-> v, q |-> q]
Client == [purge |-> FALSE, accept |-> <<>>, charset |-> <<>>, encoding |-> <<>>, language |-> <<>>, agent |-> <<>>]
Page == [status |-> 200, ctype |-> [type |-> "text", subtype |-> "html", charset |-> "utf-8"],
         cenc |-> <<>>, clang |-> <<>>, vary |-> <<>>]
CodingRequests ==
    { [Client EXCEPT !.encoding = e] :
        e \in { <<>>, <<V("gzip", 1000)>>, <<V("gzip", 0), V("*", 500)>>, <<V("x-gzip", 500), V("br", 1000)>> } }
CodingResponses ==
    { [Page EXCEPT !.cenc = c, !.vary = v] : c \in { <<>>, <<"gzip">> }, v \in { <<>>, <<"encoding">> } }
      \union { [Page EXCEPT !.cenc = c] : c \in { <<"identity">>, <<"x-gzip", "br">> } }
LanguageRequests ==
    { [Client EXCEPT !.language = l] :
        l \in { <<>>, <<V(<<"en">>, 1000)>>, <<V(<<"en", "us">>, 800), V(<<"*">>, 100)>>,
                <<V(<<"fr">>, 500), V(<<"en">>, 0)>> } }
      \union { [Client EXCEPT !.purge = TRUE] }
LanguageResponses ==
    { [Page EXCEPT !.clang = << <<"en", "us">> >>, !.vary = <<"*">>] } \union
    { [Page EXCEPT !.clang = l, !.vary = v] :
        l \in { <<>>, << <<"en">>, <<"fr">> >> }, v \in { <<>>, <<"language">> } }
TypeRequests ==
    { [Client EXCEPT !.accept = a, !.charset = c, !.agent = u] :
        a \in { <<>>, <<V(<<"text", "html">>, 500), V(<<"text", "*">>, 1000)>>, <<V(<<"image", "*">>, 300), V(<<"*", "*">>, 100)>> },
        c \in { <<V("latin", 1000)>> }, u \in { <<>>, <<"moz">> } }
TypeResponses ==
    { [Page EXCEPT !.ctype = [type |-> "text", subtype |-> "html", charset |-> "latin"]],
      [Page EXCEPT !.ctype = [type |-> "image", subtype |-> "png", charset |-> "utf-8"]],
      [Page EXCEPT !.ctype = [type |-> "image", subtype |-> "png", charset |-> "utf-8"], !.vary = <<"agent">>],
      [Page EXCEPT !.ctype = [type |-> "", subtype |-> "", charset |-> "utf-8"]] }
PlainConf == [ignore_accept |-> 0, ignore_charset |-> 0, ignore_encoding |-> 0, ignore_language |-> 0,
              default_vary |-> FALSE, vary_text |-> <<>>, vary_images |-> <<>>, vary_other |-> <<>>, global_user_agent |-> FALSE]
IgnoreConf == [PlainConf EXCEPT !.ignore_accept = 2, !.ignore_charset = 2, !.default_vary = TRUE, !.vary_text = <<"agent">>]

(* Documents and their renewals for the stored header. *)
F(name, v) == [name |-> name, v |-> <<v>>]
R(hd, date, age) == [h |-> hd, date |-> date, age |-> age]
MCFills ==
    {R(<<F("Content-Type", "t"), F("Content-Length", "3"), F("Set-Cookie", "c"), F("ETag", "e")>> \o w, 1, a) :
        w \in {<<>>, <<F("Warning", "110"), F("Warning", "299")>>, <<F("X", "1"), F("X", "2")>>}, a \in {-1, 5}}
RenewalHeaders ==
    {<<F("ETag", "f"), F("Content-Type", "u"), F("Content-Length", "0")>>,
     <<F("X", "3"), F("Set-Cookie", "d"), F("ETag", "g")>>,
     <<F("Warning", "299"), F("Connection", "X"), F("Warning", "111"), F("ETag", "h")>>,
     <<F("X", "3"), F("X", "4"), F("ETag", "f")>>, <<F("ETag", "f"), F("X", "3"), F("ETag", "g"), F("X", "5")>>}
MCRenewals == {R(hd, d, a) : hd \in RenewalHeaders, d \in {0, 2}, a \in {1}}

-----------------------------------------------------------------------------
Coding == INSTANCE HttpAlternates WITH
    now <- clock, Requests <- CodingRequests, Responses <- CodingResponses, Conf <- PlainConf,
    HookAnswers <- {1000}, Force <- 9999, MaxAlternates <- 2, MaxTime <- 1,
    object <- cached, Fills <- {}, Renewals <- {}, MaxNow <- 0, MaxSteps <- 0
Language == INSTANCE HttpAlternates WITH
    now <- clock, Requests <- LanguageRequests, Responses <- LanguageResponses, Conf <- PlainConf,
    HookAnswers <- {1000, 9999}, Force <- 9999, MaxAlternates <- 2, MaxTime <- 1,
    object <- cached, Fills <- {}, Renewals <- {}, MaxNow <- 0, MaxSteps <- 0
Type == INSTANCE HttpAlternates WITH
    now <- clock, Requests <- TypeRequests, Responses <- TypeResponses, Conf <- IgnoreConf,
    HookAnswers <- {1000}, Force <- 9999, MaxAlternates <- 2, MaxTime <- 1,
    object <- cached, Fills <- {}, Renewals <- {}, MaxNow <- 0, MaxSteps <- 0
Stored == INSTANCE HttpAlternates WITH
    now <- clock, Requests <- {}, Responses <- {}, Conf <- PlainConf,
    HookAnswers <- {}, Force <- 9999, MaxAlternates <- 0, MaxTime <- 0,
    object <- cached, Fills <- MCFills, Renewals <- MCRenewals, MaxNow <- 4, MaxSteps <- 3

(* the variables of the components that do not run are idle, those of HttpFreshness in an initial state *)
IdleHttpFreshness == vector = "idle" /\ clock = "idle" /\ asked = "idle" /\ times = "idle" /\ cached = "idle" /\ last = "idle"
    /\ shown = "idle" /\ n = "idle"
KeepHttpFreshness == UNCHANGED <<part, vector, clock, asked, times, cached, last, shown, n>>
IdleHttpAlternates == Init /\ conf = DefaultConf /\ cached = "idle" /\ last = "idle" /\ shown = "idle" /\ n = "idle"
KeepHttpAlternates == UNCHANGED <<part, conf, now, real, back, doc, pend, out, cached, last, shown, n>>
IdleStoredHeader == Init /\ conf = DefaultConf /\ vector = "idle" /\ asked = "idle" /\ times = "idle"
KeepStoredHeader == UNCHANGED <<part, conf, now, real, back, doc, pend, out, vector, asked, times>>

MCInit ==
    \/ part = "fresh" /\ Init /\ IdleHttpFreshness
    \/ part = "coding" /\ Coding!Init /\ IdleHttpAlternates
    \/ part = "language" /\ Language!Init /\ IdleHttpAlternates
    \/ part = "type" /\ Type!Init /\ IdleHttpAlternates
    \/ part = "stored" /\ Stored!StoredInit /\ IdleStoredHeader
MCNext ==
    \/ part = "fresh" /\ Next /\ KeepHttpFreshness
    \/ part = "coding" /\ Coding!Next /\ KeepHttpAlternates
    \/ part = "language" /\ Language!Next /\ KeepHttpAlternates
    \/ part = "type" /\ Type!Next /\ KeepHttpAlternates
    \/ part = "stored" /\ Stored!StoredNext /\ KeepStoredHeader
mcvars == <<part, conf, now, real, back, doc, pend, out, vector, clock, asked, times, cached, last, shown, n>>
MCSpec == MCInit /\ [][MCNext]_mcvars

-----------------------------------------------------------------------------
(* The alternate of a document that is served agrees with the request in every header it varies by, no
   complete alternate is better or as good and younger, no client gets a coding it refuses, and the
   request an alternate was stored for finds it again; what is stored of a document is what its server
   said last, without cookies, with its content fields, its lasting warnings and its age kept. *)
StoredSafe ==
    /\ part = "coding" => Coding!TypeOK /\ Coding!VaryRespected /\ Coding!QualityFirst /\ Coding!CodingTaken /\ Coding!RepeatFinds
    /\ part = "language" => Language!VaryRespected /\ Language!QualityFirst
    /\ part = "type" => Type!VaryRespected /\ Type!QualityFirst /\ Type!RepeatFinds
    /\ part = "stored" => Stored!NoCookie /\ Stored!RenewedExactly /\ Stored!ContentKept /\ Stored!LastingWarnings /\ Stored!AgeUpdated
=============================================================================
