----------------------------- MODULE NgxPhases -----------------------------
(***************************************************************************)
(* The phase engine of the HTTP core: the array of checkers built by       *)
(* ngx_http_init_phase_handlers(), ngx_http_core_run_phases() over it, and *)
(* the ways a request changes its location: rewrites, internal redirects,  *)
(* named locations, error pages, try_files, post_action.  What a module's  *)
(* handler answers is chosen freely among the codes its phase allows; a    *)
(* uri is a name, and LocOf is what NgxLocations computes for it.          *)
(***************************************************************************)
EXTENDS Integers, Sequences, SequencesExt, FiniteSets

CONSTANTS
    Handlers,      \* number of handlers of each phase with handlers
    HasTryFiles,   \* cmcf->try_files
    Locs,          \* the locations: a function from their names to records
    LocOf,         \* the location of each uri
    Uris,          \* the uris in use
    MaxUriChanges, \* NGX_HTTP_MAX_URI_CHANGES
    UriBits        \* 2 ^ width of the bit field r->uri_changes

(* a server block is no internal location (internal is for location blocks only), and some module has a
   content handler: without one ngx_http_core_run_phases() would leave every request without an answer *)
ASSUME PhasesAssumption ==
    /\ MaxUriChanges \in Nat /\ UriBits \in Nat /\ MaxUriChanges + 1 < UriBits
    /\ Handlers \in [{"post_read", "server_rewrite", "rewrite", "preaccess", "access", "content"} -> Nat]
    /\ Handlers["content"] > 0
    /\ LocOf \in [Uris -> DOMAIN Locs]
    /\ "server" \in DOMAIN Locs /\ ~Locs["server"].internal
    /\ \A l \in DOMAIN Locs : /\ Locs[l].internal \in BOOLEAN /\ Locs[l].handler \in BOOLEAN
                              /\ Locs[l].recursive \in BOOLEAN /\ Locs[l].rewrites \subseteq Uris

VARIABLE r
pvars == <<r>>
-----------------------------------------------------------------------------
(* ngx_http_init_phase_handlers() *)
CheckerOf(p) == IF p \in {"server_rewrite", "rewrite"} THEN "rewrite"
                ELSE IF p \in {"access", "content"} THEN p ELSE "generic"

Entry(checker, p, next) == [checker |-> checker, phase |-> p, next |-> next]
NoHandlers == [ph |-> <<>>, n |-> 0, find |-> 0, server |-> 0, location |-> 0]

(* one checker without a handler *)
AddChecker(e, p, next) ==
    [ph |-> Append(e.ph, Entry(p, p, next)), n |-> e.n + 1, find |-> e.find,
     server |-> e.server, location |-> e.location]
(* one checker for each handler of a phase: next is the checker after them *)
AddHandlers(e, p, next) ==
    [ph |-> e.ph \o [j \in 1..Handlers[p] |-> Entry(CheckerOf(p), p, next)], n |-> next, find |-> e.find,
     server |-> IF p = "server_rewrite" THEN e.n ELSE e.server,
     location |-> IF p = "rewrite" THEN e.n ELSE e.location]

AddPhase(e, p) == AddHandlers(e, p, e.n + Handlers[p])
AddFindConfig(e) == [AddChecker(e, "find_config", 0) EXCEPT !.find = e.n]
AddPostRewrite(e) == IF Handlers["rewrite"] > 0 THEN AddChecker(e, "post_rewrite", e.find) ELSE e
(* the handlers skip the post access checker: n++ before they are counted *)
AddAccess(e) == AddHandlers(e, "access", e.n + 1 + Handlers["access"])
AddPostAccess(e) ==
    IF Handlers["access"] > 0 THEN [AddChecker(e, "post_access", e.n) EXCEPT !.n = e.n] ELSE e
AddTryFiles(e) == IF HasTryFiles THEN AddChecker(e, "try_files", 0) ELSE e

(* the phases up to the access rules, then the whole engine *)
BeforeRewrite == AddFindConfig(AddPhase(AddPhase(NoHandlers, "post_read"), "server_rewrite"))
BeforeAccess == AddPhase(AddPostRewrite(AddPhase(BeforeRewrite, "rewrite")), "preaccess")
Engine == AddPhase(AddTryFiles(AddPostAccess(AddAccess(BeforeAccess))), "content")
(* the engine's indices start at 0 *)
Checker(i) == Engine.ph[i + 1]
Beyond(i) == i >= Len(Engine.ph)

-----------------------------------------------------------------------------
(* a history variable: the last content handler called *)
Serve(s) == [s EXCEPT !.served = {[loc |-> s.loc, verdicts |-> s.verdicts, whole |-> s.whole,
                                   moved |-> s.moved, main |-> s.main]}]
Ended(s) == [s EXCEPT !.state = "done"]
(* history: hops stops counting once there are too many, moved is set by the first change *)
Hop(s) == [s EXCEPT !.hops = IF @ > MaxUriChanges + 1 THEN @ ELSE @ + 1, !.moved = TRUE,
                    !.changes = (@ - 1 + UriBits) % UriBits]
NewLocation(s) == [s EXCEPT !.verdicts = <<>>, !.whole = FALSE, !.served = {}]

(* ngx_http_update_location_config(): the content handler of the location *)
update_location_config(s) ==
    [s EXCEPT !.handler = @ \/ Locs[s.loc].handler]

(* ngx_http_post_action(), and ngx_http_finalize_request() with the response *)
PostActionSpent(s) == s.post /\ s.changes = 0

(* ngx_http_internal_redirect() up to the phases; special is the caller's 500 *)
internal_redirect(s0, uri) ==
    LET s == Hop(s0) IN
    IF s.changes = 0 THEN [s EXCEPT !.state = "fail"]
    ELSE NewLocation([update_location_config([s EXCEPT !.loc = "server"])
                        EXCEPT !.uri = uri, !.internal = TRUE, !.ph = Engine.server,
                               !.state = "run"])

(* cmcf->phase_engine.location_rewrite_index *)
NamedEntry == Engine.location

(* ngx_http_named_location() *)
named_location(s0, name) ==
    LET s == Hop(s0) IN
    IF s.changes = 0 \/ name \notin DOMAIN Locs THEN [s EXCEPT !.state = "fail"]
    ELSE NewLocation([update_location_config([s EXCEPT !.loc = name, !.handler = FALSE])
                        EXCEPT !.internal = TRUE, !.changed = FALSE, !.ph = NamedEntry,
                               !.state = "run"])

Redirect(s, to) == IF to \in Uris THEN internal_redirect(s, to) ELSE named_location(s, to)

(* the response of the request is complete *)
Complete(s) ==
    LET to == Locs[s.loc].post_action IN
    IF to = "none" \/ PostActionSpent(s) THEN Ended(s)
    ELSE Redirect([s EXCEPT !.post = TRUE], to)

(* ngx_http_special_response_handler(), ngx_http_send_error_page() *)
ErrorPageAllowed(s) == ~s.error_page /\ s.changes # 0

special_response(s, code) ==
    LET l == Locs[s.loc]
        s1 == [s EXCEPT !.error_page = @ \/ ~l.recursive] IN
    IF ErrorPageAllowed(s) /\ l.errors # "none" /\ code \in {"403", "404", "500"}
    THEN Redirect(s1, l.errors) ELSE Complete(s)

(* ngx_http_finalize_request() *)
finalize(s, rc) == CASE rc = "OK" -> Complete(s) [] rc = "DONE" -> s [] OTHER -> special_response(s, rc)

(* a redirect that ran out of changes finishes the request with a 500 *)
Failed(s) == special_response([s EXCEPT !.state = "run"], "500")

Advance(s) == [s EXCEPT !.ph = @ + 1]
Jump(s) == [s EXCEPT !.ph = Checker(s.ph).next]
Suspend(s) == [s EXCEPT !.state = "wait"]

-----------------------------------------------------------------------------
(* The checkers, given what the handler answers *)
core_generic_phase(s, rc) ==
    CASE rc = "OK" -> Jump(s) [] rc = "DECLINED" -> Advance(s)
      [] rc = "AGAIN" -> Suspend(s) [] OTHER -> finalize(s, rc)

(* a rewrite handler may have changed the uri *)
core_rewrite_phase(s, rc, uri) ==
    LET s1 == IF uri = s.uri THEN s ELSE [s EXCEPT !.uri = uri, !.changed = TRUE, !.internal = TRUE,
                                                                !.moved = TRUE] IN
    IF rc = "DECLINED" THEN Advance(s1) ELSE finalize(s1, rc)

MayEnter(s, l) == s.internal \/ ~Locs[l].internal

core_find_config_phase(s0) ==
    LET s == NewLocation([s0 EXCEPT !.handler = FALSE, !.changed = FALSE, !.loc = LocOf[s0.uri]])
        u == update_location_config(s)
    IN  CASE ~MayEnter(s, s.loc) -> finalize(s, "404")
          [] MayEnter(s, s.loc) /\ Locs[s.loc].too_large -> finalize(u, "413")
          [] OTHER -> Advance(u)

(* Mutant: a cycle of rewrites is not looked for *)
core_post_rewrite_phase_NoCut(s) == IF s.changed THEN Jump([Hop(s) EXCEPT !.loc = "server"]) ELSE Advance(s)
core_post_rewrite_phase(s) ==
    LET h == Hop(s) IN
    CASE ~s.changed -> Advance(s)
      [] s.changed /\ h.changes = 0 -> finalize(h, "500")
      [] OTHER -> Jump([h EXCEPT !.loc = "server"])

(* Mutant: under satisfy any a refusal ends the access phase at once *)
AccessAny_First(s, rc) ==
    IF rc = "OK" THEN Jump([s EXCEPT !.access_code = "none"])
    ELSE IF rc \in {"403", "401"} THEN Jump([s EXCEPT !.access_code = rc])
    ELSE finalize(s, rc)
AccessAny(s, rc) ==
    IF rc = "OK" THEN [Jump(s) EXCEPT !.access_code = "none", !.whole = TRUE]
    ELSE IF rc \in {"403", "401"} THEN Advance([s EXCEPT !.access_code = rc])
    ELSE finalize(s, rc)

core_access_phase(s0, rc) ==
    LET s == [s0 EXCEPT !.verdicts = Append(@, rc)] IN
    CASE ~s0.main -> Jump(s0)
      [] s0.main /\ rc = "DECLINED" -> Advance(s)
      [] s0.main /\ rc = "AGAIN" -> Suspend(s0)
      [] OTHER -> IF Locs[s.loc].satisfy = "all"
                  THEN IF rc = "OK" THEN Advance(s) ELSE finalize(s, rc)
                  ELSE AccessAny(s, rc)

core_post_access_phase(s) ==
    IF s.access_code # "none" THEN finalize([s EXCEPT !.access_code = "none"], s.access_code)
    ELSE Advance([s EXCEPT !.whole = TRUE])

(* found: one of the files exists; otherwise the last argument is used *)
core_try_files_phase(s, found) ==
    LET l == Locs[s.loc] IN
    CASE l.try_files = "none" \/ found -> Advance(s)
      [] l.try_files = "404" /\ ~found -> finalize(s, "404")
      [] OTHER -> Redirect(s, l.try_files)

(* the content handler of the location, or the handlers of the phase in turn *)
core_content_phase(s0, rc, to) ==
    LET s == Serve(s0)
        last == Beyond(s0.ph + 1)
        answer == CASE rc = "redirect" -> Redirect(s, to)
                    [] rc = "AGAIN" -> Suspend(s) [] OTHER -> finalize(s, rc)
    IN  IF s0.handler
        THEN IF rc = "DECLINED" THEN [s EXCEPT !.handler = FALSE] ELSE answer
        ELSE IF rc # "DECLINED" THEN answer
        ELSE IF ~last THEN Advance(s) ELSE finalize(s, "404")

-----------------------------------------------------------------------------
(* ngx_http_handler() of a new request, or of a subrequest *)
Init == \E main \in BOOLEAN, uri \in Uris :
    r = [state |-> "run", ph |-> IF main THEN 0 ELSE Engine.server, uri |-> uri, moved |-> FALSE,
         loc |-> "server", main |-> main, internal |-> ~main, changes |-> MaxUriChanges + 1,
         changed |-> FALSE, handler |-> FALSE, access_code |-> "none", error_page |-> FALSE,
         post |-> FALSE, hops |-> 0, verdicts |-> <<>>, whole |-> FALSE, served |-> {}]

At(checker) == /\ r.state = "run" /\ ~Beyond(r.ph) /\ Checker(r.ph).checker = checker

Generic == At("generic") /\ \E rc \in {"OK", "DECLINED", "AGAIN", "503"} : r' = core_generic_phase(r, rc)
Rewrite == /\ At("rewrite")
           /\ \/ r' = core_rewrite_phase(r, "403", r.uri)
              \/ \E uri \in {r.uri} \cup Locs[r.loc].rewrites : r' = core_rewrite_phase(r, "DECLINED", uri)
FindConfig == At("find_config") /\ r' = core_find_config_phase(r)
PostRewrite == At("post_rewrite") /\ r' = core_post_rewrite_phase(r)
Access == /\ At("access")
          /\ \E rc \in {"OK", "DECLINED", "AGAIN", "403", "401", "500"} : r' = core_access_phase(r, rc)
PostAccess == At("post_access") /\ r' = core_post_access_phase(r)
TryFiles == At("try_files") /\ \E found \in BOOLEAN : r' = core_try_files_phase(r, found)
Content == /\ At("content")
           /\ \/ \E rc \in {"OK", "DECLINED", "AGAIN", "404"} : r' = core_content_phase(r, rc, r.uri)
              \/ \E to \in Locs[r.loc].redirects : r' = core_content_phase(r, "redirect", to)
(* the event a handler waited for: ngx_http_core_run_phases() again *)
Resume == r.state = "wait" /\ r' = [r EXCEPT !.state = "run"]
Fail == r.state = "fail" /\ r' = Failed(r)
Done == r.state = "done" /\ UNCHANGED r

Next == Generic \/ Rewrite \/ FindConfig \/ PostRewrite \/ Access \/ PostAccess \/ TryFiles
        \/ Content \/ Resume \/ Fail \/ Done

(* handlers do not wait for ever: their timers see to that *)
Spec == Init /\ [][Next]_pvars /\ WF_pvars(Next)
        /\ SF_pvars(Generic /\ r'.state # "wait") /\ SF_pvars(Access /\ r'.state # "wait")
        /\ SF_pvars(Content /\ r'.state # "wait")

-----------------------------------------------------------------------------
(* the access rules of the location let a main request through: none refused
   (satisfy all), or one accepted or none refused (satisfy any), and all were
   asked *)
LetThrough(v) ==
    LET codes == Range(v.verdicts)
    IN  /\ v.whole \/ Handlers["access"] = 0
        /\ IF Locs[v.loc].satisfy = "all"
           THEN codes \subseteq {"OK", "DECLINED"} /\ Len(v.verdicts) = Handlers["access"]
           ELSE \/ "OK" \in codes
                \/ codes \subseteq {"DECLINED"} /\ Len(v.verdicts) = Handlers["access"]

Checked(v) == /\ v.main => LetThrough(v)
              /\ Locs[v.loc].internal => v.moved \/ ~v.main

(* Whatever rewrites, redirects, error pages and named locations led there, the
   content of a location is produced for a main request only after the access
   rules of that very location let it through, and the content of an internal
   location only after a rewrite or an internal redirection (or for a
   subrequest). *)
AccessChecked == \A v \in r.served : Checked(v)

(* A request changes its location at most MaxUriChanges times before its
   response is complete: cycles of rewrites and redirects are cut. *)
CyclesCut == ~r.post => r.hops <= MaxUriChanges + 1

(* What a request is, whatever happened; the phase index names a checker. *)
Codes == {"OK", "DECLINED", "403", "401", "500"}
Served == [loc : DOMAIN Locs, verdicts : Seq(Codes), whole : BOOLEAN, moved : BOOLEAN, main : BOOLEAN]
Request ==
    [state : {"run", "wait", "fail", "done"}, ph : Nat, uri : Uris, moved : BOOLEAN, loc : DOMAIN Locs,
     main : BOOLEAN, internal : BOOLEAN, changes : 0..(UriBits - 1), changed : BOOLEAN,
     handler : BOOLEAN, access_code : {"none", "403", "401"}, error_page : BOOLEAN, post : BOOLEAN,
     hops : Nat, verdicts : Seq(Codes), whole : BOOLEAN, served : SUBSET Served]
Proper(s) ==
    /\ s \in Request /\ ~Beyond(s.ph)
    /\ s.internal => s.moved \/ ~s.main
    /\ \A v \in s.served : Checked(v)

(* Before the first completion every change of the location is counted, and a
   request without changes left has failed. *)
Counted(s) == ~s.post => s.hops + s.changes = MaxUriChanges + 1
CutOff(s) == ~s.post /\ s.changes = 0 => s.state \in {"fail", "done"}

(* While a request runs: before the access rules none has answered; among them
   those before the phase index have, and none that ends the phase; behind them
   they let the request through. *)
FirstAccess == Len(BeforeAccess.ph)
NotRefused(s) ==
    IF Locs[s.loc].satisfy = "all" THEN Range(s.verdicts) \subseteq {"OK", "DECLINED"}
    ELSE /\ Range(s.verdicts) \subseteq {"DECLINED", "403", "401"}
         /\ s.access_code = "none" => Range(s.verdicts) \subseteq {"DECLINED"}
InPhase(s) ==
    /\ Locs[s.loc].internal => s.internal
    /\ s.ph <= FirstAccess => s.verdicts = <<>>
    /\ s.main /\ s.ph \in FirstAccess..(FirstAccess + Handlers["access"]) =>
          Len(s.verdicts) = s.ph - FirstAccess /\ NotRefused(s)
    /\ s.main /\ s.ph > FirstAccess + Handlers["access"] => LetThrough(s)

(* A request always has a checker to run, its changes of location are counted until its response is complete
   and cut at the last (r->uri_changes), and its phase index agrees with what the access rules have said. *)
Valid(s) == /\ Proper(s) /\ Counted(s) /\ CutOff(s)
            /\ s.state \in {"run", "wait"} => InPhase(s)
IndInv == Valid(r)

(* Every request ends, cycles of rewrites, error pages and post actions too. *)
Ends == <>(r.state = "done")
=============================================================================
