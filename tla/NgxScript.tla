------------------------------ MODULE NgxScript ------------------------------
(***************************************************************************)
(* The scripts of http/ngx_http_script.c: the compiler and the engine.     *)
(*                                                                         *)
(* ngx_http_script_compile(): a configuration string with variables,       *)
(* captures and arguments becomes two arrays of codes, one that counts the *)
(* bytes of the value and one that writes them; one step is one turn of    *)
(* the loop over the source (CompileSpec).                                 *)
(*                                                                         *)
(* The engine: a program of codes that rewrites a request, with its stack  *)
(* and its buffer, and the complex values that other directives evaluate.  *)
(* A value is counted by one pass over its template and written by another *)
(* (Spec).  The directives that lay out the codes (the rewrite module) are *)
(* external; so is the regular expression engine.  A string is a sequence  *)
(* of characters; "%20" and "%26" are an escaped blank and ampersand and   *)
(* take three bytes.                                                       *)
(***************************************************************************)
EXTENDS Integers, Sequences, SequencesExt, FiniteSets

CONSTANTS
    Sources,      \* the strings that are compiled
    Known,        \* names that already have an index, in the order of their indices
    Programs,   \* sequences of codes
    Requests,   \* [uri, args, file]
    Templates   \* complex values that are evaluated after the program

VARIABLES
    (* the compiler *)
    source,     \* sc->source
    i,          \* the characters read
    sc,         \* the flags and counters of ngx_http_script_compile_t
    flushes,    \* indices of the variables of the value
    lengths,    \* codes that count
    values,     \* codes that write
    variables,  \* cmcf->variables: the names, the index of a name is its place less one
    rc,         \* "run", "ok" or "error"
    spans,       \* history: where in the source each code came from
    (* the engine *)
    prog,    \* the program
    r,       \* the request: uri, args, captures, flags and answers
    v,       \* r->variables
    e,       \* the engine
    at,      \* e->ip: the next code, 0 after the end
    outcome  \* the complex value evaluated last

-----------------------------------------------------------------------------
(* The compiler. *)
Digits == {"1", "2"}
NameChars == {"v", "w"} \union Digits   \* letters, digits and underscore
NUL == "NUL"

compile_vars == <<source, i, sc, flushes, lengths, values, variables, rc, spans>>

Copied(s) == [op |-> "copy", s |-> s, n |-> 0]
Var(index) == [op |-> "var", s |-> <<>>, n |-> index]
Capture(n) == [op |-> "cap", s |-> <<>>, n |-> n]
Args == [op |-> "args", s |-> <<>>, n |-> 0]
ExitCode == [op |-> "exit", s |-> <<>>, n |-> 0]
(* What the length code of a code counts is all that is kept of it. *)
LengthOf(c) == [op |-> c.op, n |-> IF c.op = "copy" THEN Len(c.s) ELSE c.n]

(* The first place from k on that is not part of a name; Len + 1 if none. *)
NameEnd(s, k) == CHOOSE j \in k .. Len(s) + 1 :
    /\ j = Len(s) + 1 \/ s[j] \notin NameChars
    /\ \A h \in k .. j - 1 : s[h] \in NameChars
(* The first place from k on where a text ends. *)
TextEnd(s, k, stops) == CHOOSE j \in k .. Len(s) + 1 :
    /\ j = Len(s) + 1 \/ s[j] \in stops
    /\ \A h \in k .. j - 1 : s[h] \notin stops

(* ngx_http_get_variable_index(): names compare without case, here they    *)
(* are lower case already.                                                 *)
NameString(s) == FoldLeft(LAMBDA a, c : a \o c, "", s)
ngx_http_get_variable_index(name) ==
    IF \E k \in DOMAIN variables : variables[k] = name
    THEN [index |-> (CHOOSE k \in DOMAIN variables : variables[k] = name /\ \A h \in 1 .. k - 1 : variables[h] # name) - 1,
          table |-> variables]
    ELSE [index |-> Len(variables), table |-> Append(variables, name)]

(* ngx_http_script_add_code(): the same code for both arrays. *)
AddCodes(code, from, to) ==
    /\ lengths' = Append(lengths, LengthOf(code))
    /\ values' = Append(values, code)
    /\ spans' = Append(spans, <<from, to>>)

(* The last text carries the NUL when one is asked for. *)
ngx_http_script_add_copy_code(s, last, base, from, to) ==
    LET zero == base.zero /\ last
    IN /\ AddCodes(Copied(IF zero THEN Append(s, NUL) ELSE s), from, to)
       /\ sc' = [base EXCEPT !.zero = @ /\ ~zero]

ngx_http_script_add_var_code(name, from, to) ==
    LET found == ngx_http_get_variable_index(name)
    IN /\ variables' = found.table
       /\ flushes' = Append(flushes, found.index)
       /\ AddCodes(Var(found.index), from, to)

ngx_http_script_add_capture_code(n, from, to) ==
    /\ AddCodes(Capture(2 * n), from, to)
    /\ sc' = [sc EXCEPT !.dup_capture = @ \/ n \in sc.captures_mask,
                        !.captures_mask = @ \union {n},
                        !.ncaptures = IF @ < n THEN n ELSE @]

ngx_http_script_add_args_code == AddCodes(Args, i + 1, i + 1)

-----------------------------------------------------------------------------
(* ngx_http_script_init_arrays() and what the caller asks for. *)
CompileInit ==
    /\ source \in Sources
    /\ i = 0
    /\ \E compile_args, zero \in BOOLEAN :
        sc = [compile_args |-> compile_args, zero |-> zero, args |-> FALSE, variables |-> 0, size |-> 0,
              captures_mask |-> {}, dup_capture |-> FALSE, ncaptures |-> 0, asked |-> zero]
    /\ flushes = <<>> /\ lengths = <<>> /\ values = <<>> /\ spans = <<>>
    /\ variables = Known
    /\ rc = "run"

Char(k) == IF k \in 1 .. Len(source) THEN source[k] ELSE "end"
More == rc = "run" /\ i < Len(source)

Fails == rc' = "error" /\ UNCHANGED <<source, i, sc, flushes, lengths, values, variables, spans>>

CompileCapture ==
    /\ More /\ Char(i + 1) = "$" /\ Char(i + 2) \in Digits
    /\ ngx_http_script_add_capture_code(IF Char(i + 2) = "1" THEN 1 ELSE 2, i + 1, i + 2)
    /\ i' = i + 2
    /\ UNCHANGED <<source, flushes, variables, rc>>

(* "$name", "${name}", a "$" with no name and a bracket that is not closed. *)
NameOf(from, to, bracket) == SubSeq(source, from, to - 1)
CompileVariable ==
    LET bracket == Char(i + 2) = "{"
        from == IF bracket THEN i + 3 ELSE i + 2
        to == NameEnd(source, from)
        name == NameOf(from, to, bracket)
        closed == bracket => Char(to) = "}"
        next == IF bracket THEN to ELSE to - 1
    IN /\ More /\ Char(i + 1) = "$" /\ Char(i + 2) \notin Digits
       /\ IF from > Len(source) \/ ~closed \/ to = from
          THEN Fails
          ELSE /\ sc' = [sc EXCEPT !.variables = @ + 1]
               /\ ngx_http_script_add_var_code(NameString(name), i + 1, next)
               /\ i' = next
               /\ UNCHANGED <<source, rc>>

CompileArgs ==
    /\ More /\ Char(i + 1) = "?" /\ sc.compile_args
    /\ sc' = [sc EXCEPT !.args = TRUE, !.compile_args = FALSE]
    /\ ngx_http_script_add_args_code
    /\ i' = i + 1
    /\ UNCHANGED <<source, flushes, variables, rc>>

(* A text runs up to the next "$", or to a "?" that starts the arguments. *)
TextStops == IF sc.compile_args THEN {"$", "?"} ELSE {"$"}
CompileText ==
    LET stop == TextEnd(source, i + 1, TextStops)
        text == SubSeq(source, i + 1, stop - 1)
        base == [sc EXCEPT !.size = @ + Len(text), !.args = @ \/ \E k \in i + 1 .. stop : Char(k) = "?"]
    IN /\ More /\ Char(i + 1) # "$" /\ ~(Char(i + 1) = "?" /\ sc.compile_args)
       /\ ngx_http_script_add_copy_code(text, stop = Len(source) + 1, base, i + 1, stop - 1)
       /\ i' = stop - 1
       /\ UNCHANGED <<source, flushes, variables, rc>>

(* ngx_http_script_done(): the NUL if no text carried it, and the ends. *)
ngx_http_script_done ==
    /\ rc = "run" /\ i = Len(source)
    /\ LET tail == IF sc.zero THEN <<Copied(<<NUL>>), ExitCode>> ELSE <<ExitCode>>
       IN /\ lengths' = lengths \o [k \in DOMAIN tail |-> LengthOf(tail[k])]
          /\ values' = values \o tail
    /\ rc' = "ok"
    /\ UNCHANGED <<source, i, sc, flushes, variables, spans>>

CompileNext == CompileCapture \/ CompileVariable \/ CompileArgs \/ CompileText \/ ngx_http_script_done
CompileSpec == CompileInit /\ [][CompileNext]_compile_vars

-----------------------------------------------------------------------------
(* The engine. *)
vars == <<prog, r, v, e, at, outcome>>

Variables == {"args", "uri", "x"}
NoCacheable == {"args", "uri"}   \* NGX_HTTP_VAR_NOCACHEABLE in ngx_http_core_variables[]
True == <<"1">>
Escapable == {" ", "&", "?"}
Escaped(c) == CASE c = " " -> "%20" [] c = "&" -> "%26" [] c = "?" -> "%3F" [] OTHER -> c
Width(s) == Len(s) + 2 * Cardinality({ k \in DOMAIN s : s[k] \in {"%20", "%26", "%3F"} })
ngx_escape_uri(s) == [k \in DOMAIN s |-> Escaped(s[k])]
(* NGX_UNESCAPE_REDIRECT decodes what is above "%" and stops after a "?". *)
ngx_unescape_uri(s) ==
    LET stop == IF Contains(s, "?") THEN CHOOSE k \in DOMAIN s : s[k] = "?" /\ \A h \in 1 .. k - 1 : s[h] # "?"
                ELSE Len(s)
    IN [k \in DOMAIN s |-> IF k <= stop /\ s[k] = "%26" THEN "&" ELSE s[k]]

-----------------------------------------------------------------------------
(* Variables.  [valid, data, no_cacheable]; not found is valid with no data *)
(* here, since every reader treats it as empty.                            *)

(* ngx_http_variable_request() for $args and $uri; a variable of set has   *)
(* nothing before it is set.                                               *)
GetHandler(rq, name) ==
    CASE name = "args" -> rq.args
      [] name = "uri" -> rq.uri
      [] OTHER -> <<>>
ngx_http_get_indexed_variable(rq, vs, name) ==
    IF vs[name].valid THEN vs
    ELSE [vs EXCEPT ![name] = [valid |-> TRUE, data |-> GetHandler(rq, name), no_cacheable |-> name \in NoCacheable]]
ngx_http_get_flushed_variable(rq, vs, name) ==
    ngx_http_get_indexed_variable(rq,
        IF vs[name].valid /\ vs[name].no_cacheable THEN [vs EXCEPT ![name].valid = FALSE] ELSE vs, name)
ngx_http_script_flush_complex_value(vs, template) ==
    [name \in Variables |->
        IF vs[name].no_cacheable /\ \E k \in DOMAIN template : template[k].op = "var" /\ template[k].v = name
        THEN [vs[name] EXCEPT !.valid = FALSE] ELSE vs[name]]

-----------------------------------------------------------------------------
(* The codes of a template t; is_args and quote are flags of the engine.   *)

(* A capture is escaped in arguments and in redirects of a quoted URI. *)
CaptureText(rq, n, is_args, quote) ==
    IF n >= Len(rq.captures) THEN <<>>
    ELSE IF (is_args \/ quote) /\ rq.quoted THEN ngx_escape_uri(rq.captures[n + 1]) ELSE rq.captures[n + 1]

Fetch(rq, vs, flushed, name) ==
    IF flushed THEN ngx_http_get_indexed_variable(rq, vs, name) ELSE ngx_http_get_flushed_variable(rq, vs, name)

(* The length codes: copy_len, copy_var_len, copy_capture_len, mark_args. *)
ngx_http_script_copy_capture_len_code(rq, n, is_args, quote) ==
    IF n >= Len(rq.captures) THEN 0
    ELSE LET s == rq.captures[n + 1]
             escapes == Cardinality({ k \in DOMAIN s : s[k] \in Escapable })
         IN Width(s) + (IF (is_args \/ quote) /\ rq.quoted THEN 2 * escapes ELSE 0)
LengthCode(rq, vs, t, k, is_args, quote) ==
    CASE t[k].op = "copy" -> Width(t[k].s)
      [] t[k].op = "args" -> 1
      [] t[k].op = "cap" -> ngx_http_script_copy_capture_len_code(rq, t[k].n, is_args, quote)
      [] t[k].op = "var" -> Width(vs[t[k].v].data)
(* The variables after the codes of a template have read theirs. *)
FetchAll(rq, vs, flushed, t) ==
    [name \in Variables |->
        IF \E k \in DOMAIN t : t[k].op = "var" /\ t[k].v = name THEN Fetch(rq, vs, flushed, name)[name] ELSE vs[name]]
Total(s) == FoldLeft(LAMBDA n, m : n + m, 0, s)
AfterMark(t, k) == \E h \in 1 .. k - 1 : t[h].op = "args"
CountPass(rq, vs, flushed, quote, t) ==
    LET fetched == FetchAll(rq, vs, flushed, t)
    IN [len |-> Total([k \in DOMAIN t |-> LengthCode(rq, fetched, t, k, AfterMark(t, k), quote)]), vars |-> fetched]

(* The value codes: copy, copy_var, copy_capture, start_args. *)
ValueCode(rq, vs, c, is_args, quote) ==
    CASE c.op = "copy" -> c.s
      [] c.op = "args" -> <<>>
      [] c.op = "cap" -> CaptureText(rq, c.n, is_args, quote)
      [] c.op = "var" -> vs[c.v].data

(* ngx_http_complex_value(): flush, count, write.                          *)
ngx_http_complex_value(t) ==
    LET flushed == ngx_http_script_flush_complex_value(v, t)
        count == CountPass(r, flushed, TRUE, FALSE, t)
        written == FetchAll(r, count.vars, TRUE, t)
    IN [room |-> count.len, vars |-> written,
        text |-> FlattenSeq([k \in DOMAIN t |-> ValueCode(r, written, t[k], AfterMark(t, k), FALSE)])]
(* ngx_http_test_predicates(): any value but "" and "0" declines. *)
ngx_http_test_predicates(text) == text # <<>> /\ text # <<"0">>

-----------------------------------------------------------------------------
(* ngx_http_regex_exec(): the captures, or no match.  The expressions are  *)
(* external: all captures the whole line, split the first character after  *)
(* "/" and the rest, b tests for /b, and named sets $x to what follows "/".*)
Captures(re, s) ==
    CASE re = "all" -> <<s, s>>
      [] re = "split" /\ Len(s) >= 2 -> <<s, <<s[2]>>, SubSeq(s, 3, Len(s))>>
      [] re = "named" /\ Len(s) >= 1 -> <<s, SubSeq(s, 2, Len(s))>>
      [] OTHER -> <<>>
Matches(re, s) ==
    CASE re = "all" -> TRUE
      [] re = "split" -> Len(s) >= 2 /\ s[1] = "/"
      [] re = "named" -> Len(s) >= 1 /\ s[1] = "/"
      [] re = "b" -> Len(s) >= 2 /\ s[2] = "b"
ngx_http_regex_exec(vs, re, s) ==
    IF re = "named" THEN [vs EXCEPT !["x"] = [valid |-> TRUE, data |-> Captures(re, s)[2], no_cacheable |-> FALSE]]
    ELSE vs

Code == prog[at]
Fetched(op) == at # 0 /\ at <= Len(prog) /\ Code.op = op
(* The value an item of the stack stands for: the buffer or a value. *)
Pop == Front(e.sp)
Top == IF Last(e.sp).buffer THEN e.buf ELSE Last(e.sp).data
Item(s) == [buffer |-> FALSE, data |-> s]
Bool(b) == Item(IF b THEN True ELSE <<>>)

(* copy, copy_var, copy_capture, start_args as steps of a program. *)
WriteCode ==
    /\ at # 0 /\ at <= Len(prog) /\ Code.op \in {"copy", "var", "cap", "args"}
    /\ v' = FetchAll(r, v, FALSE, <<Code>>)
    /\ e' = [e EXCEPT !.buf = @ \o ValueCode(r, v', Code, e.is_args, e.quote),
                      !.is_args = @ \/ Code.op = "args",
                      !.args = IF Code.op = "args" THEN Len(e.buf) ELSE @]
    /\ at' = at + 1
    /\ UNCHANGED <<prog, r, outcome>>

(* The room of a rewrite: by a pass over its lengths, or by its fixed size *)
(* and all the captures when it has no variable and no capture twice.      *)
RewriteRoom(code, rq, vs) ==
    LET escapes == Cardinality({ k \in DOMAIN rq.uri : rq.uri[k] \in Escapable })
        fixed == code.size + (IF rq.captures # <<>> /\ rq.quoted THEN 2 * escapes ELSE 0)
                 + Width(FlattenSeq(IF rq.captures = <<>> THEN <<>> ELSE Tail(rq.captures)))
    IN (IF code.lengths = <<>> THEN fixed ELSE CountPass(rq, vs, FALSE, code.redirect, code.lengths).len)
        + (IF code.add_args /\ rq.args # <<>> THEN Width(rq.args) + 1 ELSE 0)

Exit(status) ==
    /\ at' = 0
    /\ e' = [e EXCEPT !.status = status]
RegexStartCode ==
    /\ Fetched("regex")
    /\ LET line == IF Code.uri THEN r.uri ELSE Top
           stack == IF Code.uri THEN e.sp ELSE Pop
           match == Matches(Code.re, line)
           rq == [r EXCEPT !.captures = IF match THEN Captures(Code.re, line) ELSE <<>>]
           vs == IF match THEN ngx_http_regex_exec(v, Code.re, line) ELSE v
       IN CASE Code.test ->
                 /\ e' = [e EXCEPT !.sp = Append(stack, Bool(match # Code.negative_test))]
                 /\ at' = at + 1 /\ r' = rq /\ v' = vs
            [] ~Code.test /\ ~match ->
                 /\ at' = at + Code.next
                 /\ e' = [e EXCEPT !.sp = stack] /\ r' = rq /\ v' = vs
            [] ~Code.test /\ match /\ Code.status # 0 /\ ~Code.redirect ->
                 Exit(Code.status) /\ r' = rq /\ v' = vs
            [] OTHER ->
                 /\ e' = [e EXCEPT !.sp = stack, !.buf = <<>>, !.room = RewriteRoom(Code, rq, vs), !.quote = Code.redirect,
                                   !.status = IF Code.status # 0 THEN Code.status ELSE @,
                                   !.leftover = e.is_args]
                 /\ r' = [rq EXCEPT !.internal = @ \/ Code.uri, !.valid_unparsed_uri = @ /\ ~Code.uri,
                                    !.uri_changed = IF Code.uri THEN ~Code.break_cycle ELSE @]
                 /\ v' = vs /\ at' = at + 1
    /\ UNCHANGED <<prog, outcome>>

(* Mutant: the old arguments are joined before the new ones are cut off. *)
RegexEnd_Late(code) ==
    [uri |-> SubSeq(e.buf, 1, IF e.args >= 0 THEN e.args ELSE Len(e.buf)),
     args |-> IF e.args >= 0 THEN SubSeq(e.buf, e.args + 1, Len(e.buf))
              ELSE IF code.add_args THEN r.args ELSE <<>>]
(* The new URI and arguments of a rewrite. *)
RegexEnd(code) ==
    LET written == SubSeq(e.buf, e.args + 1, Len(e.buf))
        old == IF code.add_args /\ r.args # <<>> THEN <<"&">> \o r.args ELSE <<>>
    IN IF e.args >= 0
       THEN [uri |-> SubSeq(e.buf, 1, e.args), args |-> written \o old]
       ELSE [uri |-> e.buf, args |-> IF code.add_args THEN r.args ELSE <<>>]
RegexEndCode ==
    /\ Fetched("regex_end")
    /\ IF Code.redirect
       THEN /\ r' = [r EXCEPT !.location = ngx_unescape_uri(e.buf)
                        \o (IF Code.add_args /\ r.args # <<>> THEN <<IF Code.args THEN "&" ELSE "?">> \o r.args ELSE <<>>)]
            /\ e' = [e EXCEPT !.quote = FALSE]
            /\ at' = at + 1
       ELSE LET new == RegexEnd(Code)
            IN /\ r' = [r EXCEPT !.uri = new.uri, !.args = new.args]
               /\ e' = [e EXCEPT !.quote = FALSE, !.args = -1,
                                 !.status = IF new.uri = <<>> THEN 500 ELSE @]
               /\ at' = IF new.uri = <<>> THEN 0 ELSE at + 1
    /\ UNCHANGED <<prog, v, outcome>>

(* The value of set is counted here and written by the codes that follow;  *)
(* the stack points to its buffer.                                         *)
ComplexValueCode ==
    /\ Fetched("complex")
    /\ LET count == CountPass(r, v, FALSE, e.quote, Code.lengths)
       IN /\ e' = [e EXCEPT !.buf = <<>>, !.room = count.len, !.sp = Append(@, [buffer |-> TRUE, data |-> <<>>]),
                            !.leftover = e.is_args]
          /\ v' = count.vars
    /\ at' = at + 1
    /\ UNCHANGED <<prog, r, outcome>>

ValueCodeStep ==
    /\ Fetched("value")
    /\ e' = [e EXCEPT !.sp = Append(@, Item(Code.s))]
    /\ at' = at + 1
    /\ UNCHANGED <<prog, r, v, outcome>>

SetVarCode ==
    /\ Fetched("set")
    /\ v' = [v EXCEPT ![Code.v] = [valid |-> TRUE, data |-> Top, no_cacheable |-> FALSE]]
    /\ e' = [e EXCEPT !.sp = Pop]
    /\ at' = at + 1
    /\ UNCHANGED <<prog, r, outcome>>

(* $args has a handler: ngx_http_variable_request_set(). *)
VarSetHandlerCode ==
    /\ Fetched("set_handler")
    /\ r' = [r EXCEPT !.args = Top]
    /\ e' = [e EXCEPT !.sp = Pop]
    /\ at' = at + 1
    /\ UNCHANGED <<prog, v, outcome>>

VarCode ==
    /\ Fetched("getvar")
    /\ LET vs == ngx_http_get_flushed_variable(r, v, Code.v)
       IN /\ v' = vs
          /\ e' = [e EXCEPT !.sp = Append(@, Item(vs[Code.v].data))]
    /\ at' = at + 1
    /\ UNCHANGED <<prog, r, outcome>>

(* ngx_http_script_equal_code() and ngx_http_script_not_equal_code(). *)
CompareCode ==
    /\ Fetched("equal")
    /\ LET res == Pop[Len(Pop)].data
       IN e' = [e EXCEPT !.sp = Append(Front(Pop), Bool((Top = res) # Code.negative))]
    /\ at' = at + 1
    /\ UNCHANGED <<prog, r, v, outcome>>

FileTest(op, file) ==
    CASE op = "plain" -> file \in {"file", "exec"}
      [] op = "dir" -> file = "dir"
      [] op = "exists" -> file # "none"
      [] op = "exec" -> file = "exec"
FileCode ==
    /\ Fetched("file")
    /\ e' = [e EXCEPT !.sp = Append(Pop, Bool(FileTest(Code.test, r.file) # Code.negative))]
    /\ at' = at + 1
    /\ UNCHANGED <<prog, r, v, outcome>>

IfCode ==
    /\ Fetched("cond")
    /\ LET yes == Top # <<>> /\ Top # <<"0">>
       IN /\ e' = [e EXCEPT !.sp = Pop]
          /\ r' = [r EXCEPT !.loc = IF yes THEN "if" ELSE @]
          /\ at' = at + (IF yes THEN 1 ELSE Code.next)
    /\ UNCHANGED <<prog, v, outcome>>

ReturnCode ==
    /\ Fetched("return")
    /\ Exit(Code.status)
    /\ UNCHANGED <<prog, r, v, outcome>>

BreakCode ==
    /\ Fetched("break")
    /\ r' = [r EXCEPT !.uri_changed = FALSE]
    /\ Exit(e.status)
    /\ UNCHANGED <<prog, v, outcome>>

(* The end of the program. *)
EndCode ==
    /\ at = Len(prog) + 1
    /\ Exit(e.status)
    /\ UNCHANGED <<prog, r, v, outcome>>

(* After the program another directive evaluates a complex value. *)
Evaluate(k) ==
    /\ at = 0
    /\ outcome.of # k
    /\ LET res == ngx_http_complex_value(Templates[k])
       IN /\ outcome' = [of |-> k, room |-> res.room, text |-> res.text, declined |-> ngx_http_test_predicates(res.text)]
          /\ v' = res.vars
    /\ UNCHANGED <<prog, r, e, at>>

Init ==
    /\ prog \in Programs
    /\ \E q \in Requests :
        r = [uri |-> q.uri, args |-> q.args, file |-> q.file,
             quoted |-> \E k \in DOMAIN q.uri : q.uri[k] \in Escapable,
             captures |-> <<>>, internal |-> FALSE, valid_unparsed_uri |-> TRUE, uri_changed |-> FALSE,
             location |-> <<>>, loc |-> "main"]
    /\ v = [name \in Variables |-> [valid |-> FALSE, data |-> <<>>, no_cacheable |-> FALSE]]
    /\ e = [sp |-> <<>>, buf |-> <<>>, room |-> 0, args |-> -1, quote |-> FALSE, is_args |-> FALSE, status |-> 0,
            leftover |-> FALSE]
    /\ at = 1
    /\ outcome = [of |-> 0, room |-> 0, text |-> <<>>, declined |-> FALSE]

Next ==
    \/ WriteCode \/ RegexStartCode \/ RegexEndCode \/ ComplexValueCode \/ ValueCodeStep \/ SetVarCode
    \/ VarSetHandlerCode \/ VarCode \/ CompareCode \/ FileCode \/ IfCode \/ ReturnCode \/ BreakCode \/ EndCode
    \/ \E k \in DOMAIN Templates : Evaluate(k)
Spec == Init /\ [][Next]_vars

-----------------------------------------------------------------------------
TypeOK ==
    /\ at \in 0 .. Len(prog) + 1
    /\ e.args \in -1 .. Len(e.buf)
    /\ e.status \in {0, 302, 403, 500}

(* What the codes of a rewrite or of a set write never exceeds what was    *)
(* counted for it, the old arguments that are still to be appended         *)
(* included.  Not claimed when an earlier rewrite of the same program has  *)
(* left is_args set: the counting pass starts with it clear.               *)
WrittenFits ==
    ~e.leftover =>
        /\ Width(e.buf) <= e.room
        /\ Fetched("regex_end") /\ Code.add_args /\ r.args # <<>> /\ (Code.redirect \/ e.args >= 0) =>
              Width(e.buf) + 1 + Width(r.args) <= e.room

(* A variable that is set has exactly the length that was counted: set     *)
(* takes the counted length, whatever was written.                         *)
SetExact ==
    Fetched("set") /\ Last(e.sp).buffer /\ ~e.leftover => Width(e.buf) = e.room

(* What a template stands for, piece by piece: variables at their current  *)
(* values, captures escaped after the "?" and in redirects.                *)
Piece(t, k, quote) ==
    CASE t[k].op = "copy" -> t[k].s
      [] t[k].op = "args" -> <<>>
      [] t[k].op = "var" -> IF t[k].v \in NoCacheable THEN GetHandler(r, t[k].v) ELSE v[t[k].v].data
      [] t[k].op = "cap" ->
           IF t[k].n >= Len(r.captures) THEN <<>>
           ELSE LET escape == r.quoted /\ (quote \/ \E h \in 1 .. k : t[h].op = "args")
                IN [h \in DOMAIN r.captures[t[k].n + 1] |->
                        IF escape THEN Escaped(r.captures[t[k].n + 1][h]) ELSE r.captures[t[k].n + 1][h]]
Meaning(t, from, to, quote) == FlattenSeq([k \in 1 .. to - from + 1 |-> Piece(t, from + k - 1, quote)])

(* A rewrite gives the request the URI before the "?" of its template and  *)
(* the arguments after it, with the old arguments appended when asked for. *)
Template == LET start == CHOOSE k \in 1 .. at - 1 : prog[k].op = "regex" /\ \A h \in k + 1 .. at - 1 : prog[h].op # "regex"
            IN SubSeq(prog, start + 1, at - 1)
RewriteMeans ==
    Fetched("regex_end") /\ ~Code.redirect /\ ~e.leftover =>
        LET t == Template
            marks == { k \in DOMAIN t : t[k].op = "args" }
            mark == IF marks = {} THEN Len(t) + 1 ELSE CHOOSE k \in marks : TRUE
            new == Meaning(t, mark + 1, Len(t), FALSE)
        IN /\ r'.uri = Meaning(t, 1, mark - 1, FALSE)
           /\ r'.args = CASE marks = {} -> IF Code.add_args THEN r.args ELSE <<>>
                          [] OTHER -> IF Code.add_args /\ r.args # <<>> THEN new \o <<"&">> \o r.args ELSE new

(* A complex value is what its template says at the time it is evaluated,  *)
(* in the room that was counted for it, after any rewrite or set before.   *)
FreshValue ==
    \A k \in DOMAIN Templates : outcome'.of = k /\ outcome' # outcome =>
        /\ outcome'.text = Meaning(Templates[k], 1, Len(Templates[k]), FALSE)
        /\ outcome'.room = Width(outcome'.text)
ScriptMeans == [][RewriteMeans /\ FreshValue]_vars

(* The stack never underflows, and a program that ends leaves it empty.    *)
Needs == [equal |-> 2, set |-> 1, set_handler |-> 1, file |-> 1, cond |-> 1]
StackBalanced ==
    /\ at \in DOMAIN prog /\ Code.op \in DOMAIN Needs => Len(e.sp) >= Needs[Code.op]
    /\ at = Len(prog) + 1 => e.sp = <<>>

-----------------------------------------------------------------------------
(* What the compiler promises. *)
CompileTypeOK ==
    /\ i \in 0 .. Len(source)
    /\ rc \in {"run", "ok", "error"}
    /\ \A k \in DOMAIN flushes : flushes[k] \in 0 .. Len(variables) - 1

(* The codes tile the source: each character is compiled by exactly one    *)
(* code, no text holds a "$", and a variable's index is that of its whole  *)
(* name, brackets left out.                                                *)
Spelled(k) == SelectSeq(SubSeq(source, spans[k][1], spans[k][2]), LAMBDA c : c \notin {"$", "{", "}"})
EachCharOnce ==
    /\ \A k \in DOMAIN spans :
        /\ spans[k][1] = (IF k = 1 THEN 1 ELSE spans[k - 1][2] + 1)
        /\ spans[k][2] >= spans[k][1]
        /\ values[k].op = "copy" => SelectSeq(values[k].s, LAMBDA c : c # NUL)
                                     = SubSeq(source, spans[k][1], spans[k][2])
                                   /\ ~Contains(values[k].s, "$")
        /\ values[k].op = "var" => /\ variables[values[k].n + 1] = NameString(Spelled(k))
                                   /\ spans[k][2] = Len(source) \/ source[spans[k][2]] = "}"
                                      \/ source[spans[k][2] + 1] \notin NameChars
    /\ rc = "ok" => IF spans = <<>> THEN source = <<>> ELSE spans[Len(spans)][2] = Len(source)

(* Only a "$" with no name and a bracket that is not closed are errors.    *)
BadName(k) ==
    /\ source[k] = "$"
    /\ Char(k + 1) \notin NameChars
    /\ Char(k + 1) = "{" => ~\E to \in k + 3 .. Len(source) :
                            Char(to) = "}" /\ \A h \in k + 2 .. to - 1 : Char(h) \in NameChars
ErrorsAreReal == rc # "run" => (rc = "error" <=> \E k \in DOMAIN source : BadName(k))

(* A NUL asked for is written once, as the last byte of the value, whether *)
(* a text or a variable comes last, and never when not asked for.          *)
NulOnce ==
    rc = "ok" =>
        LET texts == { k \in DOMAIN values : values[k].op = "copy" /\ Contains(values[k].s, NUL) }
        IN IF ~sc.asked THEN texts = {}
           ELSE /\ texts = {Len(values) - 1}
                /\ Cardinality({ h \in DOMAIN values[Len(values) - 1].s : values[Len(values) - 1].s[h] = NUL }) = 1

(* The arguments start once, at the first "?" when the caller asks for it, *)
(* and nothing before them holds a "?".                                    *)
ArgsStartOnce ==
    \A k \in DOMAIN values : values[k].op = "args" =>
        /\ sc.args
        /\ \A h \in 1 .. spans[k][1] - 1 : source[h] # "?"

(* One name has one index, however often and in whatever way it is spelled.*)
OneIndexPerName == \A h, k \in DOMAIN variables : variables[h] = variables[k] => h = k
=============================================================================
