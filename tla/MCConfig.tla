------------------------------ MODULE MCConfig ------------------------------
(*****************************************************************************)
(* A request in nginx: how its lines are read, and how the configuration is  *)
(* compiled and chooses for it.                                              *)
(*****************************************************************************)
EXTENDS Integers, Sequences, SequencesExt

VARIABLES part,   \* the component that runs
          st, r, res, p, status, headers, raw, source, i, sc, flushes, lengths, values, variables, rc, spans,
          prog, v, e, at, outcome, conf, phase, server, found, listened, directives, ports, sockets, out, blk


(* The characters of URIs, as classes. *)
AllUriChars == {"%2F", "%2E", "%25", "%00", "%", "a", "/", ".", "?", "#", "+", " ", "NUL", "CR", "LF"}
DotChars == {"%2F", "a", "/", ".", " ", "CR", "LF"}

(* Every script text over the characters the compiler tells apart, up to a length. *)
ScriptTexts == UNION {[1 .. k -> {"$", "{", "}", "?", "1", "v"}] : k \in 0 .. 4}

(* Programs as the directives of a location lay them out. *)
Text(s) == [op |-> "copy", s |-> s]
Var(name) == [op |-> "var", v |-> name]
Cap(n) == [op |-> "cap", n |-> n]
Question == [op |-> "args"]
SizeOf(tokens) == Len(FlattenSeq([k \in DOMAIN tokens |-> IF tokens[k].op = "copy" THEN tokens[k].s ELSE <<>>]))

Regex(re, tokens, counted, redirect, add_args, break_cycle, code) ==
    <<[op |-> "regex", re |-> re, uri |-> TRUE, test |-> FALSE, negative_test |-> FALSE, redirect |-> redirect,
       status |-> code, break_cycle |-> break_cycle, add_args |-> add_args,
       lengths |-> IF counted THEN tokens ELSE <<>>, size |-> SizeOf(tokens), next |-> Len(tokens) + 2]>>
    \o tokens
    \o <<[op |-> "regex_end", redirect |-> redirect, add_args |-> add_args, args |-> FALSE]>>
Test(re, negative) ==
    <<[op |-> "regex", re |-> re, uri |-> FALSE, test |-> TRUE, negative_test |-> negative, redirect |-> FALSE,
       status |-> 0, break_cycle |-> FALSE, add_args |-> FALSE, lengths |-> <<>>, size |-> 0, next |-> 1]>>
Set(name, tokens) == <<[op |-> "complex", lengths |-> tokens]>> \o tokens
                     \o <<IF name = "args" THEN [op |-> "set_handler", v |-> name] ELSE [op |-> "set", v |-> name]>>
If(cond, block) == cond \o <<[op |-> "cond", next |-> Len(block) + 1]>> \o block
Get(name) == <<[op |-> "getvar", v |-> name]>>
Value(s) == <<[op |-> "value", s |-> s]>>
Equal(negative) == <<[op |-> "equal", negative |-> negative]>>
File(test, negative) == <<[op |-> "file", test |-> test, negative |-> negative]>>
Return(code) == <<[op |-> "return", status |-> code]>>
Break == <<[op |-> "break"]>>

ScriptPrograms ==
    { Regex("split", <<Text(<<"/", "b">>), Question, Text(<<"c">>), Cap(1)>>, FALSE, FALSE, TRUE, FALSE, 0)
        \o Set("x", <<Var("args"), Cap(2)>>)
        \o Regex("split", <<Text(<<"/">>), Cap(2)>>, FALSE, FALSE, FALSE, TRUE, 0) \o Break,
      Set("x", <<Var("args"), Text(<<"-">>), Var("uri")>>)
        \o Regex("all", <<Cap(1), Question, Var("x")>>, TRUE, FALSE, TRUE, FALSE, 0)
        \o If(Get("args") \o Value(<<>>) \o Equal(TRUE), Set("args", <<Var("uri")>>) \o Set("x", <<Var("args")>>)),
      If(Get("uri") \o Test("b", FALSE), Regex("split", <<Cap(2)>>, FALSE, FALSE, FALSE, FALSE, 0))
        \o If(Get("uri") \o File("exists", TRUE), Return(403))
        \o If(Get("uri") \o File("plain", FALSE) , Set("x", <<Cap(1), Cap(1)>>))
        \o If(Get("uri") \o File("dir", FALSE), Break)
        \o If(Get("uri") \o File("exec", TRUE), Set("args", <<>>)),
      Regex("named", <<Text(<<"/">>), Var("x"), Cap(1)>>, TRUE, FALSE, TRUE, TRUE, 0)
        \o Set("x", <<Cap(1), Text(<<"0">>)>>)
        \o If(Get("x") \o Value(<<"0">>) \o Equal(FALSE), Return(403)),
      Regex("split", <<Text(<<"/">>), Cap(2), Text(<<"?">>), Cap(1)>>, FALSE, TRUE, FALSE, FALSE, 302),
      Regex("split", <<Text(<<"/">>), Cap(2), Cap(2)>>, TRUE, TRUE, TRUE, FALSE, 302) \o Set("x", <<Cap(2)>>),
      Regex("b", <<Text(<<"/">>)>>, FALSE, FALSE, TRUE, FALSE, 403)
        \o If(Get("uri") \o Test("split", TRUE), Value(<<"0">>) \o <<[op |-> "set", v |-> "x"]>>) }

ScriptRequests ==
    { [uri |-> u, args |-> a, file |-> f] :
        u \in { <<"/">>, <<"/", "b">>, <<"/", "b", "a">>, <<"/", " ", "a">>, <<"/", "a", " ", "&">> },
        a \in { <<>>, <<"a">>, <<"a", "%20">> },
        f \in { "none", "file", "dir", "exec" } }

ScriptTemplates == << <<Var("args"), Text(<<"-">>), Var("x")>>, <<Var("x")>>, <<Var("uri"), Cap(1)>> >>

(* Locations over the characters "/", "a" and "b". *)
Loc(kind, name, redirect) == [kind |-> kind, name |-> name, auto_redirect |-> redirect]
LocationUris == { <<"/">>, <<"/", "a">>, <<"/", "b">>, <<"/", "a", "/">>, <<"/", "a", "b">>, <<"/", "b", "a">>,
            <<"/", "a", "/", "b">>, <<"/", "a", "b", "a">> }
PrefixLocations ==
    { Loc("prefix", <<"/">>, FALSE), Loc("exact", <<"/">>, FALSE), Loc("prefix", <<"/", "a">>, FALSE),
      Loc("exact", <<"/", "a">>, FALSE), Loc("prefix", <<"/", "a", "/">>, TRUE), Loc("noregex", <<"/", "a", "b">>, FALSE),
      Loc("prefix", <<"/", "b">>, FALSE), Loc("noregex", <<"/", "a">>, FALSE), Loc("exact", <<"/", "a", "b">>, FALSE) }
MixedLocations ==
    { Loc("prefix", <<"/">>, FALSE), Loc("exact", <<"/", "a">>, FALSE), Loc("noregex", <<"/", "a">>, FALSE),
      Loc("prefix", <<"/", "a", "b">>, FALSE), Loc("regex", <<"b">>, FALSE), Loc("regex", <<"a", "b">>, FALSE),
      Loc("named", <<"a">>, FALSE), Loc("noname", <<>>, FALSE) }

KeyLengths == [k \in {"a", "status", "version", "server", "date", "content-type", "content-length", "last-modified", "location"} |->
                 IF k = "a" THEN 1 ELSE 2]

-----------------------------------------------------------------------------
Uri == INSTANCE NgxParseUri WITH
    MaxUri <- 4, UriChars <- AllUriChars, MergeSlashes <- TRUE
Dots == INSTANCE NgxParseUri WITH
    MaxUri <- 6, UriChars <- DotChars, MergeSlashes <- TRUE
Slashes == INSTANCE NgxParseUri WITH
    MaxUri <- 6, UriChars <- DotChars, MergeSlashes <- FALSE
HeaderNames == INSTANCE NgxParseLines WITH
    LcLen <- 2, MaxChars <- 5, MaxStatus <- 13, Upstream <- FALSE, Underscores <- TRUE, IgnoreInvalid <- FALSE
StrictNames == INSTANCE NgxParseLines WITH
    LcLen <- 4, MaxChars <- 5, MaxStatus <- 13, Upstream <- FALSE, Underscores <- FALSE, IgnoreInvalid <- TRUE
ReplyLines == INSTANCE NgxParseLines WITH
    LcLen <- 4, MaxChars <- 4, MaxStatus <- 15, Upstream <- TRUE, Underscores <- FALSE, IgnoreInvalid <- TRUE
Scripts == INSTANCE NgxScript WITH
    Sources <- ScriptTexts, Known <- <<"v">>, Programs <- ScriptPrograms, Requests <- ScriptRequests, Templates <- ScriptTemplates
PrefixSearch == INSTANCE NgxLocations WITH
    Candidates <- PrefixLocations, Uris <- LocationUris, MaxLocations <- 3, Order <- <<"/", "a", "b">>
MixedSearch == INSTANCE NgxLocations WITH
    Candidates <- MixedLocations, Uris <- LocationUris, MaxLocations <- 3, Order <- <<"/", "a", "b">>
Listens == INSTANCE NgxListen WITH
    Families <- {"inet"}, Ports <- {80}, Ips <- {"i1", "i2"}, MaxListens <- 3, MaxServers <- 2,
    Default80 <- <<"inet", 80>>
PortsOf == INSTANCE NgxListen WITH
    Families <- {"inet", "inet6"}, Ports <- {80, 81}, Ips <- {"i1"}, MaxListens <- 2, MaxServers <- 2,
    Default80 <- <<"inet", 80>>
HeaderBlock == INSTANCE NgxSpdyHeaders WITH
    Keys <- {"a", "status"}, MaxList <- 2, LenSize <- 1, KeyLen <- KeyLengths, TimeLen <- 3, OffLen <- 3,
    PortLen <- 2

(* the variables of the components that do not run are idle; a component that has run keeps its own *)
IdleNgxParseUri == p = "idle" /\ status = "idle" /\ headers = "idle" /\ raw = "idle" /\ source = "idle" /\ i = "idle"
    /\ sc = "idle" /\ flushes = "idle" /\ lengths = "idle" /\ values = "idle" /\ variables = "idle" /\ rc = "idle"
    /\ spans = "idle" /\ prog = "idle" /\ v = "idle" /\ e = "idle" /\ at = "idle" /\ outcome = "idle"
    /\ conf = "idle" /\ phase = "idle" /\ server = "idle" /\ found = "idle" /\ listened = "idle"
    /\ directives = "idle" /\ ports = "idle" /\ sockets = "idle" /\ out = "idle" /\ blk = "idle"
KeepNgxParseUri == UNCHANGED <<part, p, status, headers, raw, source, i, sc, flushes, lengths, values, variables, rc, spans, prog, v, e,
    at, outcome, conf, phase, server, found, listened, directives, ports, sockets, out, blk>>
IdleNgxParseLines == r = "idle" /\ source = "idle" /\ i = "idle" /\ sc = "idle" /\ flushes = "idle" /\ lengths = "idle"
    /\ values = "idle" /\ variables = "idle" /\ rc = "idle" /\ spans = "idle" /\ prog = "idle" /\ v = "idle"
    /\ e = "idle" /\ at = "idle" /\ outcome = "idle" /\ conf = "idle" /\ phase = "idle" /\ server = "idle"
    /\ found = "idle" /\ listened = "idle" /\ directives = "idle" /\ ports = "idle" /\ sockets = "idle"
    /\ out = "idle" /\ blk = "idle"
KeepNgxParseLines == UNCHANGED <<part, r, source, i, sc, flushes, lengths, values, variables, rc, spans, prog, v, e, at, outcome, conf,
    phase, server, found, listened, directives, ports, sockets, out, blk>>
IdleCompiler == st = "idle" /\ r = "idle" /\ res = "idle" /\ p = "idle" /\ status = "idle" /\ headers = "idle" /\ raw = "idle"
    /\ prog = "idle" /\ v = "idle" /\ e = "idle" /\ at = "idle" /\ outcome = "idle" /\ conf = "idle"
    /\ phase = "idle" /\ server = "idle" /\ found = "idle" /\ listened = "idle" /\ directives = "idle"
    /\ ports = "idle" /\ sockets = "idle" /\ out = "idle" /\ blk = "idle"
KeepCompiler == UNCHANGED <<part, st, r, res, p, status, headers, raw, prog, v, e, at, outcome, conf, phase, server, found, listened,
    directives, ports, sockets, out, blk>>
IdleEngine == st = "idle" /\ res = "idle" /\ p = "idle" /\ status = "idle" /\ headers = "idle" /\ raw = "idle"
    /\ source = "idle" /\ i = "idle" /\ sc = "idle" /\ flushes = "idle" /\ lengths = "idle" /\ values = "idle"
    /\ variables = "idle" /\ rc = "idle" /\ spans = "idle" /\ conf = "idle" /\ phase = "idle" /\ server = "idle"
    /\ found = "idle" /\ listened = "idle" /\ directives = "idle" /\ ports = "idle" /\ sockets = "idle"
    /\ out = "idle" /\ blk = "idle"
KeepEngine == UNCHANGED <<part, st, res, p, status, headers, raw, source, i, sc, flushes, lengths, values, variables, rc, spans, conf,
    phase, server, found, listened, directives, ports, sockets, out, blk>>
IdleNgxLocations == st = "idle" /\ r = "idle" /\ res = "idle" /\ p = "idle" /\ status = "idle" /\ headers = "idle" /\ raw = "idle"
    /\ source = "idle" /\ i = "idle" /\ sc = "idle" /\ flushes = "idle" /\ lengths = "idle" /\ values = "idle"
    /\ variables = "idle" /\ rc = "idle" /\ spans = "idle" /\ prog = "idle" /\ v = "idle" /\ e = "idle"
    /\ at = "idle" /\ outcome = "idle" /\ listened = "idle" /\ directives = "idle" /\ ports = "idle"
    /\ sockets = "idle" /\ out = "idle" /\ blk = "idle"
KeepNgxLocations == UNCHANGED <<part, st, r, res, p, status, headers, raw, source, i, sc, flushes, lengths, values, variables, rc, spans,
    prog, v, e, at, outcome, listened, directives, ports, sockets, out, blk>>
IdleNgxListen == st = "idle" /\ r = "idle" /\ res = "idle" /\ p = "idle" /\ status = "idle" /\ headers = "idle" /\ raw = "idle"
    /\ source = "idle" /\ i = "idle" /\ sc = "idle" /\ flushes = "idle" /\ lengths = "idle" /\ values = "idle"
    /\ variables = "idle" /\ rc = "idle" /\ spans = "idle" /\ prog = "idle" /\ v = "idle" /\ e = "idle"
    /\ at = "idle" /\ outcome = "idle" /\ conf = "idle" /\ found = "idle" /\ out = "idle" /\ blk = "idle"
KeepNgxListen == UNCHANGED <<part, st, r, res, p, status, headers, raw, source, i, sc, flushes, lengths, values, variables, rc, spans,
    prog, v, e, at, outcome, conf, found, out, blk>>
IdleNgxSpdyHeaders == st = "idle" /\ r = "idle" /\ res = "idle" /\ p = "idle" /\ status = "idle" /\ headers = "idle" /\ raw = "idle"
    /\ source = "idle" /\ i = "idle" /\ sc = "idle" /\ flushes = "idle" /\ lengths = "idle" /\ values = "idle"
    /\ variables = "idle" /\ rc = "idle" /\ spans = "idle" /\ prog = "idle" /\ v = "idle" /\ e = "idle"
    /\ at = "idle" /\ outcome = "idle" /\ conf = "idle" /\ phase = "idle" /\ server = "idle" /\ found = "idle"
    /\ listened = "idle" /\ directives = "idle" /\ ports = "idle" /\ sockets = "idle"
KeepNgxSpdyHeaders == UNCHANGED <<part, st, r, res, p, status, headers, raw, source, i, sc, flushes, lengths, values, variables, rc, spans,
    prog, v, e, at, outcome, conf, phase, server, found, listened, directives, ports, sockets>>

MCInit ==
    \/ part = "uri" /\ Uri!Init /\ IdleNgxParseUri
    \/ part = "dots" /\ Dots!Init /\ IdleNgxParseUri
    \/ part = "slashes" /\ Slashes!Init /\ IdleNgxParseUri
    \/ part = "names" /\ HeaderNames!Init /\ IdleNgxParseLines
    \/ part = "strict" /\ StrictNames!Init /\ IdleNgxParseLines
    \/ part = "reply" /\ ReplyLines!Init /\ IdleNgxParseLines
    \/ part = "compile" /\ Scripts!CompileInit /\ IdleCompiler
    \/ part = "script" /\ Scripts!Init /\ IdleEngine
    \/ part = "prefixes" /\ PrefixSearch!Init /\ IdleNgxLocations
    \/ part = "mixed" /\ MixedSearch!Init /\ IdleNgxLocations
    \/ part = "listen" /\ Listens!Init /\ IdleNgxListen
    \/ part = "ports" /\ PortsOf!Init /\ IdleNgxListen
    \/ part = "block" /\ HeaderBlock!Init /\ IdleNgxSpdyHeaders
MCNext ==
    \/ part = "uri" /\ Uri!Next /\ KeepNgxParseUri
    \/ part = "dots" /\ Dots!Next /\ KeepNgxParseUri
    \/ part = "slashes" /\ Slashes!Next /\ KeepNgxParseUri
    \/ part = "names" /\ HeaderNames!Next /\ KeepNgxParseLines
    \/ part = "strict" /\ StrictNames!Next /\ KeepNgxParseLines
    \/ part = "reply" /\ ReplyLines!Next /\ KeepNgxParseLines
    \/ part = "compile" /\ Scripts!CompileNext /\ KeepCompiler
    \/ part = "script" /\ Scripts!Next /\ KeepEngine
    \/ part = "prefixes" /\ PrefixSearch!Next /\ KeepNgxLocations
    \/ part = "mixed" /\ MixedSearch!Next /\ KeepNgxLocations
    \/ part = "listen" /\ Listens!Next /\ KeepNgxListen
    \/ part = "ports" /\ PortsOf!Next /\ KeepNgxListen
    \/ part = "block" /\ HeaderBlock!Next /\ KeepNgxSpdyHeaders
mcvars == <<part, st, r, res, p, status, headers, raw, source, i, sc, flushes, lengths, values, variables, rc,
            spans, prog, v, e, at, outcome, conf, phase, server, found, listened, directives, ports, sockets,
            out, blk>>
MCSpec == MCInit /\ [][MCNext]_mcvars

-----------------------------------------------------------------------------
(* A URI is normalised in the buffer it has, its arguments and extension are found, and both parsers agree; the
   header lines are taken as they were sent, hashed by name, and end at the empty line; a script text is
   compiled piece by piece, and what a program writes fits the room counted for it; the longest prefix and the
   first regular expression choose the location; a connection is served by the servers of its address and its
   default, however the listen directives are ordered; and a SPDY header block fits its room, with each name once. *)
ConfigSafe ==
    /\ part = "uri" => Uri!TypeOK /\ Uri!FitsBuffer /\ Uri!PlainPathKept /\ Uri!ArgsFound /\ Uri!ExtensionInLastSegment /\ Uri!ParsersAgree
    /\ part = "dots" => Dots!Normalised /\ Dots!FitsBuffer
    /\ part = "slashes" => Slashes!Normalised /\ Slashes!FitsBuffer
    /\ part = "names" => HeaderNames!HeadersAsSent /\ HeaderNames!NameHashed /\ HeaderNames!EndsAtEmptyLine
    /\ part = "strict" => StrictNames!HeadersAsSent /\ StrictNames!NameHashed
    /\ part = "reply" => ReplyLines!HeadersAsSent /\ ReplyLines!EndsAtEmptyLine /\ ReplyLines!StatusRead
    /\ part = "compile" => Scripts!CompileTypeOK /\ Scripts!EachCharOnce /\ Scripts!ErrorsAreReal /\ Scripts!NulOnce /\ Scripts!ArgsStartOnce /\ Scripts!OneIndexPerName
    /\ part = "script" => Scripts!TypeOK /\ Scripts!WrittenFits /\ Scripts!SetExact /\ Scripts!StackBalanced
    /\ part = "prefixes" => PrefixSearch!LongestPrefixWins /\ PrefixSearch!FoundCovers /\ PrefixSearch!OnlyBadRefused
    /\ part = "mixed" => MixedSearch!LongestPrefixWins /\ MixedSearch!RegexInOrder
    /\ part = "listen" => Listens!AddressServed /\ Listens!DefaultKept /\ Listens!DuplicatesRefused /\ Listens!BoundOnce /\ Listens!SslKept
    /\ part = "ports" => PortsOf!AddressServed /\ PortsOf!DefaultKept /\ PortsOf!DuplicatesRefused /\ PortsOf!BoundOnce /\ PortsOf!SslKept
    /\ part = "block" => HeaderBlock!FitsRoom /\ HeaderBlock!NamesOnce /\ HeaderBlock!ValuesKept
(* A rewrite gives the request the URI and the arguments its template says, and a complex value is what its
   template says at the time it is evaluated. *)
ScriptMeans == [][part = "script" => Scripts!RewriteMeans /\ Scripts!FreshValue]_mcvars
=============================================================================
