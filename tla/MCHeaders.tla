----------------------------- MODULE MCHeaders ------------------------------
(*****************************************************************************)
(* Headers of the proxy: their fields, the heaps of their strings, the       *)
(* parsers and dates, and the tables of addresses and host names that rules  *)
(* are found by.                                                             *)
(*****************************************************************************)
EXTENDS Integers, Sequences, FiniteSets, TLC

VARIABLES part,   \* the component that runs
          h, m, bad, ops, mode, input, fed, p, n, date, wday, now, map, ref, wrong, status, tree, leaf_array, s


(* Fields with values that the header keeps cooked. *)
Directive(w) == [d |-> w, n |-> -1]
Cachey == {"Cache-Control", "Pragma"}
CacheValues == {<<Directive("private")>>, <<Directive("max-stale"), Directive("")>>}
CacheElements == {Directive("no-cache")}

(* Two headers copied onto each other, one parsed from network blocks, one with values that grow. *)
HeapModes == {[ops |-> {"copy"}, heaps |-> {"A", "B"}, vals |-> {"a"}, len |-> 1], [ops |-> {"block"}, heaps |-> {"A"}, vals |-> {"a", "b"}, len |-> 2],
              [ops |-> {"append", "print"}, heaps |-> {"A"}, vals |-> {"a"}, len |-> 3]}

(* Requests and replies, as characters. *)
GET == <<"G", "E", "T">>
HTTP == <<"H", "T", "T", "P", "/">>
CRLF == <<"CR", "LF">>
Version(a, b) == HTTP \o <<a, ".", b>>
RequestLines ==
    {GET \o <<" ">> \o u \o b \o v \o e :
        u \in {<<"/", "a", "a", "a", "a">>, <<" ", "/", " ", "a">>}, b \in {<<" ">>, <<" ", " ">>, <<>>},
        v \in {Version("1", "1"), Version("1", "0") \o <<" ">>, Version("0", "9"), <<"1", ".", "1">>}, e \in {CRLF, <<"LF">>}}
    \union {CRLF \o GET \o <<" ", "/", " ">> \o Version("1", "1") \o CRLF, <<" ">> \o GET \o CRLF,
            <<"CR">> \o GET \o <<" ", "/", " ">> \o Version("1", "1") \o CRLF}
FieldLines ==
    {<<"a", ":", " ", "1">> \o CRLF \o CRLF \o <<"B">>,
     <<"a", " ", ":", "1", "LF", " ", "2", "LF", "b", ":", "CR", "LF", "LF", "B">>,
     <<"a", "LF", "CR", "b", ":", "1", "LF", ":", "x", "LF">> \o CRLF \o <<"B", "LF">>,
     <<"a", ":", "1">> \o CRLF, <<"a", ":", "1">>}
MCRequests == {l \o f : l \in RequestLines, f \in FieldLines}
StatusLines ==
    {HTTP \o v \o <<" ">> \o x \o r \o CRLF :
        v \in {<<"1", ".", "0">>, <<"1", ".", "1", " ">>, <<"1", "1">>},
        x \in {<<"2", "0", "0">>, <<"2", "0">>, <<"2", "0", "0", "1">>},
        r \in {<<" ", "O", "K">>, <<>>, <<" ">>, <<" ", "O", " ", "K", " ">>}}
    \union {<<"h", "i", "LF">>}
MCReplies == {l \o f : l \in StatusLines, f \in FieldLines}

(* Over a leap year, the century that has a leap day, the end of 32-bit time and the century that has none. *)
Starts == {[n |-> 0, y |-> 1970, wday |-> 4], [n |-> 10227, y |-> 1998, wday |-> 4],
           [n |-> 24106, y |-> 2036, wday |-> 2], [n |-> 46387, y |-> 2097, wday |-> 2]}

(* Names of hosts and domains; "!a" is the rule "not a", an empty label stands before a leading dot. *)
HostNames == LET a == <<"a">>  b == <<"b">>  ab == <<"a", "b">>  na == <<"!", "a">>
             IN  {<<ab>>, <<a, ab>>, <<b, ab>>, <<b, a, ab>>, <<na, ab>>, <<<<>>, a, ab>>, <<a, ab, <<>>>>}

-----------------------------------------------------------------------------
Dups == INSTANCE MimeHdr WITH
    Hdrs <- {1}, Names <- {"Host", "X"}, Wks <- {"Host"}, Slotted <- {"Host"}, Known <- 2, Values <- {<<>>},
    Elements <- {}, MaxSlots <- 5, AnyOrder <- FALSE
Cooked == INSTANCE MimeHdr WITH
    Hdrs <- {1}, Names <- Cachey, Wks <- Cachey, Slotted <- {"Cache-Control"}, Known <- 1,
    Values <- CacheValues, Elements <- CacheElements, MaxSlots <- 2, AnyOrder <- FALSE
Copied == INSTANCE MimeHdr WITH
    Hdrs <- {1, 2}, Names <- {"Host"}, Wks <- {"Host"}, Slotted <- {"Host"}, Known <- 1, Values <- {<<>>},
    Elements <- {}, MaxSlots <- 3, AnyOrder <- FALSE
Heap == INSTANCE HdrHeap WITH
    Heaps <- {"A", "B"}, Types <- <<"URL", "FIELD">>, HDR_BUF_RONLY_HEAPS <- 2, STR_HEAP_HDR_SIZE <- 1,
    HDR_STR_HEAP_DEFAULT_SIZE <- 3, MAX_LOST_STR_SPACE <- 2, ObjSize <- 2, HDR_HEAP_HDR_SIZE <- 1, MaxId <- 9,
    MaxOps <- 4, Modes <- HeapModes
ReqParser == INSTANCE AtsHttpParser WITH
    Kind <- "req", Inputs <- MCRequests, LateEof <- FALSE
RespParser == INSTANCE AtsHttpParser WITH
    Kind <- "resp", Inputs <- MCReplies, LateEof <- FALSE
Dates == INSTANCE HttpDates WITH
    MaxDays <- 1600, ProcessStart <- {366, 10957}, Seconds <- {0, 3599, 86399}
Spans == INSTANCE IpMap WITH
    Families <- {4}, Size <- 5, Data <- {"a", "b"}, NoData <- "none"
TwoFamilies == INSTANCE IpMap WITH
    Families <- {4, 6}, Size <- 2, Data <- {"a", "b"}, NoData <- "none"
Hosts == INSTANCE HostLookup WITH
    Legal <- <<"a", "b">>, Names <- HostNames, HOST_TABLE_DEPTH <- 2, HOST_ARRAY_MAX <- 1, array_len <- 3

(* the variables of the components that do not run are idle; a component that has run keeps its own *)
IdleMimeHdr == m = "idle" /\ bad = "idle" /\ ops = "idle" /\ mode = "idle" /\ input = "idle" /\ fed = "idle" /\ p = "idle"
    /\ n = "idle" /\ date = "idle" /\ wday = "idle" /\ now = "idle" /\ map = "idle" /\ ref = "idle"
    /\ wrong = "idle" /\ status = "idle" /\ tree = "idle" /\ leaf_array = "idle" /\ s = "idle"
KeepMimeHdr == UNCHANGED <<part, m, bad, ops, mode, input, fed, p, n, date, wday, now, map, ref, wrong, status, tree, leaf_array, s>>
IdleHdrHeap == h = "idle" /\ input = "idle" /\ fed = "idle" /\ p = "idle" /\ n = "idle" /\ date = "idle" /\ wday = "idle"
    /\ now = "idle" /\ map = "idle" /\ ref = "idle" /\ wrong = "idle" /\ status = "idle" /\ tree = "idle"
    /\ leaf_array = "idle" /\ s = "idle"
KeepHdrHeap == UNCHANGED <<part, h, input, fed, p, n, date, wday, now, map, ref, wrong, status, tree, leaf_array, s>>
IdleAtsHttpParser == h = "idle" /\ m = "idle" /\ bad = "idle" /\ ops = "idle" /\ mode = "idle" /\ n = "idle" /\ date = "idle"
    /\ wday = "idle" /\ now = "idle" /\ map = "idle" /\ ref = "idle" /\ wrong = "idle" /\ status = "idle"
    /\ tree = "idle" /\ leaf_array = "idle" /\ s = "idle"
KeepAtsHttpParser == UNCHANGED <<part, h, m, bad, ops, mode, n, date, wday, now, map, ref, wrong, status, tree, leaf_array, s>>
IdleHttpDates == h = "idle" /\ m = "idle" /\ bad = "idle" /\ ops = "idle" /\ mode = "idle" /\ input = "idle" /\ fed = "idle"
    /\ p = "idle" /\ map = "idle" /\ ref = "idle" /\ wrong = "idle" /\ status = "idle" /\ tree = "idle"
    /\ leaf_array = "idle" /\ s = "idle"
KeepHttpDates == UNCHANGED <<part, h, m, bad, ops, mode, input, fed, p, map, ref, wrong, status, tree, leaf_array, s>>
IdleIpMap == h = "idle" /\ m = "idle" /\ bad = "idle" /\ ops = "idle" /\ mode = "idle" /\ input = "idle" /\ fed = "idle"
    /\ p = "idle" /\ n = "idle" /\ date = "idle" /\ wday = "idle" /\ now = "idle" /\ tree = "idle"
    /\ leaf_array = "idle" /\ s = "idle"
KeepIpMap == UNCHANGED <<part, h, m, bad, ops, mode, input, fed, p, n, date, wday, now, tree, leaf_array, s>>
IdleHostLookup == h = "idle" /\ m = "idle" /\ bad = "idle" /\ ops = "idle" /\ mode = "idle" /\ input = "idle" /\ fed = "idle"
    /\ p = "idle" /\ n = "idle" /\ date = "idle" /\ wday = "idle" /\ now = "idle" /\ map = "idle" /\ ref = "idle"
    /\ wrong = "idle" /\ status = "idle"
KeepHostLookup == UNCHANGED <<part, h, m, bad, ops, mode, input, fed, p, n, date, wday, now, map, ref, wrong, status>>

MCInit ==
    \/ part = "dups" /\ Dups!Init /\ IdleMimeHdr
    \/ part = "cooked" /\ Cooked!Init /\ IdleMimeHdr
    \/ part = "copied" /\ Copied!Init /\ IdleMimeHdr
    \/ part = "heap" /\ Heap!Init /\ IdleHdrHeap
    \/ part = "requests" /\ ReqParser!Init /\ IdleAtsHttpParser
    \/ part = "replies" /\ RespParser!Init /\ IdleAtsHttpParser
    \/ part = "dates" /\ Dates!Init /\ IdleHttpDates
    \/ part = "spans" /\ Spans!Init /\ IdleIpMap
    \/ part = "families" /\ TwoFamilies!Init /\ IdleIpMap
    \/ part = "hosts" /\ Hosts!Init /\ IdleHostLookup
MCNext ==
    \/ part = "dups" /\ Dups!Next /\ KeepMimeHdr
    \/ part = "cooked" /\ Cooked!Next /\ KeepMimeHdr
    \/ part = "copied" /\ Copied!Next /\ KeepMimeHdr
    \/ part = "heap" /\ Heap!Next /\ KeepHdrHeap
    \/ part = "requests" /\ ReqParser!Next /\ KeepAtsHttpParser
    \/ part = "replies" /\ RespParser!Next /\ KeepAtsHttpParser
    \/ part = "dates" /\ Dates!Next /\ KeepHttpDates
    \/ part = "spans" /\ Spans!Next /\ KeepIpMap
    \/ part = "families" /\ TwoFamilies!Next /\ KeepIpMap
    \/ part = "hosts" /\ Hosts!Next /\ KeepHostLookup
mcvars == <<part, h, m, bad, ops, mode, input, fed, p, n, date, wday, now, map, ref, wrong, status, tree,
            leaf_array, s>>
MCSpec == MCInit /\ [][MCNext]_mcvars

-----------------------------------------------------------------------------
(* Fields of a name are chained completely, in the order of their slots, found by their head, and the cooked
   values are what the fields say; every string of a header is in a heap the header holds, also after copies,
   coalescing, growth and marshalling; what is parsed does not depend on how the bytes were cut, and the fast
   ways read what the slow ones do; dates are written as the calendar has them and read alike by both parsers;
   an address has the data the calls left there, in a balanced tree of a minimal list of spans; and a search
   finds the rules of a host each once and all of them. *)
HeadersSafe ==
    /\ part = "dups" => Dups!TypeOK /\ Dups!DupsComplete /\ Dups!DupsInSlotOrder /\ Dups!FindsTheHead /\ Dups!AssertsHold
    /\ part = "cooked" => Cooked!CookedIsCurrent /\ Cooked!NothingLeftOver
    /\ part = "copied" => Copied!DupsComplete /\ Copied!FindsTheHead /\ Copied!PointersInside
    /\ part = "heap" => Heap!LiveStrings /\ Heap!AssertsHold /\ Heap!SlotsInOrder
    /\ part = "requests" => ReqParser!SplitsDoNotMatter /\ ReqParser!FastIsSlow /\ ReqParser!StopsAtBlankLine
    /\ part = "replies" => RespParser!SplitsDoNotMatter /\ RespParser!FastIsSlow /\ RespParser!StopsAtBlankLine
    /\ part = "dates" => Dates!FormatIsCalendar /\ Dates!ParsersAgree /\ Dates!RejectsMissingDays
    /\ part = "spans" => Spans!PaintersAlgorithm /\ Spans!RangesMinimal /\ Spans!TreeBalanced
    /\ part = "families" => TwoFamilies!PaintersAlgorithm /\ TwoFamilies!RangesMinimal /\ TwoFamilies!IteratorComplete
    /\ part = "hosts" => Hosts!FindsEveryRule /\ Hosts!NotIsNot /\ Hosts!PrintComplete
    /\ part = "heap" /\ "copy" \notin mode.ops => Heap!MarshalRoundTrip
(* A later day is never read as an earlier time: a far Expires stays in the future. *)
FarFutureStaysFar ==
    [][part = "dates" => \A f \in {"rfc822", "asctime", "nntp"} :
           Dates!NeverEarlier(Dates!mime_parse_date(Dates!Text(f, date, wday, 0)),
                              Dates!mime_parse_date(Dates!Text(f, date', wday', 0)))]_mcvars
=============================================================================
