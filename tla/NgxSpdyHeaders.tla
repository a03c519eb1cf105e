--------------------------- MODULE NgxSpdyHeaders ---------------------------
(***************************************************************************)
(* The name/value block of a SYN_REPLY: ngx_http_spdy_header_filter()      *)
(* first adds up the room the block needs, then writes it, and SPDY wants  *)
(* every name once, the values of a repeated header joined by a NUL.       *)
(* A value is its length; a response is given by its header list and by    *)
(* which of the known headers it sets itself.                              *)
(***************************************************************************)
EXTENDS Integers, Sequences, SequencesExt, FiniteSets, FiniteSetsExt

CONSTANTS Keys,      \* names that modules put on the header list
          MaxList,   \* length of that list
          LenSize,   \* NGX_SPDY_NV_NLEN_SIZE, NGX_SPDY_NV_VLEN_SIZE
          KeyLen,    \* length of each name
          TimeLen, OffLen, PortLen  \* room for a date, an off_t and a port

VARIABLES out,   \* r->headers_out
          blk    \* [len, written, pairs, i]: the block and the position in the list
hvars == <<out, blk>>

Hidden == {"status", "version"}
Elt == [key : Keys, val : {1, 2}, hash : {0, 1}]
Outs == [list : UNION {[1..n -> Elt] : n \in 0..MaxList}, status : {"200", "204", "404"},
         server : BOOLEAN, ctype : {0, 3}, charset : {0, 2}, clen : {-1, 1, OffLen},
         lm : BOOLEAN, location : {0, 2}, port : BOOLEAN]
(* a charset goes with a type, a port with a location *)
Sensible(o) == (o.charset > 0 => o.ctype > 0) /\ (o.port => o.location > 0)

(* ngx_http_spdy_header_filter(): what the status says of the other headers *)
StatusRules(o) ==
    CASE o.status = "200" -> o
      [] o.status = "204" -> [o EXCEPT !.ctype = 0, !.clen = -1, !.lm = FALSE]
      [] OTHER -> [o EXCEPT !.lm = FALSE]

Pair(name, len) == [name |-> name, n |-> KeyLen[name], vals |-> <<len>>]
(* the headers the filter itself writes: room for them, and what is written *)
Fixed(o, dateLen, numLen, portLen) ==
    <<Pair("version", 3), Pair("status", 3)>>
    \o (IF o.server THEN <<>> ELSE <<Pair("server", 3), Pair("date", dateLen)>>)
    \o (IF o.ctype = 0 THEN <<>> ELSE <<Pair("content-type", o.ctype + o.charset)>>)
    \o (IF o.clen < 0 THEN <<>> ELSE <<Pair("content-length", numLen)>>)
    \o (IF o.lm THEN <<Pair("last-modified", dateLen)>> ELSE <<>>)
    \o (IF o.location = 0 THEN <<>> ELSE <<Pair("location", o.location + (IF o.port THEN portLen ELSE 0))>>)
Estimated(o) == Fixed(o, TimeLen, OffLen, PortLen)
Written(o) == Fixed(o, TimeLen, o.clen, PortLen)

(* the values of a name with the NULs between them *)
ValLen(vals) == FoldSeq(LAMBDA v, a : v + a, 0, vals) + Len(vals) - 1
SizeOf(p) == LenSize + p.n + LenSize + ValLen(p.vals)
Total(pairs) == 2 + FoldSeq(LAMBDA p, a : SizeOf(p) + a, 0, pairs)

(* the first pass over the list *)
Counted(h) == h.hash # 0
ListRoom(list) ==
    FoldSeq(LAMBDA h, a : (IF Counted(h) THEN LenSize + KeyLen[h.key] + LenSize + h.val ELSE 0) + a, 0, list)

Init == /\ \E o \in {x \in Outs : Sensible(x)} : out = StatusRules(o)
        /\ blk = [len |-> Total(Estimated(out)) + ListRoom(out.list), pairs |-> Written(out), i |-> 1,
                  hash |-> [j \in DOMAIN out.list |-> out.list[j].hash]]

(* the headers of the same name further down *)
Same(list, hash, i) == {j \in DOMAIN list : j > i /\ hash[j] = 1 /\ list[j].key = list[i].key}

(* one turn of the second pass: hash 2 marks a value that is written already *)
Write ==
    /\ blk.i <= Len(out.list)
    /\ LET i == blk.i
           h == out.list[i]
           same == Same(out.list, blk.hash, i)
           vals == <<h.val>> \o [k \in 1..Cardinality(same) |-> out.list[SetToSortSeq(same, <)[k]].val]
       IN  blk' = CASE blk.hash[i] # 1 -> [blk EXCEPT !.i = i + 1]
                    [] blk.hash[i] = 1 /\ h.key \in Hidden -> [blk EXCEPT !.i = i + 1, !.hash[i] = 0]
                    [] OTHER -> [blk EXCEPT !.i = i + 1,
                                   !.pairs = Append(@, [name |-> h.key, n |-> KeyLen[h.key], vals |-> vals]),
                                   !.hash = [j \in DOMAIN @ |-> IF j \in same THEN 2 ELSE @[j]]]
    /\ UNCHANGED out
Sent == blk.i > Len(out.list) /\ UNCHANGED hvars
Next == Write \/ Sent
Spec == Init /\ [][Next]_hvars

-----------------------------------------------------------------------------
(* What is written always fits the room that was added up before. *)
FitsRoom == Total(blk.pairs) <= blk.len
(* No name comes twice in a block. *)
NamesOnce == \A a, b \in DOMAIN blk.pairs : a # b => blk.pairs[a].name # blk.pairs[b].name
(* No value of a header that is sent is lost: each comes under its name, in order. *)
ValuesKept ==
    blk.i > Len(out.list) =>
      \A k \in Keys \ Hidden :
        LET mine == SelectSeq(out.list, LAMBDA h : h.key = k /\ h.hash = 1)
            sent == SelectSeq(blk.pairs, LAMBDA p : p.name = k)
        IN  mine # <<>> => \E p \in Range(sent) : p.vals = [j \in DOMAIN mine |-> mine[j].val]
=============================================================================
