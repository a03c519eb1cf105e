------------------------------- MODULE HdrHeap -------------------------------
(***************************************************************************)
(* The header heap (hdr/HdrHeap.cpp, hdr/HdrTSOnly.cpp): the objects of a  *)
(* header keep pointers to strings in one read-write string heap and a few *)
(* read-only ones, which other headers and network buffers share by        *)
(* reference count.  Demotion, coalescing, inheritance and marshalling     *)
(* move the strings under the objects.  The blocks that hold the objects   *)
(* themselves are left out; an object has one string, a URL also a printed *)
(* form.                                                                   *)
(***************************************************************************)
EXTENDS Integers, Sequences, FiniteSets, SequencesExt, FiniteSetsExt

CONSTANTS
    Heaps,       \* the header heaps
    Types,       \* the types of the objects of a heap: "HTTP", "URL", "FIELD"
    HDR_BUF_RONLY_HEAPS,
    STR_HEAP_HDR_SIZE,
    HDR_STR_HEAP_DEFAULT_SIZE,
    MAX_LOST_STR_SPACE,
    ObjSize,     \* the size of an object, for marshalling
    HDR_HEAP_HDR_SIZE,
    MaxId,       \* bound: string heaps and blocks at a time
    MaxOps,      \* bound: the operations that need strings
    Modes        \* what is done: [ops |-> kinds of operations, heaps |-> the heaps, vals |-> what strings
                 \* are made of, len |-> bound: the longest string]

VARIABLES
    m,           \* [str |-> the string heaps and blocks, hh |-> the header heaps]
    bad,         \* an assertion failed
    ops,         \* the operations so far, for the bound
    mode         \* one of Modes
vars == <<m, bad, ops, mode>>

Ids == 1 .. MaxId
Objs == DOMAIN Types
Slots == 1 .. HDR_BUF_RONLY_HEAPS
NoStr == [size |-> 0, mem |-> <<>>]
NoRo == [ref |-> 0, start |-> 0, len |-> 0, locked |-> FALSE]
NULL == [ref |-> 0, off |-> 0, len |-> 0]
Cells(v, n) == [i \in 1 .. n |-> v]
ROUND(x, l) == ((x + l - 1) \div l) * l
MaxOf(a, b) == IF a > b THEN a ELSE b

(* A string heap lives as long as a Ptr of a header heap, or the guard, holds it. *)
Held(S, id) == \E h \in Heaps : S.hh[h].rw = id \/ \E i \in Slots : S.hh[h].ro[i].ref = id
release(S, guard) == [S EXCEPT !.str = [id \in Ids |-> IF id = guard \/ Held(S, id) THEN @[id] ELSE NoStr]]
Fresh(S) == CHOOSE id \in Ids : S.str[id] = NoStr /\ \A j \in Ids : j < id => S.str[j] # NoStr

(* What a pointer reads: junk when the memory is gone. *)
Read(S, p) == IF p.off + p.len <= Len(S.str[p.ref].mem) THEN SubSeq(S.str[p.ref].mem, p.off + 1, p.off + p.len) ELSE Cells("junk", p.len)
Write(S, id, off, s) == [S EXCEPT !.str[id].mem = [i \in DOMAIN @ |-> IF i > off /\ i <= off + Len(s) THEN s[i - off] ELSE @[i]]]
Free(S, id) == S.str[id].size - Len(S.str[id].mem)

-----------------------------------------------------------------------------
new_HdrStrHeap(n) ==
    LET a == n + STR_HEAP_HDR_SIZE
    IN  [size |-> IF a <= HDR_STR_HEAP_DEFAULT_SIZE THEN HDR_STR_HEAP_DEFAULT_SIZE ELSE ROUND(a, 2 * HDR_STR_HEAP_DEFAULT_SIZE),
         mem |-> Cells("hdr", STR_HEAP_HDR_SIZE)]

(* HdrStrHeap::allocate, when there is room *)
allocate(S, id, n) == [S |-> [S EXCEPT !.str[id].mem = @ \o Cells("new", n)], ref |-> id, off |-> Len(S.str[id].mem)]

(* HdrHeap::demote_rw_str_heap; 0: all slots are taken *)
FreeSlot(S, h) == LET f == {i \in Slots : S.hh[h].ro[i].ref = 0} IN IF f = {} THEN 0 ELSE Min(f)
demote_rw_str_heap(S, h) ==
    LET id == S.hh[h].rw
    IN  [S EXCEPT !.hh[h].ro[FreeSlot(S, h)] = [ref |-> id, start |-> 0, len |-> Len(S.str[id].mem), locked |-> @.locked],
                  !.hh[h].rw = 0]

(* HDR_MOVE_STR for each object; a string that does not fit is lost. *)
evacuate_from_str_heaps(S, h, nid) ==
    FoldLeft(LAMBDA T, k :
        LET p == T.hh[h].objs[k].ptr
            a == allocate(T, nid, p.len)
        IN  CASE p.ref = 0 -> T
              [] p.ref # 0 /\ Free(T, nid) >= p.len -> [Write(a.S, nid, a.off, Read(T, p)) EXCEPT !.hh[h].objs[k].ptr = [p EXCEPT !.ref = nid, !.off = a.off]]
              [] OTHER -> [T EXCEPT !.hh[h].objs[k].ptr = [NULL EXCEPT !.len = p.len]],
        S, [k \in Objs |-> k])

(* HdrHeap::coalesce_str_heaps *)
coalesce_str_heaps(S, h, incoming, guard) ==
    LET H   == S.hh[h]
        own == (IF H.rw = 0 THEN 0 ELSE S.str[H.rw].size) + FoldFunction(LAMBDA r, a : r.len + a, 0, H.ro)
        nid == Fresh(S)
        T   == evacuate_from_str_heaps([S EXCEPT !.str[nid] = new_HdrStrHeap(incoming + own)], h, nid)
    IN  release([T EXCEPT !.hh[h].lost = 0, !.hh[h].rw = nid, !.hh[h].ro = [i \in Slots |-> IF @[i].locked THEN @[i] ELSE NoRo]], guard)
CoalesceAssert(S, h, incoming) ==
    incoming > 0 \/ S.hh[h].ro[1].ref = 0 \/ \E i \in Slots : S.hh[h].ro[i].ref # 0 /\ ~S.hh[h].ro[i].locked

RECURSIVE retry(_, _, _, _, _)
retry(S, h, n, last, guard) ==
    LET nid == Fresh(S)
        T   == IF S.hh[h].rw # 0 THEN S
               ELSE [S EXCEPT !.str[nid] = new_HdrStrHeap(MaxOf(2 * last - STR_HEAP_HDR_SIZE, n)), !.hh[h].rw = nid]
        id  == T.hh[h].rw
    IN  CASE Free(T, id) >= n -> allocate(T, id, n)
          [] Free(T, id) < n /\ FreeSlot(T, h) # 0 -> retry(demote_rw_str_heap(T, h), h, n, T.str[id].size, guard)
          [] OTHER -> retry(coalesce_str_heaps(T, h, 0, guard), h, n, T.str[id].size, guard)

(* HdrHeap::allocate_str: too much lost space forces a coalesce first *)
allocate_str(S, h, n, guard) ==
    retry(IF S.hh[h].lost > MAX_LOST_STR_SPACE THEN coalesce_str_heaps(S, h, 0, guard) ELSE S, h, n, 0, guard)

(* HdrHeap::free_string *)
free_string(S, h, p) == [S EXCEPT !.hh[h].lost = @ + IF p.ref = 0 THEN 0 ELSE p.len]

(* HdrStrHeap::expand: the last string of the read-write heap grows in place *)
CanExpand(S, h, p, n) ==
    LET id == S.hh[h].rw IN id # 0 /\ p.ref = id /\ p.off + p.len = Len(S.str[id].mem) /\ n - p.len <= Free(S, id)

(* HeapGuard: the heap that holds the source *)
HeapGuard(S, h, p) ==
    IF p.ref # 0 /\ (p.ref = S.hh[h].rw \/ \E i \in Slots : LET r == S.hh[h].ro[i] IN r.ref = p.ref /\ p.off >= r.start /\ p.off < r.start + r.len)
    THEN p.ref ELSE 0

-----------------------------------------------------------------------------
(* mime_field_value_set with a value from outside *)
ValueSet(h, k, v, n) ==
    LET p == m.hh[h].objs[k].ptr
        S == free_string(m, h, p)
        a == allocate_str(S, h, n, 0)
        T == Write(a.S, a.ref, a.off, Cells(v, n))
    IN  /\ m' = release([T EXCEPT !.hh[h].objs[k] = [@ EXCEPT !.ptr = [ref |-> a.ref, off |-> a.off, len |-> n], !.want = Cells(v, n), !.clean = FALSE]], 0)
        /\ UNCHANGED bad

(* The same with a value of the same header: HdrHeap::duplicate_str *)
ValueSetFrom(h, k, j) ==
    LET src == m.hh[h].objs[j].ptr
        S   == free_string(m, h, m.hh[h].objs[k].ptr)
        a   == allocate_str(S, h, src.len, HeapGuard(m, h, src))
        T   == Write(a.S, a.ref, a.off, Read(a.S, src))
    IN  /\ j # k /\ src.ref # 0
        /\ m' = release([T EXCEPT !.hh[h].objs[k] = [@ EXCEPT !.ptr = [ref |-> a.ref, off |-> a.off, len |-> src.len], !.want = m.hh[h].objs[j].want, !.clean = FALSE]], 0)
        /\ UNCHANGED bad

(* mime_field_value_append *)
ValueAppend(h, k, v) ==
    LET p == m.hh[h].objs[k].ptr
        x == CanExpand(m, h, p, p.len + 1)
        a == allocate_str(m, h, p.len + 1, 0)
        q == a.S.hh[h].objs[k].ptr
        T == IF x THEN Write(allocate(m, p.ref, 1).S, p.ref, p.off + p.len, <<v>>)
             ELSE Write(a.S, a.ref, a.off, Read(a.S, q) \o <<v>>)
    IN  /\ "append" \in mode.ops /\ p.ref # 0 /\ p.len < mode.len
        /\ m' = release([T EXCEPT !.hh[h].objs[k] = [@ EXCEPT !.ptr = IF x THEN [p EXCEPT !.len = @ + 1] ELSE [ref |-> a.ref, off |-> a.off, len |-> p.len + 1],
                                                              !.want = Append(@, v), !.clean = FALSE]], 0)
        /\ UNCHANGED bad

(* mime_hdr_field_delete *)
Delete(h, k) ==
    LET S == free_string(m, h, m.hh[h].objs[k].ptr)
    IN  /\ m.hh[h].objs[k].ptr.ref # 0
        /\ m' = [S EXCEPT !.hh[h].objs[k] = [ptr |-> NULL, want |-> <<>>, printed |-> NULL, clean |-> FALSE]]
        /\ UNCHANGED bad

(* url_string_get_ref: the printed form is kept in the heap, with a NUL *)
StringGetRef(h, k) ==
    LET o == m.hh[h].objs[k]
        a == allocate_str(m, h, o.ptr.len + 1, 0)
        q == a.S.hh[h].objs[k].ptr
        T == Write(a.S, a.ref, a.off, Append(Read(a.S, q), "nul"))
    IN  /\ Types[k] = "URL" /\ o.ptr.ref # 0 /\ ~(o.printed.ref # 0 /\ o.clean)
        /\ m' = release([T EXCEPT !.hh[h].objs[k].printed = [ref |-> a.ref, off |-> a.off, len |-> o.ptr.len], !.hh[h].objs[k].clean = TRUE], 0)
        /\ UNCHANGED bad

-----------------------------------------------------------------------------
(* The descriptors that inherit_string_heaps hands to attach_str_heap. *)
incoming_heaps(S, s) ==
    LET H == S.hh[s]
    IN  (IF H.rw = 0 THEN <<>> ELSE <<[ref |-> H.rw, start |-> STR_HEAP_HDR_SIZE, len |-> Len(S.str[H.rw].mem) - STR_HEAP_HDR_SIZE, locked |-> FALSE]>>)
        \o SelectSeq([i \in Slots |-> [H.ro[i] EXCEPT !.locked = FALSE]], LAMBDA r : r.ref # 0)

(* HdrHeap::attach_str_heap: A is [ro, index, ok]; index counts from 1 *)
attach_str_heap(A, r) ==
    LET same == {z \in 1 .. A.index - 1 : A.ro[z].ref = r.ref /\ A.ro[z].start = r.start}
    IN  CASE same # {} -> [A EXCEPT !.ro[Min(same)].len = MaxOf(@, r.len)]
          [] same = {} /\ A.index > HDR_BUF_RONLY_HEAPS -> [A EXCEPT !.ok = FALSE]
          [] OTHER -> [A EXCEPT !.ro[A.index] = r, !.index = @ + 1]

(* HdrHeap::inherit_string_heaps *)
inherit_string_heaps(S, d, s) ==
    LET in    == incoming_heaps(S, s)
        free  == Cardinality({i \in Slots : S.hh[d].ro[i].ref = 0}) - Len(in)
        lost  == S.hh[d].lost + S.hh[s].lost
        size  == (IF S.hh[s].rw = 0 THEN 0 ELSE S.str[S.hh[s].rw].size) + FoldFunction(LAMBDA r, a : r.len + a, 0, S.hh[s].ro)
        first == IF FreeSlot(S, d) = 0 THEN HDR_BUF_RONLY_HEAPS + 1 ELSE FreeSlot(S, d)
        A     == FoldLeft(attach_str_heap, [ro |-> S.hh[d].ro, index |-> first, ok |-> TRUE], in)
    IN  IF free < 0 \/ lost > MAX_LOST_STR_SPACE THEN [S |-> coalesce_str_heaps(S, d, size, 0), ok |-> CoalesceAssert(S, d, size)]
        ELSE [S |-> [S EXCEPT !.hh[d].ro = A.ro, !.hh[d].lost = lost], ok |-> A.ok]

(* Mutant: the strings are inherited before the objects are copied. *)
CopyOnto_Early(s, d) ==
    LET r == inherit_string_heaps(m, d, s)
    IN  /\ "copy" \in mode.ops /\ s # d
        /\ m' = release([r.S EXCEPT !.hh[d].objs = r.S.hh[s].objs], 0) /\ bad' = (bad \/ ~r.ok)

(* http_hdr_copy_onto: the objects are copied, then the strings are inherited *)
CopyOnto(s, d) ==
    LET r == inherit_string_heaps([m EXCEPT !.hh[d].objs = m.hh[s].objs], d, s)
    IN  /\ "copy" \in mode.ops /\ s # d
        /\ m' = release(r.S, 0) /\ bad' = (bad \/ ~r.ok)

(* HttpHeader::url_set: one object *)
UrlSet(s, d, k) ==
    LET r == inherit_string_heaps([m EXCEPT !.hh[d].objs[k] = m.hh[s].objs[k]], d, s)
    IN  /\ "copy" \in mode.ops /\ s # d /\ Types[k] = "URL"
        /\ m' = release(r.S, 0) /\ bad' = (bad \/ ~r.ok)

(* HdrHeap::destroy *)
Empty == [rw |-> 0, ro |-> [i \in Slots |-> NoRo], lost |-> 0, objs |-> [k \in Objs |-> [ptr |-> NULL, want |-> <<>>, printed |-> NULL, clean |-> FALSE]]]
Destroy(h) == m' = release([m EXCEPT !.hh[h] = Empty], 0) /\ m' # m /\ UNCHANGED bad

(* HdrHeap::attach_block: a block whose data starts to be used at `use` *)
attach_block(S, h, b, use) ==
    LET T    == IF FreeSlot(S, h) # 0 THEN S ELSE coalesce_str_heaps(S, h, 0, b)
        slot == FreeSlot(T, h)
    IN  [S |-> [T EXCEPT !.hh[h].ro[slot] = [ref |-> b, start |-> use, len |-> Len(T.str[b].mem), locked |-> @.locked]], slot |-> slot,
         ok |-> FreeSlot(S, h) # 0 \/ CoalesceAssert(S, h, 0)]

(* HdrHeap::unlock_ronly_str_heap: the slot moves to the first free one *)
unlock_ronly_str_heap(S, h, i) ==
    LET j == FreeSlot(S, h)
        r == [S.hh[h].ro[i] EXCEPT !.locked = FALSE]
    IN  IF j # 0 /\ j < i THEN [S EXCEPT !.hh[h].ro[j] = r, !.hh[h].ro[i] = NoRo] ELSE [S EXCEPT !.hh[h].ro[i] = r]

(* HTTPHdr::parse_req and parse_resp for one block: object j's string began in    *)
(* an earlier block and is copied, object k's string stays where it was read.  A  *)
(* header is parsed before much of it is changed.                                  *)
ParseBlock(h, j, k, v, use) ==
    LET b  == Fresh(m)
        A  == attach_block([m EXCEPT !.str[b] = [size |-> use + 2, mem |-> Cells("old", use) \o <<v, v>>]], h, b, use)
        L  == [A.S EXCEPT !.hh[h].ro[A.slot].locked = TRUE]
        D  == allocate_str(L, h, 2, 0)
        C  == IF j = 0 THEN L ELSE [Write(D.S, D.ref, D.off, <<v, v>>) EXCEPT !.hh[h].objs[j] = [ptr |-> [ref |-> D.ref, off |-> D.off, len |-> 2], want |-> <<v, v>>, printed |-> NULL, clean |-> FALSE]]
        K  == [C EXCEPT !.hh[h].objs[k] = [ptr |-> [ref |-> b, off |-> use, len |-> 1], want |-> <<v>>, printed |-> NULL, clean |-> FALSE],
                        !.hh[h].ro[A.slot].len = 1]
    IN  /\ "block" \in mode.ops /\ j # k /\ m.hh[h].lost <= MAX_LOST_STR_SPACE
        /\ m.hh[h].objs[k].ptr.ref = 0 /\ (j # 0 => m.hh[h].objs[j].ptr.ref = 0)
        /\ m' = release(unlock_ronly_str_heap(K, h, A.slot), 0)
        /\ bad' = (bad \/ ~A.ok \/ (j # 0 /\ L.hh[h].lost > MAX_LOST_STR_SPACE /\ ~CoalesceAssert(L, h, 0)))

-----------------------------------------------------------------------------
(* HdrHeap::marshal: the string heaps in a row, and where each begins *)
MarshalXlate(S, h) ==
    LET H    == S.hh[h]
        list == (IF H.rw = 0 THEN <<>> ELSE <<[ref |-> H.rw, start |-> STR_HEAP_HDR_SIZE, len |-> Len(S.str[H.rw].mem) - STR_HEAP_HDR_SIZE]>>)
                \o SelectSeq([i \in Slots |-> [ref |-> H.ro[i].ref, start |-> H.ro[i].start, len |-> H.ro[i].len]], LAMBDA r : r.ref # 0)
        base(i) == FoldLeft(LAMBDA a, r : a + r.len, 0, SubSeq(list, 1, i - 1))
    IN  [i \in DOMAIN list |-> [ref |-> list[i].ref, start |-> list[i].start, len |-> list[i].len, base |-> base(i)]]

(* HDR_MARSHAL_STR: the first heap that has the pointer; 0: none, marshalling fails *)
XlateOf(X, p) == LET f == {i \in DOMAIN X : X[i].ref = p.ref /\ p.off >= X[i].start /\ p.off <= X[i].start + X[i].len} IN IF f = {} THEN 0 ELSE Min(f)

marshal(S, h) ==
    LET X     == MarshalXlate(S, h)
        chars == FlattenSeq([i \in DOMAIN X |-> SubSeq(S.str[X[i].ref].mem, X[i].start + 1, X[i].start + X[i].len)])
        at(p) == LET x == X[XlateOf(X, p)] IN x.base + p.off - x.start
        live  == {k \in Objs : S.hh[h].objs[k].ptr.ref # 0}
    IN  [ok |-> \A k \in live : XlateOf(X, S.hh[h].objs[k].ptr) # 0, m_size |-> HDR_HEAP_HDR_SIZE + ObjSize * Len(Types), chars |-> chars,
         ptr |-> [k \in live |-> [off |-> at(S.hh[h].objs[k].ptr), len |-> S.hh[h].objs[k].ptr.len]]]

(* HdrHeap::marshal_length, without the rounding at the end *)
marshal_length(S, h) ==
    HDR_HEAP_HDR_SIZE + ObjSize * Len(Types) + (IF S.hh[h].rw = 0 THEN 0 ELSE S.str[S.hh[h].rw].size - (STR_HEAP_HDR_SIZE + Free(S, S.hh[h].rw)))
    + FoldFunction(LAMBDA r, a : r.len + a, 0, S.hh[h].ro)

-----------------------------------------------------------------------------
Init == m = [str |-> [id \in Ids |-> NoStr], hh |-> [h \in Heaps |-> Empty]] /\ bad = FALSE /\ ops = 0 /\ mode \in Modes

Grow(h, k) ==
    \/ \E v \in mode.vals, n \in 1 .. mode.len : ValueSet(h, k, v, n)
    \/ \E j \in Objs : ValueSetFrom(h, k, j)
    \/ \E v \in mode.vals : ValueAppend(h, k, v)
    \/ "print" \in mode.ops /\ StringGetRef(h, k)
    \/ \E d \in mode.heaps : CopyOnto(h, d) \/ UrlSet(h, d, k)
    \/ \E j \in Objs \union {0}, v \in mode.vals, use \in 0 .. 1 : ParseBlock(h, j, k, v, use)

Next == \E h \in mode.heaps, k \in Objs :
    \/ ops < MaxOps /\ ops' = ops + 1 /\ Grow(h, k) /\ UNCHANGED mode
    \/ Delete(h, k) /\ UNCHANGED <<ops, mode>>
    \/ Destroy(h) /\ UNCHANGED <<ops, mode>>

Spec == Init /\ [][Next]_vars

-----------------------------------------------------------------------------
Attached(h, p) ==
    LET H == m.hh[h]
    IN  \/ H.rw = p.ref
        \/ \E i \in Slots : H.ro[i].ref = p.ref /\ p.off >= H.ro[i].start /\ p.off + p.len <= H.ro[i].start + H.ro[i].len

(* However often the strings are moved, shared and let go of, each object still    *)
(* reads the value it was given, in a heap its own header keeps alive              *)
(* (sanity_check_strs).                                                             *)
LiveStrings ==
    \A h \in Heaps, k \in Objs :
        LET o == m.hh[h].objs[k] IN o.want # <<>> => o.ptr.ref # 0 /\ Attached(h, o.ptr) /\ Read(m, o.ptr) = o.want

(* A header marshalled in any state has the announced length and reads the same    *)
(* after it is unmarshalled.                                                        *)
MarshalRoundTrip ==
    \A h \in Heaps :
        LET I == marshal(m, h)
        IN  /\ I.ok /\ I.m_size + Len(I.chars) = marshal_length(m, h)
            /\ \A k \in DOMAIN I.ptr : I.ptr[k].off + I.ptr[k].len <= Len(I.chars) /\ SubSeq(I.chars, I.ptr[k].off + 1, I.ptr[k].off + I.ptr[k].len) = m.hh[h].objs[k].want

(* No assertion fails: there is a slot for every heap that comes in, and coalescing *)
(* frees one.                                                                       *)
AssertsHold == ~bad

(* "heaps are always allocated in order": no slot is used after a free one; the     *)
(* loops over the slots stop at the first free one.                                 *)
SlotsInOrder == \A h \in Heaps, i \in Slots : m.hh[h].ro[i].ref # 0 => \A j \in 1 .. i - 1 : m.hh[h].ro[j].ref # 0
=============================================================================
