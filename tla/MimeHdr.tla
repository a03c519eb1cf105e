------------------------------- MODULE MimeHdr -------------------------------
(***************************************************************************)
(* The fields of a MIME header (hdr/MIME.cpp): slots that are filled in    *)
(* order and never reused, duplicates chained from a head in slot order,   *)
(* and what is kept beside them to answer fast: the presence bits, the     *)
(* slot accelerators and the cooked Cache-Control and Pragma values.       *)
(* There can be two headers, for a header can be copied onto another.      *)
(*                                                                         *)
(* A value is a sequence of comma separated elements [d, n]: a directive   *)
(* and its number (NoNumber when it has none); d = "" is an empty element. *)
(* NoValue is the null pointer of a field whose last element was deleted.  *)
(***************************************************************************)
EXTENDS Integers, Sequences, FiniteSets, SequencesExt

CONSTANTS
    Hdrs,         \* the headers: {1} or {1, 2}
    Names,        \* names of fields
    Wks,          \* the well-known ones
    Slotted,      \* those of Wks that have a slot accelerator
    Known,        \* slots an accelerator can name (MIME_FIELD_SLOTNUM_UNKNOWN)
    Values,       \* values a field is given
    Elements,     \* elements inserted in a value
    MaxSlots,     \* bound: slots of a header
    AnyOrder      \* whether a field may be attached between duplicates of later and earlier slots

VARIABLES h       \* h[k]: header k

NoNumber == -1
NoValue == <<[d |-> "NULL", n |-> 0]>>
INT_MAX == 99
Max_ == 0         \* MIME_FIELD_SLOTNUM_MAX: no such field
Unknown == Known + 1
Nil == [of |-> 0, slot |-> 0]
CookedNames == {"Cache-Control", "Pragma"} \intersect Names
Numbered == {"max-age", "max-stale"}
Directives == {"no-cache", "private", "public"} \union Numbered
NoCC == [mask |-> {}, max_age |-> 0, max_stale |-> 0]

Fresh == [slots |-> <<>>, presence |-> {}, accel |-> [x \in Slotted |-> Max_], cc |-> NoCC, pragma |-> FALSE, ok |-> TRUE]

Live(z) == {i \in DOMAIN z.slots : z.slots[i].ready = "live"}
LiveOf(z, name) == {i \in Live(z) : z.slots[i].name = name}
Lowest(S) == IF S = {} THEN 0 ELSE CHOOSE i \in S : \A j \in S : i <= j
Check(z, p) == [z EXCEPT !.ok = @ /\ p]        \* ink_assert

(* _mime_hdr_field_list_search_by_slotnum *)
search_by_slotnum(z, slot) == IF slot \in DOMAIN z.slots THEN slot ELSE 0

(* mime_hdr_field_find: 0 when there is none *)
field_find(z, name) ==
    CASE name \in Wks /\ name \notin z.presence -> 0
      [] name \in Slotted /\ name \in z.presence /\ z.accel[name] # Unknown -> search_by_slotnum(z, z.accel[name])
      [] OTHER -> Lowest(LiveOf(z, name))

(* The duplicates from slot i on, along m_next_dup. *)
RECURSIVE chain(_, _)
chain(z, i) == IF i = 0 THEN <<>> ELSE <<i>> \o chain(z, z.slots[i].next.slot)

-----------------------------------------------------------------------------
(* What HdrCsvIter goes through, following duplicates: a null value at the   *)
(* head ends it; an empty element moves on to the next duplicate, if any.    *)
csv(z, head) ==
    LET c == IF head = 0 \/ z.slots[head].value = NoValue THEN <<>> ELSE chain(z, head)
        part(k) == LET v == z.slots[c[k]].value
                       e == SelectInSeq(v, LAMBDA x : x.d = "")
                   IN  IF v = NoValue THEN <<>> ELSE IF e # 0 /\ k < Len(c) THEN SubSeq(v, 1, e - 1) ELSE v
    IN  FlattenSeq([k \in DOMAIN c |-> part(k)])

cook_cc(es) ==
    FoldLeft(LAMBDA a, e :
        CASE e.d = "max-age" -> [a EXCEPT !.mask = @ \union {e.d}, !.max_age = IF e.n # NoNumber THEN e.n ELSE @]
          [] e.d = "max-stale" -> [a EXCEPT !.mask = @ \union {e.d}, !.max_stale = IF e.n # NoNumber THEN e.n ELSE INT_MAX]
          [] e.d \in Directives \ Numbered -> [a EXCEPT !.mask = @ \union {e.d}]
          [] OTHER -> a, NoCC, es)

(* recompute_cooked_stuff and mime_hdr_cooked_stuff_init for a change of name *)
recompute_cooked_stuff(z, name) ==
    [z EXCEPT !.cc = IF name = "Pragma" \/ "Cache-Control" \notin Names THEN @
                     ELSE cook_cc(csv(z, field_find(z, "Cache-Control"))),
              !.pragma = IF name = "Cache-Control" \/ "Pragma" \notin Names THEN @
                         ELSE \E e \in ToSet(csv(z, field_find(z, "Pragma"))) : e.d = "no-cache"]

recook(z, name) == IF name \in CookedNames THEN recompute_cooked_stuff(z, name) ELSE z

(* mime_hdr_set_accelerators_and_presence_bits *)
set_accelerators(z, i) ==
    LET name == z.slots[i].name
    IN  [z EXCEPT !.presence = @ \union ({name} \intersect Wks),
                  !.accel = IF name \in Slotted THEN [@ EXCEPT ![name] = IF i <= Known THEN i ELSE Unknown] ELSE @]

unset_accelerators(z, i) ==
    LET name == z.slots[i].name
    IN  [z EXCEPT !.presence = @ \ {name}, !.accel = IF name \in Slotted THEN [@ EXCEPT ![name] = Max_] ELSE @]

-----------------------------------------------------------------------------
(* mime_field_create and mime_field_name_set: a new slot, detached *)
created(z, name, value) ==
    [z EXCEPT !.slots = Append(@, [ready |-> "detached", name |-> name, value |-> value, head |-> FALSE, next |-> Nil])]

(* Where the walk down the duplicates stops: prev and what follows it. The slot    *)
(* number of the next duplicate is read once, before the loop, so after the first  *)
(* step the walk only stops at the end.                                            *)
dup_before(z, head, i) ==
    LET second == z.slots[head].next.slot
        whole  == chain(z, head)
    IN  IF head > i \/ second = 0 \/ second > i THEN head ELSE whole[Len(whole)]

attach_dup(k, z, head, i) ==
    LET p == dup_before(z, head, i)
    IN  IF p > i /\ p = head
        THEN set_accelerators([z EXCEPT !.slots[i].head = TRUE, !.slots[i].next = [of |-> k, slot |-> p],
                                        !.slots[p].head = FALSE], i)
        ELSE [z EXCEPT !.slots[i].head = FALSE, !.slots[i].next = z.slots[p].next, !.slots[p].next = [of |-> k, slot |-> i]]

(* mime_hdr_field_attach; check_for_dups is 0 when the caller knows of no duplicate *)
attached(k, z, i, check_for_dups) ==
    LET head == IF check_for_dups THEN field_find(z, z.slots[i].name) ELSE 0
        y    == Check([z EXCEPT !.slots[i].ready = "live"], head = 0 \/ z.slots[head].head)
        x    == IF head # 0 THEN attach_dup(k, y, head, i)
                ELSE set_accelerators([y EXCEPT !.slots[i].head = TRUE], i)
    IN  IF z.slots[i].value # NoValue THEN recook(x, z.slots[i].name) ELSE x

(* mime_hdr_field_detach of one field *)
detached(z, i) ==
    LET f    == z.slots[i]
        prev == LET c == chain(z, field_find(z, f.name)) IN {j \in ToSet(c) : z.slots[j].next.slot = i}
        y    == CASE f.head /\ f.next = Nil -> unset_accelerators(z, i)
                  [] f.head /\ f.next # Nil -> set_accelerators([z EXCEPT !.slots[f.next.slot].head = TRUE], f.next.slot)
                  [] OTHER -> IF prev = {} THEN Check(z, FALSE) ELSE [z EXCEPT !.slots[Lowest(prev)].next = f.next]
    IN  recook([y EXCEPT !.slots[i].ready = "detached", !.slots[i].next = Nil], f.name)

(* Detaching from i to the end of its duplicates. *)
detached_all(z, i) == FoldLeft(detached, z, chain(z, i))

destroyed(z, is) == [z EXCEPT !.slots = [j \in DOMAIN @ |-> IF j \in is THEN [@[j] EXCEPT !.ready = "deleted"] ELSE @[j]]]

(* mime_hdr_field_delete *)
deleted(z, i, all) ==
    IF all THEN destroyed(detached_all(z, i), ToSet(chain(z, i))) ELSE destroyed(detached(z, i), {i})

(* mime_field_value_set, and the operations on elements that end the same way *)
valued(z, i, v) ==
    LET y == [z EXCEPT !.slots[i].value = v]
    IN  IF z.slots[i].ready = "live" THEN recook(y, z.slots[i].name) ELSE y

(* mime_hdr_prepare_for_value_set, then the value *)
prepared(k, z, name, v) ==
    LET i == field_find(z, name)
        anew(y) == LET c == created(y, name, v) IN valued(attached(k, c, Len(c.slots), FALSE), Len(c.slots), v)
    IN  CASE i = 0 -> anew(z)
          [] i # 0 /\ z.slots[i].next # Nil -> anew(deleted(z, i, TRUE))
          [] OTHER -> valued(z, i, v)

-----------------------------------------------------------------------------
Room(k) == Len(h[k].slots) < MaxSlots
Put(k, z) == h' = [h EXCEPT ![k] = z]

Create(k, name, v) == Room(k) /\ Put(k, created(h[k], name, v))

Attach(k, i) ==
    /\ h[k].slots[i].ready = "detached"
    /\ LET before == {j \in LiveOf(h[k], h[k].slots[i].name) : j < i}
           after  == {j \in LiveOf(h[k], h[k].slots[i].name) : j > i}
       IN  AnyOrder \/ after = {} \/ Cardinality(before) <= 1
    /\ Put(k, attached(k, h[k], i, TRUE))

Detach(k, i, all) ==
    /\ i \in Live(h[k])
    /\ Put(k, IF all THEN detached_all(h[k], i) ELSE detached(h[k], i))

Delete(k, i, all) == i \in Live(h[k]) /\ Put(k, deleted(h[k], i, all))

ValueSet(k, i, v) == h[k].slots[i].ready # "deleted" /\ h[k].slots[i].value # v /\ Put(k, valued(h[k], i, v))

PrepareValueSet(k, name, v) == Room(k) /\ Put(k, prepared(k, h[k], name, v))

(* mime_field_value_insert_comma_val, mime_field_value_append *)
InsertComma(k, i, e) ==
    LET v == h[k].slots[i].value
    IN  /\ h[k].slots[i].ready # "deleted" /\ Len(v) < 2
        /\ Put(k, valued(h[k], i, IF v = NoValue THEN <<e>> ELSE Append(v, e)))

(* mime_field_value_delete_comma_val: the last one leaves a null value *)
DeleteComma(k, i, x) ==
    LET v == h[k].slots[i].value
    IN  /\ h[k].slots[i].ready # "deleted" /\ v # NoValue /\ x \in DOMAIN v
        /\ Put(k, valued(h[k], i, IF Len(v) = 1 THEN NoValue ELSE RemoveAt(v, x)))

FieldsClear(k) == h[k] # Fresh /\ Put(k, Fresh)

(* mime_hdr_copy_onto: the blocks are copied, then each pointer to a duplicate *)
(* is moved to the same place of the new blocks (live fields only).             *)
CopyOnto(s, d) ==
    /\ s # d /\ h[s].slots # <<>>
    /\ Put(d, [h[s] EXCEPT !.slots = [i \in DOMAIN @ |->
                  IF @[i].ready = "live" /\ @[i].next # Nil THEN [@[i] EXCEPT !.next.of = d] ELSE @[i]]])

Init == h = [k \in Hdrs |-> Fresh]

Next ==
    \/ \E k \in Hdrs, name \in Names, v \in Values : Create(k, name, v) \/ PrepareValueSet(k, name, v)
    \/ \E k \in Hdrs : \E i \in DOMAIN h[k].slots :
           \/ Attach(k, i)
           \/ \E all \in BOOLEAN : Detach(k, i, all) \/ Delete(k, i, all)
           \/ \E v \in Values : ValueSet(k, i, v)
           \/ \E e \in Elements : InsertComma(k, i, e)
           \/ \E x \in DOMAIN h[k].slots[i].value : DeleteComma(k, i, x)
    \/ \E k \in Hdrs : FieldsClear(k)
    \/ \E s, d \in Hdrs : CopyOnto(s, d)

Spec == Init /\ [][Next]_h

-----------------------------------------------------------------------------
TypeOK ==
    \A k \in Hdrs : h[k].presence \subseteq Wks /\ \A x \in Slotted : h[k].accel[x] \in 0 .. Unknown

(* The chain from the head of a name has every live field of the name, each once, *)
(* and there is one head; a field that is not live is in no chain.                *)
DupsComplete ==
    \A k \in Hdrs : \A name \in Names :
        LET heads == {i \in LiveOf(h[k], name) : h[k].slots[i].head}
        IN  /\ Cardinality(heads) = IF LiveOf(h[k], name) = {} THEN 0 ELSE 1
            /\ \A i \in heads : LET c == chain(h[k], i)
                                IN  ToSet(c) = LiveOf(h[k], name) /\ Len(c) = Cardinality(LiveOf(h[k], name))

(* maintain the invariant that dups are chained in slot order *)
DupsInSlotOrder ==
    \A k \in Hdrs : \A i \in Live(h[k]) : h[k].slots[i].next # Nil => h[k].slots[i].next.slot > i

(* re-find the field --- should always find the head dup: whatever was attached,  *)
(* detached and deleted, the bits and the accelerators lead to the head, or to    *)
(* nothing when there is no field of the name.                                    *)
FindsTheHead ==
    \A k \in Hdrs : \A name \in Names :
        LET i == field_find(h[k], name)
        IN  IF LiveOf(h[k], name) = {} THEN i = 0 ELSE i \in LiveOf(h[k], name) /\ h[k].slots[i].head

(* verify that the next dup pointer points to a block in this list: no header     *)
(* follows a pointer into another one.                                            *)
PointersInside ==
    \A k \in Hdrs : \A i \in Live(h[k]) :
        h[k].slots[i].next # Nil => h[k].slots[i].next.of = k /\ h[k].slots[i].next.slot \in Live(h[k])

(* The ink_asserts on the way: the duplicate that is found is a head, and the      *)
(* field before one that is detached is there.                                    *)
AssertsHold == \A k \in Hdrs : h[k].ok

(* The elements of all live fields of a name, in slot order. *)
AllElements(z, name) ==
    LET is == SelectSeq([i \in 1 .. Len(z.slots) |-> i], LAMBDA i : i \in LiveOf(z, name) /\ z.slots[i].value # NoValue)
    IN  FlattenSeq([j \in DOMAIN is |-> z.slots[is[j]].value])

(* The cooked values are those of the fields there are now: no directive is missed *)
(* and none is left of a field or a value that is gone. Two values hide what       *)
(* follows them and are excepted: an empty element with duplicates to come, and    *)
(* a null value at the head.                                                       *)
Hides(z, name) ==
    \E i \in LiveOf(z, name) :
        \/ z.slots[i].next # Nil /\ \E x \in DOMAIN z.slots[i].value : z.slots[i].value[x].d = ""
        \/ z.slots[i].head /\ z.slots[i].value = NoValue /\ z.slots[i].next # Nil
CookedIsCurrent ==
    \A k \in Hdrs :
        /\ "Cache-Control" \in Names /\ ~Hides(h[k], "Cache-Control") =>
               h[k].cc.mask = {e.d : e \in ToSet(AllElements(h[k], "Cache-Control"))} \intersect Directives
        /\ "Pragma" \in Names /\ ~Hides(h[k], "Pragma") =>
               (h[k].pragma <=> \E e \in ToSet(AllElements(h[k], "Pragma")) : e.d = "no-cache")

(* Even with values that hide others, nothing is cooked that no field says. *)
NothingLeftOver ==
    \A k \in Hdrs : "Cache-Control" \in Names =>
        h[k].cc.mask \subseteq {e.d : e \in ToSet(AllElements(h[k], "Cache-Control"))}
=============================================================================
