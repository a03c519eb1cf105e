----------------------------- MODULE NgxSpdyOut -----------------------------
(***************************************************************************)
(* The writing side of a SPDY connection: the queue of output frames by    *)
(* priority, the header and body filters of its streams, the write         *)
(* handler, and the end of streams and of the connection.                  *)
(*                                                                         *)
(* One thread: mode tells which connection handler runs ("idle" between    *)
(* events), run the stream whose request runs inside it, todo the streams  *)
(* the handler has still to call.  A frame has two bytes: a prefix of the  *)
(* queue, in bytes, is what the socket takes.                              *)
(***************************************************************************)
EXTENDS Integers, Sequences, SequencesExt, FiniteSets, FiniteSetsExt

CONSTANTS Sids, Prio,  \* streams and their priorities, 0 first
          MaxPieces,   \* pieces of a response's body
          MaxPings     \* pings of the client

VARIABLES q,    \* last_out, the first frame to be sent first
          st,   \* the streams
          c,    \* the connection
          wire  \* history: the frames of which the first byte was sent
ovars == <<q, st, c, wire>>

Highest == 0
NoStream == [state |-> "none", waiting |-> 0, error |-> FALSE, failed |-> FALSE, handled |-> FALSE,
             out_closed |-> FALSE, syn |-> FALSE, pieces |-> 0, last |-> FALSE]

Live(s) == {i \in Sids : s.st[i].state \in {"work", "flush", "dying"}}
-----------------------------------------------------------------------------
(* past the frames of lower priority, from the end; a reply stops at a blocked frame *)
PlaceFor(queue, f, holds) ==
    Max({i \in DOMAIN queue : queue[i].prio <= f.prio \/ (holds /\ queue[i].blocked)} \cup {0})
Insert(queue, f, holds) ==
    LET k == PlaceFor(queue, f, holds) IN SubSeq(queue, 1, k) \o <<f>> \o SubSeq(queue, k + 1, Len(queue))
(* ngx_http_spdy_queue_frame(), ngx_http_spdy_queue_blocked_frame() *)
queue_frame(s, f) == [s EXCEPT !.q = Insert(@, f, FALSE)]
queue_blocked_frame(s, f) == [s EXCEPT !.q = Insert(@, f, TRUE)]

Frame(k, i, prio, n, fin) == [k |-> k, s |-> i, prio |-> prio, n |-> n, fin |-> fin,
                              blocked |-> k = "syn", left |-> 2]

(* ngx_http_spdy_handle_stream(): only the write handler calls streams *)
handle_stream(s, i) ==
    IF s.st[i].handled \/ s.c.blocked # 2 THEN s
    ELSE [s EXCEPT !.st[i].handled = TRUE, !.c.todo = Append(@, i)]

(* ngx_http_spdy_syn_frame_handler(), ngx_http_spdy_data_frame_handler(),
   ngx_http_spdy_ctl_frame_handler(), ngx_http_spdy_handle_frame() *)
frame_handler(s, f) ==
    IF f.k \in {"ctl", "rst"} THEN s
    ELSE handle_stream([s EXCEPT !.st[f.s].waiting = @ - 1, !.st[f.s].out_closed = @ \/ f.fin], f.s)

(* what the socket takes of the queue, of which it takes m bytes *)
Size(queue) == FoldSeq(LAMBDA f, a : f.left + a, 0, queue)
Taken(queue, m) ==
    [i \in DOMAIN queue |-> Min({queue[i].left, Max({m - Size(SubSeq(queue, 1, i - 1)), 0})})]

(* the history of the wire: t bytes of frame f *)
FrameId(f) == <<f.k, f.s, f.n>>
OnWire(h, f, t) ==
    LET first == f.left = 2
        next == IF f.k = "syn" THEN 1 ELSE h.next[f.s] + 1 IN
    IF t = 0 THEN h
    ELSE [h EXCEPT !.torn = @ \/ h.part # (IF first THEN <<>> ELSE FrameId(f)),
                   !.part = IF f.left > t THEN FrameId(f) ELSE <<>>,
                   !.syns = IF first /\ f.k = "syn" THEN Append(@, f.s) ELSE @,
                   !.next = IF first /\ f.k \in {"syn", "data"} THEN [@ EXCEPT ![f.s] = next] ELSE @,
                   !.bad = @ \/ (first /\ f.k = "data" /\ f.n # h.next[f.s] + 1)]

(* the first frame left is the one a part of may be on the wire *)
Hold(f) == [f EXCEPT !.blocked = TRUE, !.prio = Highest]

(* ngx_http_spdy_send_output_queue() when the socket takes m bytes *)
send_output_queue(s, m) ==
    LET t == Taken(s.q, m)
        cut == [i \in DOMAIN s.q |-> [s.q[i] EXCEPT !.left = @ - t[i]]]
        done == Cardinality({i \in DOMAIN cut : cut[i].left = 0})
        rest == SubSeq(cut, done + 1, Len(cut))
        s1 == [s EXCEPT !.q = IF rest = <<>> THEN rest ELSE <<Hold(rest[1])>> \o Tail(rest),
                        !.c.wready = rest = <<>>, !.c.wtimer = rest # <<>>,
                        !.wire = FoldLeftDomain(LAMBDA h, i : OnWire(h, s.q[i], t[i]), @, s.q)]
        s2 == FoldLeft(frame_handler, s1, SubSeq(cut, 1, done))
    IN  IF rest # <<>> /\ rest[1].k = "data" /\ rest[1].left = 1 THEN handle_stream(s2, rest[1].s) ELSE s2
(* ... and when the socket fails; the write event is posted *)
send_error(s) == [s EXCEPT !.c.error = TRUE, !.c.posted = IF s.c.blocked = 0 THEN "write" ELSE @]

S == [q |-> q, st |-> st, c |-> c, wire |-> wire]
Becomes(s) == q' = s.q /\ st' = s.st /\ c' = s.c /\ wire' = s.wire

(* ngx_http_spdy_filter_send() of stream i; failed: the filter answers NGX_ERROR *)
filter_send(s, i) ==
    IF s.c.error THEN Becomes([s EXCEPT !.st[i].failed = TRUE])
    ELSE IF ~s.c.wready THEN Becomes(s)
    ELSE \/ \E m \in 0..Size(s.q) : Becomes(send_output_queue(s, m))
         \/ Becomes([send_error(s) EXCEPT !.st[i].failed = TRUE])

-----------------------------------------------------------------------------
(* The end of a stream and of the connection *)

(* ngx_http_spdy_close_stream(), ngx_http_spdy_send_rst_stream() *)
close_stream(s, i) ==
    LET r == s.st[i]
        s1 == [s EXCEPT !.st[i].state = "gone"]
        s2 == IF r.out_closed \/ s.c.error THEN s1
              ELSE queue_frame(s1, Frame("rst", i, Prio[i], 0, TRUE))
    IN  IF Live(s2) = {} /\ s.c.blocked = 0 THEN [s2 EXCEPT !.c.posted = "handle"] ELSE s2

(* ngx_http_spdy_filter_cleanup() *)
filter_cleanup(s, i) ==
    LET mine(f) == f.k \in {"syn", "data"} /\ f.s = i /\ ~f.blocked IN
    [s EXCEPT !.q = SelectSeq(@, LAMBDA f : ~mine(f)),
              !.st[i].waiting = @ - Cardinality({j \in DOMAIN s.q : mine(s.q[j])})]

(* ngx_http_terminate_request(): frames of which a part is sent are waited for *)
terminate(s, i) ==
    LET s1 == filter_cleanup(s, i) IN
    IF s1.st[i].waiting > 0 THEN [s1 EXCEPT !.st[i].state = "dying"] ELSE close_stream(s1, i)

close(s) == [s EXCEPT !.c.closed = TRUE, !.c.mode = "idle", !.c.posted = "none", !.c.rtimer = FALSE,
                      !.c.wtimer = FALSE]

(* ngx_http_spdy_handle_connection() *)
handle_connection(s) ==
    CASE s.q # <<>> \/ Live(s) # {} -> s
      [] s.q = <<>> /\ Live(s) = {} /\ s.c.error -> close(s)
      [] s.q = <<>> /\ Live(s) = {} /\ ~s.c.error /\ s.c.waiting -> [s EXCEPT !.c.rtimer = TRUE]
      [] OTHER -> [s EXCEPT !.c.handler = "keepalive", !.c.rtimer = TRUE, !.c.wtimer = FALSE]

(* ngx_http_spdy_finalize_connection() up to its loop over the streams *)
finalize_connection(s) ==
    IF Live(s) = {} THEN close(s)
    ELSE [s EXCEPT !.c.error = TRUE, !.c.handler = "empty", !.q = <<>>, !.c.blocked = 1,
                   !.c.mode = "final", !.c.todo = SetToSeq(Live(s)), !.c.rtimer = FALSE]

-----------------------------------------------------------------------------
(* The request of the stream that runs *)
Runs(i) == c.run = i /\ ~st[i].failed

(* ngx_http_spdy_header_filter(): the headers are compressed here *)
header_filter(i) ==
    /\ Runs(i) /\ ~st[i].syn
    /\ \E only \in BOOLEAN :
         filter_send(queue_blocked_frame(
                       [S EXCEPT !.st[i].syn = TRUE, !.st[i].waiting = @ + 1, !.st[i].last = only,
                                 !.wire.comp = Append(@, i)],
                       Frame("syn", i, Prio[i], 1, only)), i)
(* ngx_http_spdy_body_filter() *)
body_filter(i) ==
    /\ Runs(i) /\ st[i].syn /\ ~st[i].last /\ st[i].pieces < MaxPieces
    /\ \E last \in {TRUE, st[i].pieces + 1 = MaxPieces} :
         filter_send(queue_frame([S EXCEPT !.st[i].pieces = @ + 1, !.st[i].waiting = @ + 1,
                                           !.st[i].last = last],
                                 Frame("data", i, Prio[i], st[i].pieces + 2, last)), i)
(* ngx_http_finalize_request() of a response that is complete *)
Finish(i) ==
    /\ Runs(i) /\ st[i].last
    /\ Becomes([IF st[i].waiting = 0 THEN close_stream(S, i) ELSE [S EXCEPT !.st[i].state = "flush"]
                  EXCEPT !.c.run = "none"])
(* the request fails, or its connection does *)
Abort(i) == c.run = i /\ Becomes([terminate(S, i) EXCEPT !.c.run = "none"])
(* the request waits for an event of its own *)
Return(i) == Runs(i) /\ ~st[i].last /\ c' = [c EXCEPT !.run = "none"] /\ UNCHANGED <<q, st, wire>>

Request(i) == header_filter(i) \/ body_filter(i) \/ Finish(i) \/ Abort(i) \/ Return(i)

-----------------------------------------------------------------------------
(* Events *)
AtRest == c.mode = "idle" /\ c.run = "none" /\ ~c.closed
Calm == AtRest /\ c.posted = "none"

(* an event of a request's own *)
Event(i) == Calm /\ st[i].state = "work" /\ c' = [c EXCEPT !.run = i] /\ UNCHANGED <<q, st, wire>>

(* ngx_http_spdy_read_handler() *)
read_handler(s) == [s EXCEPT !.c.mode = "read", !.c.blocked = 1, !.c.waiting = FALSE]
Readable == Calm /\ c.handler = "read" /\ Becomes(read_handler(S))
Reading == c.mode = "read" /\ c.run = "none"
(* a SYN_STREAM frame, of a stream that is taken *)
NewStream(i) == /\ Reading /\ st[i].state = "none"
                /\ Becomes([S EXCEPT !.st[i].state = "work", !.c.run = i])
(* a PING frame (or a stream that is refused): the answer is queued *)
Ping == /\ Reading /\ c.pings < MaxPings
        /\ Becomes(queue_frame([S EXCEPT !.c.pings = @ + 1],
                               Frame("ctl", "none", Highest, c.pings, FALSE)))
(* a RST_STREAM frame; the request may not listen *)
Cancel(i) == /\ Reading /\ i \in Live(S) /\ ~st[i].error
             /\ LET s == [S EXCEPT !.st[i].error = TRUE, !.st[i].out_closed = TRUE] IN
                \/ Becomes(terminate(s, i))
                \/ st[i].state = "work" /\ Becomes(s)
Eof == Reading /\ Becomes(finalize_connection(S))
EndRead == /\ Reading
           /\ \E waiting \in BOOLEAN :
                LET s == [S EXCEPT !.c.mode = "idle", !.c.blocked = 0, !.c.waiting = waiting] IN
                Becomes(IF Live(s) # {} THEN [s EXCEPT !.c.rtimer = FALSE] ELSE handle_connection(s))

(* ngx_http_spdy_write_handler() *)
Writable ==
    /\ Calm /\ ~c.wready /\ ~c.error /\ c.handler # "keepalive"
    /\ LET s == [S EXCEPT !.c.blocked = 2] IN
       \/ \E m \in 1..Size(q) : Becomes([send_output_queue(s, m) EXCEPT !.c.mode = "write", !.c.blocked = 1])
       \/ Becomes(finalize_connection(send_error(s)))
Written == AtRest /\ c.posted = "write" /\ Becomes(finalize_connection([S EXCEPT !.c.posted = "none"]))

(* Mutant: a request that has nothing more to send is not called *)
Called_NotFlush(s, i) ==
    IF s.st[i].state = "work" THEN [s EXCEPT !.c.run = i] ELSE s
(* the write event of stream i: its request goes on, or ends *)
Called(s, i) ==
    CASE s.st[i].state = "work" -> [s EXCEPT !.c.run = i]
      [] s.st[i].state = "flush" /\ s.st[i].error -> terminate(s, i)
      [] s.st[i].state = "flush" /\ ~s.st[i].error /\ s.st[i].waiting = 0 -> close_stream(s, i)
      [] s.st[i].state = "dying" -> terminate(s, i)
      [] OTHER -> s
CallNext ==
    /\ c.mode = "write" /\ c.run = "none" /\ c.todo # <<>>
    /\ LET i == Head(c.todo) IN
       Becomes(Called([S EXCEPT !.c.todo = Tail(@), !.st[i].handled = FALSE], i))
EndWrite == /\ c.mode = "write" /\ c.run = "none" /\ c.todo = <<>>
            /\ Becomes(handle_connection([S EXCEPT !.c.mode = "idle", !.c.blocked = 0]))

(* the loop of ngx_http_spdy_finalize_connection(); a request may not listen *)
FinalNext ==
    /\ c.mode = "final" /\ c.todo # <<>>
    /\ LET i == Head(c.todo)
           s == [S EXCEPT !.c.todo = Tail(@), !.st[i].error = TRUE, !.st[i].waiting = 0] IN
       \/ Becomes(terminate(s, i))
       \/ st[i].state = "work" /\ Becomes(s)
EndFinal == /\ c.mode = "final" /\ c.todo = <<>>
            /\ LET s == [S EXCEPT !.c.mode = "idle", !.c.blocked = 0] IN
               Becomes(IF Live(s) = {} THEN close(s) ELSE s)

(* ngx_http_spdy_handle_connection_handler() *)
Handled == /\ AtRest /\ c.posted = "handle"
           /\ LET s == [S EXCEPT !.c.posted = "none", !.c.handler = "read"] IN
              Becomes(read_handler(s)) \/ Becomes(handle_connection(s))
(* ngx_http_spdy_keepalive_handler() *)
Keepalive == /\ Calm /\ c.handler = "keepalive"
             /\ Becomes(read_handler([S EXCEPT !.c.handler = "read"])) \/ Becomes(close(S))
Timeout == /\ Calm
           /\ \/ c.rtimer /\ c.handler = "read" /\ Becomes(finalize_connection(S))
              \/ c.wtimer /\ Becomes(finalize_connection(S))
(* a reply queued after the connection was given up: nobody will send it *)
Orphan(i) == st[i].state = "dying" /\ c.error /\ \E j \in DOMAIN q : q[j].k = "syn" /\ q[j].s = i
Closed == (c.closed \/ (Calm /\ \E i \in Sids : Orphan(i))) /\ UNCHANGED ovars

Init == /\ q = <<>> /\ st = [i \in Sids |-> NoStream]
        /\ c = [error |-> FALSE, wready |-> TRUE, wtimer |-> FALSE, rtimer |-> TRUE, blocked |-> 0,
                posted |-> "none", handler |-> "read", waiting |-> FALSE, closed |-> FALSE, pings |-> 0,
                mode |-> "idle", run |-> "none", todo |-> <<>>]
        /\ wire = [part |-> <<>>, torn |-> FALSE, bad |-> FALSE, syns |-> <<>>, comp |-> <<>>,
                   next |-> [i \in Sids |-> 0]]

Handlers == CallNext \/ EndWrite \/ FinalNext \/ EndFinal \/ Handled \/ Written
Next == \/ Readable \/ Ping \/ Eof \/ EndRead \/ Writable \/ Keepalive \/ Timeout \/ Closed \/ Handlers
        \/ \E i \in Sids : Request(i) \/ Event(i) \/ NewStream(i) \/ Cancel(i)

(* Handlers run to their end and the loop of the read handler ends (weak
   fairness, written with the guards); a request with an event is called, one
   that is called again and again gets on with its response, and a client that
   does not read is written to or timed out (strong fairness, likewise). *)
HandlerReady == \/ c.mode \in {"write", "final"} /\ c.run = "none"
                \/ AtRest /\ c.posted # "none"
Progress(i) == <<st[i].syn, st[i].pieces, st[i].state>>
LoopRuns == /\ []<>~HandlerReady \/ []<><<TRUE>>_c
            /\ []<>(c.mode # "read" \/ c.run # "none")
            /\ []<>(c.run = "none")
            /\ <>[]~(Calm /\ ~c.wready /\ c.wtimer) \/ []<>(c.mode \in {"write", "final"})
StreamRuns(i) == /\ <>[]~(Calm /\ st[i].state = "work") \/ []<>(c.run = i)
                 /\ <>[](c.run # i) \/ []<><<TRUE>>_(Progress(i))
Spec == Init /\ [][Next]_ovars /\ LoopRuns /\ \A i \in Sids : StreamRuns(i)

-----------------------------------------------------------------------------
(* Types; between events a stream counts exactly its frames in the queue, and
   the queue holds frames of streams that exist. *)
TypeOK ==
    /\ c.blocked \in 0..2 /\ c.mode \in {"idle", "read", "write", "final"}
    /\ AtRest => \A i \in Live(S) : ~st[i].handled
    /\ \A i \in Live(S) : c.mode # "final" =>
         st[i].waiting = Cardinality({j \in DOMAIN q : q[j].k \in {"syn", "data"} /\ q[j].s = i})
    /\ ~c.closed => \A j \in DOMAIN q : q[j].k \in {"syn", "data"} => q[j].s \in Live(S)

(* The headers of all replies share one compressor: replies leave in the order
   in which they were compressed, whatever their priorities. *)
RepliesInOrder == IsPrefix(wire.syns, wire.comp)
(* Once a byte of a frame is sent, the next bytes are the rest of the frame. *)
FramesWhole == ~wire.torn
(* The frames of a stream leave in order, its reply first. *)
StreamInOrder == ~wire.bad

(* Between events an open connection with nothing to send and no stream has a
   timer, and so has one whose client does not read. *)
Attended == Calm => /\ Live(S) # {} \/ q # <<>> \/ c.rtimer
                    /\ q # <<>> /\ ~c.wready /\ ~c.error => c.wtimer

(* A stream ends, whatever the others do: its response is sent, or it is reset,
   or its connection is given up, except when its reply comes after that. *)
StreamEnds(i) == st[i].state = "work" ~> (st[i].state = "gone" \/ c.closed \/ Orphan(i))
=============================================================================
