----------------------------- MODULE HttpTunnel -----------------------------
(***************************************************************************)
(* HttpTunnel moves a body from producers to consumers: the origin server  *)
(* or a transform on one side, the client, the cache and a transform on    *)
(* the other.  The tunnel runs under one lock: each event of a connection  *)
(* is handled to its end, with the callbacks to the state machine and what *)
(* they do.  A body is counted in units: the header is one unit, a chunk   *)
(* is its size and one unit of data.                                       *)
(* The tunnel starts with its consumers attached.                          *)
(***************************************************************************)
EXTENDS Integers, Sequences, SequencesExt, FiniteSets, FiniteSetsExt

CONSTANTS Producers, Consumers,    \* sequences: the arrays producers[] and consumers[]
          PType, CType,   \* HttpTunnelType_t of each
          Feeds,          \* consumer -> its producer
          SelfC, SelfP,   \* self_consumer, self_producer, or None
          Action,         \* chunking_action of each producer
          None,
          Known,          \* the server has announced the length of the body
          BodyLen,        \* units of data the server has
          High, Low, FlowOn,  \* FlowControl
          Cap             \* room of a read buffer

VARIABLE t    \* the tunnel
Inf == 1000
Hdr == 1

ConsOf(p) == SelectSeq(Consumers, LAMBDA c : Feeds[c] = p)
is_sink(c) == CType[c] \in {"client", "cache"}
is_source(p) == PType[p] \in {"server", "cache_read", "client"}
is_throttled(s, p) == s.src[p] # None
ReadsChunks(p) == Action[p] \in {"dechunk", "pass_chunked"}
(* what the server sends for its body: every chunk with its size, the last one empty *)
WireLen(p) == IF ReadsChunks(p) THEN 2 * BodyLen + 1 ELSE BodyLen
Dechunked(s, p) == s.got[p] \div 2
ChunksDone(s, p) == s.got[p] = 2 * BodyLen + 1

(* the units that the producer has placed in the buffer of a consumer *)
Placed(s, c) ==
    LET p == Feeds[c] IN
    CASE CType[c] = "cache" /\ ReadsChunks(p) -> Hdr + Dechunked(s, p)
      [] CType[c] # "cache" /\ Action[p] = "chunk" -> Hdr + s.chunked[p]
      [] CType[c] # "cache" /\ Action[p] = "dechunk" -> Hdr + Dechunked(s, p)
      [] OTHER -> Hdr + s.got[p]
skip_bytes(c) == IF CType[c] \in {"cache", "transform"} THEN Hdr ELSE 0
read_avail(s, c) == Placed(s, c) - skip_bytes(c) - s.ndone[c]

InReadBuffer(c) == LET a == Action[Feeds[c]]
                   IN  IF CType[c] = "cache" THEN a \in {"none", "chunk"} ELSE a \in {"none", "pass_chunked"}
write_avail(s, p) == \A c \in Range(ConsOf(p)) : s.calive[c] /\ InReadBuffer(c) => read_avail(s, c) < Cap

(* HttpTunnelProducer::backlog() *)
RECURSIVE backlog(_, _)
backlog(s, p) ==
    LET live == {c \in Range(ConsOf(p)) : s.calive[c] /\ s.wvio[c]}
        inside(c) == IF CType[c] = "transform" /\ SelfP[c] # None THEN s.ndone[c] - s.got[SelfP[c]] ELSE 0
        path(c) == read_avail(s, c) + inside(c)
                   + (IF ~is_sink(c) /\ SelfP[c] # None THEN backlog(s, SelfP[c]) ELSE 0)
    IN  IF live = {} THEN 0 ELSE Max({path(c) : c \in live})

(* HttpTunnelProducer::set_throttle_src(): the whole chain of flow *)
RECURSIVE set_throttle_src(_, _, _)
set_throttle_src(s, p, src) ==
    FoldLeft(LAMBDA a, c : IF is_sink(c) \/ SelfP[c] = None THEN a ELSE set_throttle_src(a, SelfP[c], src),
             [s EXCEPT !.src[p] = src], ConsOf(p))
throttle(s, p) == IF is_throttled(s, p) THEN s ELSE set_throttle_src(s, p, p)
unthrottle(s, p) == IF is_throttled(s, p) THEN set_throttle_src(s, p, None) ELSE s

Bad(s, what) == [s EXCEPT !.bad = @ \cup {what}]
WakeConsumers(s, p) ==
    FoldLeft(LAMBDA a, c : IF ~a.calive[c] THEN a
                           ELSE IF ~a.wvio[c] THEN Bad(a, "no write vio") ELSE [a EXCEPT !.wen[c] = TRUE],
             s, ConsOf(p))
ReenableRead(s, p) == IF ~s.rvio[p] THEN Bad(s, "no read vio") ELSE [s EXCEPT !.ren[p] = TRUE]

(* producer_handler_dechunked(): generate_chunked_content() *)
generate_chunked_content(s, p, ev) ==
    LET n == s.got[p] - s.taken[p] IN
    [s EXCEPT !.taken[p] = s.got[p],
              !.chunked[p] = @ + (IF n > 0 THEN n + 1 ELSE 0) + (IF ev = "READ_READY" THEN 0 ELSE 1)]

-----------------------------------------------------------------------------
(* the ends of connections *)
CloseCons(s, c, how) == [s EXCEPT !.calive[c] = FALSE, !.wvio[c] = FALSE, !.ended[c] = how]

RECURSIVE chain_abort_all(_, _)
chain_abort_all(s, p) ==
    LET behind(a, c) == IF SelfP[c] # None THEN chain_abort_all(a, SelfP[c]) ELSE a
        one(a, c) == behind(IF a.calive[c] THEN CloseCons(a, c, "aborted") ELSE a, c)
        self(a) == IF ~a.palive[p] THEN a
                   ELSE [a EXCEPT !.palive[p] = FALSE, !.rvio[p] = FALSE, !.closed[p] = TRUE,
                                  !.calive = IF SelfC[p] = None THEN @ ELSE [@ EXCEPT ![SelfC[p]] = FALSE]]
    IN  self(FoldLeft(one, s, ConsOf(p)))

(* Mutant: cache writes behind a transform are forgotten *)
chain_abort_cache_write_Direct(s, p) ==
    FoldLeft(LAMBDA a, c : IF a.calive[c] /\ CType[c] = "cache" /\ PType[p] # "server" THEN CloseCons(a, c, "aborted") ELSE a,
             s, ConsOf(p))
RECURSIVE chain_abort_cache_write(_, _)
chain_abort_cache_write(s, p) ==
    FoldLeft(LAMBDA a, c : IF ~a.calive[c] THEN a
                           ELSE IF CType[c] = "cache" THEN CloseCons(a, c, "aborted")
                           ELSE IF SelfP[c] # None THEN chain_abort_cache_write(a, SelfP[c]) ELSE a,
             s, ConsOf(p))

(* producer_handler(READ_READY), as the consumers' side calls it *)
producer_ready(s, p) ==
    LET s0 == IF s.palive[p] THEN s ELSE [s EXCEPT !.late = TRUE]
        s1 == IF Action[p] = "chunk" THEN generate_chunked_content(s0, p, "READ_READY") ELSE s0
    IN  WakeConsumers(s1, p)

(* Mutant: the source is not asked for more *)
consumer_reenable_NoKick(s, c) == s
consumer_reenable(s, c) ==
    LET p == Feeds[c]
        srcp == s.src[p]
        mine == IF FlowOn /\ is_source(p) THEN backlog(s, p) ELSE 0
        theirs == IF srcp # None /\ srcp # p THEN backlog(s, srcp) ELSE mine
        s1 == IF srcp # None /\ is_sink(c) /\ theirs < Low
              THEN producer_ready(ReenableRead(unthrottle(s, srcp), srcp), srcp) ELSE s
    IN  CASE ~s.palive[p] \/ ~write_avail(s, p) -> s
          [] s.palive[p] /\ write_avail(s, p) /\ mine >= High -> throttle(s, p)
          [] OTHER -> ReenableRead(s1, p)

(* the state machine's answer to the end of a consumer: bg is background fill *)
sm_consumer(s, c, ev, bg) ==
    LET p == Feeds[c]
        top == IF SelfC[p] = None THEN None ELSE Feeds[SelfC[p]]
        above(a) == IF top # None /\ a.palive[top] THEN chain_abort_all(a, top) ELSE a
        lastOne == \A d \in Range(ConsOf(p)) : ~s.calive[d]
    IN  CASE ev = "WRITE_COMPLETE" -> s
          [] ev # "WRITE_COMPLETE" /\ CType[c] = "cache" /\ ~lastOne -> s
          [] ev # "WRITE_COMPLETE" /\ CType[c] = "client" /\ bg /\ ~lastOne -> s
          [] OTHER -> above(chain_abort_all(s, p))

(* consumer_handler() for the events that end a consumer *)
consumer_handler(s, c, ev, bg) ==
    LET s0 == IF s.calive[c] THEN s ELSE Bad(s, "dead consumer")
        s1 == [s0 EXCEPT !.calive[c] = FALSE, !.ended[c] = IF ev = "WRITE_COMPLETE" THEN "complete" ELSE "error"]
        p == Feeds[c]
        wake(a) == IF a.palive[p] /\ a.rvio[p] /\ write_avail(a, p)
                   THEN IF is_throttled(a, p) THEN consumer_reenable(a, c) ELSE ReenableRead(a, p)
                   ELSE a
    IN  wake(sm_consumer(s1, c, ev, bg))

(* finish_all_internal(): a consumer is told how much there will be, and is done if it has that *)
total_bytes(s, c) == Placed(s, c)
finish_all_internal(s, p) ==
    LET sane(a, c) == IF a.nbytes[c] < 0 THEN Bad(a, "negative size") ELSE a
        over(a, c) == IF a.nbytes[c] = a.ndone[c] THEN consumer_handler(a, c, "WRITE_COMPLETE", FALSE) ELSE a
        one(a, c) == IF ~a.calive[c] THEN a
                     ELSE over(sane([a EXCEPT !.nbytes[c] = total_bytes(a, c) - skip_bytes(c)], c), c)
    IN  FoldLeft(one, IF s.palive[p] THEN Bad(s, "finishing a live producer") ELSE s, ConsOf(p))

(* close_vc() of a producer *)
close_vc(s, p) == [s EXCEPT !.closed[p] = TRUE,
                            !.calive = IF SelfC[p] = None THEN @ ELSE [@ EXCEPT ![SelfC[p]] = FALSE]]

(* the state machine's answer to the end of a producer *)
Truncated(s, p) == s.trunc[p] \/ (Known /\ PType[p] = "server" /\ s.got[p] < s.want[p])
                   \/ (SelfC[p] # None /\ ~s.success[Feeds[SelfC[p]]])
sm_producer(s, p, ev, abort) ==
    IF ev = "ERROR" /\ abort THEN chain_abort_all(s, p)
    ELSE LET abort_cache_write == ev = "ERROR" \/ Truncated(s, p)
         IN  close_vc(finish_all_internal(IF abort_cache_write THEN chain_abort_cache_write(s, p)
                                          ELSE [s EXCEPT !.success[p] = TRUE], p), p)

(* producer_handler_chunked(): the event that stands for the state of the chunks *)
ChunkedEvent(s, p, ev) == IF ReadsChunks(p) /\ ev = "READ_READY" /\ ChunksDone(s, p) THEN "READ_COMPLETE" ELSE ev
SeenTruncation(s, p, ev) ==
    IF ReadsChunks(p) /\ ev \in {"EOS", "READ_COMPLETE", "PRECOMPLETE"} /\ ~ChunksDone(s, p)
    THEN [s EXCEPT !.trunc[p] = TRUE] ELSE s

producer_handler(s, p, ev0, abort) ==
    LET ev == ChunkedEvent(s, p, ev0)
        s0 == IF Action[p] = "chunk" /\ ev0 # "ERROR" THEN generate_chunked_content(s, p, ev0)
              ELSE SeenTruncation(s, p, ev0)
        dead(a) == IF ev = "PRECOMPLETE" /\ Action[p] # "chunk" THEN a
                   ELSE [a EXCEPT !.palive[p] = FALSE,
                                  !.bad = IF ev # "ERROR" \/ a.rvio[p] THEN @ ELSE @ \cup {"no read vio"}]
        after(a) == IF ev = "ERROR" \/ (ev = "PRECOMPLETE" /\ Action[p] # "chunk") THEN a ELSE WakeConsumers(a, p)
    IN  after(IF ev = "READ_READY" THEN s0 ELSE sm_producer(dead(s0), p, ev, abort))

(* main_handler(): after a callback the tunnel may be over *)
is_tunnel_alive(s) == (\E p \in Range(Producers) : s.palive[p]) \/ (\E c \in Range(Consumers) : s.calive[c])
main_handler(s) == IF is_tunnel_alive(s) THEN s ELSE [s EXCEPT !.active = FALSE, !.done = @ + 1]

-----------------------------------------------------------------------------
PF(v) == [p \in Range(Producers) |-> v]
CF(v) == [c \in Range(Consumers) |-> v]
(* pre: units of the body that came with the header *)
add_producer(pre) ==
    [palive |-> PF(TRUE), rvio |-> PF(FALSE), ren |-> PF(FALSE), closed |-> PF(FALSE), success |-> PF(FALSE),
     got |-> [p \in Range(Producers) |-> IF PType[p] = "server" THEN pre ELSE 0],
     want |-> [p \in Range(Producers) |-> IF PType[p] = "server" /\ Known THEN BodyLen ELSE Inf],
     chunked |-> PF(0), taken |-> PF(0), trunc |-> PF(FALSE), src |-> PF(None),
     calive |-> CF(TRUE), wvio |-> CF(FALSE), wen |-> CF(FALSE), nbytes |-> CF(Inf), ndone |-> CF(0),
     ended |-> CF("no"), active |-> FALSE, done |-> 0, bad |-> {}, late |-> FALSE]
Init == \E pre \in 0..1 : pre <= BodyLen /\ t = add_producer(pre)

(* producer_run(): the consumers first, then the producer *)
consumer_n(p) == IF Known /\ PType[p] = "server" /\ ~ReadsChunks(p) THEN Hdr + BodyLen ELSE Inf
RunConsumer(s, c) ==
    LET p == Feeds[c]
        c_write == IF consumer_n(p) = Inf \/ Action[p] = "chunk" THEN Inf ELSE consumer_n(p) - skip_bytes(c)
    IN  IF c_write = 0 THEN consumer_handler(s, c, "WRITE_COMPLETE", FALSE)
        ELSE [s EXCEPT !.wvio[c] = TRUE, !.wen[c] = TRUE, !.nbytes[c] = c_write]
RunProducer(s, p) ==
    LET rest(a) == IF ~a.palive[p] THEN a
                   ELSE IF a.want[p] = a.got[p]
                   THEN producer_handler([a EXCEPT !.palive[p] = FALSE, !.success[p] = TRUE], p, "PRECOMPLETE", FALSE)
                   ELSE [a EXCEPT !.rvio[p] = TRUE, !.ren[p] = TRUE]
    IN  rest(IF Action[p] # "none" /\ s.got[p] > 0 THEN producer_handler(s, p, "READ_READY", FALSE) ELSE s)
producer_run(s, p) == RunProducer(FoldLeft(RunConsumer, [s EXCEPT !.active = TRUE], ConsOf(p)), p)
tunnel_run ==
    /\ ~t.active /\ t.done = 0
    /\ t' = main_handler(FoldLeft(producer_run, t, Producers))

(* a connection reads: what the server or the transform still has *)
Readable(p) == t.got[p] < IF SelfC[p] = None THEN WireLen(p) ELSE t.ndone[SelfC[p]]
CanRead(p) == t.active /\ t.palive[p] /\ t.rvio[p] /\ t.ren[p]
Read(p) ==
    /\ CanRead(p)
    /\ IF ~write_avail(t, p) THEN t' = [t EXCEPT !.ren[p] = FALSE]
       ELSE /\ Readable(p)
            /\ LET s == [t EXCEPT !.got[p] = @ + 1]
               IN  t' = main_handler(producer_handler(s, p, IF s.got[p] = s.want[p] THEN "READ_COMPLETE" ELSE "READ_READY", FALSE))
(* the server closes, perhaps before its time; a transform ends when it has passed everything on *)
Close(p) ==
    /\ CanRead(p) /\ write_avail(t, p)
    /\ SelfC[p] # None => t.ended[SelfC[p]] = "complete" /\ ~Readable(p)
    /\ t' = main_handler(producer_handler(t, p, "EOS", FALSE))
Fail(p) ==
    /\ CanRead(p) /\ PType[p] = "server"
    /\ \E abort \in BOOLEAN : t' = main_handler(producer_handler(t, p, "ERROR", abort))

CanWrite(c) == t.active /\ t.calive[c] /\ t.wvio[c] /\ t.wen[c]
(* a connection writes: all that it has, or one unit, and asks for more *)
Write(c) ==
    /\ CanWrite(c)
    /\ LET a == read_avail(t, c)
           left == t.nbytes[c] - t.ndone[c]
       IN  IF a = 0 THEN LET s == consumer_reenable(t, c)
                         IN  t' = [s EXCEPT !.wen[c] = read_avail(s, c) > 0]
           ELSE \E n \in {1, IF a < left THEN a ELSE left} :
                  LET s == [t EXCEPT !.ndone[c] = @ + n]
                  IN  t' = IF s.ndone[c] = s.nbytes[c] THEN main_handler(consumer_handler(s, c, "WRITE_COMPLETE", FALSE))
                           ELSE consumer_reenable(s, c)
WriteFails(c) ==
    /\ t.active /\ t.calive[c] /\ t.wvio[c] /\ is_sink(c)
    /\ \E bg \in BOOLEAN : t' = main_handler(consumer_handler(t, c, "ERROR", bg))
(* kill_tunnel() and reset(): the state machine gives up *)
kill_tunnel ==
    /\ t.active
    /\ LET s == FoldLeft(chain_abort_all, t, Producers)
       IN  t' = [s EXCEPT !.active = FALSE, !.done = 1,
                          !.bad = @ \cup (IF is_tunnel_alive(s) THEN {"reset of a live tunnel"} ELSE {})]
(* a transform that waits for room which an aborted cache write kept from it, and whose other readers wait for it *)
Forsaken ==
    \E p \in Range(Producers) :
        /\ SelfC[p] # None /\ t.palive[p] /\ ~t.ren[p]
        /\ \E c \in Range(ConsOf(p)) : CType[c] = "cache" /\ t.ended[c] = "aborted"
        /\ \A c \in Range(Consumers) : t.calive[c] => ~t.wen[c]
Over == (t.done > 0 \/ Forsaken) /\ UNCHANGED t

Next == tunnel_run \/ kill_tunnel \/ Over \/ (\E p \in Range(Producers) : Read(p) \/ Close(p) \/ Fail(p))
        \/ (\E c \in Range(Consumers) : Write(c) \/ WriteFails(c))
HasNews(p) == CanRead(p) /\ (~write_avail(t, p) \/ SelfC[p] = None \/ Readable(p) \/ t.ended[SelfC[p]] = "complete")
(* a peer that may be read in the end sends or closes, and one that may be written takes what there is *)
Fairness ==
    /\ []<>(t.active \/ t.done > 0)
    /\ \A p \in Range(Producers) : []<>~HasNews(p) \/ []<><<Read(p) \/ Close(p)>>_t
    /\ \A c \in Range(Consumers) : []<>~CanWrite(c) \/ []<><<Write(c)>>_t
Spec == Init /\ [][Next]_t /\ Fairness

-----------------------------------------------------------------------------
(* The assertions of the tunnel hold: nobody dead is called back, no connection without its VIO is woken, *)
(* no size is negative, and DONE is announced once.                                                       *)
AssertsHold == t.bad = {} /\ t.done <= 1 /\ \A c \in DOMAIN t.ndone : t.ndone[c] <= t.nbytes[c]
(* A document is in the cache as complete only when all of it came: a known length was reached, or the last chunk seen. *)
CachedIsWhole ==
    \A c \in Range(Consumers) : CType[c] = "cache" /\ t.ended[c] = "complete" /\ (Known \/ ReadsChunks(Producers[1]))
                             => t.ndone[c] = BodyLen
(* Whoever finishes in good order got everything that was placed in his buffer, the last chunk too. *)
GotAll ==
    \A c \in Range(Consumers) : t.ended[c] = "complete" /\ ~t.palive[Feeds[c]] =>
        /\ t.ndone[c] = Placed(t, c) - skip_bytes(c)
        /\ Action[Feeds[c]] = "chunk" /\ t.success[Feeds[c]] => t.chunked[Feeds[c]] > t.got[Feeds[c]]
(* Every tunnel comes to its end, throttled or not; excepted is the one where a cache write behind a transform *)
(* is aborted while the transform waits for room: nothing wakes that transform until a time-out does.          *)
Ends == <>(t.done > 0 \/ Forsaken)
=============================================================================
