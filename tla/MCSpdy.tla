------------------------------- MODULE MCSpdy -------------------------------
(*****************************************************************************)
(* A SPDY session: what is read from it and what is sent on it.              *)
(*****************************************************************************)
EXTENDS NgxSpdyOut, TLC

VARIABLES part,   \* the component that runs
          fs, got, p, streams


(* Two streams of different priorities. *)
MCPrio == [i \in {"1", "3"} |-> IF i = "1" THEN 2 ELSE 1]

(* Sessions of a few frames for two or three streams. *)
Num(n) == [num |-> n]
Hdr(name, val) == <<[x |-> "nl"], [name |-> name], [x |-> "vl"], [val |-> val]>>
Block(hs) == <<Num(Len(hs))>> \o FlattenSeq([i \in DOMAIN hs |-> Hdr(hs[i][1], hs[i][2])])
Line == << <<"method", "GET">>, <<"url", "/">>, <<"version", "1.1">> >>
Syn(sid, fin, hs) == [type |-> "syn", sid |-> sid, fin |-> fin, block |-> Block(hs)]
Data(sid, fin, n, tag) == [type |-> "data", sid |-> sid, fin |-> fin, data |-> [i \in 1..n |-> <<tag, i>>]]
Rst(sid, status) == [type |-> "rst", sid |-> sid, status |-> status]
PingFrame == [type |-> "ping"]
Settings(pairs) == [type |-> "settings", pairs |-> pairs]
Other(type, len) == [type |-> type, len |-> len]

Bodies == {
  << Syn("1", FALSE, Line), Data("1", FALSE, 2, "a"), Syn("3", FALSE, Line), Data("3", TRUE, 1, "c"),
     Data("1", TRUE, 1, "b") >>,
  << Syn("1", FALSE, Append(Line, <<"content-length", 3>>)), Data("1", FALSE, 2, "a"),
     Rst("1", "cancel"), Data("1", TRUE, 1, "b"), PingFrame >>,
  << Syn("1", FALSE, Append(Line, <<"content-length", 1>>)), Data("1", FALSE, 5, "a"),
     Data("1", TRUE, 0, "b"), PingFrame >> }
HeaderBlocks == {
  << Settings(<<0, 1>>), Syn("1", TRUE, Line), Syn("3", TRUE, Line), Syn("5", TRUE, Line) >>,
  << Settings(<<0>>), Other("noop", 0), Syn("1", TRUE, SubSeq(Line, 1, 2)),
     Syn("3", TRUE, Line), PingFrame >>,
  << Other("goaway", 2), Syn("1", TRUE, Line \o Line), PingFrame >>,
  << Syn("1", TRUE, Line \o << <<"a", 1>>, <<"b", 2>>, <<"c", 3>>, <<"d", 4>>, <<"e", 5>> >>),
     Syn("3", TRUE, Line), Other("syn_reply", 1) >>,
  << Settings(<<1, 0>>), Settings(<<1>>), Other("noop", 1), PingFrame >>,
  << Syn("1", TRUE, Line), Rst("1", "protocol"), PingFrame >> }

-----------------------------------------------------------------------------
Input == INSTANCE NgxSpdyIn WITH
    st <- streams, Sessions <- Bodies, Sids <- {"1", "3", "5"}, HeadSize <- 2, SynSize <- 3, CtlSize <- 2,
    PairSize <- 2, StateBuffer <- 4, MaxStreams <- 2, HeaderBuf <- 30, LargeSize <- 10, LargeNum <- 1,
    MaxBody <- 4
Blocks == INSTANCE NgxSpdyIn WITH
    st <- streams, Sessions <- HeaderBlocks, Sids <- {"1", "3", "5"}, HeadSize <- 2, SynSize <- 3, CtlSize <- 2,
    PairSize <- 2, StateBuffer <- 4, MaxStreams <- 2, HeaderBuf <- 8, LargeSize <- 9, LargeNum <- 3,
    MaxBody <- 4

(* the variables of the components that do not run are idle, those of NgxSpdyOut in an initial state *)
IdleNgxSpdyOut == fs = "idle" /\ got = "idle" /\ p = "idle" /\ streams = "idle"
KeepNgxSpdyOut == UNCHANGED <<part, fs, got, p, streams>>
IdleNgxSpdyIn == Init
KeepNgxSpdyIn == UNCHANGED <<part, q, st, c, wire>>

MCInit ==
    \/ part = "output" /\ Init /\ IdleNgxSpdyOut
    \/ part = "bodies" /\ Input!Init /\ IdleNgxSpdyIn
    \/ part = "blocks" /\ Blocks!Init /\ IdleNgxSpdyIn
MCNext ==
    \/ part = "output" /\ Next /\ KeepNgxSpdyOut
    \/ part = "bodies" /\ Input!Next /\ KeepNgxSpdyIn
    \/ part = "blocks" /\ Blocks!Next /\ KeepNgxSpdyIn
mcvars == <<part, q, st, c, wire, fs, got, p, streams>>
MCSpec == MCInit /\ [][MCNext]_mcvars /\ LoopRuns /\ StreamRuns("1")

-----------------------------------------------------------------------------
(* Wherever the reads cut the frames of a session, frame headers are taken where the client put them,
   every byte of every header block goes through the inflater once and in order, a request runs with the
   headers its client sent and is told of its whole body once, and streams are counted within the limit.
   What the session sends: replies leave in the order in which the shared compressor met them, no frame is
   torn by another, the frames of a stream leave in order, and a quiet connection has a timer. *)
SessionSafe ==
    /\ part = "bodies" => Input!InSync /\ Input!BodyAsSent /\ Input!NoneForgotten
    /\ part = "blocks" => Blocks!TypeOK /\ Blocks!InflatesAll /\ Blocks!HeadersAsSent
    /\ TypeOK /\ RepliesInOrder /\ FramesWhole /\ StreamInOrder /\ Attended
(* Every stream ends, whatever the others do (checked of the one of lower priority, with no fairness to
   the other): its response is sent, it is reset, or the connection is given up. *)
StreamsEnd == StreamEnds("1")
=============================================================================
