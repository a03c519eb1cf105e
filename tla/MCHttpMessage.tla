--------------------------- MODULE MCHttpMessage ----------------------------
(*****************************************************************************)
(* A message through the proxy: what its header announces, and how its body  *)
(* moves.                                                                    *)
(*****************************************************************************)
EXTENDS HttpTunnel, TLC

VARIABLES part,   \* the component that runs
          tunnel, input, come, reader, s, phase, hostdb, sent, asked, n


(* The server's body goes through a transform to the client and to the cache. *)
MCProducers == <<"S", "T">>
MCConsumers == <<"X", "U", "W">>
MCPType == [S |-> "server", T |-> "transform"]
MCCType == [U |-> "client", W |-> "cache", X |-> "transform"]
MCFeeds == [X |-> "S", U |-> "T", W |-> "T"]
MCSelfC == [S |-> "none", T |-> "X"]
MCSelfP == [U |-> "none", W |-> "none", X |-> "T"]
MCAction == [S |-> "none", T |-> "none"]

(* Messages and configurations for HttpFraming. *)
Missing == -2
MsgHead(f, con, p, cl, te) == [fields |-> f, conn |-> con, pconn |-> p, cl |-> cl, te |-> te]
Conns == {<<>>, <<"keep-alive">>, <<"X", "close">>, <<"keep-alive", "close">>}
Asks(v, m, con, p) == [ver |-> v, method |-> m, body |-> 0,
                       h |-> MsgHead({"TE", "X", "From", "Proxy-Authorization"}, con, p, Missing, <<>>)]
PlainPosts == {[ver |-> v, method |-> "POST", h |-> MsgHead({"Host", "TE"}, con, <<>>, cl, <<>>), body |-> cl] :
                 v \in {10, 11}, con \in {<<>>, <<"keep-alive">>}, cl \in {0, 2}}
Gets == {Asks(v, "GET", con, p) : v \in {9, 10, 11}, con \in Conns, p \in {<<>>}}
        \union {Asks(11, "GET", <<"close">>, <<"keep-alive">>), Asks(10, "GET", <<>>, <<"keep-alive">>)}
        \union {Asks(v, "HEAD", <<>>, <<>>) : v \in {10, 11}} \union PlainPosts
ParentRequests == {Asks(v, "GET", con, p) : v \in {10, 11}, con \in {<<>>, <<"X", "close">>}, p \in {<<>>, <<"keep-alive">>}}
BodyRequests == PlainPosts \union
    {[ver |-> 11, method |-> "POST", h |-> MsgHead({"Host"}, <<>>, <<>>, Missing, <<"chunked">>), body |-> 2]}
Replies(v, st, con, cl, te) == [ver |-> v, status |-> st, h |-> MsgHead({"X", "Keep-Alive", "ETag"}, con, <<>>, cl, te), body |-> 3]
MCAnswers ==
    {Replies(v, st, con, cl, <<>>) : v \in {10, 11}, st \in {200, 304},
                                     con \in {<<"close">>, <<"X", "keep-alive">>}, cl \in {3, -5, Missing}}
    \union {Replies(11, 200, <<>>, cl, te) : cl \in {Missing, 7}, te \in {<<"chunked">>, <<"gzip", "chunked">>}}
MCObjects == {[h |-> MsgHead({"ETag", "X"}, <<>>, <<>>, cl, <<>>), size |-> z] : cl \in {Missing, 3}, z \in {3, 4, 99}}
FramingConf(chunking, http11, fwd, parent) ==
    [ka_in |-> TRUE, ka_out |-> TRUE, pipeline |-> TRUE, http11 |-> http11, chunking |-> chunking, fwd_auth |-> fwd,
     to_parent |-> parent, insert_ip |-> TRUE, remove |-> {"From"}, agent |-> parent]
ConfChunk == FramingConf(TRUE, "hostdb", FALSE, FALSE)
ConfParent == FramingConf(FALSE, "if_request", TRUE, TRUE)
ConfAlways == FramingConf(TRUE, "always", FALSE, FALSE)

-----------------------------------------------------------------------------
Passing == INSTANCE HttpTunnel WITH
    t <- tunnel, Producers <- <<"S">>, Consumers <- <<"U", "W">>, PType <- MCPType, CType <- MCCType,
    Feeds <- [U |-> "S", W |-> "S"], SelfC <- [S |-> "none"], SelfP <- [U |-> "none", W |-> "none"],
    Action <- [S |-> "none"], None <- "none", Known <- TRUE, BodyLen <- 4, High <- 2, Low <- 1, FlowOn <- TRUE,
    Cap <- 3
Chunked == INSTANCE HttpTunnel WITH
    t <- tunnel, Producers <- <<"S">>, Consumers <- <<"U", "W">>, PType <- MCPType, CType <- MCCType,
    Feeds <- [U |-> "S", W |-> "S"], SelfC <- [S |-> "none"], SelfP <- [U |-> "none", W |-> "none"],
    Action <- [S |-> "chunk"], None <- "none", Known <- FALSE, BodyLen <- 4, High <- 2, Low <- 1,
    FlowOn <- TRUE, Cap <- 3
PassedOn == INSTANCE HttpTunnel WITH
    t <- tunnel, Producers <- <<"S">>, Consumers <- <<"U", "W">>, PType <- MCPType, CType <- MCCType,
    Feeds <- [U |-> "S", W |-> "S"], SelfC <- [S |-> "none"], SelfP <- [U |-> "none", W |-> "none"],
    Action <- [S |-> "pass_chunked"], None <- "none", Known <- FALSE, BodyLen <- 3, High <- 2, Low <- 1,
    FlowOn <- TRUE, Cap <- 3
Dechunked2 == INSTANCE HttpTunnel WITH
    t <- tunnel, Producers <- <<"S">>, Consumers <- <<"U", "W">>, PType <- MCPType, CType <- MCCType,
    Feeds <- [U |-> "S", W |-> "S"], SelfC <- [S |-> "none"], SelfP <- [U |-> "none", W |-> "none"],
    Action <- [S |-> "dechunk"], None <- "none", Known <- FALSE, BodyLen <- 3, High <- 2, Low <- 1,
    FlowOn <- TRUE, Cap <- 3
Framing == INSTANCE HttpFraming WITH
    Requests <- Gets, Answers <- MCAnswers, Objects <- MCObjects, Conf <- ConfChunk, MaxRequests <- 2,
    MaxData <- 5, max_chunk_size <- 2, IntBits <- 8
Parent == INSTANCE HttpFraming WITH
    Requests <- ParentRequests, Answers <- MCAnswers, Objects <- MCObjects, Conf <- ConfParent, MaxRequests <- 2,
    MaxData <- 5, max_chunk_size <- 2, IntBits <- 8
Posts == INSTANCE HttpFraming WITH
    Requests <- BodyRequests, Answers <- MCAnswers, Objects <- MCObjects, Conf <- ConfAlways, MaxRequests <- 2,
    MaxData <- 5, max_chunk_size <- 2, IntBits <- 8

(* the variables of the components that do not run are idle, those of HttpTunnel in an initial state *)
IdleHttpTunnel == tunnel = "idle" /\ input = "idle" /\ come = "idle" /\ reader = "idle" /\ s = "idle" /\ phase = "idle"
    /\ hostdb = "idle" /\ sent = "idle" /\ asked = "idle" /\ n = "idle"
KeepHttpTunnel == UNCHANGED <<part, tunnel, input, come, reader, s, phase, hostdb, sent, asked, n>>
IdleHttpTunnel2 == Init /\ input = "idle" /\ come = "idle" /\ reader = "idle" /\ s = "idle" /\ phase = "idle" /\ hostdb = "idle"
    /\ sent = "idle" /\ asked = "idle" /\ n = "idle"
KeepHttpTunnel2 == UNCHANGED <<part, t, input, come, reader, s, phase, hostdb, sent, asked, n>>
IdleReader == Init /\ tunnel = "idle" /\ s = "idle" /\ phase = "idle" /\ hostdb = "idle" /\ sent = "idle" /\ asked = "idle"
    /\ n = "idle"
KeepReader == UNCHANGED <<part, t, tunnel, s, phase, hostdb, sent, asked, n>>
IdleHttpFraming == Init /\ tunnel = "idle" /\ input = "idle" /\ come = "idle" /\ reader = "idle"
KeepHttpFraming == UNCHANGED <<part, t, tunnel, input, come, reader>>

MCInit ==
    \/ part = "transform" /\ Init /\ IdleHttpTunnel
    \/ part = "plain" /\ Passing!Init /\ IdleHttpTunnel2
    \/ part = "chunk" /\ Chunked!Init /\ IdleHttpTunnel2
    \/ part = "pass" /\ PassedOn!Init /\ IdleHttpTunnel2
    \/ part = "dechunk" /\ Dechunked2!Init /\ IdleHttpTunnel2
    \/ part = "reader" /\ Framing!ReaderInit /\ IdleReader
    \/ part = "framing" /\ Framing!Init /\ IdleHttpFraming
    \/ part = "parent" /\ Parent!Init /\ IdleHttpFraming
    \/ part = "posts" /\ Posts!Init /\ IdleHttpFraming
MCNext ==
    \/ part = "transform" /\ Next /\ KeepHttpTunnel
    \/ part = "plain" /\ Passing!Next /\ KeepHttpTunnel2
    \/ part = "chunk" /\ Chunked!Next /\ KeepHttpTunnel2
    \/ part = "pass" /\ PassedOn!Next /\ KeepHttpTunnel2
    \/ part = "dechunk" /\ Dechunked2!Next /\ KeepHttpTunnel2
    \/ part = "reader" /\ Framing!ReaderNext /\ KeepReader
    \/ part = "framing" /\ Framing!Next /\ KeepHttpFraming
    \/ part = "parent" /\ Parent!Next /\ KeepHttpFraming
    \/ part = "posts" /\ Posts!Next /\ KeepHttpFraming
mcvars == <<part, t, tunnel, input, come, reader, s, phase, hostdb, sent, asked, n>>
MCSpec == MCInit /\ [][MCNext]_mcvars /\ Fairness

-----------------------------------------------------------------------------
(* A body that is moved: the assertions of the tunnel hold, a document is complete in the cache only when all
   of it came, and whoever finishes in good order got everything, with or without a transform and chunks.  A
   message that is announced: a client that is told the connection stays can tell where the response ends,
   chunks go alone, once and only to a client that knows them, fields meant for the proxy stop there and no
   unread body is taken for a header.  The chunk reader gives back the data and ends where the body ends. *)
MessagesSafe ==
    /\ AssertsHold /\ CachedIsWhole
    /\ part = "plain" => Passing!AssertsHold /\ Passing!CachedIsWhole /\ Passing!GotAll
    /\ part = "chunk" => Chunked!GotAll
    /\ part = "pass" => PassedOn!CachedIsWhole
    /\ part = "dechunk" => Dechunked2!CachedIsWhole /\ Dechunked2!GotAll
    /\ part = "reader" => Framing!DataAsSent /\ Framing!EndsExactly
    /\ part = "framing" => Framing!Delimited /\ Framing!ChunkedAlone /\ Framing!HopByHopStops /\ Framing!ToldTheTruth /\ Framing!BodyNeverHeader
    /\ part = "parent" => Parent!Delimited /\ Parent!HopByHopStops /\ Parent!ToldTheTruth
    /\ part = "posts" => Posts!Delimited /\ Posts!ChunkedAlone /\ Posts!ClosesUnknown
=============================================================================
