--------------------------- MODULE NgxUpstreamProofs ---------------------------
(* Proofs about NgxUpstream, for every upstream block, every balancer state and *)
(* every setting: a peer that was taken is given back once, a request ends once *)
(* and then holds nothing, no response that was cut short is kept or passed off *)
(* as whole, and every wait for an upstream without TLS has a timer.            *)
(*                                                                              *)
(* The invariant IndInv says which functions may run in which phase, what waits *)
(* below them on the stack, and what is known of the body there; the balancer   *)
(* enters only through the record it returns, so no assumption on it is needed. *)
EXTENDS NgxUpstream, SequenceTheorems, TLAPS


(* Nothing is left to run. *)
LEMMA Call0 == ASSUME call' = << >> PROVE Top' = "none" /\ Below' = << >>
  BY DEF Top, Below

(* One function is left to run. *)
LEMMA Call1 ==
    ASSUME NEW f, call' = <<<<f>>>>
    PROVE  call' # << >> /\ Top' = f /\ Below' = << >>
  BY DEF Top, Below

(* One function with an argument is left to run. *)
LEMMA Call2 ==
    ASSUME NEW f, NEW x, call' = <<<<f, x>>>>
    PROVE  call' # << >> /\ Top' = f /\ Arg' = x /\ Below' = << >>
  BY DEF Top, Below, Arg

(* The same with a truth value, which is typed for the provers. *)
LEMMA CallB ==
    ASSUME NEW f, NEW x \in BOOLEAN, call' = <<<<f, x>>>>
    PROVE  call' # << >> /\ Top' = f /\ Arg' = x /\ Below' = << >>
  BY DEF Top, Below, Arg

(* Two functions are left to run, the first with a truth value. *)
LEMMA PairB ==
    ASSUME NEW f, NEW x \in BOOLEAN, NEW g, call' = <<<<f, x>>, g>>
    PROVE  call' # << >> /\ Top' = f /\ Arg' = x /\ Below' = <<g>>
  BY DEF Top, Below, Arg

(* Two functions are left to run. *)
LEMMA Call2B ==
    ASSUME NEW f, NEW x, NEW g, call' = <<<<f, x>>, g>>
    PROVE  call' # << >> /\ Top' = f /\ Arg' = x /\ Below' = <<g>>
  BY DEF Top, Below, Arg

(* A function that runs is the top of the stack. *)
LEMMA Run ==
    ASSUME NEW f, Pending(f)
    PROVE  call # << >> /\ Top = f /\ Below = Tail(call)
  BY DEF Pending, Top, Below

(* Only finalize and process_upgraded have anything waiting below them. *)
LEMMA Alone ==
    ASSUME IndInv, NEW f, Pending(f), f \notin {"finalize", "process_upgraded"}
    PROVE  call # << >> /\ Top = f /\ Below = << >>
  BY Run DEF IndInv, StackOK

(* The balancer's data do not matter to the type of u. *)
LEMMA NewData ==
    ASSUME NEW D, NEW v \in UType(D), NEW e
    PROVE  [v EXCEPT !.d = e] \in UType({e}) /\ [v EXCEPT !.d = e] \in UType({[v EXCEPT !.d = e].d})
  BY DEF UType

(* A typed u has the data it has. *)
LEMMA SameData == ASSUME NEW D, NEW v \in UType(D) PROVE v \in UType({v.d})
  BY DEF UType

(* The function returns and was the only one. *)
LEMMA Tail0 == ASSUME call # << >>, Below = << >>, Tail_(<< >>) PROVE call' = << >>
  BY DEF Tail_, Below

(* The function is replaced by what it calls last. *)
LEMMA Tail1 == ASSUME NEW f, call # << >>, Below = << >>, Tail_(<<f>>) PROVE call' = <<f>>
<1>1. <<f>> \in Seq({f})
  OBVIOUS
<1>2. call' = <<f>> \o << >>
  BY DEF Tail_, Below
<1> QED
  BY <1>1, <1>2, ConcatEmptySeq

(* Concatenation with the empty sequence. *)
LEMMA OneOf ==
    ASSUME NEW f
    PROVE  <<f>> \o << >> = <<f>> /\ << >> \o <<f>> = <<f>> /\ << >> \o << >> = << >>
<1>1. <<f>> \in Seq({f}) /\ << >> \in Seq({f})
  OBVIOUS
<1> QED
  BY <1>1, ConcatEmptySeq

(* Concatenation of two sequences of one. *)
LEMMA TwoOf == ASSUME NEW f, NEW g PROVE <<f>> \o <<g>> = <<f, g>>
<1> DEFINE a == <<f>>
           b == <<g>>
           c == <<f, g>>
<1>1. /\ a \in Seq({f, g}) /\ b \in Seq({f, g}) /\ c \in Seq({f, g})
      /\ Len(a) = 1 /\ Len(b) = 1 /\ Len(c) = 2
      /\ a[1] = f /\ b[1] = g /\ c[1] = f /\ c[2] = g
  OBVIOUS
<1> HIDE DEF a, b, c
<1>2. /\ a \o b \in Seq({f, g}) /\ Len(a \o b) = Len(a) + Len(b)
      /\ \A i \in 1 .. Len(a) + Len(b) : (a \o b)[i] = IF i <= Len(a) THEN a[i] ELSE b[i - Len(a)]
  BY <1>1, ConcatProperties
<1>3. Len(a \o b) = Len(c) /\ \A i \in 1 .. Len(a \o b) : (a \o b)[i] = c[i]
  BY <1>1, <1>2
<1>4. a \o b = c
  BY <1>1, <1>2, <1>3, SeqEqual
<1> QED
  BY <1>4 DEF a, b, c

(* The same with a function waiting below. *)
LEMMA Tail1B ==
    ASSUME NEW f, NEW g,
           call # << >>,
           Below = <<g>>,
           Tail_(<<f>>)
    PROVE  call' = <<f, g>>
  BY TwoOf DEF Tail_, Below

(* The function returns to the one that waits below. *)
LEMMA Tail0B == ASSUME NEW g, call # << >>, Below = <<g>>, Tail_(<< >>) PROVE call' = <<g>>
  BY DEF Tail_, Below

(* The function is replaced by two others. *)
LEMMA Tail2 ==
    ASSUME NEW f, NEW g,
           call # << >>,
           Below = << >>,
           Tail_(<<f, g>>)
    PROVE  call' = <<f, g>>
<1>1. <<f, g>> \in Seq({f, g})
  OBVIOUS
<1>2. call' = <<f, g>> \o << >>
  BY DEF Tail_, Below
<1> QED
  BY <1>1, <1>2, ConcatEmptySeq

--------------------------------------------------------------------------------
(* What every step keeps: the invariant, and where the timers are.  For each    *)
(* function and each event, one lemma; under it one case for each way out, with *)
(* the functions that are left to run (1), the type of u (2) and the parts of   *)
(* the invariant (3 to 9).  Values that are assigned get names (new_...), so    *)
(* that what a part needs of them is stated once.                               *)
Kept == IndInv' /\ (Plain /\ TimersOK => TimersOK')

(* init_request: the request fails before it has a cleanup, or a peer is looked for. *)
LEMMA InitRequestKept == ASSUME Settings, IndInv, init_request PROVE Kept
<1>1. call # << >> /\ Top = "init_request" /\ Below = << >>
  <2>1. Pending("init_request")
    BY DEF init_request
  <2> QED
    BY <2>1, Alone
<1>2. UNCHANGED <<P, client, out>>
  BY DEF init_request, May
<1>3. u \in UType({u.d})
  BY DEF IndInv, TypeOK
<1>4. out \in OType /\ client \in {"ok", "gone", "error"}
  BY DEF IndInv, TypeOK
<1>a. CASE u' = [u EXCEPT !.store = StoreOn] /\ Tail_(<<<<"finalize_request", 500>>>>)
  <2>1. call' # << >> /\ Top' = "finalize_request" /\ Arg' = 500 /\ Below' = << >>
    BY <1>1, <1>a, Tail1, Call2
  <2> DEFINE s == StoreOn
  <2>t. s \in BOOLEAN
    BY <1>3, <1>4, <1>1, <1>a DEF Settings
  <2>b. u' = [u EXCEPT !.store = s]
    BY <1>2, <1>a
  <2> HIDE DEF s
  <2>2. u' \in UType({u'.d})
    BY <1>3, <2>t, <2>b DEF UType
  <2>3. TypeOK'
    BY <1>4, <1>2, <2>t, <2>1, <2>2 DEF TypeOK
  <2>9. StackOK'
    BY <1>1, <1>2, <2>t, <2>b, <2>1, <2>2 DEF IndInv, TypeOK, UType, StackOK
  <2>4. StartOK' /\ EndOK'
    BY <1>1, <1>2, <2>t, <2>b, <2>1, <2>2 DEF IndInv, TypeOK, UType, StackOK, StartOK, EndOK,
           Nothing, U0, Out0
  <2>5. PhaseOK'
    BY <1>1, <1>2, <2>t, <2>b, <2>1, <2>2 DEF IndInv, TypeOK, UType, StartOK, EndOK, PhaseOK,
           Passing
  <2>6. BodyOK'
    BY <1>1, <1>2, <2>t, <2>b, <2>1, <2>2 DEF IndInv, TypeOK, UType, EndOK, PhaseOK, Passing,
           BodyOK, AllOfIt
  <2>7. PeersBalanced'
    BY <1>1, <1>2, <2>t, <2>b, <2>1, <2>2 DEF IndInv, TypeOK, UType, StartOK, EndOK, PeersBalanced
  <2>8. ASSUME Plain, TimersOK PROVE TimersOK'
    BY <1>1, <1>2, <2>t, <2>b, <2>1, <2>2, <2>8 DEF IndInv, TypeOK, UType, StartOK, Nothing, EndOK,
           PhaseOK, Passing, Plain, TimersOK, WaitHasTimer, Live, Idle, Ended
  <2> QED
    BY <2>3, <2>4, <2>5, <2>6, <2>7, <2>8, <2>9 DEF Kept, IndInv
<1>b. CASE /\ u' = [u EXCEPT !.store = StoreOn, !.check = ~StoreOn /\ ~IgnoreAbort,
                             !.cleanup = TRUE, !.resolving = Naddrs > 0, !.d = init_peer(P)]
           /\ Tail_(<< >>)
  <2>1. call' = << >> /\ Top' = "none" /\ Below' = << >>
    BY <1>1, <1>b, Tail0, Call0
  <2> DEFINE new_store == StoreOn
             new_check == ~StoreOn /\ ~IgnoreAbort
             new_resolving == Naddrs > 0
             new_d == init_peer(P)
  <2>t. new_store \in BOOLEAN /\ new_check \in BOOLEAN /\ new_resolving \in BOOLEAN
    BY <1>3, <1>4, <1>1, <1>b DEF Settings, IndInv, TypeOK, UType
  <2>b. u' = [u EXCEPT !.store = new_store, !.check = new_check, !.cleanup = TRUE,
                       !.resolving = new_resolving, !.d = new_d]
    BY <1>2, <1>b
  <2> HIDE DEF new_store, new_check, new_resolving, new_d
  <2>f. /\ u'.st = u.st /\ u'.resolving = new_resolving /\ u'.cleanup = TRUE /\ u'.d = new_d
         /\ u'.sock = u.sock /\ u'.conn = u.conn /\ u'.ssl = u.ssl /\ u'.wh = u.wh
         /\ u'.rh = u.rh /\ u'.rt = u.rt /\ u'.wt = u.wt /\ u'.ct = u.ct
         /\ u'.request_sent = u.request_sent /\ u'.header_sent = u.header_sent /\ u'.check = new_check /\ u'.buf = u.buf
         /\ u'.att = u.att /\ u'.cacheable = u.cacheable /\ u'.cache = u.cache /\ u'.cstat = u.cstat
         /\ u'.store = new_store /\ u'.status = u.status /\ u'.cl = u.cl /\ u'.length = u.length
         /\ u'.got = u.got /\ u'.eof = u.eof /\ u'.done = u.done /\ u'.err = u.err
         /\ u'.derr = u.derr
    BY <1>3, <2>b DEF UType
  <2>2. u' \in UType({u'.d})
    <3> DEFINE v1 == [u EXCEPT !.store = new_store]
    <3> DEFINE v2 == [v1 EXCEPT !.check = new_check]
    <3> DEFINE v3 == [v2 EXCEPT !.cleanup = TRUE]
    <3> DEFINE v4 == [v3 EXCEPT !.resolving = new_resolving]
    <3>x. u' = [v4 EXCEPT !.d = new_d]
      BY <1>3, <2>t, <2>b DEF UType
    <3> HIDE DEF v1, v2, v3, v4
    <3>1. v1 \in UType({u.d})
      BY <1>3, <2>t DEF v1, UType
    <3>2. v2 \in UType({u.d})
      BY <3>1, <2>t DEF v2, UType
    <3>3. v3 \in UType({u.d})
      BY <3>2, <2>t DEF v3, UType
    <3>4. v4 \in UType({u.d})
      BY <3>3, <2>t DEF v4, UType
    <3> QED
      BY <3>x, <3>4, NewData
  <2>3. TypeOK'
    BY <1>4, <1>2, <2>t, <2>1, <2>2 DEF TypeOK
  <2>9. StackOK'
    BY <1>1, <1>2, <2>t, <2>f, <2>1 DEF IndInv, TypeOK, UType, StackOK
  <2>4. StartOK' /\ EndOK'
    BY <1>1, <1>2, <2>t, <2>f, <2>1 DEF IndInv, TypeOK, UType, StackOK, StartOK, EndOK, Nothing, U0,
           Out0
  <2>5. PhaseOK'
    BY <1>1, <1>2, <2>t, <2>f, <2>1 DEF IndInv, TypeOK, UType, StartOK, EndOK, PhaseOK, Passing
  <2>6. BodyOK'
    BY <1>1, <1>2, <2>t, <2>f, <2>1 DEF IndInv, TypeOK, UType, EndOK, PhaseOK, Passing, BodyOK,
           AllOfIt
  <2>7. PeersBalanced'
    BY <1>1, <1>2, <2>t, <2>f, <2>1 DEF IndInv, TypeOK, UType, StartOK, EndOK, PeersBalanced
  <2>8. ASSUME Plain, TimersOK PROVE TimersOK'
    BY <1>1, <1>2, <2>t, <2>f, <2>1, <2>8 DEF IndInv, TypeOK, UType, StartOK, Nothing, EndOK,
           PhaseOK, Passing, Plain, TimersOK, WaitHasTimer, Live, Idle, Ended
  <2> QED
    BY <2>3, <2>4, <2>5, <2>6, <2>7, <2>8, <2>9 DEF Kept, IndInv
<1>c. CASE /\ u' = [u EXCEPT !.store = StoreOn, !.check = ~StoreOn /\ ~IgnoreAbort,
                             !.cleanup = TRUE, !.resolving = Naddrs > 0, !.d = init_peer(P)]
           /\ ~(Naddrs > 0)
           /\ Tail_(<<<<"connect">>>>)
  <2>1. call' # << >> /\ Top' = "connect" /\ Below' = << >>
    BY <1>1, <1>c, Tail1, Call1
  <2> DEFINE new_store == StoreOn
             new_check == ~StoreOn /\ ~IgnoreAbort
             new_resolving == Naddrs > 0
             new_d == init_peer(P)
  <2>t. new_store \in BOOLEAN /\ new_check \in BOOLEAN /\ new_resolving \in BOOLEAN
    BY <1>3, <1>4, <1>1, <1>c DEF Settings, IndInv, TypeOK, UType
  <2>a. ~new_resolving
    BY <1>1, <1>2, <1>c DEF Settings, IndInv, TypeOK, UType
  <2>b. u' = [u EXCEPT !.store = new_store, !.check = new_check, !.cleanup = TRUE,
                       !.resolving = new_resolving, !.d = new_d]
    BY <1>2, <1>c
  <2> HIDE DEF new_store, new_check, new_resolving, new_d
  <2>f. /\ u'.st = u.st /\ u'.resolving = new_resolving /\ u'.cleanup = TRUE /\ u'.d = new_d
         /\ u'.sock = u.sock /\ u'.conn = u.conn /\ u'.ssl = u.ssl /\ u'.wh = u.wh
         /\ u'.rh = u.rh /\ u'.rt = u.rt /\ u'.wt = u.wt /\ u'.ct = u.ct
         /\ u'.request_sent = u.request_sent /\ u'.header_sent = u.header_sent /\ u'.check = new_check /\ u'.buf = u.buf
         /\ u'.att = u.att /\ u'.cacheable = u.cacheable /\ u'.cache = u.cache /\ u'.cstat = u.cstat
         /\ u'.store = new_store /\ u'.status = u.status /\ u'.cl = u.cl /\ u'.length = u.length
         /\ u'.got = u.got /\ u'.eof = u.eof /\ u'.done = u.done /\ u'.err = u.err
         /\ u'.derr = u.derr
    BY <1>3, <2>b DEF UType
  <2>2. u' \in UType({u'.d})
    <3> DEFINE v1 == [u EXCEPT !.store = new_store]
    <3> DEFINE v2 == [v1 EXCEPT !.check = new_check]
    <3> DEFINE v3 == [v2 EXCEPT !.cleanup = TRUE]
    <3> DEFINE v4 == [v3 EXCEPT !.resolving = new_resolving]
    <3>x. u' = [v4 EXCEPT !.d = new_d]
      BY <1>3, <2>t, <2>b DEF UType
    <3> HIDE DEF v1, v2, v3, v4
    <3>1. v1 \in UType({u.d})
      BY <1>3, <2>t DEF v1, UType
    <3>2. v2 \in UType({u.d})
      BY <3>1, <2>t DEF v2, UType
    <3>3. v3 \in UType({u.d})
      BY <3>2, <2>t DEF v3, UType
    <3>4. v4 \in UType({u.d})
      BY <3>3, <2>t DEF v4, UType
    <3> QED
      BY <3>x, <3>4, NewData
  <2>3. TypeOK'
    BY <1>4, <1>2, <2>t, <2>1, <2>2, <2>a DEF TypeOK
  <2>9. StackOK'
    BY <1>1, <1>2, <2>t, <2>a, <2>f, <2>1 DEF IndInv, TypeOK, UType, StackOK
  <2>4. StartOK' /\ EndOK'
    BY <1>1, <1>2, <2>t, <2>a, <2>f, <2>1 DEF IndInv, TypeOK, UType, StackOK, StartOK, EndOK,
           Nothing, U0, Out0
  <2>5. PhaseOK'
    BY <1>1, <1>2, <2>t, <2>a, <2>f, <2>1 DEF IndInv, TypeOK, UType, StartOK, EndOK, PhaseOK,
           Passing
  <2>6. BodyOK'
    BY <1>1, <1>2, <2>t, <2>a, <2>f, <2>1 DEF IndInv, TypeOK, UType, EndOK, PhaseOK, Passing,
           BodyOK, AllOfIt
  <2>7. PeersBalanced'
    BY <1>1, <1>2, <2>t, <2>a, <2>f, <2>1 DEF IndInv, TypeOK, UType, StartOK, EndOK, PeersBalanced
  <2>8. ASSUME Plain, TimersOK PROVE TimersOK'
    BY <1>1, <1>2, <2>t, <2>a, <2>f, <2>1, <2>8 DEF IndInv, TypeOK, UType, StartOK, Nothing, EndOK,
           PhaseOK, Passing, Plain, TimersOK, WaitHasTimer, Live, Idle, Ended
  <2> QED
    BY <2>3, <2>4, <2>5, <2>6, <2>7, <2>8, <2>9 DEF Kept, IndInv
<1> QED
  BY <1>a, <1>b, <1>c DEF init_request, May

(* ssl_init_connection: the handshake fails, waits or is done at once. *)
LEMMA SslInitKept == ASSUME Settings, IndInv, ssl_init_connection PROVE Kept
<1>1. call # << >> /\ Top = "ssl_init" /\ Below = << >>
  <2>1. Pending("ssl_init")
    BY DEF ssl_init_connection
  <2> QED
    BY <2>1, Alone
<1>2. UNCHANGED <<P, client, out>>
  BY DEF ssl_init_connection
<1>3. u \in UType({u.d})
  BY DEF IndInv, TypeOK
<1>4. out \in OType /\ client \in {"ok", "gone", "error"}
  BY DEF IndInv, TypeOK
<1>a. CASE u' = u /\ Tail_(GoNext("error"))
  <2>1. call' # << >> /\ Top' = "next" /\ Arg' = "error" /\ Below' = << >>
    BY <1>1, <1>a, Tail1, Call2 DEF GoNext
  <2>2. u' \in UType({u'.d})
    BY <1>3, <1>2, <1>a DEF UType
  <2>3. TypeOK'
    BY <1>4, <1>2, <1>a, <2>1, <2>2 DEF TypeOK
  <2>9. StackOK'
    BY <1>1, <1>2, <1>a, <2>1, <2>2 DEF IndInv, TypeOK, UType, StackOK
  <2>4. StartOK' /\ EndOK'
    BY <1>1, <1>2, <1>a, <2>1, <2>2 DEF IndInv, TypeOK, UType, StackOK, StartOK, EndOK, Nothing, U0,
           Out0
  <2>5. PhaseOK'
    BY <1>1, <1>2, <1>a, <2>1, <2>2 DEF IndInv, TypeOK, UType, StartOK, EndOK, PhaseOK, Passing
  <2>6. BodyOK'
    BY <1>1, <1>2, <1>a, <2>1, <2>2 DEF IndInv, TypeOK, UType, EndOK, PhaseOK, Passing, BodyOK,
           AllOfIt
  <2>7. PeersBalanced'
    BY <1>1, <1>2, <1>a, <2>1, <2>2 DEF IndInv, TypeOK, UType, StartOK, EndOK, PeersBalanced
  <2>8. ASSUME Plain, TimersOK PROVE TimersOK'
    BY <1>1, <1>2, <1>a, <2>1, <2>2, <2>8 DEF IndInv, TypeOK, UType, StartOK, Nothing, EndOK,
           PhaseOK, Passing, Plain, TimersOK, WaitHasTimer, Live, Idle, Ended
  <2> QED
    BY <2>3, <2>4, <2>5, <2>6, <2>7, <2>8, <2>9 DEF Kept, IndInv
<1>b. CASE u' = [u EXCEPT !.ssl = "shaking", !.wh = "ssl", !.rh = "ssl"] /\ Tail_(<< >>)
  <2>1. call' = << >> /\ Top' = "none" /\ Below' = << >>
    BY <1>1, <1>b, Tail0, Call0
  <2>2. u' \in UType({u'.d})
    BY <1>3, <1>2, <1>b DEF UType
  <2>3. TypeOK'
    BY <1>4, <1>2, <1>b, <2>1, <2>2 DEF TypeOK
  <2>9. StackOK'
    BY <1>1, <1>2, <1>b, <2>1, <2>2 DEF IndInv, TypeOK, UType, StackOK
  <2>4. StartOK' /\ EndOK'
    BY <1>1, <1>2, <1>b, <2>1, <2>2 DEF IndInv, TypeOK, UType, StackOK, StartOK, EndOK, Nothing, U0,
           Out0
  <2>5. PhaseOK'
    BY <1>1, <1>2, <1>b, <2>1, <2>2 DEF IndInv, TypeOK, UType, StartOK, EndOK, PhaseOK, Passing
  <2>6. BodyOK'
    BY <1>1, <1>2, <1>b, <2>1, <2>2 DEF IndInv, TypeOK, UType, EndOK, PhaseOK, Passing, BodyOK,
           AllOfIt
  <2>7. PeersBalanced'
    BY <1>1, <1>2, <1>b, <2>1, <2>2 DEF IndInv, TypeOK, UType, StartOK, EndOK, PeersBalanced
  <2>8. ASSUME Plain, TimersOK PROVE TimersOK'
    BY <1>1, <1>2, <1>b, <2>1, <2>2, <2>8 DEF IndInv, TypeOK, UType, StartOK, Nothing, EndOK,
           PhaseOK, Passing, Plain, TimersOK, WaitHasTimer, Live, Idle, Ended
  <2> QED
    BY <2>3, <2>4, <2>5, <2>6, <2>7, <2>8, <2>9 DEF Kept, IndInv
<1>c. CASE /\ u' = [u EXCEPT !.ssl = "on", !.wh = "send", !.rh = "header"]
           /\ Tail_(<<<<"send_request">>>>)
  <2>1. call' # << >> /\ Top' = "send_request" /\ Below' = << >>
    BY <1>1, <1>c, Tail1, Call1
  <2>2. u' \in UType({u'.d})
    BY <1>3, <1>2, <1>c DEF UType
  <2>3. TypeOK'
    BY <1>4, <1>2, <1>c, <2>1, <2>2 DEF TypeOK
  <2>9. StackOK'
    BY <1>1, <1>2, <1>c, <2>1, <2>2 DEF IndInv, TypeOK, UType, StackOK
  <2>4. StartOK' /\ EndOK'
    BY <1>1, <1>2, <1>c, <2>1, <2>2 DEF IndInv, TypeOK, UType, StackOK, StartOK, EndOK, Nothing, U0,
           Out0
  <2>5. PhaseOK'
    BY <1>1, <1>2, <1>c, <2>1, <2>2 DEF IndInv, TypeOK, UType, StartOK, EndOK, PhaseOK, Passing
  <2>6. BodyOK'
    BY <1>1, <1>2, <1>c, <2>1, <2>2 DEF IndInv, TypeOK, UType, EndOK, PhaseOK, Passing, BodyOK,
           AllOfIt
  <2>7. PeersBalanced'
    BY <1>1, <1>2, <1>c, <2>1, <2>2 DEF IndInv, TypeOK, UType, StartOK, EndOK, PeersBalanced
  <2>8. ASSUME Plain, TimersOK PROVE TimersOK'
    BY <1>1, <1>2, <1>c, <2>1, <2>2, <2>8 DEF IndInv, TypeOK, UType, StartOK, Nothing, EndOK,
           PhaseOK, Passing, Plain, TimersOK, WaitHasTimer, Live, Idle, Ended
  <2> QED
    BY <2>3, <2>4, <2>5, <2>6, <2>7, <2>8, <2>9 DEF Kept, IndInv
<1> QED
  BY <1>a, <1>b, <1>c DEF ssl_init_connection

(* send_request: the request is refused, waits, or is out and the header is awaited. *)
LEMMA SendRequestKept == ASSUME Settings, IndInv, send_request PROVE Kept
<1>1. call # << >> /\ Top = "send_request" /\ Below = << >>
  <2>1. Pending("send_request")
    BY DEF send_request
  <2> QED
    BY <2>1, Alone
<1>2. UNCHANGED <<P, client, out>>
  BY DEF send_request
<1>3. u \in UType({u.d})
  BY DEF IndInv, TypeOK
<1>4. out \in OType /\ client \in {"ok", "gone", "error"}
  BY DEF IndInv, TypeOK
<1>a. CASE u' = u /\ Tail_(GoNext("error"))
  <2>1. call' # << >> /\ Top' = "next" /\ Arg' = "error" /\ Below' = << >>
    BY <1>1, <1>a, Tail1, Call2 DEF GoNext
  <2>2. u' \in UType({u'.d})
    BY <1>3, <1>2, <1>a DEF UType
  <2>3. TypeOK'
    BY <1>4, <1>2, <1>a, <2>1, <2>2 DEF TypeOK
  <2>9. StackOK'
    BY <1>1, <1>2, <1>a, <2>1, <2>2 DEF IndInv, TypeOK, UType, StackOK
  <2>4. StartOK' /\ EndOK'
    BY <1>1, <1>2, <1>a, <2>1, <2>2 DEF IndInv, TypeOK, UType, StackOK, StartOK, EndOK, Nothing, U0,
           Out0
  <2>5. PhaseOK'
    BY <1>1, <1>2, <1>a, <2>1, <2>2 DEF IndInv, TypeOK, UType, StartOK, EndOK, PhaseOK, Passing
  <2>6. BodyOK'
    BY <1>1, <1>2, <1>a, <2>1, <2>2 DEF IndInv, TypeOK, UType, EndOK, PhaseOK, Passing, BodyOK,
           AllOfIt
  <2>7. PeersBalanced'
    BY <1>1, <1>2, <1>a, <2>1, <2>2 DEF IndInv, TypeOK, UType, StartOK, EndOK, PeersBalanced
  <2>8. ASSUME Plain, TimersOK PROVE TimersOK'
    BY <1>1, <1>2, <1>a, <2>1, <2>2, <2>8 DEF IndInv, TypeOK, UType, StartOK, Nothing, EndOK,
           PhaseOK, Passing, Plain, TimersOK, WaitHasTimer, Live, Idle, Ended
  <2> QED
    BY <2>3, <2>4, <2>5, <2>6, <2>7, <2>8, <2>9 DEF Kept, IndInv
<1>b. CASE u' = [u EXCEPT !.request_sent = TRUE] /\ Tail_(GoNext("error"))
  <2>1. call' # << >> /\ Top' = "next" /\ Arg' = "error" /\ Below' = << >>
    BY <1>1, <1>b, Tail1, Call2 DEF GoNext
  <2>2. u' \in UType({u'.d})
    BY <1>3, <1>2, <1>b DEF UType
  <2>3. TypeOK'
    BY <1>4, <1>2, <1>b, <2>1, <2>2 DEF TypeOK
  <2>9. StackOK'
    BY <1>1, <1>2, <1>b, <2>1, <2>2 DEF IndInv, TypeOK, UType, StackOK
  <2>4. StartOK' /\ EndOK'
    BY <1>1, <1>2, <1>b, <2>1, <2>2 DEF IndInv, TypeOK, UType, StackOK, StartOK, EndOK, Nothing, U0,
           Out0
  <2>5. PhaseOK'
    BY <1>1, <1>2, <1>b, <2>1, <2>2 DEF IndInv, TypeOK, UType, StartOK, EndOK, PhaseOK, Passing
  <2>6. BodyOK'
    BY <1>1, <1>2, <1>b, <2>1, <2>2 DEF IndInv, TypeOK, UType, EndOK, PhaseOK, Passing, BodyOK,
           AllOfIt
  <2>7. PeersBalanced'
    BY <1>1, <1>2, <1>b, <2>1, <2>2 DEF IndInv, TypeOK, UType, StartOK, EndOK, PeersBalanced
  <2>8. ASSUME Plain, TimersOK PROVE TimersOK'
    BY <1>1, <1>2, <1>b, <2>1, <2>2, <2>8 DEF IndInv, TypeOK, UType, StartOK, Nothing, EndOK,
           PhaseOK, Passing, Plain, TimersOK, WaitHasTimer, Live, Idle, Ended
  <2> QED
    BY <2>3, <2>4, <2>5, <2>6, <2>7, <2>8, <2>9 DEF Kept, IndInv
<1>c. CASE u' = [u EXCEPT !.request_sent = TRUE, !.wt = TRUE] /\ Tail_(<< >>)
  <2>1. call' = << >> /\ Top' = "none" /\ Below' = << >>
    BY <1>1, <1>c, Tail0, Call0
  <2>2. u' \in UType({u'.d})
    BY <1>3, <1>2, <1>c DEF UType
  <2>3. TypeOK'
    BY <1>4, <1>2, <1>c, <2>1, <2>2 DEF TypeOK
  <2>9. StackOK'
    BY <1>1, <1>2, <1>c, <2>1, <2>2 DEF IndInv, TypeOK, UType, StackOK
  <2>4. StartOK' /\ EndOK'
    BY <1>1, <1>2, <1>c, <2>1, <2>2 DEF IndInv, TypeOK, UType, StackOK, StartOK, EndOK, Nothing, U0,
           Out0
  <2>5. PhaseOK'
    BY <1>1, <1>2, <1>c, <2>1, <2>2 DEF IndInv, TypeOK, UType, StartOK, EndOK, PhaseOK, Passing
  <2>6. BodyOK'
    BY <1>1, <1>2, <1>c, <2>1, <2>2 DEF IndInv, TypeOK, UType, EndOK, PhaseOK, Passing, BodyOK,
           AllOfIt
  <2>7. PeersBalanced'
    BY <1>1, <1>2, <1>c, <2>1, <2>2 DEF IndInv, TypeOK, UType, StartOK, EndOK, PeersBalanced
  <2>8. ASSUME Plain, TimersOK PROVE TimersOK'
    BY <1>1, <1>2, <1>c, <2>1, <2>2, <2>8 DEF IndInv, TypeOK, UType, StartOK, Nothing, EndOK,
           PhaseOK, Passing, Plain, TimersOK, WaitHasTimer, Live, Idle, Ended
  <2> QED
    BY <2>3, <2>4, <2>5, <2>6, <2>7, <2>8, <2>9 DEF Kept, IndInv
<1>d. CASE u' = Sent(u) /\ Tail_(<<<<"process_header">>>>)
  <2>1. call' # << >> /\ Top' = "process_header" /\ Below' = << >>
    BY <1>1, <1>d, Tail1, Call1
  <2>2. u' \in UType({u'.d})
    BY <1>3, <1>2, <1>d DEF UType, Sent
  <2>3. TypeOK'
    BY <1>4, <1>2, <1>d, <2>1, <2>2 DEF TypeOK
  <2>9. StackOK'
    BY <1>1, <1>2, <1>d, <2>1, <2>2 DEF IndInv, TypeOK, UType, StackOK, Sent
  <2>4. StartOK' /\ EndOK'
    BY <1>1, <1>2, <1>d, <2>1, <2>2 DEF IndInv, TypeOK, UType, StackOK, StartOK, EndOK, Nothing, U0,
           Out0, Sent
  <2>5. PhaseOK'
    BY <1>1, <1>2, <1>d, <2>1, <2>2 DEF IndInv, TypeOK, UType, StartOK, EndOK, PhaseOK, Passing,
           Sent
  <2>6. BodyOK'
    BY <1>1, <1>2, <1>d, <2>1, <2>2 DEF IndInv, TypeOK, UType, EndOK, PhaseOK, Passing, BodyOK,
           AllOfIt, Sent
  <2>7. PeersBalanced'
    BY <1>1, <1>2, <1>d, <2>1, <2>2 DEF IndInv, TypeOK, UType, StartOK, EndOK, PeersBalanced, Sent
  <2>8. ASSUME Plain, TimersOK PROVE TimersOK'
    BY <1>1, <1>2, <1>d, <2>1, <2>2, <2>8 DEF IndInv, TypeOK, UType, StartOK, Nothing, EndOK,
           PhaseOK, Passing, Plain, TimersOK, WaitHasTimer, Live, Idle, Ended, Sent
  <2> QED
    BY <2>3, <2>4, <2>5, <2>6, <2>7, <2>8, <2>9 DEF Kept, IndInv
<1>e. CASE u' = [Sent(u) EXCEPT !.wh = "dummy"] /\ Tail_(<< >>)
  <2>1. call' = << >> /\ Top' = "none" /\ Below' = << >>
    BY <1>1, <1>e, Tail0, Call0
  <2>2. u' \in UType({u'.d})
    BY <1>3, <1>2, <1>e DEF UType, Sent
  <2>3. TypeOK'
    BY <1>4, <1>2, <1>e, <2>1, <2>2 DEF TypeOK
  <2>9. StackOK'
    BY <1>1, <1>2, <1>e, <2>1, <2>2 DEF IndInv, TypeOK, UType, StackOK, Sent
  <2>4. StartOK' /\ EndOK'
    BY <1>1, <1>2, <1>e, <2>1, <2>2 DEF IndInv, TypeOK, UType, StackOK, StartOK, EndOK, Nothing, U0,
           Out0, Sent
  <2>5. PhaseOK'
    BY <1>1, <1>2, <1>e, <2>1, <2>2 DEF IndInv, TypeOK, UType, StartOK, EndOK, PhaseOK, Passing,
           Sent
  <2>6. BodyOK'
    BY <1>1, <1>2, <1>e, <2>1, <2>2 DEF IndInv, TypeOK, UType, EndOK, PhaseOK, Passing, BodyOK,
           AllOfIt, Sent
  <2>7. PeersBalanced'
    BY <1>1, <1>2, <1>e, <2>1, <2>2 DEF IndInv, TypeOK, UType, StartOK, EndOK, PeersBalanced, Sent
  <2>8. ASSUME Plain, TimersOK PROVE TimersOK'
    BY <1>1, <1>2, <1>e, <2>1, <2>2, <2>8 DEF IndInv, TypeOK, UType, StartOK, Nothing, EndOK,
           PhaseOK, Passing, Plain, TimersOK, WaitHasTimer, Live, Idle, Ended, Sent
  <2> QED
    BY <2>3, <2>4, <2>5, <2>6, <2>7, <2>8, <2>9 DEF Kept, IndInv
<1> QED
  BY <1>a, <1>b, <1>c, <1>d, <1>e DEF send_request

(* process_header: closed, not enough, refused, or a header with a part of the body. *)
LEMMA ProcessHeaderKept == ASSUME Settings, IndInv, process_header PROVE Kept
<1>1. call # << >> /\ Top = "process_header" /\ Below = << >>
  <2>1. Pending("process_header")
    BY DEF process_header
  <2> QED
    BY <2>1, Alone
<1>2. UNCHANGED <<P, client, out>>
  BY DEF process_header, test_connect
<1>3. u \in UType({u.d})
  BY DEF IndInv, TypeOK
<1>4. out \in OType /\ client \in {"ok", "gone", "error"}
  BY DEF IndInv, TypeOK
<1>a. CASE u' = u /\ Tail_(GoNext("error"))
  <2>1. call' # << >> /\ Top' = "next" /\ Arg' = "error" /\ Below' = << >>
    BY <1>1, <1>a, Tail1, Call2 DEF GoNext
  <2>2. u' \in UType({u'.d})
    BY <1>3, <1>2, <1>a DEF UType
  <2>3. TypeOK'
    BY <1>4, <1>2, <1>a, <2>1, <2>2 DEF TypeOK
  <2>9. StackOK'
    BY <1>1, <1>2, <1>a, <2>1, <2>2 DEF IndInv, TypeOK, UType, StackOK
  <2>4. StartOK' /\ EndOK'
    BY <1>1, <1>2, <1>a, <2>1, <2>2 DEF IndInv, TypeOK, UType, StackOK, StartOK, EndOK, Nothing, U0,
           Out0
  <2>5. PhaseOK'
    BY <1>1, <1>2, <1>a, <2>1, <2>2 DEF IndInv, TypeOK, UType, StartOK, EndOK, PhaseOK, Passing
  <2>6. BodyOK'
    BY <1>1, <1>2, <1>a, <2>1, <2>2 DEF IndInv, TypeOK, UType, EndOK, PhaseOK, Passing, BodyOK,
           AllOfIt
  <2>7. PeersBalanced'
    BY <1>1, <1>2, <1>a, <2>1, <2>2 DEF IndInv, TypeOK, UType, StartOK, EndOK, PeersBalanced
  <2>8. ASSUME Plain, TimersOK PROVE TimersOK'
    BY <1>1, <1>2, <1>a, <2>1, <2>2, <2>8 DEF IndInv, TypeOK, UType, StartOK, Nothing, EndOK,
           PhaseOK, Passing, Plain, TimersOK, WaitHasTimer, Live, Idle, Ended
  <2> QED
    BY <2>3, <2>4, <2>5, <2>6, <2>7, <2>8, <2>9 DEF Kept, IndInv
<1>b. CASE u' = u /\ Tail_(<< >>)
  <2>1. call' = << >> /\ Top' = "none" /\ Below' = << >>
    BY <1>1, <1>b, Tail0, Call0
  <2>2. u' \in UType({u'.d})
    BY <1>3, <1>2, <1>b DEF UType
  <2>3. TypeOK'
    BY <1>4, <1>2, <1>b, <2>1, <2>2 DEF TypeOK
  <2>9. StackOK'
    BY <1>1, <1>2, <1>b, <2>1, <2>2 DEF IndInv, TypeOK, UType, StackOK
  <2>4. StartOK' /\ EndOK'
    BY <1>1, <1>2, <1>b, <2>1, <2>2 DEF IndInv, TypeOK, UType, StackOK, StartOK, EndOK, Nothing, U0,
           Out0
  <2>5. PhaseOK'
    BY <1>1, <1>2, <1>b, <2>1, <2>2 DEF IndInv, TypeOK, UType, StartOK, EndOK, PhaseOK, Passing
  <2>6. BodyOK'
    BY <1>1, <1>2, <1>b, <2>1, <2>2 DEF IndInv, TypeOK, UType, EndOK, PhaseOK, Passing, BodyOK,
           AllOfIt
  <2>7. PeersBalanced'
    BY <1>1, <1>2, <1>b, <2>1, <2>2 DEF IndInv, TypeOK, UType, StartOK, EndOK, PeersBalanced
  <2>8. ASSUME Plain, TimersOK PROVE TimersOK'
    BY <1>1, <1>2, <1>b, <2>1, <2>2, <2>8 DEF IndInv, TypeOK, UType, StartOK, Nothing, EndOK,
           PhaseOK, Passing, Plain, TimersOK, WaitHasTimer, Live, Idle, Ended
  <2> QED
    BY <2>3, <2>4, <2>5, <2>6, <2>7, <2>8, <2>9 DEF Kept, IndInv
<1>c. CASE u' = [u EXCEPT !.buf = @ \union {u.att}] /\ Tail_(<<<<"process_header">>>>)
  <2>1. call' # << >> /\ Top' = "process_header" /\ Below' = << >>
    BY <1>1, <1>c, Tail1, Call1
  <2>2. u' \in UType({u'.d})
    BY <1>3, <1>2, <1>c DEF UType
  <2>3. TypeOK'
    BY <1>4, <1>2, <1>c, <2>1, <2>2 DEF TypeOK
  <2>9. StackOK'
    BY <1>1, <1>2, <1>c, <2>1, <2>2 DEF IndInv, TypeOK, UType, StackOK
  <2>4. StartOK' /\ EndOK'
    BY <1>1, <1>2, <1>c, <2>1, <2>2 DEF IndInv, TypeOK, UType, StackOK, StartOK, EndOK, Nothing, U0,
           Out0
  <2>5. PhaseOK'
    BY <1>1, <1>2, <1>c, <2>1, <2>2 DEF IndInv, TypeOK, UType, StartOK, EndOK, PhaseOK, Passing
  <2>6. BodyOK'
    BY <1>1, <1>2, <1>c, <2>1, <2>2 DEF IndInv, TypeOK, UType, EndOK, PhaseOK, Passing, BodyOK,
           AllOfIt
  <2>7. PeersBalanced'
    BY <1>1, <1>2, <1>c, <2>1, <2>2 DEF IndInv, TypeOK, UType, StartOK, EndOK, PeersBalanced
  <2>8. ASSUME Plain, TimersOK PROVE TimersOK'
    BY <1>1, <1>2, <1>c, <2>1, <2>2, <2>8 DEF IndInv, TypeOK, UType, StartOK, Nothing, EndOK,
           PhaseOK, Passing, Plain, TimersOK, WaitHasTimer, Live, Idle, Ended
  <2> QED
    BY <2>3, <2>4, <2>5, <2>6, <2>7, <2>8, <2>9 DEF Kept, IndInv
<1>d. CASE u' = [u EXCEPT !.buf = @ \union {u.att}] /\ Tail_(GoNext("invalid"))
  <2>1. call' # << >> /\ Top' = "next" /\ Arg' = "invalid" /\ Below' = << >>
    BY <1>1, <1>d, Tail1, Call2 DEF GoNext
  <2>2. u' \in UType({u'.d})
    BY <1>3, <1>2, <1>d DEF UType
  <2>3. TypeOK'
    BY <1>4, <1>2, <1>d, <2>1, <2>2 DEF TypeOK
  <2>9. StackOK'
    BY <1>1, <1>2, <1>d, <2>1, <2>2 DEF IndInv, TypeOK, UType, StackOK
  <2>4. StartOK' /\ EndOK'
    BY <1>1, <1>2, <1>d, <2>1, <2>2 DEF IndInv, TypeOK, UType, StackOK, StartOK, EndOK, Nothing, U0,
           Out0
  <2>5. PhaseOK'
    BY <1>1, <1>2, <1>d, <2>1, <2>2 DEF IndInv, TypeOK, UType, StartOK, EndOK, PhaseOK, Passing
  <2>6. BodyOK'
    BY <1>1, <1>2, <1>d, <2>1, <2>2 DEF IndInv, TypeOK, UType, EndOK, PhaseOK, Passing, BodyOK,
           AllOfIt
  <2>7. PeersBalanced'
    BY <1>1, <1>2, <1>d, <2>1, <2>2 DEF IndInv, TypeOK, UType, StartOK, EndOK, PeersBalanced
  <2>8. ASSUME Plain, TimersOK PROVE TimersOK'
    BY <1>1, <1>2, <1>d, <2>1, <2>2, <2>8 DEF IndInv, TypeOK, UType, StartOK, Nothing, EndOK,
           PhaseOK, Passing, Plain, TimersOK, WaitHasTimer, Live, Idle, Ended
  <2> QED
    BY <2>3, <2>4, <2>5, <2>6, <2>7, <2>8, <2>9 DEF Kept, IndInv
<1>e. CASE u' = u /\ Tail_(Finalize(500))
  <2>1. call' # << >> /\ Top' = "finalize" /\ Arg' = 500 /\ Below' = << >>
    BY <1>1, <1>e, Tail1, Call2 DEF Finalize
  <2>2. u' \in UType({u'.d})
    BY <1>3, <1>2, <1>e DEF UType, DECLINED
  <2>3. TypeOK'
    BY <1>4, <1>2, <1>e, <2>1, <2>2 DEF TypeOK, DECLINED
  <2>9. StackOK'
    BY <1>1, <1>2, <1>e, <2>1, <2>2 DEF IndInv, TypeOK, UType, StackOK, DECLINED
  <2>4. StartOK' /\ EndOK'
    BY <1>1, <1>2, <1>e, <2>1, <2>2 DEF IndInv, TypeOK, UType, StackOK, StartOK, EndOK, Nothing, U0,
           Out0, DECLINED
  <2>5. PhaseOK'
    BY <1>1, <1>2, <1>e, <2>1, <2>2 DEF IndInv, TypeOK, UType, StartOK, EndOK, PhaseOK, Passing,
           DECLINED
  <2>6. BodyOK'
    BY <1>1, <1>2, <1>e, <2>1, <2>2 DEF IndInv, TypeOK, UType, EndOK, PhaseOK, Passing, BodyOK,
           AllOfIt, DECLINED
  <2>7. PeersBalanced'
    BY <1>1, <1>2, <1>e, <2>1, <2>2 DEF IndInv, TypeOK, UType, StartOK, EndOK, PeersBalanced,
           DECLINED
  <2>8. ASSUME Plain, TimersOK PROVE TimersOK'
    BY <1>1, <1>2, <1>e, <2>1, <2>2, <2>8 DEF IndInv, TypeOK, UType, StartOK, Nothing, EndOK,
           PhaseOK, Passing, Plain, TimersOK, WaitHasTimer, Live, Idle, Ended, DECLINED
  <2> QED
    BY <2>3, <2>4, <2>5, <2>6, <2>7, <2>8, <2>9 DEF Kept, IndInv
<1>f. ASSUME NEW s \in Statuses, NEW n \in {-1, Length}, NEW k \in 0..1,
             EarlyReplies \/ (u.request_sent /\ ~u.wt),
             u' = Parsed(s, n, k),
             Tail_(<<<<"header_done">>>>)
      PROVE  Kept
  <2>1. call' # << >> /\ Top' = "header_done" /\ Below' = << >>
    BY <1>1, <1>f, Tail1, Call1
  <2> DEFINE b == u.buf \union {u.att}
  <2>t. /\ b \in SUBSET Int
        /\ n \in Int
        /\ k \in Int
        /\ s \in Statuses
        /\ (EarlyReplies \/ (u.request_sent /\ ~u.wt))
    BY <1>3, <1>4, <1>1, <1>f DEF Settings, IndInv, TypeOK, UType
  <2>b. u' = [u EXCEPT !.status = s, !.cl = n, !.buf = b, !.got = k]
    BY <1>2, <1>f DEF Parsed
  <2> HIDE DEF b
  <2>2. u' \in UType({u'.d})
    BY <1>3, <2>t, <2>b DEF UType
  <2>3. TypeOK'
    BY <1>4, <1>2, <2>t, <2>1, <2>2 DEF TypeOK
  <2>9. StackOK'
    BY <1>1, <1>2, <2>t, <2>b, <2>1, <2>2 DEF IndInv, TypeOK, UType, StackOK
  <2>4. StartOK' /\ EndOK'
    BY <1>1, <1>2, <2>t, <2>b, <2>1, <2>2 DEF IndInv, TypeOK, UType, StackOK, StartOK, EndOK,
           Nothing, U0, Out0
  <2>5. PhaseOK'
    BY <1>1, <1>2, <2>t, <2>b, <2>1, <2>2 DEF IndInv, TypeOK, UType, StartOK, EndOK, PhaseOK,
           Passing
  <2>6. BodyOK'
    BY <1>1, <1>2, <2>t, <2>b, <2>1, <2>2 DEF IndInv, TypeOK, UType, EndOK, PhaseOK, Passing,
           BodyOK, AllOfIt
  <2>7. PeersBalanced'
    BY <1>1, <1>2, <2>t, <2>b, <2>1, <2>2 DEF IndInv, TypeOK, UType, StartOK, EndOK, PeersBalanced
  <2>8. ASSUME Plain, TimersOK PROVE TimersOK'
    BY <1>1, <1>2, <2>t, <2>b, <2>1, <2>2, <2>8 DEF IndInv, TypeOK, UType, StartOK, Nothing, EndOK,
           PhaseOK, Passing, Plain, TimersOK, WaitHasTimer, Live, Idle, Ended
  <2> QED
    BY <2>3, <2>4, <2>5, <2>6, <2>7, <2>8, <2>9 DEF Kept, IndInv
<1> QED
  BY <1>a, <1>b, <1>c, <1>d, <1>e, <1>f DEF process_header, test_connect

(* stale_send: the expired copy is sent, or a second header is refused. *)
LEMMA StaleSendKept == ASSUME Settings, IndInv, stale_send PROVE Kept
<1>1. call # << >> /\ Top = "stale_send" /\ Below = << >>
  <2>1. Pending("stale_send")
    BY DEF stale_send
  <2> QED
    BY <2>1, Alone
<1>2. UNCHANGED <<P, u, client>>
  BY DEF stale_send, ERROR
<1>3. u \in UType({u.d})
  BY DEF IndInv, TypeOK
<1>4. out \in OType /\ client \in {"ok", "gone", "error"}
  BY DEF IndInv, TypeOK
<1>a. CASE ~u.header_sent /\ out' = [out EXCEPT !.reply = "cached"] /\ Tail_(Finalize(0))
  <2>1. call' # << >> /\ Top' = "finalize" /\ Arg' = 0 /\ Below' = << >>
    BY <1>1, <1>a, Tail1, Call2 DEF Finalize
  <2>2. u' \in UType({u'.d})
    BY <1>3, <1>2, <1>a DEF UType, OType, DECLINED
  <2>c. out' \in OType
    BY <1>4, <1>2, <1>a DEF OType
  <2>3. TypeOK'
    BY <1>4, <1>2, <1>a, <2>1, <2>2, <2>c DEF TypeOK, DECLINED
  <2>9. StackOK'
    BY <1>1, <1>2, <1>a, <2>c, <2>1, <2>2 DEF IndInv, TypeOK, UType, StackOK, OType, DECLINED
  <2>4. StartOK' /\ EndOK'
    BY <1>1, <1>2, <1>a, <2>c, <2>1, <2>2 DEF IndInv, TypeOK, UType, StackOK, StartOK, EndOK,
           Nothing, U0, Out0, OType, DECLINED
  <2>5. PhaseOK'
    BY <1>1, <1>2, <1>a, <2>c, <2>1, <2>2 DEF IndInv, TypeOK, UType, StartOK, EndOK, PhaseOK,
           Passing, OType, DECLINED
  <2>6. BodyOK'
    BY <1>1, <1>2, <1>a, <2>c, <2>1, <2>2 DEF IndInv, TypeOK, UType, EndOK, PhaseOK, Passing,
           BodyOK, AllOfIt, OType, DECLINED
  <2>7. PeersBalanced'
    BY <1>1, <1>2, <1>a, <2>c, <2>1, <2>2 DEF IndInv, TypeOK, UType, StartOK, EndOK, PeersBalanced,
           OType, DECLINED
  <2>8. ASSUME Plain, TimersOK PROVE TimersOK'
    BY <1>1, <1>2, <1>a, <2>c, <2>1, <2>2, <2>8 DEF IndInv, TypeOK, UType, StartOK, Nothing, EndOK,
           PhaseOK, Passing, Plain, TimersOK, WaitHasTimer, Live, Idle, Ended, OType, DECLINED
  <2> QED
    BY <2>3, <2>4, <2>5, <2>6, <2>7, <2>8, <2>9 DEF Kept, IndInv
<1>b. CASE out' = [out EXCEPT !.reply = @] /\ Tail_(Finalize(ERROR))
  <2>1. call' # << >> /\ Top' = "finalize" /\ Arg' = ERROR /\ Below' = << >>
    BY <1>1, <1>b, Tail1, Call2 DEF Finalize
  <2>2. u' \in UType({u'.d})
    BY <1>3, <1>2, <1>b DEF UType, OType, DECLINED, ERROR
  <2>c. out' \in OType
    BY <1>4, <1>2, <1>b DEF OType
  <2>3. TypeOK'
    BY <1>4, <1>2, <1>b, <2>1, <2>2, <2>c DEF TypeOK, DECLINED, ERROR
  <2>9. StackOK'
    BY <1>1, <1>2, <1>b, <2>c, <2>1, <2>2 DEF IndInv, TypeOK, UType, StackOK, OType, DECLINED, ERROR
  <2>4. StartOK' /\ EndOK'
    BY <1>1, <1>2, <1>b, <2>c, <2>1, <2>2 DEF IndInv, TypeOK, UType, StackOK, StartOK, EndOK,
           Nothing, U0, Out0, OType, DECLINED, ERROR
  <2>5. PhaseOK'
    BY <1>1, <1>2, <1>b, <2>c, <2>1, <2>2 DEF IndInv, TypeOK, UType, StartOK, EndOK, PhaseOK,
           Passing, OType, DECLINED, ERROR
  <2>6. BodyOK'
    BY <1>1, <1>2, <1>b, <2>c, <2>1, <2>2 DEF IndInv, TypeOK, UType, EndOK, PhaseOK, Passing,
           BodyOK, AllOfIt, OType, DECLINED, ERROR
  <2>7. PeersBalanced'
    BY <1>1, <1>2, <1>b, <2>c, <2>1, <2>2 DEF IndInv, TypeOK, UType, StartOK, EndOK, PeersBalanced,
           OType, DECLINED, ERROR
  <2>8. ASSUME Plain, TimersOK PROVE TimersOK'
    BY <1>1, <1>2, <1>b, <2>c, <2>1, <2>2, <2>8 DEF IndInv, TypeOK, UType, StartOK, Nothing, EndOK,
           PhaseOK, Passing, Plain, TimersOK, WaitHasTimer, Live, Idle, Ended, OType, DECLINED,
           ERROR
  <2> QED
    BY <2>3, <2>4, <2>5, <2>6, <2>7, <2>8, <2>9 DEF Kept, IndInv
<1> QED
  BY <1>a, <1>b DEF stale_send, ERROR

(* process_body_in_memory: the end of a body, an error, or some bytes. *)
LEMMA ProcessBodyKept == ASSUME Settings, IndInv, process_body_in_memory PROVE Kept
<1>1. call # << >> /\ Top = "process_body_in_memory" /\ Below = << >>
  <2>1. Pending("process_body_in_memory")
    BY DEF process_body_in_memory
  <2> QED
    BY <2>1, Alone
<1>2. UNCHANGED <<P, client, out>>
  BY DEF process_body_in_memory
<1>3. u \in UType({u.d})
  BY DEF IndInv, TypeOK
<1>4. out \in OType /\ client \in {"ok", "gone", "error"}
  BY DEF IndInv, TypeOK
<1>a. CASE u' = [u EXCEPT !.eof = TRUE] /\ Tail_(Finalize(0))
  <2>1. call' # << >> /\ Top' = "finalize" /\ Arg' = 0 /\ Below' = << >>
    BY <1>1, <1>a, Tail1, Call2 DEF Finalize
  <2>2. u' \in UType({u'.d})
    BY <1>3, <1>2, <1>a DEF UType, DECLINED
  <2>3. TypeOK'
    BY <1>4, <1>2, <1>a, <2>1, <2>2 DEF TypeOK, DECLINED
  <2>9. StackOK'
    BY <1>1, <1>2, <1>a, <2>1, <2>2 DEF IndInv, TypeOK, UType, StackOK, DECLINED
  <2>4. StartOK' /\ EndOK'
    BY <1>1, <1>2, <1>a, <2>1, <2>2 DEF IndInv, TypeOK, UType, StackOK, StartOK, EndOK, Nothing, U0,
           Out0, DECLINED
  <2>5. PhaseOK'
    BY <1>1, <1>2, <1>a, <2>1, <2>2 DEF IndInv, TypeOK, UType, StartOK, EndOK, PhaseOK, Passing,
           DECLINED
  <2>6. BodyOK'
    BY <1>1, <1>2, <1>a, <2>1, <2>2 DEF IndInv, TypeOK, UType, EndOK, PhaseOK, Passing, BodyOK,
           AllOfIt, DECLINED
  <2>7. PeersBalanced'
    BY <1>1, <1>2, <1>a, <2>1, <2>2 DEF IndInv, TypeOK, UType, StartOK, EndOK, PeersBalanced,
           DECLINED
  <2>8. ASSUME Plain, TimersOK PROVE TimersOK'
    BY <1>1, <1>2, <1>a, <2>1, <2>2, <2>8 DEF IndInv, TypeOK, UType, StartOK, Nothing, EndOK,
           PhaseOK, Passing, Plain, TimersOK, WaitHasTimer, Live, Idle, Ended, DECLINED
  <2> QED
    BY <2>3, <2>4, <2>5, <2>6, <2>7, <2>8, <2>9 DEF Kept, IndInv
<1>b. CASE u' = u /\ Tail_(Finalize(ERROR))
  <2>1. call' # << >> /\ Top' = "finalize" /\ Arg' = ERROR /\ Below' = << >>
    BY <1>1, <1>b, Tail1, Call2 DEF Finalize
  <2>2. u' \in UType({u'.d})
    BY <1>3, <1>2, <1>b DEF UType, DECLINED, ERROR
  <2>3. TypeOK'
    BY <1>4, <1>2, <1>b, <2>1, <2>2 DEF TypeOK, DECLINED, ERROR
  <2>9. StackOK'
    BY <1>1, <1>2, <1>b, <2>1, <2>2 DEF IndInv, TypeOK, UType, StackOK, DECLINED, ERROR
  <2>4. StartOK' /\ EndOK'
    BY <1>1, <1>2, <1>b, <2>1, <2>2 DEF IndInv, TypeOK, UType, StackOK, StartOK, EndOK, Nothing, U0,
           Out0, DECLINED, ERROR
  <2>5. PhaseOK'
    BY <1>1, <1>2, <1>b, <2>1, <2>2 DEF IndInv, TypeOK, UType, StartOK, EndOK, PhaseOK, Passing,
           DECLINED, ERROR
  <2>6. BodyOK'
    BY <1>1, <1>2, <1>b, <2>1, <2>2 DEF IndInv, TypeOK, UType, EndOK, PhaseOK, Passing, BodyOK,
           AllOfIt, DECLINED, ERROR
  <2>7. PeersBalanced'
    BY <1>1, <1>2, <1>b, <2>1, <2>2 DEF IndInv, TypeOK, UType, StartOK, EndOK, PeersBalanced,
           DECLINED, ERROR
  <2>8. ASSUME Plain, TimersOK PROVE TimersOK'
    BY <1>1, <1>2, <1>b, <2>1, <2>2, <2>8 DEF IndInv, TypeOK, UType, StartOK, Nothing, EndOK,
           PhaseOK, Passing, Plain, TimersOK, WaitHasTimer, Live, Idle, Ended, DECLINED, ERROR
  <2> QED
    BY <2>3, <2>4, <2>5, <2>6, <2>7, <2>8, <2>9 DEF Kept, IndInv
<1>c. ASSUME NEW k \in 0..1,
             u' = [Received(k) EXCEPT !.rt = u.length # u.got + k],
             Tail_(Finalize(0))
      PROVE  Kept
  <2>1. call' # << >> /\ Top' = "finalize" /\ Arg' = 0 /\ Below' = << >>
    BY <1>1, <1>c, Tail1, Call2 DEF Finalize
  <2> DEFINE g == u.got + k
             t == u.length # u.got + k
  <2>t. g \in Int /\ t \in BOOLEAN
    BY <1>3, <1>4, <1>1, <1>c DEF IndInv, TypeOK, UType
  <2>b. u' = [u EXCEPT !.got = g, !.rt = t]
    BY <1>2, <1>c DEF Received
  <2> HIDE DEF g, t
  <2>2. u' \in UType({u'.d})
    BY <1>3, <2>t, <2>b DEF UType, DECLINED
  <2>3. TypeOK'
    BY <1>4, <1>2, <2>t, <2>1, <2>2 DEF TypeOK, DECLINED
  <2>9. StackOK'
    BY <1>1, <1>2, <2>t, <2>b, <2>1, <2>2 DEF IndInv, TypeOK, UType, StackOK, DECLINED
  <2>4. StartOK' /\ EndOK'
    BY <1>1, <1>2, <2>t, <2>b, <2>1, <2>2 DEF IndInv, TypeOK, UType, StackOK, StartOK, EndOK,
           Nothing, U0, Out0, DECLINED
  <2>5. PhaseOK'
    BY <1>1, <1>2, <2>t, <2>b, <2>1, <2>2 DEF IndInv, TypeOK, UType, StartOK, EndOK, PhaseOK,
           Passing, DECLINED
  <2>6. BodyOK'
    BY <1>1, <1>2, <2>t, <2>b, <2>1, <2>2 DEF IndInv, TypeOK, UType, EndOK, PhaseOK, Passing,
           BodyOK, AllOfIt, DECLINED
  <2>7. PeersBalanced'
    BY <1>1, <1>2, <2>t, <2>b, <2>1, <2>2 DEF IndInv, TypeOK, UType, StartOK, EndOK, PeersBalanced,
           DECLINED
  <2>8. ASSUME Plain, TimersOK PROVE TimersOK'
    BY <1>1, <1>2, <2>t, <2>b, <2>1, <2>2, <2>8 DEF IndInv, TypeOK, UType, StartOK, Nothing, EndOK,
           PhaseOK, Passing, Plain, TimersOK, WaitHasTimer, Live, Idle, Ended, DECLINED
  <2> QED
    BY <2>3, <2>4, <2>5, <2>6, <2>7, <2>8, <2>9 DEF Kept, IndInv
<1>d. ASSUME NEW k \in 0..1,
             u.length # u.got + k,
             u' = [Received(k) EXCEPT !.rt = u.length # u.got + k],
             Tail_(<< >>)
      PROVE  Kept
  <2>1. call' = << >> /\ Top' = "none" /\ Below' = << >>
    BY <1>1, <1>d, Tail0, Call0
  <2> DEFINE g == u.got + k
  <2>t. g \in Int
    BY <1>3, <1>4, <1>1, <1>d DEF IndInv, TypeOK, UType
  <2>b. u' = [u EXCEPT !.got = g, !.rt = TRUE]
    BY <1>2, <1>d DEF Received
  <2> HIDE DEF g
  <2>2. u' \in UType({u'.d})
    BY <1>3, <2>t, <2>b DEF UType
  <2>3. TypeOK'
    BY <1>4, <1>2, <2>t, <2>1, <2>2 DEF TypeOK
  <2>9. StackOK'
    BY <1>1, <1>2, <2>t, <2>b, <2>1, <2>2 DEF IndInv, TypeOK, UType, StackOK
  <2>4. StartOK' /\ EndOK'
    BY <1>1, <1>2, <2>t, <2>b, <2>1, <2>2 DEF IndInv, TypeOK, UType, StackOK, StartOK, EndOK,
           Nothing, U0, Out0
  <2>5. PhaseOK'
    BY <1>1, <1>2, <2>t, <2>b, <2>1, <2>2 DEF IndInv, TypeOK, UType, StartOK, EndOK, PhaseOK,
           Passing
  <2>6. BodyOK'
    BY <1>1, <1>2, <2>t, <2>b, <2>1, <2>2 DEF IndInv, TypeOK, UType, EndOK, PhaseOK, Passing,
           BodyOK, AllOfIt
  <2>7. PeersBalanced'
    BY <1>1, <1>2, <2>t, <2>b, <2>1, <2>2 DEF IndInv, TypeOK, UType, StartOK, EndOK, PeersBalanced
  <2>8. ASSUME Plain, TimersOK PROVE TimersOK'
    BY <1>1, <1>2, <2>t, <2>b, <2>1, <2>2, <2>8 DEF IndInv, TypeOK, UType, StartOK, Nothing, EndOK,
           PhaseOK, Passing, Plain, TimersOK, WaitHasTimer, Live, Idle, Ended
  <2> QED
    BY <2>3, <2>4, <2>5, <2>6, <2>7, <2>8, <2>9 DEF Kept, IndInv
<1> QED
  BY <1>a, <1>b, <1>c, <1>d DEF process_body_in_memory

(* unbuffered: the body is read and passed on without a pipe. *)
LEMMA UnbufferedKept == ASSUME Settings, IndInv, unbuffered PROVE Kept
<1>1. call # << >> /\ Top = "unbuffered" /\ Below = << >>
  <2>1. Pending("unbuffered")
    BY DEF unbuffered
  <2> QED
    BY <2>1, Alone
<1>2. UNCHANGED <<P, client, out>>
  BY DEF unbuffered
<1>3. u \in UType({u.d})
  BY DEF IndInv, TypeOK
<1>4. out \in OType /\ client \in {"ok", "gone", "error"}
  BY DEF IndInv, TypeOK
<1>a. CASE u' = u /\ Tail_(Finalize(ERROR))
  <2>1. call' # << >> /\ Top' = "finalize" /\ Arg' = ERROR /\ Below' = << >>
    BY <1>1, <1>a, Tail1, Call2 DEF Finalize
  <2>2. u' \in UType({u'.d})
    BY <1>3, <1>2, <1>a DEF UType, DECLINED, ERROR
  <2>3. TypeOK'
    BY <1>4, <1>2, <1>a, <2>1, <2>2 DEF TypeOK, DECLINED, ERROR
  <2>9. StackOK'
    BY <1>1, <1>2, <1>a, <2>1, <2>2 DEF IndInv, TypeOK, UType, StackOK, DECLINED, ERROR
  <2>4. StartOK' /\ EndOK'
    BY <1>1, <1>2, <1>a, <2>1, <2>2 DEF IndInv, TypeOK, UType, StackOK, StartOK, EndOK, Nothing, U0,
           Out0, DECLINED, ERROR
  <2>5. PhaseOK'
    BY <1>1, <1>2, <1>a, <2>1, <2>2 DEF IndInv, TypeOK, UType, StartOK, EndOK, PhaseOK, Passing,
           DECLINED, ERROR
  <2>6. BodyOK'
    BY <1>1, <1>2, <1>a, <2>1, <2>2 DEF IndInv, TypeOK, UType, EndOK, PhaseOK, Passing, BodyOK,
           AllOfIt, DECLINED, ERROR
  <2>7. PeersBalanced'
    BY <1>1, <1>2, <1>a, <2>1, <2>2 DEF IndInv, TypeOK, UType, StartOK, EndOK, PeersBalanced,
           DECLINED, ERROR
  <2>8. ASSUME Plain, TimersOK PROVE TimersOK'
    BY <1>1, <1>2, <1>a, <2>1, <2>2, <2>8 DEF IndInv, TypeOK, UType, StartOK, Nothing, EndOK,
           PhaseOK, Passing, Plain, TimersOK, WaitHasTimer, Live, Idle, Ended, DECLINED, ERROR
  <2> QED
    BY <2>3, <2>4, <2>5, <2>6, <2>7, <2>8, <2>9 DEF Kept, IndInv
<1>b. ASSUME NEW n \in {-1, u.cl},
             u' = [u EXCEPT !.rh = "plain", !.length = n],
             Tail_(<<<<"non_buffered", TRUE>>>>)
      PROVE  Kept
  <2>1. call' # << >> /\ Top' = "non_buffered" /\ Arg' = TRUE /\ Below' = << >>
    <3>1. call' = <<<<"non_buffered", TRUE>>>>
      BY <1>1, <1>b, Tail1
    <3> QED
      BY <3>1, CallB
  <2>t. n \in Int
    BY <1>3, <1>4, <1>1, <1>b DEF IndInv, TypeOK, UType
  <2>b. u' = [u EXCEPT !.rh = "plain", !.length = n]
    BY <1>2, <1>b
  <2>2. u' \in UType({u'.d})
    BY <1>3, <2>t, <2>b DEF UType
  <2>3. TypeOK'
    BY <1>4, <1>2, <2>t, <2>1, <2>2 DEF TypeOK
  <2>9. StackOK'
    BY <1>1, <1>2, <2>t, <2>b, <2>1, <2>2 DEF IndInv, TypeOK, UType, StackOK
  <2>4. StartOK' /\ EndOK'
    BY <1>1, <1>2, <2>t, <2>b, <2>1, <2>2 DEF IndInv, TypeOK, UType, StackOK, StartOK, EndOK,
           Nothing, U0, Out0
  <2>5. PhaseOK'
    BY <1>1, <1>2, <2>t, <2>b, <2>1, <2>2 DEF IndInv, TypeOK, UType, StartOK, EndOK, PhaseOK,
           Passing
  <2>6. BodyOK'
    BY <1>1, <1>2, <2>t, <2>b, <2>1, <2>2 DEF IndInv, TypeOK, UType, EndOK, PhaseOK, Passing,
           BodyOK, AllOfIt
  <2>7. PeersBalanced'
    BY <1>1, <1>2, <2>t, <2>b, <2>1, <2>2 DEF IndInv, TypeOK, UType, StartOK, EndOK, PeersBalanced
  <2>8. ASSUME Plain, TimersOK PROVE TimersOK'
    BY <1>1, <1>2, <2>t, <2>b, <2>1, <2>2, <2>8 DEF IndInv, TypeOK, UType, StartOK, Nothing, EndOK,
           PhaseOK, Passing, Plain, TimersOK, WaitHasTimer, Live, Idle, Ended
  <2> QED
    BY <2>3, <2>4, <2>5, <2>6, <2>7, <2>8, <2>9 DEF Kept, IndInv
<1>c. ASSUME NEW n \in {-1, u.cl},
             u' = [u EXCEPT !.rh = "plain", !.length = n],
             Tail_(<<<<"non_buffered", FALSE>>>>)
      PROVE  Kept
  <2>1. call' # << >> /\ Top' = "non_buffered" /\ Arg' = FALSE /\ Below' = << >>
    <3>1. call' = <<<<"non_buffered", FALSE>>>>
      BY <1>1, <1>c, Tail1
    <3> QED
      BY <3>1, CallB
  <2>t. n \in Int
    BY <1>3, <1>4, <1>1, <1>c DEF IndInv, TypeOK, UType
  <2>b. u' = [u EXCEPT !.rh = "plain", !.length = n]
    BY <1>2, <1>c
  <2>2. u' \in UType({u'.d})
    BY <1>3, <2>t, <2>b DEF UType
  <2>3. TypeOK'
    BY <1>4, <1>2, <2>t, <2>1, <2>2 DEF TypeOK
  <2>9. StackOK'
    BY <1>1, <1>2, <2>t, <2>b, <2>1, <2>2 DEF IndInv, TypeOK, UType, StackOK
  <2>4. StartOK' /\ EndOK'
    BY <1>1, <1>2, <2>t, <2>b, <2>1, <2>2 DEF IndInv, TypeOK, UType, StackOK, StartOK, EndOK,
           Nothing, U0, Out0
  <2>5. PhaseOK'
    BY <1>1, <1>2, <2>t, <2>b, <2>1, <2>2 DEF IndInv, TypeOK, UType, StartOK, EndOK, PhaseOK,
           Passing
  <2>6. BodyOK'
    BY <1>1, <1>2, <2>t, <2>b, <2>1, <2>2 DEF IndInv, TypeOK, UType, EndOK, PhaseOK, Passing,
           BodyOK, AllOfIt
  <2>7. PeersBalanced'
    BY <1>1, <1>2, <2>t, <2>b, <2>1, <2>2 DEF IndInv, TypeOK, UType, StartOK, EndOK, PeersBalanced
  <2>8. ASSUME Plain, TimersOK PROVE TimersOK'
    BY <1>1, <1>2, <2>t, <2>b, <2>1, <2>2, <2>8 DEF IndInv, TypeOK, UType, StartOK, Nothing, EndOK,
           PhaseOK, Passing, Plain, TimersOK, WaitHasTimer, Live, Idle, Ended
  <2> QED
    BY <2>3, <2>4, <2>5, <2>6, <2>7, <2>8, <2>9 DEF Kept, IndInv
<1>d. ASSUME NEW n \in {-1, u.cl},
             u' = [u EXCEPT !.rh = "plain", !.length = n],
             Tail_(<< >>)
      PROVE  Kept
  <2>1. call' = << >> /\ Top' = "none" /\ Below' = << >>
    BY <1>1, <1>d, Tail0, Call0
  <2>t. n \in Int
    BY <1>3, <1>4, <1>1, <1>d DEF IndInv, TypeOK, UType
  <2>b. u' = [u EXCEPT !.rh = "plain", !.length = n]
    BY <1>2, <1>d
  <2>2. u' \in UType({u'.d})
    BY <1>3, <2>t, <2>b DEF UType
  <2>3. TypeOK'
    BY <1>4, <1>2, <2>t, <2>1, <2>2 DEF TypeOK
  <2>9. StackOK'
    BY <1>1, <1>2, <2>t, <2>b, <2>1, <2>2 DEF IndInv, TypeOK, UType, StackOK
  <2>4. StartOK' /\ EndOK'
    BY <1>1, <1>2, <2>t, <2>b, <2>1, <2>2 DEF IndInv, TypeOK, UType, StackOK, StartOK, EndOK,
           Nothing, U0, Out0
  <2>5. PhaseOK'
    BY <1>1, <1>2, <2>t, <2>b, <2>1, <2>2 DEF IndInv, TypeOK, UType, StartOK, EndOK, PhaseOK,
           Passing
  <2>6. BodyOK'
    BY <1>1, <1>2, <2>t, <2>b, <2>1, <2>2 DEF IndInv, TypeOK, UType, EndOK, PhaseOK, Passing,
           BodyOK, AllOfIt
  <2>7. PeersBalanced'
    BY <1>1, <1>2, <2>t, <2>b, <2>1, <2>2 DEF IndInv, TypeOK, UType, StartOK, EndOK, PeersBalanced
  <2>8. ASSUME Plain, TimersOK PROVE TimersOK'
    BY <1>1, <1>2, <2>t, <2>b, <2>1, <2>2, <2>8 DEF IndInv, TypeOK, UType, StartOK, Nothing, EndOK,
           PhaseOK, Passing, Plain, TimersOK, WaitHasTimer, Live, Idle, Ended
  <2> QED
    BY <2>3, <2>4, <2>5, <2>6, <2>7, <2>8, <2>9 DEF Kept, IndInv
<1> QED
  BY <1>a, <1>b, <1>c, <1>d DEF unbuffered

(* buffered: the pipe is set up with the length of the body, if it is known. *)
LEMMA BufferedKept == ASSUME Settings, IndInv, buffered PROVE Kept
<1>1. call # << >> /\ Top = "buffered" /\ Below = << >>
  <2>1. Pending("buffered")
    BY DEF buffered
  <2> QED
    BY <2>1, Alone
<1>2. UNCHANGED <<P, client, out>>
  BY DEF buffered
<1>3. u \in UType({u.d})
  BY DEF IndInv, TypeOK
<1>4. out \in OType /\ client \in {"ok", "gone", "error"}
  BY DEF IndInv, TypeOK
<1>a. CASE u' = u /\ Tail_(Finalize(ERROR))
  <2>1. call' # << >> /\ Top' = "finalize" /\ Arg' = ERROR /\ Below' = << >>
    BY <1>1, <1>a, Tail1, Call2 DEF Finalize
  <2>2. u' \in UType({u'.d})
    BY <1>3, <1>2, <1>a DEF UType, DECLINED, ERROR
  <2>3. TypeOK'
    BY <1>4, <1>2, <1>a, <2>1, <2>2 DEF TypeOK, DECLINED, ERROR
  <2>9. StackOK'
    BY <1>1, <1>2, <1>a, <2>1, <2>2 DEF IndInv, TypeOK, UType, StackOK, DECLINED, ERROR
  <2>4. StartOK' /\ EndOK'
    BY <1>1, <1>2, <1>a, <2>1, <2>2 DEF IndInv, TypeOK, UType, StackOK, StartOK, EndOK, Nothing, U0,
           Out0, DECLINED, ERROR
  <2>5. PhaseOK'
    BY <1>1, <1>2, <1>a, <2>1, <2>2 DEF IndInv, TypeOK, UType, StartOK, EndOK, PhaseOK, Passing,
           DECLINED, ERROR
  <2>6. BodyOK'
    BY <1>1, <1>2, <1>a, <2>1, <2>2 DEF IndInv, TypeOK, UType, EndOK, PhaseOK, Passing, BodyOK,
           AllOfIt, DECLINED, ERROR
  <2>7. PeersBalanced'
    BY <1>1, <1>2, <1>a, <2>1, <2>2 DEF IndInv, TypeOK, UType, StartOK, EndOK, PeersBalanced,
           DECLINED, ERROR
  <2>8. ASSUME Plain, TimersOK PROVE TimersOK'
    BY <1>1, <1>2, <1>a, <2>1, <2>2, <2>8 DEF IndInv, TypeOK, UType, StartOK, Nothing, EndOK,
           PhaseOK, Passing, Plain, TimersOK, WaitHasTimer, Live, Idle, Ended, DECLINED, ERROR
  <2> QED
    BY <2>3, <2>4, <2>5, <2>6, <2>7, <2>8, <2>9 DEF Kept, IndInv
<1>b. ASSUME NEW n \in {-1, u.cl}, NEW no_cache \in BOOLEAN, NEW valid \in BOOLEAN,
             u' = [u EXCEPT !.cacheable = u.cacheable /\ ~no_cache /\ valid,
                            !.cache = @ /\ u.cacheable /\ ~no_cache /\ valid, !.rh = "pipe",
                            !.length = n, !.done = n # -1 /\ u.got = n],
             Tail_(<<<<"pipe">>>>)
      PROVE  Kept
  <2>1. call' # << >> /\ Top' = "pipe" /\ Below' = << >>
    BY <1>1, <1>b, Tail1, Call1
  <2> DEFINE new_cacheable == u.cacheable /\ ~no_cache /\ valid
             new_cache == u.cache /\ u.cacheable /\ ~no_cache /\ valid
             new_length == n
             new_done == n # -1 /\ u.got = n
  <2>t. /\ new_cacheable \in BOOLEAN
        /\ new_cache \in BOOLEAN
        /\ new_length \in Int
        /\ new_done \in BOOLEAN
    BY <1>3, <1>4, <1>1, <1>b DEF IndInv, TypeOK, UType
  <2>a. new_length \in {-1, u.cl} /\ (new_done => new_length # -1 /\ u.got = new_length)
    BY <1>1, <1>2, <1>b DEF IndInv, TypeOK, UType
  <2>b. u' = [u EXCEPT !.cacheable = new_cacheable, !.cache = new_cache, !.rh = "pipe",
                       !.length = new_length, !.done = new_done]
    BY <1>2, <1>b
  <2> HIDE DEF new_cacheable, new_cache, new_length, new_done
  <2>f. /\ u'.st = u.st /\ u'.resolving = u.resolving /\ u'.cleanup = u.cleanup /\ u'.d = u.d
         /\ u'.sock = u.sock /\ u'.conn = u.conn /\ u'.ssl = u.ssl /\ u'.wh = u.wh
         /\ u'.rh = "pipe" /\ u'.rt = u.rt /\ u'.wt = u.wt /\ u'.ct = u.ct
         /\ u'.request_sent = u.request_sent /\ u'.header_sent = u.header_sent /\ u'.check = u.check /\ u'.buf = u.buf
         /\ u'.att = u.att /\ u'.cacheable = new_cacheable /\ u'.cache = new_cache /\ u'.cstat = u.cstat
         /\ u'.store = u.store /\ u'.status = u.status /\ u'.cl = u.cl /\ u'.length = new_length
         /\ u'.got = u.got /\ u'.eof = u.eof /\ u'.done = new_done /\ u'.err = u.err
         /\ u'.derr = u.derr
    BY <1>3, <2>b DEF UType
  <2>2. u' \in UType({u'.d})
    <3> DEFINE v1 == [u EXCEPT !.cacheable = new_cacheable]
    <3> DEFINE v2 == [v1 EXCEPT !.cache = new_cache]
    <3> DEFINE v3 == [v2 EXCEPT !.rh = "pipe"]
    <3> DEFINE v4 == [v3 EXCEPT !.length = new_length]
    <3> DEFINE v5 == [v4 EXCEPT !.done = new_done]
    <3>x. u' = v5
      BY <1>3, <2>t, <2>b DEF UType
    <3> HIDE DEF v1, v2, v3, v4, v5
    <3>1. v1 \in UType({u.d})
      BY <1>3, <2>t DEF v1, UType
    <3>2. v2 \in UType({u.d})
      BY <3>1, <2>t DEF v2, UType
    <3>3. v3 \in UType({u.d})
      BY <3>2, <2>t DEF v3, UType
    <3>4. v4 \in UType({u.d})
      BY <3>3, <2>t DEF v4, UType
    <3>5. v5 \in UType({u.d})
      BY <3>4, <2>t DEF v5, UType
    <3> QED
      BY <3>x, <3>5, SameData
  <2>3. TypeOK'
    BY <1>4, <1>2, <2>t, <2>1, <2>2, <2>a DEF TypeOK
  <2>9. StackOK'
    BY <1>1, <1>2, <2>t, <2>a, <2>f, <2>1 DEF IndInv, TypeOK, UType, StackOK
  <2>4. StartOK' /\ EndOK'
    BY <1>1, <1>2, <2>t, <2>a, <2>f, <2>1 DEF IndInv, TypeOK, UType, StackOK, StartOK, EndOK,
           Nothing, U0, Out0
  <2>5. PhaseOK'
    BY <1>1, <1>2, <2>t, <2>a, <2>f, <2>1 DEF IndInv, TypeOK, UType, StartOK, EndOK, PhaseOK,
           Passing
  <2>6. BodyOK'
    BY <1>1, <1>2, <2>t, <2>a, <2>f, <2>1 DEF IndInv, TypeOK, UType, EndOK, PhaseOK, Passing,
           BodyOK, AllOfIt
  <2>7. PeersBalanced'
    BY <1>1, <1>2, <2>t, <2>a, <2>f, <2>1 DEF IndInv, TypeOK, UType, StartOK, EndOK, PeersBalanced
  <2>8. ASSUME Plain, TimersOK PROVE TimersOK'
    BY <1>1, <1>2, <2>t, <2>a, <2>f, <2>1, <2>8 DEF IndInv, TypeOK, UType, StartOK, Nothing, EndOK,
           PhaseOK, Passing, Plain, TimersOK, WaitHasTimer, Live, Idle, Ended
  <2> QED
    BY <2>3, <2>4, <2>5, <2>6, <2>7, <2>8, <2>9 DEF Kept, IndInv
<1> QED
  BY <1>a, <1>b DEF buffered

(* redirect: an internal redirect ends what the upstream part of the request does. *)
LEMMA RedirectKept == ASSUME Settings, IndInv, redirect PROVE Kept
<1>1. call # << >> /\ Top = "redirect" /\ Below = << >>
  <2>1. Pending("redirect")
    BY DEF redirect
  <2> QED
    BY <2>1, Alone
<1>2. UNCHANGED <<P, u, client>>
  BY DEF redirect
<1>3. u \in UType({u.d})
  BY DEF IndInv, TypeOK
<1>4. out \in OType /\ client \in {"ok", "gone", "error"}
  BY DEF IndInv, TypeOK
<1>a. CASE out' = [out EXCEPT !.final = @ + 1, !.reply = "redirect"] /\ Tail_(<< >>)
  <2>1. call' = << >> /\ Top' = "none" /\ Below' = << >>
    BY <1>1, <1>a, Tail0, Call0
  <2> DEFINE new_final == out.final + 1
  <2>t. new_final \in Int
    BY <1>3, <1>4, <1>1, <1>a DEF IndInv, TypeOK, UType, OType
  <2>a. new_final = out.final + 1
    BY <1>1, <1>2, <1>a DEF IndInv, TypeOK, UType, OType
  <2>b. out' = [out EXCEPT !.final = new_final, !.reply = "redirect"]
    BY <1>2, <1>a
  <2> HIDE DEF new_final
  <2>2. u' \in UType({u'.d})
    BY <1>3, <1>2, <2>t, <2>b DEF UType, OType
  <2>c. out' \in OType
    BY <1>4, <2>t, <2>b DEF OType
  <2>3. TypeOK'
    BY <1>4, <1>2, <2>t, <2>1, <2>2, <2>c, <2>a DEF TypeOK
  <2>9. StackOK'
    BY <1>1, <1>2, <2>t, <2>a, <2>b, <2>c, <2>1, <2>2 DEF IndInv, TypeOK, UType, StackOK, OType
  <2>4. StartOK' /\ EndOK'
    BY <1>1, <1>2, <2>t, <2>a, <2>b, <2>c, <2>1, <2>2
       DEF IndInv, TypeOK, UType, StackOK, StartOK, EndOK, Nothing, U0, Out0, OType
  <2>5. PhaseOK'
    BY <1>1, <1>2, <2>t, <2>a, <2>b, <2>c, <2>1, <2>2
       DEF IndInv, TypeOK, UType, StartOK, EndOK, PhaseOK, Passing, OType
  <2>6. BodyOK'
    BY <1>1, <1>2, <2>t, <2>a, <2>b, <2>c, <2>1, <2>2
       DEF IndInv, TypeOK, UType, EndOK, PhaseOK, Passing, BodyOK, AllOfIt, OType
  <2>7. PeersBalanced'
    BY <1>1, <1>2, <2>t, <2>a, <2>b, <2>c, <2>1, <2>2
       DEF IndInv, TypeOK, UType, StartOK, EndOK, PeersBalanced, OType
  <2>8. ASSUME Plain, TimersOK PROVE TimersOK'
    BY <1>1, <1>2, <2>t, <2>a, <2>b, <2>c, <2>1, <2>2, <2>8
       DEF IndInv, TypeOK, UType, StartOK, Nothing, EndOK, PhaseOK, Passing, Plain, TimersOK,
           WaitHasTimer, Live, Idle, Ended, OType
  <2> QED
    BY <2>3, <2>4, <2>5, <2>6, <2>7, <2>8, <2>9 DEF Kept, IndInv
<1> QED
  BY <1>a DEF redirect

(* cache_send: a valid file of the cache answers. *)
LEMMA CacheSendKept == ASSUME Settings, IndInv, cache_send PROVE Kept
<1>1. call # << >> /\ Top = "cached" /\ Below = << >>
  <2>1. Pending("cached")
    BY DEF cache_send
  <2> QED
    BY <2>1, Alone
<1>2. UNCHANGED <<P, client>>
  BY DEF cache_send
<1>3. u \in UType({u.d})
  BY DEF IndInv, TypeOK
<1>4. out \in OType /\ client \in {"ok", "gone", "error"}
  BY DEF IndInv, TypeOK
<1>a. CASE /\ u' = [u EXCEPT !.st = "done", !.cache = FALSE]
           /\ out' = [out EXCEPT !.final = @ + 1, !.reply = "cached"]
           /\ Tail_(<< >>)
  <2>1. call' = << >> /\ Top' = "none" /\ Below' = << >>
    BY <1>1, <1>a, Tail0, Call0
  <2> DEFINE new_final == out.final + 1
  <2>t. new_final \in Int
    BY <1>3, <1>4, <1>1, <1>a DEF IndInv, TypeOK, UType, OType
  <2>a. new_final = out.final + 1
    BY <1>1, <1>2, <1>a DEF IndInv, TypeOK, UType, OType
  <2>b. /\ u' = [u EXCEPT !.st = "done", !.cache = FALSE]
        /\ out' = [out EXCEPT !.final = new_final, !.reply = "cached"]
    BY <1>2, <1>a
  <2> HIDE DEF new_final
  <2>2. u' \in UType({u'.d})
    BY <1>3, <2>t, <2>b DEF UType, OType
  <2>c. out' \in OType
    BY <1>4, <2>t, <2>b DEF OType
  <2>3. TypeOK'
    BY <1>4, <1>2, <2>t, <2>1, <2>2, <2>c, <2>a DEF TypeOK
  <2>9. StackOK'
    BY <1>1, <1>2, <2>t, <2>a, <2>b, <2>c, <2>1, <2>2 DEF IndInv, TypeOK, UType, StackOK, OType
  <2>4. StartOK' /\ EndOK'
    BY <1>1, <1>2, <2>t, <2>a, <2>b, <2>c, <2>1, <2>2
       DEF IndInv, TypeOK, UType, StackOK, StartOK, EndOK, Nothing, U0, Out0, OType
  <2>5. PhaseOK'
    BY <1>1, <1>2, <2>t, <2>a, <2>b, <2>c, <2>1, <2>2
       DEF IndInv, TypeOK, UType, StartOK, EndOK, PhaseOK, Passing, OType
  <2>6. BodyOK'
    BY <1>1, <1>2, <2>t, <2>a, <2>b, <2>c, <2>1, <2>2
       DEF IndInv, TypeOK, UType, EndOK, PhaseOK, Passing, BodyOK, AllOfIt, OType
  <2>7. PeersBalanced'
    BY <1>1, <1>2, <2>t, <2>a, <2>b, <2>c, <2>1, <2>2
       DEF IndInv, TypeOK, UType, StartOK, EndOK, PeersBalanced, OType
  <2>8. ASSUME Plain, TimersOK PROVE TimersOK'
    BY <1>1, <1>2, <2>t, <2>a, <2>b, <2>c, <2>1, <2>2, <2>8
       DEF IndInv, TypeOK, UType, StartOK, Nothing, EndOK, PhaseOK, Passing, Plain, TimersOK,
           WaitHasTimer, Live, Idle, Ended, OType
  <2> QED
    BY <2>3, <2>4, <2>5, <2>6, <2>7, <2>8, <2>9 DEF Kept, IndInv
<1> QED
  BY <1>a DEF cache_send

(* finalize_request: the end of a request that has no cleanup yet. *)
LEMMA FinalizeRequestKept == ASSUME Settings, IndInv, finalize_request PROVE Kept
<1>1. call # << >> /\ Top = "finalize_request" /\ Below = << >>
  <2>1. Pending("finalize_request")
    BY DEF finalize_request
  <2> QED
    BY <2>1, Alone
<1>2. UNCHANGED <<P, client>>
  BY DEF finalize_request
<1>3. u \in UType({u.d})
  BY DEF IndInv, TypeOK
<1>4. out \in OType /\ client \in {"ok", "gone", "error"}
  BY DEF IndInv, TypeOK
<1>a. CASE /\ u' = [u EXCEPT !.st = "done", !.cache = FALSE]
           /\ out' = [out EXCEPT !.final = @ + 1, !.reply = "error"]
           /\ Tail_(<< >>)
  <2>1. call' = << >> /\ Top' = "none" /\ Below' = << >>
    BY <1>1, <1>a, Tail0, Call0
  <2> DEFINE new_final == out.final + 1
  <2>t. new_final \in Int
    BY <1>3, <1>4, <1>1, <1>a DEF IndInv, TypeOK, UType, OType
  <2>a. new_final = out.final + 1
    BY <1>1, <1>2, <1>a DEF IndInv, TypeOK, UType, OType
  <2>b. /\ u' = [u EXCEPT !.st = "done", !.cache = FALSE]
        /\ out' = [out EXCEPT !.final = new_final, !.reply = "error"]
    BY <1>2, <1>a
  <2> HIDE DEF new_final
  <2>2. u' \in UType({u'.d})
    BY <1>3, <2>t, <2>b DEF UType, OType
  <2>c. out' \in OType
    BY <1>4, <2>t, <2>b DEF OType
  <2>3. TypeOK'
    BY <1>4, <1>2, <2>t, <2>1, <2>2, <2>c, <2>a DEF TypeOK
  <2>9. StackOK'
    BY <1>1, <1>2, <2>t, <2>a, <2>b, <2>c, <2>1, <2>2 DEF IndInv, TypeOK, UType, StackOK, OType
  <2>4. StartOK' /\ EndOK'
    BY <1>1, <1>2, <2>t, <2>a, <2>b, <2>c, <2>1, <2>2
       DEF IndInv, TypeOK, UType, StackOK, StartOK, EndOK, Nothing, U0, Out0, OType
  <2>5. PhaseOK'
    BY <1>1, <1>2, <2>t, <2>a, <2>b, <2>c, <2>1, <2>2
       DEF IndInv, TypeOK, UType, StartOK, EndOK, PhaseOK, Passing, OType
  <2>6. BodyOK'
    BY <1>1, <1>2, <2>t, <2>a, <2>b, <2>c, <2>1, <2>2
       DEF IndInv, TypeOK, UType, EndOK, PhaseOK, Passing, BodyOK, AllOfIt, OType
  <2>7. PeersBalanced'
    BY <1>1, <1>2, <2>t, <2>a, <2>b, <2>c, <2>1, <2>2
       DEF IndInv, TypeOK, UType, StartOK, EndOK, PeersBalanced, OType
  <2>8. ASSUME Plain, TimersOK PROVE TimersOK'
    BY <1>1, <1>2, <2>t, <2>a, <2>b, <2>c, <2>1, <2>2, <2>8
       DEF IndInv, TypeOK, UType, StartOK, Nothing, EndOK, PhaseOK, Passing, Plain, TimersOK,
           WaitHasTimer, Live, Idle, Ended, OType
  <2> QED
    BY <2>3, <2>4, <2>5, <2>6, <2>7, <2>8, <2>9 DEF Kept, IndInv
<1> QED
  BY <1>a DEF finalize_request

(* header_done: another peer, the expired copy, an error page, or the body. *)
LEMMA HeaderDoneKept == ASSUME Settings, IndInv, header_done PROVE Kept
<1>1. call # << >> /\ Top = "header_done" /\ Below = << >>
  <2>1. Pending("header_done")
    BY DEF header_done
  <2> QED
    BY <2>1, Alone
<1>2. UNCHANGED <<P, client, out>>
  BY DEF header_done, process_headers, keep_in_memory
<1>3. u \in UType({u.d})
  BY DEF IndInv, TypeOK
<1>4. out \in OType /\ client \in {"ok", "gone", "error"}
  BY DEF IndInv, TypeOK
<1>a. CASE u' = u /\ Tail_(GoNext(ft_of(u.status)))
  <2>1. call' # << >> /\ Top' = "next" /\ Arg' = ft_of(u.status) /\ Below' = << >>
    BY <1>1, <1>a, Tail1, Call2 DEF GoNext
  <2>2. u' \in UType({u'.d})
    BY <1>3, <1>2, <1>a DEF UType
  <2>3. TypeOK'
    BY <1>4, <1>2, <1>a, <2>1, <2>2 DEF TypeOK
  <2>9. StackOK'
    BY <1>1, <1>2, <1>a, <2>1, <2>2 DEF IndInv, TypeOK, UType, StackOK
  <2>4. StartOK' /\ EndOK'
    BY <1>1, <1>2, <1>a, <2>1, <2>2 DEF IndInv, TypeOK, UType, StackOK, StartOK, EndOK, Nothing, U0,
           Out0
  <2>5. PhaseOK'
    BY <1>1, <1>2, <1>a, <2>1, <2>2 DEF IndInv, TypeOK, UType, StartOK, EndOK, PhaseOK, Passing
  <2>6. BodyOK'
    BY <1>1, <1>2, <1>a, <2>1, <2>2 DEF IndInv, TypeOK, UType, EndOK, PhaseOK, Passing, BodyOK,
           AllOfIt
  <2>7. PeersBalanced'
    BY <1>1, <1>2, <1>a, <2>1, <2>2 DEF IndInv, TypeOK, UType, StartOK, EndOK, PeersBalanced
  <2>8. ASSUME Plain, TimersOK PROVE TimersOK'
    BY <1>1, <1>2, <1>a, <2>1, <2>2, <2>8 DEF IndInv, TypeOK, UType, StartOK, Nothing, EndOK,
           PhaseOK, Passing, Plain, TimersOK, WaitHasTimer, Live, Idle, Ended
  <2> QED
    BY <2>3, <2>4, <2>5, <2>6, <2>7, <2>8, <2>9 DEF Kept, IndInv
<1>b. CASE u' = [u EXCEPT !.cstat = "stale"] /\ Tail_(<<<<"stale_send">>>>)
  <2>1. call' # << >> /\ Top' = "stale_send" /\ Below' = << >>
    BY <1>1, <1>b, Tail1, Call1
  <2>2. u' \in UType({u'.d})
    BY <1>3, <1>2, <1>b DEF UType
  <2>3. TypeOK'
    BY <1>4, <1>2, <1>b, <2>1, <2>2 DEF TypeOK
  <2>9. StackOK'
    BY <1>1, <1>2, <1>b, <2>1, <2>2 DEF IndInv, TypeOK, UType, StackOK
  <2>4. StartOK' /\ EndOK'
    BY <1>1, <1>2, <1>b, <2>1, <2>2 DEF IndInv, TypeOK, UType, StackOK, StartOK, EndOK, Nothing, U0,
           Out0
  <2>5. PhaseOK'
    BY <1>1, <1>2, <1>b, <2>1, <2>2 DEF IndInv, TypeOK, UType, StartOK, EndOK, PhaseOK, Passing
  <2>6. BodyOK'
    BY <1>1, <1>2, <1>b, <2>1, <2>2 DEF IndInv, TypeOK, UType, EndOK, PhaseOK, Passing, BodyOK,
           AllOfIt
  <2>7. PeersBalanced'
    BY <1>1, <1>2, <1>b, <2>1, <2>2 DEF IndInv, TypeOK, UType, StartOK, EndOK, PeersBalanced
  <2>8. ASSUME Plain, TimersOK PROVE TimersOK'
    BY <1>1, <1>2, <1>b, <2>1, <2>2, <2>8 DEF IndInv, TypeOK, UType, StartOK, Nothing, EndOK,
           PhaseOK, Passing, Plain, TimersOK, WaitHasTimer, Live, Idle, Ended
  <2> QED
    BY <2>3, <2>4, <2>5, <2>6, <2>7, <2>8, <2>9 DEF Kept, IndInv
<1>c. CASE u.status >= 300 /\ u' = [u EXCEPT !.cache = FALSE] /\ Tail_(Finalize(u.status))
  <2>1. call' # << >> /\ Top' = "finalize" /\ Arg' = u.status /\ Below' = << >>
    BY <1>1, <1>c, Tail1, Call2 DEF Finalize
  <2>t. u.status \in Int /\ u.status >= 300
    BY <1>3, <1>4, <1>1, <1>c DEF Statuses, IndInv, TypeOK, UType
  <2>b. u' = [u EXCEPT !.cache = FALSE]
    BY <1>2, <1>c
  <2>2. u' \in UType({u'.d})
    BY <1>3, <2>t, <2>b DEF UType, DECLINED
  <2>3. TypeOK'
    BY <1>4, <1>2, <2>t, <2>1, <2>2 DEF TypeOK, DECLINED
  <2>9. StackOK'
    BY <1>1, <1>2, <2>t, <2>b, <2>1, <2>2 DEF IndInv, TypeOK, UType, StackOK, DECLINED
  <2>4. StartOK' /\ EndOK'
    BY <1>1, <1>2, <2>t, <2>b, <2>1, <2>2 DEF IndInv, TypeOK, UType, StackOK, StartOK, EndOK,
           Nothing, U0, Out0, DECLINED
  <2>5. PhaseOK'
    BY <1>1, <1>2, <2>t, <2>b, <2>1, <2>2 DEF IndInv, TypeOK, UType, StartOK, EndOK, PhaseOK,
           Passing, DECLINED
  <2>6. BodyOK'
    BY <1>1, <1>2, <2>t, <2>b, <2>1, <2>2 DEF IndInv, TypeOK, UType, EndOK, PhaseOK, Passing,
           BodyOK, AllOfIt, DECLINED
  <2>7. PeersBalanced'
    BY <1>1, <1>2, <2>t, <2>b, <2>1, <2>2 DEF IndInv, TypeOK, UType, StartOK, EndOK, PeersBalanced,
           DECLINED
  <2>8. ASSUME Plain, TimersOK PROVE TimersOK'
    BY <1>1, <1>2, <2>t, <2>b, <2>1, <2>2, <2>8 DEF IndInv, TypeOK, UType, StartOK, Nothing, EndOK,
           PhaseOK, Passing, Plain, TimersOK, WaitHasTimer, Live, Idle, Ended, DECLINED
  <2> QED
    BY <2>3, <2>4, <2>5, <2>6, <2>7, <2>8, <2>9 DEF Kept, IndInv
<1>d. CASE u' = u /\ Tail_(<<<<"finalize", DECLINED>>, <<"redirect">>>>)
  <2>1. call' # << >> /\ Top' = "finalize" /\ Arg' = DECLINED /\ Below' = <<<<"redirect">>>>
    BY <1>1, <1>d, Tail2, Call2B
  <2>2. u' \in UType({u'.d})
    BY <1>3, <1>2, <1>d DEF UType, DECLINED
  <2>3. TypeOK'
    BY <1>4, <1>2, <1>d, <2>1, <2>2 DEF TypeOK, DECLINED
  <2>9. StackOK'
    BY <1>1, <1>2, <1>d, <2>1, <2>2 DEF IndInv, TypeOK, UType, StackOK, DECLINED
  <2>4. StartOK' /\ EndOK'
    BY <1>1, <1>2, <1>d, <2>1, <2>2 DEF IndInv, TypeOK, UType, StackOK, StartOK, EndOK, Nothing, U0,
           Out0, DECLINED
  <2>5. PhaseOK'
    BY <1>1, <1>2, <1>d, <2>1, <2>2 DEF IndInv, TypeOK, UType, StartOK, EndOK, PhaseOK, Passing,
           DECLINED
  <2>6. BodyOK'
    BY <1>1, <1>2, <1>d, <2>1, <2>2 DEF IndInv, TypeOK, UType, EndOK, PhaseOK, Passing, BodyOK,
           AllOfIt, DECLINED
  <2>7. PeersBalanced'
    BY <1>1, <1>2, <1>d, <2>1, <2>2 DEF IndInv, TypeOK, UType, StartOK, EndOK, PeersBalanced,
           DECLINED
  <2>8. ASSUME Plain, TimersOK PROVE TimersOK'
    BY <1>1, <1>2, <1>d, <2>1, <2>2, <2>8 DEF IndInv, TypeOK, UType, StartOK, Nothing, EndOK,
           PhaseOK, Passing, Plain, TimersOK, WaitHasTimer, Live, Idle, Ended, DECLINED
  <2> QED
    BY <2>3, <2>4, <2>5, <2>6, <2>7, <2>8, <2>9 DEF Kept, IndInv
<1>e. CASE u' = u /\ Tail_(Finalize(500))
  <2>1. call' # << >> /\ Top' = "finalize" /\ Arg' = 500 /\ Below' = << >>
    BY <1>1, <1>e, Tail1, Call2 DEF Finalize
  <2>2. u' \in UType({u'.d})
    BY <1>3, <1>2, <1>e DEF UType, DECLINED
  <2>3. TypeOK'
    BY <1>4, <1>2, <1>e, <2>1, <2>2 DEF TypeOK, DECLINED
  <2>9. StackOK'
    BY <1>1, <1>2, <1>e, <2>1, <2>2 DEF IndInv, TypeOK, UType, StackOK, DECLINED
  <2>4. StartOK' /\ EndOK'
    BY <1>1, <1>2, <1>e, <2>1, <2>2 DEF IndInv, TypeOK, UType, StackOK, StartOK, EndOK, Nothing, U0,
           Out0, DECLINED
  <2>5. PhaseOK'
    BY <1>1, <1>2, <1>e, <2>1, <2>2 DEF IndInv, TypeOK, UType, StartOK, EndOK, PhaseOK, Passing,
           DECLINED
  <2>6. BodyOK'
    BY <1>1, <1>2, <1>e, <2>1, <2>2 DEF IndInv, TypeOK, UType, EndOK, PhaseOK, Passing, BodyOK,
           AllOfIt, DECLINED
  <2>7. PeersBalanced'
    BY <1>1, <1>2, <1>e, <2>1, <2>2 DEF IndInv, TypeOK, UType, StartOK, EndOK, PeersBalanced,
           DECLINED
  <2>8. ASSUME Plain, TimersOK PROVE TimersOK'
    BY <1>1, <1>2, <1>e, <2>1, <2>2, <2>8 DEF IndInv, TypeOK, UType, StartOK, Nothing, EndOK,
           PhaseOK, Passing, Plain, TimersOK, WaitHasTimer, Live, Idle, Ended, DECLINED
  <2> QED
    BY <2>3, <2>4, <2>5, <2>6, <2>7, <2>8, <2>9 DEF Kept, IndInv
<1>f. CASE ~InMemory /\ u' = [u EXCEPT !.length = -1] /\ Tail_(<<<<"send_response">>>>)
  <2>1. call' # << >> /\ Top' = "send_response" /\ Below' = << >>
    BY <1>1, <1>f, Tail1, Call1
  <2>2. u' \in UType({u'.d})
    BY <1>3, <1>2, <1>f DEF UType
  <2>3. TypeOK'
    BY <1>4, <1>2, <1>f, <2>1, <2>2 DEF TypeOK
  <2>9. StackOK'
    BY <1>1, <1>2, <1>f, <2>1, <2>2 DEF IndInv, TypeOK, UType, StackOK
  <2>4. StartOK' /\ EndOK'
    BY <1>1, <1>2, <1>f, <2>1, <2>2 DEF IndInv, TypeOK, UType, StackOK, StartOK, EndOK, Nothing, U0,
           Out0
  <2>5. PhaseOK'
    BY <1>1, <1>2, <1>f, <2>1, <2>2 DEF IndInv, TypeOK, UType, StartOK, EndOK, PhaseOK, Passing
  <2>6. BodyOK'
    BY <1>1, <1>2, <1>f, <2>1, <2>2 DEF IndInv, TypeOK, UType, EndOK, PhaseOK, Passing, BodyOK,
           AllOfIt
  <2>7. PeersBalanced'
    BY <1>1, <1>2, <1>f, <2>1, <2>2 DEF IndInv, TypeOK, UType, StartOK, EndOK, PeersBalanced
  <2>8. ASSUME Plain, TimersOK PROVE TimersOK'
    BY <1>1, <1>2, <1>f, <2>1, <2>2, <2>8 DEF IndInv, TypeOK, UType, StartOK, Nothing, EndOK,
           PhaseOK, Passing, Plain, TimersOK, WaitHasTimer, Live, Idle, Ended
  <2> QED
    BY <2>3, <2>4, <2>5, <2>6, <2>7, <2>8, <2>9 DEF Kept, IndInv
<1>g. ASSUME NEW n \in {-1, u.cl},
             InMemory,
             u' = [u EXCEPT !.length = n, !.rh = "memory"],
             Tail_(Finalize(0))
      PROVE  Kept
  <2>1. call' # << >> /\ Top' = "finalize" /\ Arg' = 0 /\ Below' = << >>
    BY <1>1, <1>g, Tail1, Call2 DEF Finalize
  <2>t. n \in Int /\ InMemory
    BY <1>3, <1>4, <1>1, <1>g DEF IndInv, TypeOK, UType
  <2>b. u' = [u EXCEPT !.length = n, !.rh = "memory"]
    BY <1>2, <1>g
  <2>2. u' \in UType({u'.d})
    BY <1>3, <2>t, <2>b DEF UType, DECLINED
  <2>3. TypeOK'
    BY <1>4, <1>2, <2>t, <2>1, <2>2 DEF TypeOK, DECLINED
  <2>9. StackOK'
    BY <1>1, <1>2, <2>t, <2>b, <2>1, <2>2 DEF IndInv, TypeOK, UType, StackOK, DECLINED
  <2>4. StartOK' /\ EndOK'
    BY <1>1, <1>2, <2>t, <2>b, <2>1, <2>2 DEF IndInv, TypeOK, UType, StackOK, StartOK, EndOK,
           Nothing, U0, Out0, DECLINED
  <2>5. PhaseOK'
    BY <1>1, <1>2, <2>t, <2>b, <2>1, <2>2 DEF IndInv, TypeOK, UType, StartOK, EndOK, PhaseOK,
           Passing, DECLINED
  <2>6. BodyOK'
    BY <1>1, <1>2, <2>t, <2>b, <2>1, <2>2 DEF IndInv, TypeOK, UType, EndOK, PhaseOK, Passing,
           BodyOK, AllOfIt, DECLINED
  <2>7. PeersBalanced'
    BY <1>1, <1>2, <2>t, <2>b, <2>1, <2>2 DEF IndInv, TypeOK, UType, StartOK, EndOK, PeersBalanced,
           DECLINED
  <2>8. ASSUME Plain, TimersOK PROVE TimersOK'
    BY <1>1, <1>2, <2>t, <2>b, <2>1, <2>2, <2>8 DEF IndInv, TypeOK, UType, StartOK, Nothing, EndOK,
           PhaseOK, Passing, Plain, TimersOK, WaitHasTimer, Live, Idle, Ended, DECLINED
  <2> QED
    BY <2>3, <2>4, <2>5, <2>6, <2>7, <2>8, <2>9 DEF Kept, IndInv
<1>h. ASSUME NEW n \in {-1, u.cl},
             InMemory,
             u' = [u EXCEPT !.length = n, !.rh = "memory"],
             Tail_(<<<<"process_body_in_memory">>>>)
      PROVE  Kept
  <2>1. call' # << >> /\ Top' = "process_body_in_memory" /\ Below' = << >>
    BY <1>1, <1>h, Tail1, Call1
  <2>t. n \in Int /\ InMemory
    BY <1>3, <1>4, <1>1, <1>h DEF IndInv, TypeOK, UType
  <2>b. u' = [u EXCEPT !.length = n, !.rh = "memory"]
    BY <1>2, <1>h
  <2>2. u' \in UType({u'.d})
    BY <1>3, <2>t, <2>b DEF UType
  <2>3. TypeOK'
    BY <1>4, <1>2, <2>t, <2>1, <2>2 DEF TypeOK
  <2>9. StackOK'
    BY <1>1, <1>2, <2>t, <2>b, <2>1, <2>2 DEF IndInv, TypeOK, UType, StackOK
  <2>4. StartOK' /\ EndOK'
    BY <1>1, <1>2, <2>t, <2>b, <2>1, <2>2 DEF IndInv, TypeOK, UType, StackOK, StartOK, EndOK,
           Nothing, U0, Out0
  <2>5. PhaseOK'
    BY <1>1, <1>2, <2>t, <2>b, <2>1, <2>2 DEF IndInv, TypeOK, UType, StartOK, EndOK, PhaseOK,
           Passing
  <2>6. BodyOK'
    BY <1>1, <1>2, <2>t, <2>b, <2>1, <2>2 DEF IndInv, TypeOK, UType, EndOK, PhaseOK, Passing,
           BodyOK, AllOfIt
  <2>7. PeersBalanced'
    BY <1>1, <1>2, <2>t, <2>b, <2>1, <2>2 DEF IndInv, TypeOK, UType, StartOK, EndOK, PeersBalanced
  <2>8. ASSUME Plain, TimersOK PROVE TimersOK'
    BY <1>1, <1>2, <2>t, <2>b, <2>1, <2>2, <2>8 DEF IndInv, TypeOK, UType, StartOK, Nothing, EndOK,
           PhaseOK, Passing, Plain, TimersOK, WaitHasTimer, Live, Idle, Ended
  <2> QED
    BY <2>3, <2>4, <2>5, <2>6, <2>7, <2>8, <2>9 DEF Kept, IndInv
<1> QED
  BY <1>a, <1>b, <1>c, <1>d, <1>e, <1>f, <1>g, <1>h DEF header_done, process_headers, keep_in_memory

(* send_response: the header to the client; a body is passed on in one of four ways. *)
LEMMA SendResponseKept == ASSUME Settings, IndInv, send_response PROVE Kept
<1>1. call # << >> /\ Top = "send_response" /\ Below = << >>
  <2>1. Pending("send_response")
    BY DEF send_response
  <2> QED
    BY <2>1, Alone
<1>2. UNCHANGED <<P>>
  BY DEF send_response, IndInv, TypeOK, UType
<1>3. u \in UType({u.d})
  BY DEF IndInv, TypeOK
<1>4. out \in OType /\ client \in {"ok", "gone", "error"}
  BY DEF IndInv, TypeOK
<1>a. CASE u' = u /\ out' = out /\ client' = client /\ Tail_(Finalize(ERROR))
  <2>1. call' # << >> /\ Top' = "finalize" /\ Arg' = ERROR /\ Below' = << >>
    BY <1>1, <1>a, Tail1, Call2 DEF Finalize
  <2>2. u' \in UType({u'.d})
    BY <1>3, <1>2, <1>a DEF UType, DECLINED, ERROR
  <2>3. TypeOK'
    BY <1>4, <1>2, <1>a, <2>1, <2>2 DEF TypeOK, DECLINED, ERROR
  <2>9. StackOK'
    BY <1>1, <1>2, <1>a, <2>1, <2>2 DEF IndInv, TypeOK, UType, StackOK, DECLINED, ERROR
  <2>4. StartOK' /\ EndOK'
    BY <1>1, <1>2, <1>a, <2>1, <2>2 DEF IndInv, TypeOK, UType, StackOK, StartOK, EndOK, Nothing, U0,
           Out0, DECLINED, ERROR
  <2>5. PhaseOK'
    BY <1>1, <1>2, <1>a, <2>1, <2>2 DEF IndInv, TypeOK, UType, StartOK, EndOK, PhaseOK, Passing,
           DECLINED, ERROR
  <2>6. BodyOK'
    BY <1>1, <1>2, <1>a, <2>1, <2>2 DEF IndInv, TypeOK, UType, EndOK, PhaseOK, Passing, BodyOK,
           AllOfIt, DECLINED, ERROR
  <2>7. PeersBalanced'
    BY <1>1, <1>2, <1>a, <2>1, <2>2 DEF IndInv, TypeOK, UType, StartOK, EndOK, PeersBalanced,
           DECLINED, ERROR
  <2>8. ASSUME Plain, TimersOK PROVE TimersOK'
    BY <1>1, <1>2, <1>a, <2>1, <2>2, <2>8 DEF IndInv, TypeOK, UType, StartOK, Nothing, EndOK,
           PhaseOK, Passing, Plain, TimersOK, WaitHasTimer, Live, Idle, Ended, DECLINED, ERROR
  <2> QED
    BY <2>3, <2>4, <2>5, <2>6, <2>7, <2>8, <2>9 DEF Kept, IndInv
<1>b. CASE /\ client' \in {"ok", "gone", "error"}
           /\ ~u.header_sent
           /\ Upgrades
           /\ u' = [u EXCEPT !.header_sent = TRUE]
           /\ out' = [out EXCEPT !.reply = "upstream"]
           /\ Tail_(<<<<"upgrade">>>>)
  <2>1. call' # << >> /\ Top' = "upgrade" /\ Below' = << >>
    BY <1>1, <1>b, Tail1, Call1
  <2>t. client' \in {"ok", "gone", "error"} /\ ~InMemory /\ Upgrades
    BY <1>3, <1>4, <1>1, <1>b DEF PhaseOK, IndInv, TypeOK, UType, OType
  <2>b. u' = [u EXCEPT !.header_sent = TRUE] /\ out' = [out EXCEPT !.reply = "upstream"]
    BY <1>2, <1>b DEF IndInv, TypeOK, UType
  <2>2. u' \in UType({u'.d})
    BY <1>3, <2>t, <2>b DEF UType, OType
  <2>c. out' \in OType
    BY <1>4, <2>t, <2>b DEF OType
  <2>3. TypeOK'
    BY <1>4, <1>2, <2>t, <2>1, <2>2, <2>c DEF TypeOK
  <2>9. StackOK'
    BY <1>1, <1>2, <2>t, <2>b, <2>c, <2>1, <2>2 DEF IndInv, TypeOK, UType, StackOK, OType
  <2>4. StartOK' /\ EndOK'
    BY <1>1, <1>2, <2>t, <2>b, <2>c, <2>1, <2>2 DEF IndInv, TypeOK, UType, StackOK, StartOK, EndOK,
           Nothing, U0, Out0, OType
  <2>5. PhaseOK'
    BY <1>1, <1>2, <2>t, <2>b, <2>c, <2>1, <2>2 DEF IndInv, TypeOK, UType, StartOK, EndOK, PhaseOK,
           Passing, OType
  <2>6. BodyOK'
    BY <1>1, <1>2, <2>t, <2>b, <2>c, <2>1, <2>2 DEF IndInv, TypeOK, UType, EndOK, PhaseOK, Passing,
           BodyOK, AllOfIt, OType
  <2>7. PeersBalanced'
    BY <1>1, <1>2, <2>t, <2>b, <2>c, <2>1, <2>2 DEF IndInv, TypeOK, UType, StartOK, EndOK,
           PeersBalanced, OType
  <2>8. ASSUME Plain, TimersOK PROVE TimersOK'
    BY <1>1, <1>2, <2>t, <2>b, <2>c, <2>1, <2>2, <2>8
       DEF IndInv, TypeOK, UType, StartOK, Nothing, EndOK, PhaseOK, Passing, Plain, TimersOK,
           WaitHasTimer, Live, Idle, Ended, OType
  <2> QED
    BY <2>3, <2>4, <2>5, <2>6, <2>7, <2>8, <2>9 DEF Kept, IndInv
<1>c. CASE /\ client' \in {"ok", "gone", "error"}
           /\ ~u.header_sent
           /\ HeadOnly
           /\ u' = [u EXCEPT !.header_sent = TRUE]
           /\ out' = [out EXCEPT !.reply = "upstream"]
           /\ Tail_(Finalize(0))
  <2>1. call' # << >> /\ Top' = "finalize" /\ Arg' = 0 /\ Below' = << >>
    BY <1>1, <1>c, Tail1, Call2 DEF Finalize
  <2>t. client' \in {"ok", "gone", "error"} /\ ~InMemory /\ HeadOnly
    BY <1>3, <1>4, <1>1, <1>c DEF PhaseOK, IndInv, TypeOK, UType, OType
  <2>b. u' = [u EXCEPT !.header_sent = TRUE] /\ out' = [out EXCEPT !.reply = "upstream"]
    BY <1>2, <1>c DEF IndInv, TypeOK, UType
  <2>2. u' \in UType({u'.d})
    BY <1>3, <2>t, <2>b DEF UType, DECLINED, OType
  <2>c. out' \in OType
    BY <1>4, <2>t, <2>b DEF OType
  <2>3. TypeOK'
    BY <1>4, <1>2, <2>t, <2>1, <2>2, <2>c DEF TypeOK, DECLINED
  <2>9. StackOK'
    BY <1>1, <1>2, <2>t, <2>b, <2>c, <2>1, <2>2 DEF IndInv, TypeOK, UType, StackOK, DECLINED, OType
  <2>4. StartOK' /\ EndOK'
    BY <1>1, <1>2, <2>t, <2>b, <2>c, <2>1, <2>2 DEF IndInv, TypeOK, UType, StackOK, StartOK, EndOK,
           Nothing, U0, Out0, DECLINED, OType
  <2>5. PhaseOK'
    BY <1>1, <1>2, <2>t, <2>b, <2>c, <2>1, <2>2 DEF IndInv, TypeOK, UType, StartOK, EndOK, PhaseOK,
           Passing, DECLINED, OType
  <2>6. BodyOK'
    BY <1>1, <1>2, <2>t, <2>b, <2>c, <2>1, <2>2 DEF IndInv, TypeOK, UType, EndOK, PhaseOK, Passing,
           BodyOK, AllOfIt, DECLINED, OType
  <2>7. PeersBalanced'
    BY <1>1, <1>2, <2>t, <2>b, <2>c, <2>1, <2>2 DEF IndInv, TypeOK, UType, StartOK, EndOK,
           PeersBalanced, DECLINED, OType
  <2>8. ASSUME Plain, TimersOK PROVE TimersOK'
    BY <1>1, <1>2, <2>t, <2>b, <2>c, <2>1, <2>2, <2>8
       DEF IndInv, TypeOK, UType, StartOK, Nothing, EndOK, PhaseOK, Passing, Plain, TimersOK,
           WaitHasTimer, Live, Idle, Ended, DECLINED, OType
  <2> QED
    BY <2>3, <2>4, <2>5, <2>6, <2>7, <2>8, <2>9 DEF Kept, IndInv
<1>d. CASE /\ client' \in {"ok", "gone", "error"}
           /\ ~u.header_sent
           /\ u' = [u EXCEPT !.header_sent = TRUE, !.check = @ /\ ~HeadOnly]
           /\ out' = [out EXCEPT !.reply = "upstream"]
           /\ Tail_(<<<<"buffered">>>>)
  <2>1. call' # << >> /\ Top' = "buffered" /\ Below' = << >>
    BY <1>1, <1>d, Tail1, Call1
  <2> DEFINE new_check == u.check /\ ~HeadOnly
  <2>t. new_check \in BOOLEAN
    BY <1>3, <1>4, <1>1, <1>d DEF PhaseOK, IndInv, TypeOK, UType, OType
  <2>a. client' \in {"ok", "gone", "error"} /\ ~InMemory
    BY <1>1, <1>2, <1>d DEF PhaseOK, IndInv, TypeOK, UType, OType
  <2>b. /\ u' = [u EXCEPT !.header_sent = TRUE, !.check = new_check]
        /\ out' = [out EXCEPT !.reply = "upstream"]
    BY <1>2, <1>d DEF IndInv, TypeOK, UType
  <2> HIDE DEF new_check
  <2>2. u' \in UType({u'.d})
    <3> DEFINE v1 == [u EXCEPT !.header_sent = TRUE]
    <3> DEFINE v2 == [v1 EXCEPT !.check = new_check]
    <3>x. u' = v2
      BY <1>3, <2>t, <2>b DEF UType
    <3> HIDE DEF v1, v2
    <3>1. v1 \in UType({u.d})
      BY <1>3, <2>t DEF v1, UType, OType
    <3>2. v2 \in UType({u.d})
      BY <3>1, <2>t DEF v2, UType, OType
    <3> QED
      BY <3>x, <3>2, SameData
  <2>c. out' \in OType
    BY <1>4, <2>t, <2>b DEF OType
  <2>3. TypeOK'
    BY <1>4, <1>2, <2>t, <2>1, <2>2, <2>c, <2>a DEF TypeOK
  <2>9. StackOK'
    BY <1>1, <1>2, <2>t, <2>a, <2>b, <2>c, <2>1, <2>2 DEF IndInv, TypeOK, UType, StackOK, OType
  <2>4. StartOK' /\ EndOK'
    BY <1>1, <1>2, <2>t, <2>a, <2>b, <2>c, <2>1, <2>2
       DEF IndInv, TypeOK, UType, StackOK, StartOK, EndOK, Nothing, U0, Out0, OType
  <2>5. PhaseOK'
    BY <1>1, <1>2, <2>t, <2>a, <2>b, <2>c, <2>1, <2>2
       DEF IndInv, TypeOK, UType, StartOK, EndOK, PhaseOK, Passing, OType
  <2>6. BodyOK'
    BY <1>1, <1>2, <2>t, <2>a, <2>b, <2>c, <2>1, <2>2
       DEF IndInv, TypeOK, UType, EndOK, PhaseOK, Passing, BodyOK, AllOfIt, OType
  <2>7. PeersBalanced'
    BY <1>1, <1>2, <2>t, <2>a, <2>b, <2>c, <2>1, <2>2
       DEF IndInv, TypeOK, UType, StartOK, EndOK, PeersBalanced, OType
  <2>8. ASSUME Plain, TimersOK PROVE TimersOK'
    BY <1>1, <1>2, <2>t, <2>a, <2>b, <2>c, <2>1, <2>2, <2>8
       DEF IndInv, TypeOK, UType, StartOK, Nothing, EndOK, PhaseOK, Passing, Plain, TimersOK,
           WaitHasTimer, Live, Idle, Ended, OType
  <2> QED
    BY <2>3, <2>4, <2>5, <2>6, <2>7, <2>8, <2>9 DEF Kept, IndInv
<1>e. CASE /\ client' \in {"ok", "gone", "error"}
           /\ ~u.header_sent
           /\ u' = [u EXCEPT !.header_sent = TRUE, !.check = @ /\ ~HeadOnly]
           /\ out' = [out EXCEPT !.reply = "upstream"]
           /\ Tail_(<<<<"unbuffered">>>>)
  <2>1. call' # << >> /\ Top' = "unbuffered" /\ Below' = << >>
    BY <1>1, <1>e, Tail1, Call1
  <2> DEFINE new_check == u.check /\ ~HeadOnly
  <2>t. new_check \in BOOLEAN
    BY <1>3, <1>4, <1>1, <1>e DEF PhaseOK, IndInv, TypeOK, UType, OType
  <2>a. client' \in {"ok", "gone", "error"} /\ ~InMemory
    BY <1>1, <1>2, <1>e DEF PhaseOK, IndInv, TypeOK, UType, OType
  <2>b. /\ u' = [u EXCEPT !.header_sent = TRUE, !.check = new_check]
        /\ out' = [out EXCEPT !.reply = "upstream"]
    BY <1>2, <1>e DEF IndInv, TypeOK, UType
  <2> HIDE DEF new_check
  <2>2. u' \in UType({u'.d})
    <3> DEFINE v1 == [u EXCEPT !.header_sent = TRUE]
    <3> DEFINE v2 == [v1 EXCEPT !.check = new_check]
    <3>x. u' = v2
      BY <1>3, <2>t, <2>b DEF UType
    <3> HIDE DEF v1, v2
    <3>1. v1 \in UType({u.d})
      BY <1>3, <2>t DEF v1, UType, OType
    <3>2. v2 \in UType({u.d})
      BY <3>1, <2>t DEF v2, UType, OType
    <3> QED
      BY <3>x, <3>2, SameData
  <2>c. out' \in OType
    BY <1>4, <2>t, <2>b DEF OType
  <2>3. TypeOK'
    BY <1>4, <1>2, <2>t, <2>1, <2>2, <2>c, <2>a DEF TypeOK
  <2>9. StackOK'
    BY <1>1, <1>2, <2>t, <2>a, <2>b, <2>c, <2>1, <2>2 DEF IndInv, TypeOK, UType, StackOK, OType
  <2>4. StartOK' /\ EndOK'
    BY <1>1, <1>2, <2>t, <2>a, <2>b, <2>c, <2>1, <2>2
       DEF IndInv, TypeOK, UType, StackOK, StartOK, EndOK, Nothing, U0, Out0, OType
  <2>5. PhaseOK'
    BY <1>1, <1>2, <2>t, <2>a, <2>b, <2>c, <2>1, <2>2
       DEF IndInv, TypeOK, UType, StartOK, EndOK, PhaseOK, Passing, OType
  <2>6. BodyOK'
    BY <1>1, <1>2, <2>t, <2>a, <2>b, <2>c, <2>1, <2>2
       DEF IndInv, TypeOK, UType, EndOK, PhaseOK, Passing, BodyOK, AllOfIt, OType
  <2>7. PeersBalanced'
    BY <1>1, <1>2, <2>t, <2>a, <2>b, <2>c, <2>1, <2>2
       DEF IndInv, TypeOK, UType, StartOK, EndOK, PeersBalanced, OType
  <2>8. ASSUME Plain, TimersOK PROVE TimersOK'
    BY <1>1, <1>2, <2>t, <2>a, <2>b, <2>c, <2>1, <2>2, <2>8
       DEF IndInv, TypeOK, UType, StartOK, Nothing, EndOK, PhaseOK, Passing, Plain, TimersOK,
           WaitHasTimer, Live, Idle, Ended, OType
  <2> QED
    BY <2>3, <2>4, <2>5, <2>6, <2>7, <2>8, <2>9 DEF Kept, IndInv
<1> QED
  BY <1>a, <1>b, <1>c, <1>d, <1>e DEF send_response, IndInv, TypeOK, UType

(* pipe: ngx_event_pipe read and wrote something; a blocked one waits for the client. *)
LEMMA PipeKept == ASSUME Settings, IndInv, pipe PROVE Kept
<1>1. call # << >> /\ Top = "pipe" /\ Below = << >>
  <2>1. Pending("pipe")
    BY DEF pipe
  <2> QED
    BY <2>1, Alone
<1>2. UNCHANGED <<P, client, out>>
  BY DEF pipe
<1>3. u \in UType({u.d})
  BY DEF IndInv, TypeOK
<1>4. out \in OType /\ client \in {"ok", "gone", "error"}
  BY DEF IndInv, TypeOK
<1> DEFINE Moves(k, e, blocked, gone) ==
             /\ u.got + k <= Length
             /\ blocked => ~u.cacheable /\ ~u.store /\ e = "open"
             /\ gone => client # "ok"
             /\ u' = [u EXCEPT !.got = @ + k, !.eof = e = "eof", !.err = e = "error",
                               !.done = u.length # -1 /\ u.got + k = u.length,
                               !.derr = @ \/ gone, !.rt = ~blocked,
                               !.ct = IF blocked THEN "send" ELSE "off"]
             /\ Tail_(<<<<"process_request">>>>)
<1>a. CASE u' = u /\ Tail_(Finalize(ERROR))
  <2>1. call' # << >> /\ Top' = "finalize" /\ Arg' = ERROR /\ Below' = << >>
    BY <1>1, <1>a, Tail1, Call2 DEF Finalize
  <2>2. u' \in UType({u'.d})
    BY <1>3, <1>2, <1>a DEF UType, DECLINED, ERROR
  <2>3. TypeOK'
    BY <1>4, <1>2, <1>a, <2>1, <2>2 DEF TypeOK, DECLINED, ERROR
  <2>9. StackOK'
    BY <1>1, <1>2, <1>a, <2>1, <2>2 DEF IndInv, TypeOK, UType, StackOK, DECLINED, ERROR
  <2>4. StartOK' /\ EndOK'
    BY <1>1, <1>2, <1>a, <2>1, <2>2 DEF IndInv, TypeOK, UType, StackOK, StartOK, EndOK, Nothing, U0,
           Out0, DECLINED, ERROR
  <2>5. PhaseOK'
    BY <1>1, <1>2, <1>a, <2>1, <2>2 DEF IndInv, TypeOK, UType, StartOK, EndOK, PhaseOK, Passing,
           DECLINED, ERROR
  <2>6. BodyOK'
    BY <1>1, <1>2, <1>a, <2>1, <2>2 DEF IndInv, TypeOK, UType, EndOK, PhaseOK, Passing, BodyOK,
           AllOfIt, DECLINED, ERROR
  <2>7. PeersBalanced'
    BY <1>1, <1>2, <1>a, <2>1, <2>2 DEF IndInv, TypeOK, UType, StartOK, EndOK, PeersBalanced,
           DECLINED, ERROR
  <2>8. ASSUME Plain, TimersOK PROVE TimersOK'
    BY <1>1, <1>2, <1>a, <2>1, <2>2, <2>8 DEF IndInv, TypeOK, UType, StartOK, Nothing, EndOK,
           PhaseOK, Passing, Plain, TimersOK, WaitHasTimer, Live, Idle, Ended, DECLINED, ERROR
  <2> QED
    BY <2>3, <2>4, <2>5, <2>6, <2>7, <2>8, <2>9 DEF Kept, IndInv
<1>b. ASSUME NEW k \in 0..1, NEW e \in {"open", "eof", "error"}, NEW blocked \in BOOLEAN,
             NEW gone \in BOOLEAN,
             Moves(k, e, blocked, gone)
      PROVE  Kept
  <2>1. call' # << >> /\ Top' = "process_request" /\ Below' = << >>
    BY <1>1, <1>b, Tail1, Call1
  <2> DEFINE new_got == u.got + k
             new_eof == e = "eof"
             new_err == e = "error"
             new_done == u.length # -1 /\ u.got + k = u.length
             new_derr == u.derr \/ gone
             new_rt == ~blocked
             new_ct == IF blocked THEN "send" ELSE "off"
  <2>t. /\ new_got \in Int
        /\ new_eof \in BOOLEAN
        /\ new_err \in BOOLEAN
        /\ new_done \in BOOLEAN
        /\ new_derr \in BOOLEAN
        /\ new_rt \in BOOLEAN
        /\ new_ct \in {"off", "send"}
    BY <1>3, <1>4, <1>1, <1>b DEF IndInv, TypeOK, UType
  <2>a. /\ (new_done => u.length # -1 /\ new_got = u.length)
        /\ (new_rt \/ new_ct = "send")
        /\ (new_ct = "send" => ~u.cacheable /\ ~u.store)
    BY <1>1, <1>2, <1>b DEF IndInv, TypeOK, UType
  <2>b. u' = [u EXCEPT !.got = new_got, !.eof = new_eof, !.err = new_err, !.done = new_done,
                       !.derr = new_derr, !.rt = new_rt, !.ct = new_ct]
    BY <1>2, <1>b DEF IndInv, TypeOK, UType
  <2> HIDE DEF new_got, new_eof, new_err, new_done, new_derr, new_rt, new_ct
  <2>f. /\ u'.st = u.st /\ u'.resolving = u.resolving /\ u'.cleanup = u.cleanup /\ u'.d = u.d
         /\ u'.sock = u.sock /\ u'.conn = u.conn /\ u'.ssl = u.ssl /\ u'.wh = u.wh
         /\ u'.rh = u.rh /\ u'.rt = new_rt /\ u'.wt = u.wt /\ u'.ct = new_ct
         /\ u'.request_sent = u.request_sent /\ u'.header_sent = u.header_sent /\ u'.check = u.check /\ u'.buf = u.buf
         /\ u'.att = u.att /\ u'.cacheable = u.cacheable /\ u'.cache = u.cache /\ u'.cstat = u.cstat
         /\ u'.store = u.store /\ u'.status = u.status /\ u'.cl = u.cl /\ u'.length = u.length
         /\ u'.got = new_got /\ u'.eof = new_eof /\ u'.done = new_done /\ u'.err = new_err
         /\ u'.derr = new_derr
    BY <1>3, <2>b DEF UType
  <2>2. u' \in UType({u'.d})
    <3> DEFINE v1 == [u EXCEPT !.got = new_got]
    <3> DEFINE v2 == [v1 EXCEPT !.eof = new_eof]
    <3> DEFINE v3 == [v2 EXCEPT !.err = new_err]
    <3> DEFINE v4 == [v3 EXCEPT !.done = new_done]
    <3> DEFINE v5 == [v4 EXCEPT !.derr = new_derr]
    <3> DEFINE v6 == [v5 EXCEPT !.rt = new_rt]
    <3> DEFINE v7 == [v6 EXCEPT !.ct = new_ct]
    <3>x. u' = v7
      BY <1>3, <2>t, <2>b DEF UType
    <3> HIDE DEF v1, v2, v3, v4, v5, v6, v7
    <3>1. v1 \in UType({u.d})
      BY <1>3, <2>t DEF v1, UType
    <3>2. v2 \in UType({u.d})
      BY <3>1, <2>t DEF v2, UType
    <3>3. v3 \in UType({u.d})
      BY <3>2, <2>t DEF v3, UType
    <3>4. v4 \in UType({u.d})
      BY <3>3, <2>t DEF v4, UType
    <3>5. v5 \in UType({u.d})
      BY <3>4, <2>t DEF v5, UType
    <3>6. v6 \in UType({u.d})
      BY <3>5, <2>t DEF v6, UType
    <3>7. v7 \in UType({u.d})
      BY <3>6, <2>t DEF v7, UType
    <3> QED
      BY <3>x, <3>7, SameData
  <2>3. TypeOK'
    BY <1>4, <1>2, <2>t, <2>1, <2>2, <2>a DEF TypeOK
  <2>9. StackOK'
    BY <1>1, <1>2, <2>t, <2>a, <2>f, <2>1 DEF IndInv, TypeOK, UType, StackOK
  <2>4. StartOK' /\ EndOK'
    BY <1>1, <1>2, <2>t, <2>a, <2>f, <2>1 DEF IndInv, TypeOK, UType, StackOK, StartOK, EndOK,
           Nothing, U0, Out0
  <2>5. PhaseOK'
    BY <1>1, <1>2, <2>t, <2>a, <2>f, <2>1 DEF IndInv, TypeOK, UType, StartOK, EndOK, PhaseOK,
           Passing
  <2>6. BodyOK'
    BY <1>1, <1>2, <2>t, <2>a, <2>f, <2>1 DEF IndInv, TypeOK, UType, EndOK, PhaseOK, Passing,
           BodyOK, AllOfIt
  <2>7. PeersBalanced'
    BY <1>1, <1>2, <2>t, <2>a, <2>f, <2>1 DEF IndInv, TypeOK, UType, StartOK, EndOK, PeersBalanced
  <2>8. ASSUME Plain, TimersOK PROVE TimersOK'
    BY <1>1, <1>2, <2>t, <2>a, <2>f, <2>1, <2>8 DEF IndInv, TypeOK, UType, StartOK, Nothing, EndOK,
           PhaseOK, Passing, Plain, TimersOK, WaitHasTimer, Live, Idle, Ended
  <2> QED
    BY <2>3, <2>4, <2>5, <2>6, <2>7, <2>8, <2>9 DEF Kept, IndInv
<1>q. \/ u' = u /\ Tail_(Finalize(ERROR))
      \/ \E k \in 0..1, e \in {"open", "eof", "error"}, blocked \in BOOLEAN, gone \in BOOLEAN :
            Moves(k, e, blocked, gone)
  BY DEF pipe
<1> HIDE DEF Moves
<1> QED
  BY <1>q, <1>a, <1>b

(* process_request: at the end of the stream the file is kept only if it is whole. *)
LEMMA ProcessRequestKept == ASSUME Settings, IndInv, process_request PROVE Kept
<1>1. call # << >> /\ Top = "process_request" /\ Below = << >>
  <2>1. Pending("process_request")
    BY DEF process_request
  <2> QED
    BY <2>1, Alone
<1>2. UNCHANGED <<P, client>>
  BY DEF process_request
<1>3. u \in UType({u.d})
  BY DEF IndInv, TypeOK
<1>4. out \in OType /\ client \in {"ok", "gone", "error"}
  BY DEF IndInv, TypeOK
<1>a. CASE /\ Ended
           /\ u' = [u EXCEPT !.store = @ /\ ~Stores, !.cache = @ /\ ~u.cacheable]
           /\ out' = [out EXCEPT !.kept = IF Stores \/ Keeps THEN IF u.cl \in {-1, u.got} THEN "whole" ELSE "cut" ELSE @]
           /\ Tail_(Finalize(ExitCode))
  <2>1. call' # << >> /\ Top' = "finalize" /\ Arg' = ExitCode /\ Below' = << >>
    BY <1>1, <1>a, Tail1, Call2 DEF Finalize
  <2> DEFINE new_store == u.store /\ ~Stores
             new_cache == u.cache /\ ~u.cacheable
             new_kept == IF Stores \/ Keeps THEN IF u.cl \in {-1, u.got} THEN "whole" ELSE "cut" ELSE out.kept
  <2>t. new_store \in BOOLEAN /\ new_cache \in BOOLEAN /\ new_kept \in {"no", "whole", "cut"}
    BY <1>3, <1>4, <1>1, <1>a DEF Stores, Keeps, ExitCode, AllOfIt, PhaseOK, BodyOK, Whole, IndInv,
           TypeOK, UType, OType
  <2>a. /\ (new_store => u.store)
        /\ (new_cache => u.cache)
        /\ new_kept # "cut"
        /\ ExitCode \in {0, 502}
        /\ (ExitCode = 0 => AllOfIt)
    BY <1>1, <1>2, <1>a DEF Stores, Keeps, ExitCode, AllOfIt, PhaseOK, BodyOK, Whole, IndInv,
           TypeOK, UType, OType
  <2>b. /\ u' = [u EXCEPT !.store = new_store, !.cache = new_cache]
        /\ out' = [out EXCEPT !.kept = new_kept]
    BY <1>2, <1>a DEF IndInv, TypeOK, UType
  <2> HIDE DEF new_store, new_cache, new_kept
  <2>2. u' \in UType({u'.d})
    <3> DEFINE v1 == [u EXCEPT !.store = new_store]
    <3> DEFINE v2 == [v1 EXCEPT !.cache = new_cache]
    <3>x. u' = v2
      BY <1>3, <2>t, <2>b DEF UType
    <3> HIDE DEF v1, v2
    <3>1. v1 \in UType({u.d})
      BY <1>3, <2>t DEF v1, UType, DECLINED, OType
    <3>2. v2 \in UType({u.d})
      BY <3>1, <2>t DEF v2, UType, DECLINED, OType
    <3> QED
      BY <3>x, <3>2, SameData
  <2>c. out' \in OType
    BY <1>4, <2>t, <2>b DEF OType
  <2>3. TypeOK'
    BY <1>4, <1>2, <2>t, <2>1, <2>2, <2>c, <2>a DEF TypeOK, DECLINED
  <2>9. StackOK'
    BY <1>1, <1>2, <2>t, <2>a, <2>b, <2>c, <2>1, <2>2
       DEF IndInv, TypeOK, UType, StackOK, DECLINED, OType
  <2>4. StartOK' /\ EndOK'
    BY <1>1, <1>2, <2>t, <2>a, <2>b, <2>c, <2>1, <2>2
       DEF IndInv, TypeOK, UType, StackOK, StartOK, EndOK, Nothing, U0, Out0, DECLINED, OType
  <2>5. PhaseOK'
    BY <1>1, <1>2, <2>t, <2>a, <2>b, <2>c, <2>1, <2>2
       DEF IndInv, TypeOK, UType, StartOK, EndOK, PhaseOK, Passing, DECLINED, OType
  <2>6. BodyOK'
    BY <1>1, <1>2, <2>t, <2>a, <2>b, <2>c, <2>1, <2>2
       DEF IndInv, TypeOK, UType, EndOK, PhaseOK, Passing, BodyOK, AllOfIt, DECLINED, OType
  <2>7. PeersBalanced'
    BY <1>1, <1>2, <2>t, <2>a, <2>b, <2>c, <2>1, <2>2
       DEF IndInv, TypeOK, UType, StartOK, EndOK, PeersBalanced, DECLINED, OType
  <2>8. ASSUME Plain, TimersOK PROVE TimersOK'
    BY <1>1, <1>2, <2>t, <2>a, <2>b, <2>c, <2>1, <2>2, <2>8
       DEF IndInv, TypeOK, UType, StartOK, Nothing, EndOK, PhaseOK, Passing, Plain, TimersOK,
           WaitHasTimer, Live, Idle, Ended, DECLINED, OType
  <2> QED
    BY <2>3, <2>4, <2>5, <2>6, <2>7, <2>8, <2>9 DEF Kept, IndInv
<1>b. CASE u' = u /\ out' = out /\ Tail_(Finalize(ERROR))
  <2>1. call' # << >> /\ Top' = "finalize" /\ Arg' = ERROR /\ Below' = << >>
    BY <1>1, <1>b, Tail1, Call2 DEF Finalize
  <2>2. u' \in UType({u'.d})
    BY <1>3, <1>2, <1>b DEF UType, DECLINED, ERROR
  <2>3. TypeOK'
    BY <1>4, <1>2, <1>b, <2>1, <2>2 DEF TypeOK, DECLINED, ERROR
  <2>9. StackOK'
    BY <1>1, <1>2, <1>b, <2>1, <2>2 DEF IndInv, TypeOK, UType, StackOK, DECLINED, ERROR
  <2>4. StartOK' /\ EndOK'
    BY <1>1, <1>2, <1>b, <2>1, <2>2 DEF IndInv, TypeOK, UType, StackOK, StartOK, EndOK, Nothing, U0,
           Out0, DECLINED, ERROR
  <2>5. PhaseOK'
    BY <1>1, <1>2, <1>b, <2>1, <2>2 DEF IndInv, TypeOK, UType, StartOK, EndOK, PhaseOK, Passing,
           DECLINED, ERROR
  <2>6. BodyOK'
    BY <1>1, <1>2, <1>b, <2>1, <2>2 DEF IndInv, TypeOK, UType, EndOK, PhaseOK, Passing, BodyOK,
           AllOfIt, DECLINED, ERROR
  <2>7. PeersBalanced'
    BY <1>1, <1>2, <1>b, <2>1, <2>2 DEF IndInv, TypeOK, UType, StartOK, EndOK, PeersBalanced,
           DECLINED, ERROR
  <2>8. ASSUME Plain, TimersOK PROVE TimersOK'
    BY <1>1, <1>2, <1>b, <2>1, <2>2, <2>8 DEF IndInv, TypeOK, UType, StartOK, Nothing, EndOK,
           PhaseOK, Passing, Plain, TimersOK, WaitHasTimer, Live, Idle, Ended, DECLINED, ERROR
  <2> QED
    BY <2>3, <2>4, <2>5, <2>6, <2>7, <2>8, <2>9 DEF Kept, IndInv
<1>c. CASE /\ ~(u.conn /\ Ended)
           /\ ~(u.derr /\ ~u.cacheable /\ ~u.store /\ u.conn)
           /\ u' = u
           /\ out' = out
           /\ Tail_(<< >>)
  <2>1. call' = << >> /\ Top' = "none" /\ Below' = << >>
    BY <1>1, <1>c, Tail0, Call0
  <2>2. u' \in UType({u'.d})
    BY <1>3, <1>2, <1>c DEF UType
  <2>3. TypeOK'
    BY <1>4, <1>2, <1>c, <2>1, <2>2 DEF TypeOK
  <2>9. StackOK'
    BY <1>1, <1>2, <1>c, <2>1, <2>2 DEF IndInv, TypeOK, UType, StackOK
  <2>4. StartOK' /\ EndOK'
    BY <1>1, <1>2, <1>c, <2>1, <2>2 DEF IndInv, TypeOK, UType, StackOK, StartOK, EndOK, Nothing, U0,
           Out0
  <2>5. PhaseOK'
    BY <1>1, <1>2, <1>c, <2>1, <2>2 DEF IndInv, TypeOK, UType, StartOK, EndOK, PhaseOK, Passing
  <2>6. BodyOK'
    BY <1>1, <1>2, <1>c, <2>1, <2>2 DEF IndInv, TypeOK, UType, EndOK, PhaseOK, Passing, BodyOK,
           AllOfIt
  <2>7. PeersBalanced'
    BY <1>1, <1>2, <1>c, <2>1, <2>2 DEF IndInv, TypeOK, UType, StartOK, EndOK, PeersBalanced
  <2>8. ASSUME Plain, TimersOK PROVE TimersOK'
    BY <1>1, <1>2, <1>c, <2>1, <2>2, <2>8 DEF IndInv, TypeOK, UType, StartOK, Nothing, EndOK,
           PhaseOK, Passing, Plain, TimersOK, WaitHasTimer, Live, Idle, Ended
  <2> QED
    BY <2>3, <2>4, <2>5, <2>6, <2>7, <2>8, <2>9 DEF Kept, IndInv
<1> QED
  BY <1>a, <1>b, <1>c DEF process_request

(* non_buffered_request: one turn of the loop that reads and writes. *)
LEMMA NonBufferedKept == ASSUME Settings, IndInv, non_buffered_request PROVE Kept
<1>1. call # << >> /\ Top = "non_buffered" /\ Below = << >>
  <2>1. Pending("non_buffered")
    BY DEF non_buffered_request
  <2> QED
    BY <2>1, Alone
<1>2. UNCHANGED <<P, client, out>>
  BY DEF non_buffered_request, Top, Arg, IndInv, TypeOK, UType, Run
<1>3. u \in UType({u.d})
  BY DEF IndInv, TypeOK
<1>4. out \in OType /\ client \in {"ok", "gone", "error"}
  BY DEF IndInv, TypeOK
<1>a. CASE u' = u /\ Tail_(Finalize(ERROR))
  <2>1. call' # << >> /\ Top' = "finalize" /\ Arg' = ERROR /\ Below' = << >>
    BY <1>1, <1>a, Tail1, Call2 DEF Finalize
  <2>2. u' \in UType({u'.d})
    BY <1>3, <1>2, <1>a DEF UType, DECLINED, ERROR
  <2>3. TypeOK'
    BY <1>4, <1>2, <1>a, <2>1, <2>2 DEF TypeOK, DECLINED, ERROR
  <2>9. StackOK'
    BY <1>1, <1>2, <1>a, <2>1, <2>2 DEF IndInv, TypeOK, UType, StackOK, DECLINED, ERROR
  <2>4. StartOK' /\ EndOK'
    BY <1>1, <1>2, <1>a, <2>1, <2>2 DEF IndInv, TypeOK, UType, StackOK, StartOK, EndOK, Nothing, U0,
           Out0, DECLINED, ERROR
  <2>5. PhaseOK'
    BY <1>1, <1>2, <1>a, <2>1, <2>2 DEF IndInv, TypeOK, UType, StartOK, EndOK, PhaseOK, Passing,
           DECLINED, ERROR
  <2>6. BodyOK'
    BY <1>1, <1>2, <1>a, <2>1, <2>2 DEF IndInv, TypeOK, UType, EndOK, PhaseOK, Passing, BodyOK,
           AllOfIt, DECLINED, ERROR
  <2>7. PeersBalanced'
    BY <1>1, <1>2, <1>a, <2>1, <2>2 DEF IndInv, TypeOK, UType, StartOK, EndOK, PeersBalanced,
           DECLINED, ERROR
  <2>8. ASSUME Plain, TimersOK PROVE TimersOK'
    BY <1>1, <1>2, <1>a, <2>1, <2>2, <2>8 DEF IndInv, TypeOK, UType, StartOK, Nothing, EndOK,
           PhaseOK, Passing, Plain, TimersOK, WaitHasTimer, Live, Idle, Ended, DECLINED, ERROR
  <2> QED
    BY <2>3, <2>4, <2>5, <2>6, <2>7, <2>8, <2>9 DEF Kept, IndInv
<1>b. CASE Complete /\ u' = u /\ Tail_(Finalize(0))
  <2>1. call' # << >> /\ Top' = "finalize" /\ Arg' = 0 /\ Below' = << >>
    BY <1>1, <1>b, Tail1, Call2 DEF Finalize
  <2>2. u' \in UType({u'.d})
    BY <1>3, <1>2, <1>b DEF UType, DECLINED, Complete
  <2>3. TypeOK'
    BY <1>4, <1>2, <1>b, <2>1, <2>2 DEF TypeOK, DECLINED
  <2>9. StackOK'
    BY <1>1, <1>2, <1>b, <2>1, <2>2 DEF IndInv, TypeOK, UType, StackOK, DECLINED, Complete
  <2>4. StartOK' /\ EndOK'
    BY <1>1, <1>2, <1>b, <2>1, <2>2 DEF IndInv, TypeOK, UType, StackOK, StartOK, EndOK, Nothing, U0,
           Out0, DECLINED, Complete
  <2>5. PhaseOK'
    BY <1>1, <1>2, <1>b, <2>1, <2>2 DEF IndInv, TypeOK, UType, StartOK, EndOK, PhaseOK, Passing,
           DECLINED, Complete
  <2>6. BodyOK'
    BY <1>1, <1>2, <1>b, <2>1, <2>2 DEF IndInv, TypeOK, UType, EndOK, PhaseOK, Passing, BodyOK,
           AllOfIt, DECLINED, Complete
  <2>7. PeersBalanced'
    BY <1>1, <1>2, <1>b, <2>1, <2>2 DEF IndInv, TypeOK, UType, StartOK, EndOK, PeersBalanced,
           DECLINED, Complete
  <2>8. ASSUME Plain, TimersOK PROVE TimersOK'
    BY <1>1, <1>2, <1>b, <2>1, <2>2, <2>8 DEF IndInv, TypeOK, UType, StartOK, Nothing, EndOK,
           PhaseOK, Passing, Plain, TimersOK, WaitHasTimer, Live, Idle, Ended, DECLINED, Complete
  <2> QED
    BY <2>3, <2>4, <2>5, <2>6, <2>7, <2>8, <2>9 DEF Kept, IndInv
<1>c. CASE u' = u /\ Tail_(Finalize(502))
  <2>1. call' # << >> /\ Top' = "finalize" /\ Arg' = 502 /\ Below' = << >>
    BY <1>1, <1>c, Tail1, Call2 DEF Finalize
  <2>2. u' \in UType({u'.d})
    BY <1>3, <1>2, <1>c DEF UType, DECLINED
  <2>3. TypeOK'
    BY <1>4, <1>2, <1>c, <2>1, <2>2 DEF TypeOK, DECLINED
  <2>9. StackOK'
    BY <1>1, <1>2, <1>c, <2>1, <2>2 DEF IndInv, TypeOK, UType, StackOK, DECLINED
  <2>4. StartOK' /\ EndOK'
    BY <1>1, <1>2, <1>c, <2>1, <2>2 DEF IndInv, TypeOK, UType, StackOK, StartOK, EndOK, Nothing, U0,
           Out0, DECLINED
  <2>5. PhaseOK'
    BY <1>1, <1>2, <1>c, <2>1, <2>2 DEF IndInv, TypeOK, UType, StartOK, EndOK, PhaseOK, Passing,
           DECLINED
  <2>6. BodyOK'
    BY <1>1, <1>2, <1>c, <2>1, <2>2 DEF IndInv, TypeOK, UType, EndOK, PhaseOK, Passing, BodyOK,
           AllOfIt, DECLINED
  <2>7. PeersBalanced'
    BY <1>1, <1>2, <1>c, <2>1, <2>2 DEF IndInv, TypeOK, UType, StartOK, EndOK, PeersBalanced,
           DECLINED
  <2>8. ASSUME Plain, TimersOK PROVE TimersOK'
    BY <1>1, <1>2, <1>c, <2>1, <2>2, <2>8 DEF IndInv, TypeOK, UType, StartOK, Nothing, EndOK,
           PhaseOK, Passing, Plain, TimersOK, WaitHasTimer, Live, Idle, Ended, DECLINED
  <2> QED
    BY <2>3, <2>4, <2>5, <2>6, <2>7, <2>8, <2>9 DEF Kept, IndInv
<1>d. ASSUME NEW busy \in BOOLEAN, NEW w \in BOOLEAN,
             ~w => ~Arg,
             busy => w,
             w /\ ~busy => ~Complete /\ ~u.eof /\ ~u.err,
             u' = [u EXCEPT !.rt = ~u.eof /\ ~u.err,
                            !.ct = IF ~w THEN @ ELSE IF busy THEN "send" ELSE "off"],
             Tail_(<< >>)
      PROVE  Kept
  <2>1. call' = << >> /\ Top' = "none" /\ Below' = << >>
    BY <1>1, <1>d, Tail0, Call0
  <2> DEFINE new_rt == ~u.eof /\ ~u.err
             new_ct == IF ~w THEN u.ct ELSE IF busy THEN "send" ELSE "off"
  <2>t. new_rt \in BOOLEAN /\ new_ct \in {"off", "send"}
    BY <1>3, <1>4, <1>1, <1>d DEF IndInv, TypeOK, UType
  <2>a. (new_rt <=> ~u.eof /\ ~u.err) /\ (~new_rt => new_ct = "send" \/ (new_ct = u.ct /\ ~Arg))
    BY <1>1, <1>2, <1>d DEF IndInv, TypeOK, UType
  <2>b. u' = [u EXCEPT !.rt = new_rt, !.ct = new_ct]
    BY <1>2, <1>d DEF IndInv, TypeOK, UType
  <2> HIDE DEF new_rt, new_ct
  <2>2. u' \in UType({u'.d})
    <3> DEFINE v1 == [u EXCEPT !.rt = new_rt]
    <3> DEFINE v2 == [v1 EXCEPT !.ct = new_ct]
    <3>x. u' = v2
      BY <1>3, <2>t, <2>b DEF UType
    <3> HIDE DEF v1, v2
    <3>1. v1 \in UType({u.d})
      BY <1>3, <2>t DEF v1, UType
    <3>2. v2 \in UType({u.d})
      BY <3>1, <2>t DEF v2, UType
    <3> QED
      BY <3>x, <3>2, SameData
  <2>3. TypeOK'
    BY <1>4, <1>2, <2>t, <2>1, <2>2, <2>a DEF TypeOK
  <2>9. StackOK'
    BY <1>1, <1>2, <2>t, <2>a, <2>b, <2>1, <2>2 DEF IndInv, TypeOK, UType, StackOK
  <2>4. StartOK' /\ EndOK'
    BY <1>1, <1>2, <2>t, <2>a, <2>b, <2>1, <2>2 DEF IndInv, TypeOK, UType, StackOK, StartOK, EndOK,
           Nothing, U0, Out0
  <2>5. PhaseOK'
    BY <1>1, <1>2, <2>t, <2>a, <2>b, <2>1, <2>2 DEF IndInv, TypeOK, UType, StartOK, EndOK, PhaseOK,
           Passing
  <2>6. BodyOK'
    BY <1>1, <1>2, <2>t, <2>a, <2>b, <2>1, <2>2 DEF IndInv, TypeOK, UType, EndOK, PhaseOK, Passing,
           BodyOK, AllOfIt
  <2>7. PeersBalanced'
    BY <1>1, <1>2, <2>t, <2>a, <2>b, <2>1, <2>2 DEF IndInv, TypeOK, UType, StartOK, EndOK,
           PeersBalanced
  <2>8. ASSUME Plain, TimersOK PROVE TimersOK'
    BY <1>1, <1>2, <2>t, <2>a, <2>b, <2>1, <2>2, <2>8
       DEF IndInv, TypeOK, UType, StartOK, Nothing, EndOK, PhaseOK, Passing, Plain, TimersOK,
           WaitHasTimer, Live, Idle, Ended
  <2> QED
    BY <2>3, <2>4, <2>5, <2>6, <2>7, <2>8, <2>9 DEF Kept, IndInv
<1>e. ASSUME NEW k \in 0..1, NEW e \in {"open", "eof", "error"},
             u' = [Received(k) EXCEPT !.eof = e = "eof", !.err = e = "error"],
             Tail_(<<<<"non_buffered", TRUE>>>>)
      PROVE  Kept
  <2>1. call' # << >> /\ Top' = "non_buffered" /\ Arg' = TRUE /\ Below' = << >>
    <3>1. call' = <<<<"non_buffered", TRUE>>>>
      BY <1>1, <1>e, Tail1
    <3> QED
      BY <3>1, CallB
  <2> DEFINE new_got == u.got + k
             new_eof == e = "eof"
             new_err == e = "error"
  <2>t. new_got \in Int /\ new_eof \in BOOLEAN /\ new_err \in BOOLEAN
    BY <1>3, <1>4, <1>1, <1>e DEF IndInv, TypeOK, UType
  <2>b. u' = [u EXCEPT !.got = new_got, !.eof = new_eof, !.err = new_err]
    BY <1>2, <1>e DEF Received, IndInv, TypeOK, UType
  <2> HIDE DEF new_got, new_eof, new_err
  <2>f. /\ u'.st = u.st /\ u'.resolving = u.resolving /\ u'.cleanup = u.cleanup /\ u'.d = u.d
         /\ u'.sock = u.sock /\ u'.conn = u.conn /\ u'.ssl = u.ssl /\ u'.wh = u.wh
         /\ u'.rh = u.rh /\ u'.rt = u.rt /\ u'.wt = u.wt /\ u'.ct = u.ct
         /\ u'.request_sent = u.request_sent /\ u'.header_sent = u.header_sent /\ u'.check = u.check /\ u'.buf = u.buf
         /\ u'.att = u.att /\ u'.cacheable = u.cacheable /\ u'.cache = u.cache /\ u'.cstat = u.cstat
         /\ u'.store = u.store /\ u'.status = u.status /\ u'.cl = u.cl /\ u'.length = u.length
         /\ u'.got = new_got /\ u'.eof = new_eof /\ u'.done = u.done /\ u'.err = new_err
         /\ u'.derr = u.derr
    BY <1>3, <2>b DEF UType
  <2>2. u' \in UType({u'.d})
    <3> DEFINE v1 == [u EXCEPT !.got = new_got]
    <3> DEFINE v2 == [v1 EXCEPT !.eof = new_eof]
    <3> DEFINE v3 == [v2 EXCEPT !.err = new_err]
    <3>x. u' = v3
      BY <1>3, <2>t, <2>b DEF UType
    <3> HIDE DEF v1, v2, v3
    <3>1. v1 \in UType({u.d})
      BY <1>3, <2>t DEF v1, UType
    <3>2. v2 \in UType({u.d})
      BY <3>1, <2>t DEF v2, UType
    <3>3. v3 \in UType({u.d})
      BY <3>2, <2>t DEF v3, UType
    <3> QED
      BY <3>x, <3>3, SameData
  <2>3. TypeOK'
    BY <1>4, <1>2, <2>t, <2>1, <2>2 DEF TypeOK
  <2>9. StackOK'
    BY <1>1, <1>2, <2>t, <2>f, <2>1 DEF IndInv, TypeOK, UType, StackOK
  <2>4. StartOK' /\ EndOK'
    BY <1>1, <1>2, <2>t, <2>f, <2>1 DEF IndInv, TypeOK, UType, StackOK, StartOK, EndOK, Nothing, U0,
           Out0
  <2>5. PhaseOK'
    BY <1>1, <1>2, <2>t, <2>f, <2>1 DEF IndInv, TypeOK, UType, StartOK, EndOK, PhaseOK, Passing
  <2>6. BodyOK'
    BY <1>1, <1>2, <2>t, <2>f, <2>1 DEF IndInv, TypeOK, UType, EndOK, PhaseOK, Passing, BodyOK,
           AllOfIt
  <2>7. PeersBalanced'
    BY <1>1, <1>2, <2>t, <2>f, <2>1 DEF IndInv, TypeOK, UType, StartOK, EndOK, PeersBalanced
  <2>8. ASSUME Plain, TimersOK PROVE TimersOK'
    BY <1>1, <1>2, <2>t, <2>f, <2>1, <2>8 DEF IndInv, TypeOK, UType, StartOK, Nothing, EndOK,
           PhaseOK, Passing, Plain, TimersOK, WaitHasTimer, Live, Idle, Ended
  <2> QED
    BY <2>3, <2>4, <2>5, <2>6, <2>7, <2>8, <2>9 DEF Kept, IndInv
<1> QED
  BY <1>a, <1>b, <1>c, <1>d, <1>e DEF non_buffered_request, Top, Arg, IndInv, TypeOK, UType, Run

(* upgrade: both directions are tried at once. *)
LEMMA UpgradeKept == ASSUME Settings, IndInv, upgrade PROVE Kept
<1>1. call # << >> /\ Top = "upgrade" /\ Below = << >>
  <2>1. Pending("upgrade")
    BY DEF upgrade
  <2> QED
    BY <2>1, Alone
<1>2. UNCHANGED <<P, client, out>>
  BY DEF upgrade
<1>3. u \in UType({u.d})
  BY DEF IndInv, TypeOK
<1>4. out \in OType /\ client \in {"ok", "gone", "error"}
  BY DEF IndInv, TypeOK
<1>a. CASE u' = u /\ Tail_(Finalize(ERROR))
  <2>1. call' # << >> /\ Top' = "finalize" /\ Arg' = ERROR /\ Below' = << >>
    BY <1>1, <1>a, Tail1, Call2 DEF Finalize
  <2>2. u' \in UType({u'.d})
    BY <1>3, <1>2, <1>a DEF UType, DECLINED, ERROR
  <2>3. TypeOK'
    BY <1>4, <1>2, <1>a, <2>1, <2>2 DEF TypeOK, DECLINED, ERROR
  <2>9. StackOK'
    BY <1>1, <1>2, <1>a, <2>1, <2>2 DEF IndInv, TypeOK, UType, StackOK, DECLINED, ERROR
  <2>4. StartOK' /\ EndOK'
    BY <1>1, <1>2, <1>a, <2>1, <2>2 DEF IndInv, TypeOK, UType, StackOK, StartOK, EndOK, Nothing, U0,
           Out0, DECLINED, ERROR
  <2>5. PhaseOK'
    BY <1>1, <1>2, <1>a, <2>1, <2>2 DEF IndInv, TypeOK, UType, StartOK, EndOK, PhaseOK, Passing,
           DECLINED, ERROR
  <2>6. BodyOK'
    BY <1>1, <1>2, <1>a, <2>1, <2>2 DEF IndInv, TypeOK, UType, EndOK, PhaseOK, Passing, BodyOK,
           AllOfIt, DECLINED, ERROR
  <2>7. PeersBalanced'
    BY <1>1, <1>2, <1>a, <2>1, <2>2 DEF IndInv, TypeOK, UType, StartOK, EndOK, PeersBalanced,
           DECLINED, ERROR
  <2>8. ASSUME Plain, TimersOK PROVE TimersOK'
    BY <1>1, <1>2, <1>a, <2>1, <2>2, <2>8 DEF IndInv, TypeOK, UType, StartOK, Nothing, EndOK,
           PhaseOK, Passing, Plain, TimersOK, WaitHasTimer, Live, Idle, Ended, DECLINED, ERROR
  <2> QED
    BY <2>3, <2>4, <2>5, <2>6, <2>7, <2>8, <2>9 DEF Kept, IndInv
<1>b. CASE /\ u' = [u EXCEPT !.rh = "upgraded", !.wh = "upgraded", !.check = FALSE]
           /\ Tail_(<<<<"process_upgraded", TRUE>>, <<"process_upgraded", FALSE>>>>)
  <2>1. /\ call' # << >>
        /\ Top' = "process_upgraded"
        /\ Arg' = TRUE
        /\ Below' = <<<<"process_upgraded", FALSE>>>>
    BY <1>1, <1>b, Tail2, PairB
  <2>t. Upgrades
    BY <1>3, <1>4, <1>1, <1>b DEF PhaseOK, IndInv, TypeOK, UType
  <2>b. u' = [u EXCEPT !.rh = "upgraded", !.wh = "upgraded", !.check = FALSE]
    BY <1>2, <1>b
  <2>f. /\ u'.st = u.st /\ u'.resolving = u.resolving /\ u'.cleanup = u.cleanup /\ u'.d = u.d
         /\ u'.sock = u.sock /\ u'.conn = u.conn /\ u'.ssl = u.ssl /\ u'.wh = "upgraded"
         /\ u'.rh = "upgraded" /\ u'.rt = u.rt /\ u'.wt = u.wt /\ u'.ct = u.ct
         /\ u'.request_sent = u.request_sent /\ u'.header_sent = u.header_sent /\ u'.check = FALSE /\ u'.buf = u.buf
         /\ u'.att = u.att /\ u'.cacheable = u.cacheable /\ u'.cache = u.cache /\ u'.cstat = u.cstat
         /\ u'.store = u.store /\ u'.status = u.status /\ u'.cl = u.cl /\ u'.length = u.length
         /\ u'.got = u.got /\ u'.eof = u.eof /\ u'.done = u.done /\ u'.err = u.err
         /\ u'.derr = u.derr
    BY <1>3, <2>b DEF UType
  <2>2. u' \in UType({u'.d})
    BY <1>3, <2>t, <2>b DEF UType
  <2>3. TypeOK'
    BY <1>4, <1>2, <2>t, <2>1, <2>2 DEF TypeOK
  <2>9. StackOK'
    BY <1>1, <1>2, <2>t, <2>f, <2>1 DEF IndInv, TypeOK, UType, StackOK
  <2>4. StartOK' /\ EndOK'
    BY <1>1, <1>2, <2>t, <2>f, <2>1 DEF IndInv, TypeOK, UType, StackOK, StartOK, EndOK, Nothing, U0,
           Out0
  <2>5. PhaseOK'
    BY <1>1, <1>2, <2>t, <2>f, <2>1 DEF IndInv, TypeOK, UType, StartOK, EndOK, PhaseOK, Passing
  <2>6. BodyOK'
    BY <1>1, <1>2, <2>t, <2>f, <2>1 DEF IndInv, TypeOK, UType, EndOK, PhaseOK, Passing, BodyOK,
           AllOfIt
  <2>7. PeersBalanced'
    BY <1>1, <1>2, <2>t, <2>f, <2>1 DEF IndInv, TypeOK, UType, StartOK, EndOK, PeersBalanced
  <2>8. ASSUME Plain, TimersOK PROVE TimersOK'
    BY <1>1, <1>2, <2>t, <2>f, <2>1, <2>8 DEF IndInv, TypeOK, UType, StartOK, Nothing, EndOK,
           PhaseOK, Passing, Plain, TimersOK, WaitHasTimer, Live, Idle, Ended
  <2> QED
    BY <2>3, <2>4, <2>5, <2>6, <2>7, <2>8, <2>9 DEF Kept, IndInv
<1>c. CASE /\ u' = [u EXCEPT !.rh = "upgraded", !.wh = "upgraded", !.check = FALSE]
           /\ Tail_(<<<<"process_upgraded", TRUE>>>>)
  <2>1. call' # << >> /\ Top' = "process_upgraded" /\ Arg' = TRUE /\ Below' = << >>
    <3>1. call' = <<<<"process_upgraded", TRUE>>>>
      BY <1>1, <1>c, Tail1
    <3> QED
      BY <3>1, CallB
  <2>t. Upgrades
    BY <1>3, <1>4, <1>1, <1>c DEF PhaseOK, IndInv, TypeOK, UType
  <2>b. u' = [u EXCEPT !.rh = "upgraded", !.wh = "upgraded", !.check = FALSE]
    BY <1>2, <1>c
  <2>f. /\ u'.st = u.st /\ u'.resolving = u.resolving /\ u'.cleanup = u.cleanup /\ u'.d = u.d
         /\ u'.sock = u.sock /\ u'.conn = u.conn /\ u'.ssl = u.ssl /\ u'.wh = "upgraded"
         /\ u'.rh = "upgraded" /\ u'.rt = u.rt /\ u'.wt = u.wt /\ u'.ct = u.ct
         /\ u'.request_sent = u.request_sent /\ u'.header_sent = u.header_sent /\ u'.check = FALSE /\ u'.buf = u.buf
         /\ u'.att = u.att /\ u'.cacheable = u.cacheable /\ u'.cache = u.cache /\ u'.cstat = u.cstat
         /\ u'.store = u.store /\ u'.status = u.status /\ u'.cl = u.cl /\ u'.length = u.length
         /\ u'.got = u.got /\ u'.eof = u.eof /\ u'.done = u.done /\ u'.err = u.err
         /\ u'.derr = u.derr
    BY <1>3, <2>b DEF UType
  <2>2. u' \in UType({u'.d})
    BY <1>3, <2>t, <2>b DEF UType
  <2>3. TypeOK'
    BY <1>4, <1>2, <2>t, <2>1, <2>2 DEF TypeOK
  <2>9. StackOK'
    BY <1>1, <1>2, <2>t, <2>f, <2>1 DEF IndInv, TypeOK, UType, StackOK
  <2>4. StartOK' /\ EndOK'
    BY <1>1, <1>2, <2>t, <2>f, <2>1 DEF IndInv, TypeOK, UType, StackOK, StartOK, EndOK, Nothing, U0,
           Out0
  <2>5. PhaseOK'
    BY <1>1, <1>2, <2>t, <2>f, <2>1 DEF IndInv, TypeOK, UType, StartOK, EndOK, PhaseOK, Passing
  <2>6. BodyOK'
    BY <1>1, <1>2, <2>t, <2>f, <2>1 DEF IndInv, TypeOK, UType, EndOK, PhaseOK, Passing, BodyOK,
           AllOfIt
  <2>7. PeersBalanced'
    BY <1>1, <1>2, <2>t, <2>f, <2>1 DEF IndInv, TypeOK, UType, StartOK, EndOK, PeersBalanced
  <2>8. ASSUME Plain, TimersOK PROVE TimersOK'
    BY <1>1, <1>2, <2>t, <2>f, <2>1, <2>8 DEF IndInv, TypeOK, UType, StartOK, Nothing, EndOK,
           PhaseOK, Passing, Plain, TimersOK, WaitHasTimer, Live, Idle, Ended
  <2> QED
    BY <2>3, <2>4, <2>5, <2>6, <2>7, <2>8, <2>9 DEF Kept, IndInv
<1>d. CASE /\ u' = [u EXCEPT !.rh = "upgraded", !.wh = "upgraded", !.check = FALSE]
           /\ Tail_(<<<<"process_upgraded", FALSE>>>>)
  <2>1. call' # << >> /\ Top' = "process_upgraded" /\ Arg' = FALSE /\ Below' = << >>
    <3>1. call' = <<<<"process_upgraded", FALSE>>>>
      BY <1>1, <1>d, Tail1
    <3> QED
      BY <3>1, CallB
  <2>t. Upgrades
    BY <1>3, <1>4, <1>1, <1>d DEF PhaseOK, IndInv, TypeOK, UType
  <2>b. u' = [u EXCEPT !.rh = "upgraded", !.wh = "upgraded", !.check = FALSE]
    BY <1>2, <1>d
  <2>f. /\ u'.st = u.st /\ u'.resolving = u.resolving /\ u'.cleanup = u.cleanup /\ u'.d = u.d
         /\ u'.sock = u.sock /\ u'.conn = u.conn /\ u'.ssl = u.ssl /\ u'.wh = "upgraded"
         /\ u'.rh = "upgraded" /\ u'.rt = u.rt /\ u'.wt = u.wt /\ u'.ct = u.ct
         /\ u'.request_sent = u.request_sent /\ u'.header_sent = u.header_sent /\ u'.check = FALSE /\ u'.buf = u.buf
         /\ u'.att = u.att /\ u'.cacheable = u.cacheable /\ u'.cache = u.cache /\ u'.cstat = u.cstat
         /\ u'.store = u.store /\ u'.status = u.status /\ u'.cl = u.cl /\ u'.length = u.length
         /\ u'.got = u.got /\ u'.eof = u.eof /\ u'.done = u.done /\ u'.err = u.err
         /\ u'.derr = u.derr
    BY <1>3, <2>b DEF UType
  <2>2. u' \in UType({u'.d})
    BY <1>3, <2>t, <2>b DEF UType
  <2>3. TypeOK'
    BY <1>4, <1>2, <2>t, <2>1, <2>2 DEF TypeOK
  <2>9. StackOK'
    BY <1>1, <1>2, <2>t, <2>f, <2>1 DEF IndInv, TypeOK, UType, StackOK
  <2>4. StartOK' /\ EndOK'
    BY <1>1, <1>2, <2>t, <2>f, <2>1 DEF IndInv, TypeOK, UType, StackOK, StartOK, EndOK, Nothing, U0,
           Out0
  <2>5. PhaseOK'
    BY <1>1, <1>2, <2>t, <2>f, <2>1 DEF IndInv, TypeOK, UType, StartOK, EndOK, PhaseOK, Passing
  <2>6. BodyOK'
    BY <1>1, <1>2, <2>t, <2>f, <2>1 DEF IndInv, TypeOK, UType, EndOK, PhaseOK, Passing, BodyOK,
           AllOfIt
  <2>7. PeersBalanced'
    BY <1>1, <1>2, <2>t, <2>f, <2>1 DEF IndInv, TypeOK, UType, StartOK, EndOK, PeersBalanced
  <2>8. ASSUME Plain, TimersOK PROVE TimersOK'
    BY <1>1, <1>2, <2>t, <2>f, <2>1, <2>8 DEF IndInv, TypeOK, UType, StartOK, Nothing, EndOK,
           PhaseOK, Passing, Plain, TimersOK, WaitHasTimer, Live, Idle, Ended
  <2> QED
    BY <2>3, <2>4, <2>5, <2>6, <2>7, <2>8, <2>9 DEF Kept, IndInv
<1>e. CASE u' = [u EXCEPT !.rh = "upgraded", !.wh = "upgraded", !.check = FALSE] /\ Tail_(<< >>)
  <2>1. call' = << >> /\ Top' = "none" /\ Below' = << >>
    BY <1>1, <1>e, Tail0, Call0
  <2>t. Upgrades
    BY <1>3, <1>4, <1>1, <1>e DEF PhaseOK, IndInv, TypeOK, UType
  <2>b. u' = [u EXCEPT !.rh = "upgraded", !.wh = "upgraded", !.check = FALSE]
    BY <1>2, <1>e
  <2>f. /\ u'.st = u.st /\ u'.resolving = u.resolving /\ u'.cleanup = u.cleanup /\ u'.d = u.d
         /\ u'.sock = u.sock /\ u'.conn = u.conn /\ u'.ssl = u.ssl /\ u'.wh = "upgraded"
         /\ u'.rh = "upgraded" /\ u'.rt = u.rt /\ u'.wt = u.wt /\ u'.ct = u.ct
         /\ u'.request_sent = u.request_sent /\ u'.header_sent = u.header_sent /\ u'.check = FALSE /\ u'.buf = u.buf
         /\ u'.att = u.att /\ u'.cacheable = u.cacheable /\ u'.cache = u.cache /\ u'.cstat = u.cstat
         /\ u'.store = u.store /\ u'.status = u.status /\ u'.cl = u.cl /\ u'.length = u.length
         /\ u'.got = u.got /\ u'.eof = u.eof /\ u'.done = u.done /\ u'.err = u.err
         /\ u'.derr = u.derr
    BY <1>3, <2>b DEF UType
  <2>2. u' \in UType({u'.d})
    BY <1>3, <2>t, <2>b DEF UType
  <2>3. TypeOK'
    BY <1>4, <1>2, <2>t, <2>1, <2>2 DEF TypeOK
  <2>9. StackOK'
    BY <1>1, <1>2, <2>t, <2>f, <2>1 DEF IndInv, TypeOK, UType, StackOK
  <2>4. StartOK' /\ EndOK'
    BY <1>1, <1>2, <2>t, <2>f, <2>1 DEF IndInv, TypeOK, UType, StackOK, StartOK, EndOK, Nothing, U0,
           Out0
  <2>5. PhaseOK'
    BY <1>1, <1>2, <2>t, <2>f, <2>1 DEF IndInv, TypeOK, UType, StartOK, EndOK, PhaseOK, Passing
  <2>6. BodyOK'
    BY <1>1, <1>2, <2>t, <2>f, <2>1 DEF IndInv, TypeOK, UType, EndOK, PhaseOK, Passing, BodyOK,
           AllOfIt
  <2>7. PeersBalanced'
    BY <1>1, <1>2, <2>t, <2>f, <2>1 DEF IndInv, TypeOK, UType, StartOK, EndOK, PeersBalanced
  <2>8. ASSUME Plain, TimersOK PROVE TimersOK'
    BY <1>1, <1>2, <2>t, <2>f, <2>1, <2>8 DEF IndInv, TypeOK, UType, StartOK, Nothing, EndOK,
           PhaseOK, Passing, Plain, TimersOK, WaitHasTimer, Live, Idle, Ended
  <2> QED
    BY <2>3, <2>4, <2>5, <2>6, <2>7, <2>8, <2>9 DEF Kept, IndInv
<1>q. ASSUME NEW up \in BOOLEAN, NEW down \in BOOLEAN, u' = [u EXCEPT !.rh = "upgraded",
          !.wh = "upgraded", !.check = FALSE],
             Tail_((IF up THEN <<<<"process_upgraded", TRUE>>>> ELSE << >>)
                   \o (IF down THEN <<<<"process_upgraded", FALSE>>>> ELSE << >>))
      PROVE  Kept
  <2> DEFINE x == <<"process_upgraded", TRUE>>
             y == <<"process_upgraded", FALSE>>
  <2>1. <<x>> \o <<y>> = <<x, y>>
    BY TwoOf
  <2>2. <<x>> \o << >> = <<x>> /\ << >> \o <<y>> = <<y>> /\ << >> \o << >> = << >>
    BY OneOf
  <2> QED
    BY <1>q, <2>1, <2>2, <1>b, <1>c, <1>d, <1>e
<1> QED
  BY <1>q, <1>a DEF upgrade

(* connect: no peer is left, the socket fails, connecting, or connected. *)
LEMMA ConnectKept == ASSUME Settings, IndInv, connect PROVE Kept
<1>1. call # << >> /\ Top = "connect" /\ Below = << >>
  <2>1. Pending("connect")
    BY DEF connect
  <2> QED
    BY <2>1, Alone
<1>2. UNCHANGED <<client>>
  BY DEF connect
<1>3. u \in UType({u.d})
  BY DEF IndInv, TypeOK
<1>4. out \in OType /\ client \in {"ok", "gone", "error"}
  BY DEF IndInv, TypeOK
<1>a. ASSUME NEW e, u' = [u EXCEPT !.d = e], out' = out, Tail_(GoNext("nolive")) PROVE Kept
  <2>1. call' # << >> /\ Top' = "next" /\ Arg' = "nolive" /\ Below' = << >>
    BY <1>1, <1>a, Tail1, Call2 DEF GoNext
  <2> DEFINE new_d == e
  <2>t. out' = out
    BY <1>3, <1>4, <1>1, <1>a DEF IndInv, TypeOK, UType
  <2>b. u' = [u EXCEPT !.d = new_d]
    BY <1>2, <1>a
  <2> HIDE DEF new_d
  <2>2. u' \in UType({u'.d})
    BY <1>3, <2>t, <2>b, NewData
  <2>3. TypeOK'
    BY <1>4, <1>2, <2>t, <2>1, <2>2 DEF TypeOK
  <2>9. StackOK'
    BY <1>1, <1>2, <2>t, <2>b, <2>1, <2>2 DEF IndInv, TypeOK, UType, StackOK
  <2>4. StartOK' /\ EndOK'
    BY <1>1, <1>2, <2>t, <2>b, <2>1, <2>2 DEF IndInv, TypeOK, UType, StackOK, StartOK, EndOK,
           Nothing, U0, Out0
  <2>5. PhaseOK'
    BY <1>1, <1>2, <2>t, <2>b, <2>1, <2>2 DEF IndInv, TypeOK, UType, StartOK, EndOK, PhaseOK,
           Passing
  <2>6. BodyOK'
    BY <1>1, <1>2, <2>t, <2>b, <2>1, <2>2 DEF IndInv, TypeOK, UType, EndOK, PhaseOK, Passing,
           BodyOK, AllOfIt
  <2>7. PeersBalanced'
    BY <1>1, <1>2, <2>t, <2>b, <2>1, <2>2 DEF IndInv, TypeOK, UType, StartOK, EndOK, PeersBalanced
  <2>8. ASSUME Plain, TimersOK PROVE TimersOK'
    BY <1>1, <1>2, <2>t, <2>b, <2>1, <2>2, <2>8 DEF IndInv, TypeOK, UType, StartOK, Nothing, EndOK,
           PhaseOK, Passing, Plain, TimersOK, WaitHasTimer, Live, Idle, Ended
  <2> QED
    BY <2>3, <2>4, <2>5, <2>6, <2>7, <2>8, <2>9 DEF Kept, IndInv
<1>b. ASSUME NEW e,
             u' = [u EXCEPT !.d = e, !.sock = TRUE, !.att = @ + 1],
             out' = [out EXCEPT !.gets = @ + 1],
             Tail_(Finalize(500))
      PROVE  Kept
  <2>1. call' # << >> /\ Top' = "finalize" /\ Arg' = 500 /\ Below' = << >>
    BY <1>1, <1>b, Tail1, Call2 DEF Finalize
  <2> DEFINE new_d == e
             new_att == u.att + 1
             new_gets == out.gets + 1
  <2>t. new_att \in Int /\ new_gets \in Int
    BY <1>3, <1>4, <1>1, <1>b DEF Settings, IndInv, TypeOK, UType, OType
  <2>a. new_gets = out.gets + 1
    BY <1>1, <1>2, <1>b DEF Settings, IndInv, TypeOK, UType, OType
  <2>b. u' = [u EXCEPT !.d = new_d, !.sock = TRUE, !.att = new_att]
    BY <1>2, <1>b DEF Connected, Reinit, IndInv, TypeOK, UType
  <2>o. out' = [out EXCEPT !.gets = new_gets]
    BY <1>1, <1>b, <2>a
  <2> HIDE DEF new_d, new_att, new_gets
  <2>f. /\ u'.st = u.st /\ u'.resolving = u.resolving /\ u'.cleanup = u.cleanup /\ u'.d = new_d
         /\ u'.sock = TRUE /\ u'.conn = u.conn /\ u'.ssl = u.ssl /\ u'.wh = u.wh
         /\ u'.rh = u.rh /\ u'.rt = u.rt /\ u'.wt = u.wt /\ u'.ct = u.ct
         /\ u'.request_sent = u.request_sent /\ u'.header_sent = u.header_sent /\ u'.check = u.check /\ u'.buf = u.buf
         /\ u'.att = new_att /\ u'.cacheable = u.cacheable /\ u'.cache = u.cache /\ u'.cstat = u.cstat
         /\ u'.store = u.store /\ u'.status = u.status /\ u'.cl = u.cl /\ u'.length = u.length
         /\ u'.got = u.got /\ u'.eof = u.eof /\ u'.done = u.done /\ u'.err = u.err
         /\ u'.derr = u.derr
    BY <1>3, <2>b DEF UType
  <2>g. /\ out'.final = out.final
        /\ out'.last = out.last
        /\ out'.reply = out.reply
        /\ out'.kept = out.kept
        /\ out'.gets = new_gets
        /\ out'.frees = out.frees
    BY <1>4, <2>o DEF OType
  <2>2. u' \in UType({u'.d})
    <3> DEFINE v1 == [u EXCEPT !.sock = TRUE]
    <3> DEFINE v2 == [v1 EXCEPT !.att = new_att]
    <3>x. u' = [v2 EXCEPT !.d = new_d]
      BY <1>3, <2>t, <2>b DEF UType
    <3> HIDE DEF v1, v2
    <3>1. v1 \in UType({u.d})
      BY <1>3, <2>t DEF v1, UType, OType, DECLINED
    <3>2. v2 \in UType({u.d})
      BY <3>1, <2>t DEF v2, UType, OType, DECLINED
    <3> QED
      BY <3>x, <3>2, NewData
  <2>c. out' \in OType
    BY <1>4, <2>t, <2>o DEF OType
  <2>3. TypeOK'
    BY <1>4, <1>2, <2>t, <2>1, <2>2, <2>c, <2>a DEF TypeOK, DECLINED
  <2>9. StackOK'
    BY <1>1, <1>2, <2>t, <2>a, <2>f, <2>g, <2>c, <2>1
       DEF IndInv, TypeOK, UType, StackOK, OType, DECLINED
  <2>4. StartOK' /\ EndOK'
    BY <1>1, <1>2, <2>t, <2>a, <2>f, <2>g, <2>c, <2>1
       DEF IndInv, TypeOK, UType, StackOK, StartOK, EndOK, Nothing, U0, Out0, OType, DECLINED
  <2>5. PhaseOK'
    BY <1>1, <1>2, <2>t, <2>a, <2>f, <2>g, <2>c, <2>1
       DEF IndInv, TypeOK, UType, StartOK, EndOK, PhaseOK, Passing, OType, DECLINED
  <2>6. BodyOK'
    BY <1>1, <1>2, <2>t, <2>a, <2>f, <2>g, <2>c, <2>1
       DEF IndInv, TypeOK, UType, EndOK, PhaseOK, Passing, BodyOK, AllOfIt, OType, DECLINED
  <2>7. PeersBalanced'
    BY <1>1, <1>2, <2>t, <2>a, <2>f, <2>g, <2>c, <2>1
       DEF IndInv, TypeOK, UType, StartOK, EndOK, PeersBalanced, OType, DECLINED
  <2>8. ASSUME Plain, TimersOK PROVE TimersOK'
    BY <1>1, <1>2, <2>t, <2>a, <2>f, <2>g, <2>c, <2>1, <2>8
       DEF IndInv, TypeOK, UType, StartOK, Nothing, EndOK, PhaseOK, Passing, Plain, TimersOK,
           WaitHasTimer, Live, Idle, Ended, OType, DECLINED
  <2> QED
    BY <2>3, <2>4, <2>5, <2>6, <2>7, <2>8, <2>9 DEF Kept, IndInv
<1>c. ASSUME NEW e,
             u' = [u EXCEPT !.d = e, !.sock = TRUE, !.att = @ + 1],
             out' = [out EXCEPT !.gets = @ + 1],
             Tail_(GoNext("error"))
      PROVE  Kept
  <2>1. call' # << >> /\ Top' = "next" /\ Arg' = "error" /\ Below' = << >>
    BY <1>1, <1>c, Tail1, Call2 DEF GoNext
  <2> DEFINE new_d == e
             new_att == u.att + 1
             new_gets == out.gets + 1
  <2>t. new_att \in Int /\ new_gets \in Int
    BY <1>3, <1>4, <1>1, <1>c DEF Settings, IndInv, TypeOK, UType, OType
  <2>a. new_gets = out.gets + 1
    BY <1>1, <1>2, <1>c DEF Settings, IndInv, TypeOK, UType, OType
  <2>b. u' = [u EXCEPT !.d = new_d, !.sock = TRUE, !.att = new_att]
    BY <1>2, <1>c DEF Connected, Reinit, IndInv, TypeOK, UType
  <2>o. out' = [out EXCEPT !.gets = new_gets]
    BY <1>1, <1>c, <2>a
  <2> HIDE DEF new_d, new_att, new_gets
  <2>f. /\ u'.st = u.st /\ u'.resolving = u.resolving /\ u'.cleanup = u.cleanup /\ u'.d = new_d
         /\ u'.sock = TRUE /\ u'.conn = u.conn /\ u'.ssl = u.ssl /\ u'.wh = u.wh
         /\ u'.rh = u.rh /\ u'.rt = u.rt /\ u'.wt = u.wt /\ u'.ct = u.ct
         /\ u'.request_sent = u.request_sent /\ u'.header_sent = u.header_sent /\ u'.check = u.check /\ u'.buf = u.buf
         /\ u'.att = new_att /\ u'.cacheable = u.cacheable /\ u'.cache = u.cache /\ u'.cstat = u.cstat
         /\ u'.store = u.store /\ u'.status = u.status /\ u'.cl = u.cl /\ u'.length = u.length
         /\ u'.got = u.got /\ u'.eof = u.eof /\ u'.done = u.done /\ u'.err = u.err
         /\ u'.derr = u.derr
    BY <1>3, <2>b DEF UType
  <2>g. /\ out'.final = out.final
        /\ out'.last = out.last
        /\ out'.reply = out.reply
        /\ out'.kept = out.kept
        /\ out'.gets = new_gets
        /\ out'.frees = out.frees
    BY <1>4, <2>o DEF OType
  <2>2. u' \in UType({u'.d})
    <3> DEFINE v1 == [u EXCEPT !.sock = TRUE]
    <3> DEFINE v2 == [v1 EXCEPT !.att = new_att]
    <3>x. u' = [v2 EXCEPT !.d = new_d]
      BY <1>3, <2>t, <2>b DEF UType
    <3> HIDE DEF v1, v2
    <3>1. v1 \in UType({u.d})
      BY <1>3, <2>t DEF v1, UType, OType
    <3>2. v2 \in UType({u.d})
      BY <3>1, <2>t DEF v2, UType, OType
    <3> QED
      BY <3>x, <3>2, NewData
  <2>c. out' \in OType
    BY <1>4, <2>t, <2>o DEF OType
  <2>3. TypeOK'
    BY <1>4, <1>2, <2>t, <2>1, <2>2, <2>c, <2>a DEF TypeOK
  <2>9. StackOK'
    BY <1>1, <1>2, <2>t, <2>a, <2>f, <2>g, <2>c, <2>1 DEF IndInv, TypeOK, UType, StackOK, OType
  <2>4. StartOK' /\ EndOK'
    BY <1>1, <1>2, <2>t, <2>a, <2>f, <2>g, <2>c, <2>1
       DEF IndInv, TypeOK, UType, StackOK, StartOK, EndOK, Nothing, U0, Out0, OType
  <2>5. PhaseOK'
    BY <1>1, <1>2, <2>t, <2>a, <2>f, <2>g, <2>c, <2>1
       DEF IndInv, TypeOK, UType, StartOK, EndOK, PhaseOK, Passing, OType
  <2>6. BodyOK'
    BY <1>1, <1>2, <2>t, <2>a, <2>f, <2>g, <2>c, <2>1
       DEF IndInv, TypeOK, UType, EndOK, PhaseOK, Passing, BodyOK, AllOfIt, OType
  <2>7. PeersBalanced'
    BY <1>1, <1>2, <2>t, <2>a, <2>f, <2>g, <2>c, <2>1
       DEF IndInv, TypeOK, UType, StartOK, EndOK, PeersBalanced, OType
  <2>8. ASSUME Plain, TimersOK PROVE TimersOK'
    BY <1>1, <1>2, <2>t, <2>a, <2>f, <2>g, <2>c, <2>1, <2>8
       DEF IndInv, TypeOK, UType, StartOK, Nothing, EndOK, PhaseOK, Passing, Plain, TimersOK,
           WaitHasTimer, Live, Idle, Ended, OType
  <2> QED
    BY <2>3, <2>4, <2>5, <2>6, <2>7, <2>8, <2>9 DEF Kept, IndInv
<1>d. ASSUME NEW e,
             u.request_sent,
             u' = Connected([u EXCEPT !.d = e, !.sock = TRUE, !.att = @ + 1], TRUE),
             out' = [out EXCEPT !.gets = @ + 1],
             Tail_(<< >>)
      PROVE  Kept
  <2>1. call' = << >> /\ Top' = "none" /\ Below' = << >>
    BY <1>1, <1>d, Tail0, Call0
  <2> DEFINE new_d == e
             new_att == u.att + 1
             new_gets == out.gets + 1
  <2>t. new_att \in Int /\ new_gets \in Int
    BY <1>3, <1>4, <1>1, <1>d DEF Settings, IndInv, TypeOK, UType, OType
  <2>a. new_gets = out.gets + 1 /\ u.request_sent
    BY <1>1, <1>2, <1>d DEF Settings, IndInv, TypeOK, UType, OType
  <2>b. u' = [[[u EXCEPT !.d = new_d, !.sock = TRUE, !.att = new_att] EXCEPT !.buf = {},
                         !.status = 0, !.cl = -1] EXCEPT !.conn = TRUE, !.wh = "send",
                         !.rh = "header", !.ssl = "none", !.request_sent = FALSE, !.wt = TRUE,
                         !.rt = FALSE]
    BY <1>d DEF Connected, Reinit, IndInv, TypeOK, UType
  <2>o. out' = [out EXCEPT !.gets = new_gets]
    BY <1>1, <1>d, <2>a
  <2> HIDE DEF new_d, new_att, new_gets
  <2>f. /\ u'.st = u.st /\ u'.resolving = u.resolving /\ u'.cleanup = u.cleanup /\ u'.d = new_d
         /\ u'.sock = TRUE /\ u'.conn = TRUE /\ u'.ssl = "none" /\ u'.wh = "send"
         /\ u'.rh = "header" /\ u'.rt = FALSE /\ u'.wt = TRUE /\ u'.ct = u.ct
         /\ u'.request_sent = FALSE /\ u'.header_sent = u.header_sent /\ u'.check = u.check /\ u'.buf = {}
         /\ u'.att = new_att /\ u'.cacheable = u.cacheable /\ u'.cache = u.cache /\ u'.cstat = u.cstat
         /\ u'.store = u.store /\ u'.status = 0 /\ u'.cl = -1 /\ u'.length = u.length
         /\ u'.got = u.got /\ u'.eof = u.eof /\ u'.done = u.done /\ u'.err = u.err
         /\ u'.derr = u.derr
    BY <1>3, <2>b DEF UType
  <2>g. /\ out'.final = out.final
        /\ out'.last = out.last
        /\ out'.reply = out.reply
        /\ out'.kept = out.kept
        /\ out'.gets = new_gets
        /\ out'.frees = out.frees
    BY <1>4, <2>o DEF OType
  <2>2. u' \in UType({u'.d})
    <3> DEFINE v1 == [u EXCEPT !.sock = TRUE]
    <3> DEFINE v2 == [v1 EXCEPT !.att = new_att]
    <3> DEFINE v3 == [v2 EXCEPT !.buf = {}]
    <3> DEFINE v4 == [v3 EXCEPT !.status = 0]
    <3> DEFINE v5 == [v4 EXCEPT !.cl = -1]
    <3> DEFINE v6 == [v5 EXCEPT !.conn = TRUE, !.wh = "send", !.rh = "header", !.ssl = "none"]
    <3> DEFINE v7 == [v6 EXCEPT !.request_sent = FALSE, !.wt = TRUE, !.rt = FALSE]
    <3>x. u' = [v7 EXCEPT !.d = new_d]
      BY <1>3, <2>t, <2>b DEF UType
    <3> HIDE DEF v1, v2, v3, v4, v5, v6, v7
    <3>1. v1 \in UType({u.d})
      BY <1>3, <2>t DEF v1, UType, OType
    <3>2. v2 \in UType({u.d})
      BY <3>1, <2>t DEF v2, UType, OType
    <3>3. v3 \in UType({u.d})
      BY <3>2, <2>t DEF v3, UType, OType
    <3>4. v4 \in UType({u.d})
      BY <3>3, <2>t DEF v4, UType, OType
    <3>5. v5 \in UType({u.d})
      BY <3>4, <2>t DEF v5, UType, OType
    <3>6. v6 \in UType({u.d})
      BY <3>5, <2>t DEF v6, UType, OType
    <3>7. v7 \in UType({u.d})
      BY <3>6, <2>t DEF v7, UType, OType
    <3> QED
      BY <3>x, <3>7, NewData
  <2>c. out' \in OType
    BY <1>4, <2>t, <2>o DEF OType
  <2>3. TypeOK'
    BY <1>4, <1>2, <2>t, <2>1, <2>2, <2>c, <2>a DEF TypeOK
  <2>9. StackOK'
    BY <1>1, <1>2, <2>t, <2>a, <2>f, <2>g, <2>c, <2>1 DEF IndInv, TypeOK, UType, StackOK, OType
  <2>4. StartOK' /\ EndOK'
    BY <1>1, <1>2, <2>t, <2>a, <2>f, <2>g, <2>c, <2>1
       DEF IndInv, TypeOK, UType, StackOK, StartOK, EndOK, Nothing, U0, Out0, OType
  <2>5. PhaseOK'
    BY <1>1, <1>2, <2>t, <2>a, <2>f, <2>g, <2>c, <2>1
       DEF IndInv, TypeOK, UType, StartOK, EndOK, PhaseOK, Passing, OType
  <2>6. BodyOK'
    BY <1>1, <1>2, <2>t, <2>a, <2>f, <2>g, <2>c, <2>1
       DEF IndInv, TypeOK, UType, EndOK, PhaseOK, Passing, BodyOK, AllOfIt, OType
  <2>7. PeersBalanced'
    BY <1>1, <1>2, <2>t, <2>a, <2>f, <2>g, <2>c, <2>1
       DEF IndInv, TypeOK, UType, StartOK, EndOK, PeersBalanced, OType
  <2>8. ASSUME Plain, TimersOK PROVE TimersOK'
    BY <1>1, <1>2, <2>t, <2>a, <2>f, <2>g, <2>c, <2>1, <2>8
       DEF IndInv, TypeOK, UType, StartOK, Nothing, EndOK, PhaseOK, Passing, Plain, TimersOK,
           WaitHasTimer, Live, Idle, Ended, OType
  <2> QED
    BY <2>3, <2>4, <2>5, <2>6, <2>7, <2>8, <2>9 DEF Kept, IndInv
<1>e. ASSUME NEW e,
             ~u.request_sent,
             u' = Connected([u EXCEPT !.d = e, !.sock = TRUE, !.att = @ + 1], TRUE),
             out' = [out EXCEPT !.gets = @ + 1],
             Tail_(<< >>)
      PROVE  Kept
  <2>1. call' = << >> /\ Top' = "none" /\ Below' = << >>
    BY <1>1, <1>e, Tail0, Call0
  <2> DEFINE new_d == e
             new_att == u.att + 1
             new_gets == out.gets + 1
  <2>t. new_att \in Int /\ new_gets \in Int
    BY <1>3, <1>4, <1>1, <1>e DEF Settings, IndInv, TypeOK, UType, OType
  <2>a. new_gets = out.gets + 1 /\ ~u.request_sent
    BY <1>1, <1>2, <1>e DEF Settings, IndInv, TypeOK, UType, OType
  <2>b. u' = [[u EXCEPT !.d = new_d, !.sock = TRUE, !.att = new_att] EXCEPT !.conn = TRUE,
                        !.wh = "send", !.rh = "header", !.ssl = "none", !.request_sent = FALSE,
                        !.wt = TRUE, !.rt = FALSE]
    BY <1>e DEF Connected, Reinit, IndInv, TypeOK, UType
  <2>o. out' = [out EXCEPT !.gets = new_gets]
    BY <1>1, <1>e, <2>a
  <2> HIDE DEF new_d, new_att, new_gets
  <2>f. /\ u'.st = u.st /\ u'.resolving = u.resolving /\ u'.cleanup = u.cleanup /\ u'.d = new_d
         /\ u'.sock = TRUE /\ u'.conn = TRUE /\ u'.ssl = "none" /\ u'.wh = "send"
         /\ u'.rh = "header" /\ u'.rt = FALSE /\ u'.wt = TRUE /\ u'.ct = u.ct
         /\ u'.request_sent = FALSE /\ u'.header_sent = u.header_sent /\ u'.check = u.check /\ u'.buf = u.buf
         /\ u'.att = new_att /\ u'.cacheable = u.cacheable /\ u'.cache = u.cache /\ u'.cstat = u.cstat
         /\ u'.store = u.store /\ u'.status = u.status /\ u'.cl = u.cl /\ u'.length = u.length
         /\ u'.got = u.got /\ u'.eof = u.eof /\ u'.done = u.done /\ u'.err = u.err
         /\ u'.derr = u.derr
    BY <1>3, <2>b DEF UType
  <2>g. /\ out'.final = out.final
        /\ out'.last = out.last
        /\ out'.reply = out.reply
        /\ out'.kept = out.kept
        /\ out'.gets = new_gets
        /\ out'.frees = out.frees
    BY <1>4, <2>o DEF OType
  <2>2. u' \in UType({u'.d})
    <3> DEFINE v1 == [u EXCEPT !.sock = TRUE]
    <3> DEFINE v2 == [v1 EXCEPT !.att = new_att]
    <3> DEFINE v3 == [v2 EXCEPT !.conn = TRUE, !.wh = "send", !.rh = "header", !.ssl = "none"]
    <3> DEFINE v4 == [v3 EXCEPT !.request_sent = FALSE, !.wt = TRUE, !.rt = FALSE]
    <3>x. u' = [v4 EXCEPT !.d = new_d]
      BY <1>3, <2>t, <2>b DEF UType
    <3> HIDE DEF v1, v2, v3, v4
    <3>1. v1 \in UType({u.d})
      BY <1>3, <2>t DEF v1, UType, OType
    <3>2. v2 \in UType({u.d})
      BY <3>1, <2>t DEF v2, UType, OType
    <3>3. v3 \in UType({u.d})
      BY <3>2, <2>t DEF v3, UType, OType
    <3>4. v4 \in UType({u.d})
      BY <3>3, <2>t DEF v4, UType, OType
    <3> QED
      BY <3>x, <3>4, NewData
  <2>c. out' \in OType
    BY <1>4, <2>t, <2>o DEF OType
  <2>3. TypeOK'
    BY <1>4, <1>2, <2>t, <2>1, <2>2, <2>c, <2>a DEF TypeOK
  <2>9. StackOK'
    BY <1>1, <1>2, <2>t, <2>a, <2>f, <2>g, <2>c, <2>1 DEF IndInv, TypeOK, UType, StackOK, OType
  <2>4. StartOK' /\ EndOK'
    BY <1>1, <1>2, <2>t, <2>a, <2>f, <2>g, <2>c, <2>1
       DEF IndInv, TypeOK, UType, StackOK, StartOK, EndOK, Nothing, U0, Out0, OType
  <2>5. PhaseOK'
    BY <1>1, <1>2, <2>t, <2>a, <2>f, <2>g, <2>c, <2>1
       DEF IndInv, TypeOK, UType, StartOK, EndOK, PhaseOK, Passing, OType
  <2>6. BodyOK'
    BY <1>1, <1>2, <2>t, <2>a, <2>f, <2>g, <2>c, <2>1
       DEF IndInv, TypeOK, UType, EndOK, PhaseOK, Passing, BodyOK, AllOfIt, OType
  <2>7. PeersBalanced'
    BY <1>1, <1>2, <2>t, <2>a, <2>f, <2>g, <2>c, <2>1
       DEF IndInv, TypeOK, UType, StartOK, EndOK, PeersBalanced, OType
  <2>8. ASSUME Plain, TimersOK PROVE TimersOK'
    BY <1>1, <1>2, <2>t, <2>a, <2>f, <2>g, <2>c, <2>1, <2>8
       DEF IndInv, TypeOK, UType, StartOK, Nothing, EndOK, PhaseOK, Passing, Plain, TimersOK,
           WaitHasTimer, Live, Idle, Ended, OType
  <2> QED
    BY <2>3, <2>4, <2>5, <2>6, <2>7, <2>8, <2>9 DEF Kept, IndInv
<1>f. ASSUME NEW e,
             u.request_sent /\ UseSSL,
             u' = Connected([u EXCEPT !.d = e, !.sock = TRUE, !.att = @ + 1], FALSE),
             out' = [out EXCEPT !.gets = @ + 1],
             Tail_(<<<<"ssl_init">>>>)
      PROVE  Kept
  <2>1. call' # << >> /\ Top' = "ssl_init" /\ Below' = << >>
    BY <1>1, <1>f, Tail1, Call1
  <2> DEFINE new_d == e
             new_att == u.att + 1
             new_gets == out.gets + 1
  <2>t. new_att \in Int /\ new_gets \in Int
    BY <1>3, <1>4, <1>1, <1>f DEF Settings, IndInv, TypeOK, UType, OType
  <2>a. new_gets = out.gets + 1 /\ u.request_sent /\ UseSSL
    BY <1>1, <1>2, <1>f DEF Settings, IndInv, TypeOK, UType, OType
  <2>b. u' = [[[u EXCEPT !.d = new_d, !.sock = TRUE, !.att = new_att] EXCEPT !.buf = {},
                         !.status = 0, !.cl = -1] EXCEPT !.conn = TRUE, !.wh = "send",
                         !.rh = "header", !.ssl = "none", !.request_sent = FALSE, !.wt = FALSE,
                         !.rt = FALSE]
    BY <1>f DEF Connected, Reinit, IndInv, TypeOK, UType
  <2>o. out' = [out EXCEPT !.gets = new_gets]
    BY <1>1, <1>f, <2>a
  <2> HIDE DEF new_d, new_att, new_gets
  <2>f. /\ u'.st = u.st /\ u'.resolving = u.resolving /\ u'.cleanup = u.cleanup /\ u'.d = new_d
         /\ u'.sock = TRUE /\ u'.conn = TRUE /\ u'.ssl = "none" /\ u'.wh = "send"
         /\ u'.rh = "header" /\ u'.rt = FALSE /\ u'.wt = FALSE /\ u'.ct = u.ct
         /\ u'.request_sent = FALSE /\ u'.header_sent = u.header_sent /\ u'.check = u.check /\ u'.buf = {}
         /\ u'.att = new_att /\ u'.cacheable = u.cacheable /\ u'.cache = u.cache /\ u'.cstat = u.cstat
         /\ u'.store = u.store /\ u'.status = 0 /\ u'.cl = -1 /\ u'.length = u.length
         /\ u'.got = u.got /\ u'.eof = u.eof /\ u'.done = u.done /\ u'.err = u.err
         /\ u'.derr = u.derr
    BY <1>3, <2>b DEF UType
  <2>g. /\ out'.final = out.final
        /\ out'.last = out.last
        /\ out'.reply = out.reply
        /\ out'.kept = out.kept
        /\ out'.gets = new_gets
        /\ out'.frees = out.frees
    BY <1>4, <2>o DEF OType
  <2>2. u' \in UType({u'.d})
    <3> DEFINE v1 == [u EXCEPT !.sock = TRUE]
    <3> DEFINE v2 == [v1 EXCEPT !.att = new_att]
    <3> DEFINE v3 == [v2 EXCEPT !.buf = {}]
    <3> DEFINE v4 == [v3 EXCEPT !.status = 0]
    <3> DEFINE v5 == [v4 EXCEPT !.cl = -1]
    <3> DEFINE v6 == [v5 EXCEPT !.conn = TRUE, !.wh = "send", !.rh = "header", !.ssl = "none"]
    <3> DEFINE v7 == [v6 EXCEPT !.request_sent = FALSE, !.wt = FALSE, !.rt = FALSE]
    <3>x. u' = [v7 EXCEPT !.d = new_d]
      BY <1>3, <2>t, <2>b DEF UType
    <3> HIDE DEF v1, v2, v3, v4, v5, v6, v7
    <3>1. v1 \in UType({u.d})
      BY <1>3, <2>t DEF v1, UType, OType
    <3>2. v2 \in UType({u.d})
      BY <3>1, <2>t DEF v2, UType, OType
    <3>3. v3 \in UType({u.d})
      BY <3>2, <2>t DEF v3, UType, OType
    <3>4. v4 \in UType({u.d})
      BY <3>3, <2>t DEF v4, UType, OType
    <3>5. v5 \in UType({u.d})
      BY <3>4, <2>t DEF v5, UType, OType
    <3>6. v6 \in UType({u.d})
      BY <3>5, <2>t DEF v6, UType, OType
    <3>7. v7 \in UType({u.d})
      BY <3>6, <2>t DEF v7, UType, OType
    <3> QED
      BY <3>x, <3>7, NewData
  <2>c. out' \in OType
    BY <1>4, <2>t, <2>o DEF OType
  <2>3. TypeOK'
    BY <1>4, <1>2, <2>t, <2>1, <2>2, <2>c, <2>a DEF TypeOK
  <2>9. StackOK'
    BY <1>1, <1>2, <2>t, <2>a, <2>f, <2>g, <2>c, <2>1 DEF IndInv, TypeOK, UType, StackOK, OType
  <2>4. StartOK' /\ EndOK'
    BY <1>1, <1>2, <2>t, <2>a, <2>f, <2>g, <2>c, <2>1
       DEF IndInv, TypeOK, UType, StackOK, StartOK, EndOK, Nothing, U0, Out0, OType
  <2>5. PhaseOK'
    BY <1>1, <1>2, <2>t, <2>a, <2>f, <2>g, <2>c, <2>1
       DEF IndInv, TypeOK, UType, StartOK, EndOK, PhaseOK, Passing, OType
  <2>6. BodyOK'
    BY <1>1, <1>2, <2>t, <2>a, <2>f, <2>g, <2>c, <2>1
       DEF IndInv, TypeOK, UType, EndOK, PhaseOK, Passing, BodyOK, AllOfIt, OType
  <2>7. PeersBalanced'
    BY <1>1, <1>2, <2>t, <2>a, <2>f, <2>g, <2>c, <2>1
       DEF IndInv, TypeOK, UType, StartOK, EndOK, PeersBalanced, OType
  <2>8. ASSUME Plain, TimersOK PROVE TimersOK'
    BY <1>1, <1>2, <2>t, <2>a, <2>f, <2>g, <2>c, <2>1, <2>8
       DEF IndInv, TypeOK, UType, StartOK, Nothing, EndOK, PhaseOK, Passing, Plain, TimersOK,
           WaitHasTimer, Live, Idle, Ended, OType
  <2> QED
    BY <2>3, <2>4, <2>5, <2>6, <2>7, <2>8, <2>9 DEF Kept, IndInv
<1>g. ASSUME NEW e,
             ~u.request_sent /\ UseSSL,
             u' = Connected([u EXCEPT !.d = e, !.sock = TRUE, !.att = @ + 1], FALSE),
             out' = [out EXCEPT !.gets = @ + 1],
             Tail_(<<<<"ssl_init">>>>)
      PROVE  Kept
  <2>1. call' # << >> /\ Top' = "ssl_init" /\ Below' = << >>
    BY <1>1, <1>g, Tail1, Call1
  <2> DEFINE new_d == e
             new_att == u.att + 1
             new_gets == out.gets + 1
  <2>t. new_att \in Int /\ new_gets \in Int
    BY <1>3, <1>4, <1>1, <1>g DEF Settings, IndInv, TypeOK, UType, OType
  <2>a. new_gets = out.gets + 1 /\ ~u.request_sent /\ UseSSL
    BY <1>1, <1>2, <1>g DEF Settings, IndInv, TypeOK, UType, OType
  <2>b. u' = [[u EXCEPT !.d = new_d, !.sock = TRUE, !.att = new_att] EXCEPT !.conn = TRUE,
                        !.wh = "send", !.rh = "header", !.ssl = "none", !.request_sent = FALSE,
                        !.wt = FALSE, !.rt = FALSE]
    BY <1>g DEF Connected, Reinit, IndInv, TypeOK, UType
  <2>o. out' = [out EXCEPT !.gets = new_gets]
    BY <1>1, <1>g, <2>a
  <2> HIDE DEF new_d, new_att, new_gets
  <2>f. /\ u'.st = u.st /\ u'.resolving = u.resolving /\ u'.cleanup = u.cleanup /\ u'.d = new_d
         /\ u'.sock = TRUE /\ u'.conn = TRUE /\ u'.ssl = "none" /\ u'.wh = "send"
         /\ u'.rh = "header" /\ u'.rt = FALSE /\ u'.wt = FALSE /\ u'.ct = u.ct
         /\ u'.request_sent = FALSE /\ u'.header_sent = u.header_sent /\ u'.check = u.check /\ u'.buf = u.buf
         /\ u'.att = new_att /\ u'.cacheable = u.cacheable /\ u'.cache = u.cache /\ u'.cstat = u.cstat
         /\ u'.store = u.store /\ u'.status = u.status /\ u'.cl = u.cl /\ u'.length = u.length
         /\ u'.got = u.got /\ u'.eof = u.eof /\ u'.done = u.done /\ u'.err = u.err
         /\ u'.derr = u.derr
    BY <1>3, <2>b DEF UType
  <2>g. /\ out'.final = out.final
        /\ out'.last = out.last
        /\ out'.reply = out.reply
        /\ out'.kept = out.kept
        /\ out'.gets = new_gets
        /\ out'.frees = out.frees
    BY <1>4, <2>o DEF OType
  <2>2. u' \in UType({u'.d})
    <3> DEFINE v1 == [u EXCEPT !.sock = TRUE]
    <3> DEFINE v2 == [v1 EXCEPT !.att = new_att]
    <3> DEFINE v3 == [v2 EXCEPT !.conn = TRUE, !.wh = "send", !.rh = "header", !.ssl = "none"]
    <3> DEFINE v4 == [v3 EXCEPT !.request_sent = FALSE, !.wt = FALSE, !.rt = FALSE]
    <3>x. u' = [v4 EXCEPT !.d = new_d]
      BY <1>3, <2>t, <2>b DEF UType
    <3> HIDE DEF v1, v2, v3, v4
    <3>1. v1 \in UType({u.d})
      BY <1>3, <2>t DEF v1, UType, OType
    <3>2. v2 \in UType({u.d})
      BY <3>1, <2>t DEF v2, UType, OType
    <3>3. v3 \in UType({u.d})
      BY <3>2, <2>t DEF v3, UType, OType
    <3>4. v4 \in UType({u.d})
      BY <3>3, <2>t DEF v4, UType, OType
    <3> QED
      BY <3>x, <3>4, NewData
  <2>c. out' \in OType
    BY <1>4, <2>t, <2>o DEF OType
  <2>3. TypeOK'
    BY <1>4, <1>2, <2>t, <2>1, <2>2, <2>c, <2>a DEF TypeOK
  <2>9. StackOK'
    BY <1>1, <1>2, <2>t, <2>a, <2>f, <2>g, <2>c, <2>1 DEF IndInv, TypeOK, UType, StackOK, OType
  <2>4. StartOK' /\ EndOK'
    BY <1>1, <1>2, <2>t, <2>a, <2>f, <2>g, <2>c, <2>1
       DEF IndInv, TypeOK, UType, StackOK, StartOK, EndOK, Nothing, U0, Out0, OType
  <2>5. PhaseOK'
    BY <1>1, <1>2, <2>t, <2>a, <2>f, <2>g, <2>c, <2>1
       DEF IndInv, TypeOK, UType, StartOK, EndOK, PhaseOK, Passing, OType
  <2>6. BodyOK'
    BY <1>1, <1>2, <2>t, <2>a, <2>f, <2>g, <2>c, <2>1
       DEF IndInv, TypeOK, UType, EndOK, PhaseOK, Passing, BodyOK, AllOfIt, OType
  <2>7. PeersBalanced'
    BY <1>1, <1>2, <2>t, <2>a, <2>f, <2>g, <2>c, <2>1
       DEF IndInv, TypeOK, UType, StartOK, EndOK, PeersBalanced, OType
  <2>8. ASSUME Plain, TimersOK PROVE TimersOK'
    BY <1>1, <1>2, <2>t, <2>a, <2>f, <2>g, <2>c, <2>1, <2>8
       DEF IndInv, TypeOK, UType, StartOK, Nothing, EndOK, PhaseOK, Passing, Plain, TimersOK,
           WaitHasTimer, Live, Idle, Ended, OType
  <2> QED
    BY <2>3, <2>4, <2>5, <2>6, <2>7, <2>8, <2>9 DEF Kept, IndInv
<1>h. ASSUME NEW e,
             u.request_sent /\ ~UseSSL,
             u' = Connected([u EXCEPT !.d = e, !.sock = TRUE, !.att = @ + 1], FALSE),
             out' = [out EXCEPT !.gets = @ + 1],
             Tail_(<<<<"send_request">>>>)
      PROVE  Kept
  <2>1. call' # << >> /\ Top' = "send_request" /\ Below' = << >>
    BY <1>1, <1>h, Tail1, Call1
  <2> DEFINE new_d == e
             new_att == u.att + 1
             new_gets == out.gets + 1
  <2>t. new_att \in Int /\ new_gets \in Int
    BY <1>3, <1>4, <1>1, <1>h DEF Settings, IndInv, TypeOK, UType, OType
  <2>a. new_gets = out.gets + 1 /\ u.request_sent /\ ~UseSSL
    BY <1>1, <1>2, <1>h DEF Settings, IndInv, TypeOK, UType, OType
  <2>b. u' = [[[u EXCEPT !.d = new_d, !.sock = TRUE, !.att = new_att] EXCEPT !.buf = {},
                         !.status = 0, !.cl = -1] EXCEPT !.conn = TRUE, !.wh = "send",
                         !.rh = "header", !.ssl = "none", !.request_sent = FALSE, !.wt = FALSE,
                         !.rt = FALSE]
    BY <1>h DEF Connected, Reinit, IndInv, TypeOK, UType
  <2>o. out' = [out EXCEPT !.gets = new_gets]
    BY <1>1, <1>h, <2>a
  <2> HIDE DEF new_d, new_att, new_gets
  <2>f. /\ u'.st = u.st /\ u'.resolving = u.resolving /\ u'.cleanup = u.cleanup /\ u'.d = new_d
         /\ u'.sock = TRUE /\ u'.conn = TRUE /\ u'.ssl = "none" /\ u'.wh = "send"
         /\ u'.rh = "header" /\ u'.rt = FALSE /\ u'.wt = FALSE /\ u'.ct = u.ct
         /\ u'.request_sent = FALSE /\ u'.header_sent = u.header_sent /\ u'.check = u.check /\ u'.buf = {}
         /\ u'.att = new_att /\ u'.cacheable = u.cacheable /\ u'.cache = u.cache /\ u'.cstat = u.cstat
         /\ u'.store = u.store /\ u'.status = 0 /\ u'.cl = -1 /\ u'.length = u.length
         /\ u'.got = u.got /\ u'.eof = u.eof /\ u'.done = u.done /\ u'.err = u.err
         /\ u'.derr = u.derr
    BY <1>3, <2>b DEF UType
  <2>g. /\ out'.final = out.final
        /\ out'.last = out.last
        /\ out'.reply = out.reply
        /\ out'.kept = out.kept
        /\ out'.gets = new_gets
        /\ out'.frees = out.frees
    BY <1>4, <2>o DEF OType
  <2>2. u' \in UType({u'.d})
    <3> DEFINE v1 == [u EXCEPT !.sock = TRUE]
    <3> DEFINE v2 == [v1 EXCEPT !.att = new_att]
    <3> DEFINE v3 == [v2 EXCEPT !.buf = {}]
    <3> DEFINE v4 == [v3 EXCEPT !.status = 0]
    <3> DEFINE v5 == [v4 EXCEPT !.cl = -1]
    <3> DEFINE v6 == [v5 EXCEPT !.conn = TRUE, !.wh = "send", !.rh = "header", !.ssl = "none"]
    <3> DEFINE v7 == [v6 EXCEPT !.request_sent = FALSE, !.wt = FALSE, !.rt = FALSE]
    <3>x. u' = [v7 EXCEPT !.d = new_d]
      BY <1>3, <2>t, <2>b DEF UType
    <3> HIDE DEF v1, v2, v3, v4, v5, v6, v7
    <3>1. v1 \in UType({u.d})
      BY <1>3, <2>t DEF v1, UType, OType
    <3>2. v2 \in UType({u.d})
      BY <3>1, <2>t DEF v2, UType, OType
    <3>3. v3 \in UType({u.d})
      BY <3>2, <2>t DEF v3, UType, OType
    <3>4. v4 \in UType({u.d})
      BY <3>3, <2>t DEF v4, UType, OType
    <3>5. v5 \in UType({u.d})
      BY <3>4, <2>t DEF v5, UType, OType
    <3>6. v6 \in UType({u.d})
      BY <3>5, <2>t DEF v6, UType, OType
    <3>7. v7 \in UType({u.d})
      BY <3>6, <2>t DEF v7, UType, OType
    <3> QED
      BY <3>x, <3>7, NewData
  <2>c. out' \in OType
    BY <1>4, <2>t, <2>o DEF OType
  <2>3. TypeOK'
    BY <1>4, <1>2, <2>t, <2>1, <2>2, <2>c, <2>a DEF TypeOK
  <2>9. StackOK'
    BY <1>1, <1>2, <2>t, <2>a, <2>f, <2>g, <2>c, <2>1 DEF IndInv, TypeOK, UType, StackOK, OType
  <2>4. StartOK' /\ EndOK'
    BY <1>1, <1>2, <2>t, <2>a, <2>f, <2>g, <2>c, <2>1
       DEF IndInv, TypeOK, UType, StackOK, StartOK, EndOK, Nothing, U0, Out0, OType
  <2>5. PhaseOK'
    BY <1>1, <1>2, <2>t, <2>a, <2>f, <2>g, <2>c, <2>1
       DEF IndInv, TypeOK, UType, StartOK, EndOK, PhaseOK, Passing, OType
  <2>6. BodyOK'
    BY <1>1, <1>2, <2>t, <2>a, <2>f, <2>g, <2>c, <2>1
       DEF IndInv, TypeOK, UType, EndOK, PhaseOK, Passing, BodyOK, AllOfIt, OType
  <2>7. PeersBalanced'
    BY <1>1, <1>2, <2>t, <2>a, <2>f, <2>g, <2>c, <2>1
       DEF IndInv, TypeOK, UType, StartOK, EndOK, PeersBalanced, OType
  <2>8. ASSUME Plain, TimersOK PROVE TimersOK'
    BY <1>1, <1>2, <2>t, <2>a, <2>f, <2>g, <2>c, <2>1, <2>8
       DEF IndInv, TypeOK, UType, StartOK, Nothing, EndOK, PhaseOK, Passing, Plain, TimersOK,
           WaitHasTimer, Live, Idle, Ended, OType
  <2> QED
    BY <2>3, <2>4, <2>5, <2>6, <2>7, <2>8, <2>9 DEF Kept, IndInv
<1>i. ASSUME NEW e,
             ~u.request_sent /\ ~UseSSL,
             u' = Connected([u EXCEPT !.d = e, !.sock = TRUE, !.att = @ + 1], FALSE),
             out' = [out EXCEPT !.gets = @ + 1],
             Tail_(<<<<"send_request">>>>)
      PROVE  Kept
  <2>1. call' # << >> /\ Top' = "send_request" /\ Below' = << >>
    BY <1>1, <1>i, Tail1, Call1
  <2> DEFINE new_d == e
             new_att == u.att + 1
             new_gets == out.gets + 1
  <2>t. new_att \in Int /\ new_gets \in Int
    BY <1>3, <1>4, <1>1, <1>i DEF Settings, IndInv, TypeOK, UType, OType
  <2>a. new_gets = out.gets + 1 /\ ~u.request_sent /\ ~UseSSL
    BY <1>1, <1>2, <1>i DEF Settings, IndInv, TypeOK, UType, OType
  <2>b. u' = [[u EXCEPT !.d = new_d, !.sock = TRUE, !.att = new_att] EXCEPT !.conn = TRUE,
                        !.wh = "send", !.rh = "header", !.ssl = "none", !.request_sent = FALSE,
                        !.wt = FALSE, !.rt = FALSE]
    BY <1>i DEF Connected, Reinit, IndInv, TypeOK, UType
  <2>o. out' = [out EXCEPT !.gets = new_gets]
    BY <1>1, <1>i, <2>a
  <2> HIDE DEF new_d, new_att, new_gets
  <2>f. /\ u'.st = u.st /\ u'.resolving = u.resolving /\ u'.cleanup = u.cleanup /\ u'.d = new_d
         /\ u'.sock = TRUE /\ u'.conn = TRUE /\ u'.ssl = "none" /\ u'.wh = "send"
         /\ u'.rh = "header" /\ u'.rt = FALSE /\ u'.wt = FALSE /\ u'.ct = u.ct
         /\ u'.request_sent = FALSE /\ u'.header_sent = u.header_sent /\ u'.check = u.check /\ u'.buf = u.buf
         /\ u'.att = new_att /\ u'.cacheable = u.cacheable /\ u'.cache = u.cache /\ u'.cstat = u.cstat
         /\ u'.store = u.store /\ u'.status = u.status /\ u'.cl = u.cl /\ u'.length = u.length
         /\ u'.got = u.got /\ u'.eof = u.eof /\ u'.done = u.done /\ u'.err = u.err
         /\ u'.derr = u.derr
    BY <1>3, <2>b DEF UType
  <2>g. /\ out'.final = out.final
        /\ out'.last = out.last
        /\ out'.reply = out.reply
        /\ out'.kept = out.kept
        /\ out'.gets = new_gets
        /\ out'.frees = out.frees
    BY <1>4, <2>o DEF OType
  <2>2. u' \in UType({u'.d})
    <3> DEFINE v1 == [u EXCEPT !.sock = TRUE]
    <3> DEFINE v2 == [v1 EXCEPT !.att = new_att]
    <3> DEFINE v3 == [v2 EXCEPT !.conn = TRUE, !.wh = "send", !.rh = "header", !.ssl = "none"]
    <3> DEFINE v4 == [v3 EXCEPT !.request_sent = FALSE, !.wt = FALSE, !.rt = FALSE]
    <3>x. u' = [v4 EXCEPT !.d = new_d]
      BY <1>3, <2>t, <2>b DEF UType
    <3> HIDE DEF v1, v2, v3, v4
    <3>1. v1 \in UType({u.d})
      BY <1>3, <2>t DEF v1, UType, OType
    <3>2. v2 \in UType({u.d})
      BY <3>1, <2>t DEF v2, UType, OType
    <3>3. v3 \in UType({u.d})
      BY <3>2, <2>t DEF v3, UType, OType
    <3>4. v4 \in UType({u.d})
      BY <3>3, <2>t DEF v4, UType, OType
    <3> QED
      BY <3>x, <3>4, NewData
  <2>c. out' \in OType
    BY <1>4, <2>t, <2>o DEF OType
  <2>3. TypeOK'
    BY <1>4, <1>2, <2>t, <2>1, <2>2, <2>c, <2>a DEF TypeOK
  <2>9. StackOK'
    BY <1>1, <1>2, <2>t, <2>a, <2>f, <2>g, <2>c, <2>1 DEF IndInv, TypeOK, UType, StackOK, OType
  <2>4. StartOK' /\ EndOK'
    BY <1>1, <1>2, <2>t, <2>a, <2>f, <2>g, <2>c, <2>1
       DEF IndInv, TypeOK, UType, StackOK, StartOK, EndOK, Nothing, U0, Out0, OType
  <2>5. PhaseOK'
    BY <1>1, <1>2, <2>t, <2>a, <2>f, <2>g, <2>c, <2>1
       DEF IndInv, TypeOK, UType, StartOK, EndOK, PhaseOK, Passing, OType
  <2>6. BodyOK'
    BY <1>1, <1>2, <2>t, <2>a, <2>f, <2>g, <2>c, <2>1
       DEF IndInv, TypeOK, UType, EndOK, PhaseOK, Passing, BodyOK, AllOfIt, OType
  <2>7. PeersBalanced'
    BY <1>1, <1>2, <2>t, <2>a, <2>f, <2>g, <2>c, <2>1
       DEF IndInv, TypeOK, UType, StartOK, EndOK, PeersBalanced, OType
  <2>8. ASSUME Plain, TimersOK PROVE TimersOK'
    BY <1>1, <1>2, <2>t, <2>a, <2>f, <2>g, <2>c, <2>1, <2>8
       DEF IndInv, TypeOK, UType, StartOK, Nothing, EndOK, PhaseOK, Passing, Plain, TimersOK,
           WaitHasTimer, Live, Idle, Ended, OType
  <2> QED
    BY <2>3, <2>4, <2>5, <2>6, <2>7, <2>8, <2>9 DEF Kept, IndInv
<1>p. u.request_sent \in BOOLEAN
  BY <1>3 DEF UType
<1>q. PICK e :
        \/ u' = [u EXCEPT !.d = e] /\ out' = out /\ Tail_(GoNext("nolive"))
        \/ /\ out' = [out EXCEPT !.gets = @ + 1]
           /\ \/ u' = [u EXCEPT !.d = e, !.sock = TRUE, !.att = @ + 1] /\ Tail_(Finalize(500))
              \/ u' = [u EXCEPT !.d = e, !.sock = TRUE, !.att = @ + 1] /\ Tail_(GoNext("error"))
              \/ u' = Connected([u EXCEPT !.d = e, !.sock = TRUE, !.att = @ + 1], TRUE) /\ Tail_(<< >>)
              \/ UseSSL /\ u' = Connected([u EXCEPT !.d = e, !.sock = TRUE, !.att = @ + 1], FALSE) /\ Tail_(<<<<"ssl_init">>>>)
              \/ ~UseSSL /\ u' = Connected([u EXCEPT !.d = e, !.sock = TRUE, !.att = @ + 1], FALSE) /\ Tail_(<<<<"send_request">>>>)
  BY DEF connect
<1>r. u.request_sent \/ ~u.request_sent
  OBVIOUS
<1> QED
  BY <1>a, <1>b, <1>c, <1>d, <1>e, <1>f, <1>g, <1>h, <1>i, <1>q, <1>r

(* process_upgraded with nothing left to run after it. *)
LEMMA ProcessUpgradedKept == ASSUME Settings, IndInv, process_upgraded, Below = << >> PROVE Kept
<1>1. call # << >> /\ Top = "process_upgraded" /\ Below = << >>
  <2>1. Pending("process_upgraded")
    BY DEF process_upgraded
  <2> QED
    BY <2>1, Run
<1>2. UNCHANGED <<P, client, out>> /\ u.conn
  BY DEF process_upgraded
<1>3. u \in UType({u.d})
  BY DEF IndInv, TypeOK
<1>4. out \in OType /\ client \in {"ok", "gone", "error"}
  BY DEF IndInv, TypeOK
<1>a. CASE u' = u /\ Tail_(Finalize(ERROR))
  <2>1. call' # << >> /\ Top' = "finalize" /\ Arg' = ERROR /\ Below' = << >>
    BY <1>1, <1>a, Tail1, Call2 DEF Finalize
  <2>2. u' \in UType({u'.d})
    BY <1>3, <1>2, <1>a DEF UType, DECLINED, ERROR
  <2>3. TypeOK'
    BY <1>4, <1>2, <1>a, <2>1, <2>2 DEF TypeOK, DECLINED, ERROR
  <2>9. StackOK'
    BY <1>1, <1>2, <1>a, <2>1, <2>2 DEF IndInv, TypeOK, UType, StackOK, DECLINED, ERROR
  <2>4. StartOK' /\ EndOK'
    BY <1>1, <1>2, <1>a, <2>1, <2>2 DEF IndInv, TypeOK, UType, StackOK, StartOK, EndOK, Nothing, U0,
           Out0, DECLINED, ERROR
  <2>5. PhaseOK'
    BY <1>1, <1>2, <1>a, <2>1, <2>2 DEF IndInv, TypeOK, UType, StartOK, EndOK, PhaseOK, Passing,
           DECLINED, ERROR
  <2>6. BodyOK'
    BY <1>1, <1>2, <1>a, <2>1, <2>2 DEF IndInv, TypeOK, UType, EndOK, PhaseOK, Passing, BodyOK,
           AllOfIt, DECLINED, ERROR
  <2>7. PeersBalanced'
    BY <1>1, <1>2, <1>a, <2>1, <2>2 DEF IndInv, TypeOK, UType, StartOK, EndOK, PeersBalanced,
           DECLINED, ERROR
  <2>8. ASSUME Plain, TimersOK PROVE TimersOK'
    BY <1>1, <1>2, <1>a, <2>1, <2>2, <2>8 DEF IndInv, TypeOK, UType, StartOK, Nothing, EndOK,
           PhaseOK, Passing, Plain, TimersOK, WaitHasTimer, Live, Idle, Ended, DECLINED, ERROR
  <2> QED
    BY <2>3, <2>4, <2>5, <2>6, <2>7, <2>8, <2>9 DEF Kept, IndInv
<1>b. CASE u' = [u EXCEPT !.eof = TRUE] /\ Tail_(Finalize(0))
  <2>1. call' # << >> /\ Top' = "finalize" /\ Arg' = 0 /\ Below' = << >>
    BY <1>1, <1>b, Tail1, Call2 DEF Finalize
  <2>2. u' \in UType({u'.d})
    BY <1>3, <1>2, <1>b DEF UType, DECLINED
  <2>3. TypeOK'
    BY <1>4, <1>2, <1>b, <2>1, <2>2 DEF TypeOK, DECLINED
  <2>9. StackOK'
    BY <1>1, <1>2, <1>b, <2>1, <2>2 DEF IndInv, TypeOK, UType, StackOK, DECLINED
  <2>4. StartOK' /\ EndOK'
    BY <1>1, <1>2, <1>b, <2>1, <2>2 DEF IndInv, TypeOK, UType, StackOK, StartOK, EndOK, Nothing, U0,
           Out0, DECLINED
  <2>5. PhaseOK'
    BY <1>1, <1>2, <1>b, <2>1, <2>2 DEF IndInv, TypeOK, UType, StartOK, EndOK, PhaseOK, Passing,
           DECLINED
  <2>6. BodyOK'
    BY <1>1, <1>2, <1>b, <2>1, <2>2 DEF IndInv, TypeOK, UType, EndOK, PhaseOK, Passing, BodyOK,
           AllOfIt, DECLINED
  <2>7. PeersBalanced'
    BY <1>1, <1>2, <1>b, <2>1, <2>2 DEF IndInv, TypeOK, UType, StartOK, EndOK, PeersBalanced,
           DECLINED
  <2>8. ASSUME Plain, TimersOK PROVE TimersOK'
    BY <1>1, <1>2, <1>b, <2>1, <2>2, <2>8 DEF IndInv, TypeOK, UType, StartOK, Nothing, EndOK,
           PhaseOK, Passing, Plain, TimersOK, WaitHasTimer, Live, Idle, Ended, DECLINED
  <2> QED
    BY <2>3, <2>4, <2>5, <2>6, <2>7, <2>8, <2>9 DEF Kept, IndInv
<1>c. ASSUME NEW w \in BOOLEAN, NEW c \in BOOLEAN,
             u' = [u EXCEPT !.wt = w, !.rt = TRUE, !.ct = IF c THEN "send" ELSE "off"],
             Tail_(<< >>)
      PROVE  Kept
  <2>1. call' = << >> /\ Top' = "none" /\ Below' = << >>
    BY <1>1, <1>c, Tail0, Call0
  <2> DEFINE new_wt == w
             new_ct == IF c THEN "send" ELSE "off"
  <2>t. new_wt \in BOOLEAN /\ new_ct \in {"off", "send"}
    BY <1>3, <1>4, <1>1, <1>c DEF IndInv, TypeOK, UType
  <2>b. u' = [u EXCEPT !.wt = new_wt, !.rt = TRUE, !.ct = new_ct]
    BY <1>2, <1>c DEF IndInv, TypeOK, UType
  <2> HIDE DEF new_wt, new_ct
  <2>f. /\ u'.st = u.st /\ u'.resolving = u.resolving /\ u'.cleanup = u.cleanup /\ u'.d = u.d
         /\ u'.sock = u.sock /\ u'.conn = u.conn /\ u'.ssl = u.ssl /\ u'.wh = u.wh
         /\ u'.rh = u.rh /\ u'.rt = TRUE /\ u'.wt = new_wt /\ u'.ct = new_ct
         /\ u'.request_sent = u.request_sent /\ u'.header_sent = u.header_sent /\ u'.check = u.check /\ u'.buf = u.buf
         /\ u'.att = u.att /\ u'.cacheable = u.cacheable /\ u'.cache = u.cache /\ u'.cstat = u.cstat
         /\ u'.store = u.store /\ u'.status = u.status /\ u'.cl = u.cl /\ u'.length = u.length
         /\ u'.got = u.got /\ u'.eof = u.eof /\ u'.done = u.done /\ u'.err = u.err
         /\ u'.derr = u.derr
    BY <1>3, <2>b DEF UType
  <2>2. u' \in UType({u'.d})
    <3> DEFINE v1 == [u EXCEPT !.wt = new_wt]
    <3> DEFINE v2 == [v1 EXCEPT !.rt = TRUE]
    <3> DEFINE v3 == [v2 EXCEPT !.ct = new_ct]
    <3>x. u' = v3
      BY <1>3, <2>t, <2>b DEF UType
    <3> HIDE DEF v1, v2, v3
    <3>1. v1 \in UType({u.d})
      BY <1>3, <2>t DEF v1, UType
    <3>2. v2 \in UType({u.d})
      BY <3>1, <2>t DEF v2, UType
    <3>3. v3 \in UType({u.d})
      BY <3>2, <2>t DEF v3, UType
    <3> QED
      BY <3>x, <3>3, SameData
  <2>3. TypeOK'
    BY <1>4, <1>2, <2>t, <2>1, <2>2 DEF TypeOK
  <2>9. StackOK'
    BY <1>1, <1>2, <2>t, <2>f, <2>1 DEF IndInv, TypeOK, UType, StackOK
  <2>4. StartOK' /\ EndOK'
    BY <1>1, <1>2, <2>t, <2>f, <2>1 DEF IndInv, TypeOK, UType, StackOK, StartOK, EndOK, Nothing, U0,
           Out0
  <2>5. PhaseOK'
    BY <1>1, <1>2, <2>t, <2>f, <2>1 DEF IndInv, TypeOK, UType, StartOK, EndOK, PhaseOK, Passing
  <2>6. BodyOK'
    BY <1>1, <1>2, <2>t, <2>f, <2>1 DEF IndInv, TypeOK, UType, EndOK, PhaseOK, Passing, BodyOK,
           AllOfIt
  <2>7. PeersBalanced'
    BY <1>1, <1>2, <2>t, <2>f, <2>1 DEF IndInv, TypeOK, UType, StartOK, EndOK, PeersBalanced
  <2>8. ASSUME Plain, TimersOK PROVE TimersOK'
    BY <1>1, <1>2, <2>t, <2>f, <2>1, <2>8 DEF IndInv, TypeOK, UType, StartOK, Nothing, EndOK,
           PhaseOK, Passing, Plain, TimersOK, WaitHasTimer, Live, Idle, Ended
  <2> QED
    BY <2>3, <2>4, <2>5, <2>6, <2>7, <2>8, <2>9 DEF Kept, IndInv
<1> QED
  BY <1>a, <1>b, <1>c DEF process_upgraded

(* process_upgraded after the connection was closed by the call before. *)
LEMMA ProcessUpgradedClosedKept ==
    ASSUME Settings,
           IndInv,
           process_upgraded_closed,
           Below = << >>
    PROVE  Kept
<1>1. call # << >> /\ Top = "process_upgraded" /\ Below = << >>
  <2>1. Pending("process_upgraded")
    BY DEF process_upgraded_closed
  <2> QED
    BY <2>1, Run
<1>2. UNCHANGED <<P, u, client>> /\ ~u.conn
  BY DEF process_upgraded_closed
<1>3. u \in UType({u.d})
  BY DEF IndInv, TypeOK
<1>4. out \in OType /\ client \in {"ok", "gone", "error"}
  BY DEF IndInv, TypeOK
<1>a. CASE out' = [out EXCEPT !.reply = "crash"] /\ Tail_(<< >>)
  <2>1. call' = << >> /\ Top' = "none" /\ Below' = << >>
    BY <1>1, <1>a, Tail0, Call0
  <2>t. TRUE
    BY <1>3, <1>4, <1>1, <1>a DEF IndInv, TypeOK, UType, OType
  <2>b. out' = [out EXCEPT !.reply = "crash"]
    BY <1>2, <1>a
  <2>2. u' \in UType({u'.d})
    BY <1>3, <1>2, <2>t, <2>b DEF UType, OType
  <2>c. out' \in OType
    BY <1>4, <2>t, <2>b DEF OType
  <2>3. TypeOK'
    BY <1>4, <1>2, <2>t, <2>1, <2>2, <2>c DEF TypeOK
  <2>9. StackOK'
    BY <1>1, <1>2, <2>t, <2>b, <2>c, <2>1, <2>2 DEF IndInv, TypeOK, UType, StackOK, OType
  <2>4. StartOK' /\ EndOK'
    BY <1>1, <1>2, <2>t, <2>b, <2>c, <2>1, <2>2 DEF IndInv, TypeOK, UType, StackOK, StartOK, EndOK,
           Nothing, U0, Out0, OType
  <2>5. PhaseOK'
    BY <1>1, <1>2, <2>t, <2>b, <2>c, <2>1, <2>2 DEF IndInv, TypeOK, UType, StartOK, EndOK, PhaseOK,
           Passing, OType
  <2>6. BodyOK'
    BY <1>1, <1>2, <2>t, <2>b, <2>c, <2>1, <2>2 DEF IndInv, TypeOK, UType, EndOK, PhaseOK, Passing,
           BodyOK, AllOfIt, OType
  <2>7. PeersBalanced'
    BY <1>1, <1>2, <2>t, <2>b, <2>c, <2>1, <2>2 DEF IndInv, TypeOK, UType, StartOK, EndOK,
           PeersBalanced, OType
  <2>8. ASSUME Plain, TimersOK PROVE TimersOK'
    BY <1>1, <1>2, <2>t, <2>b, <2>c, <2>1, <2>2, <2>8
       DEF IndInv, TypeOK, UType, StartOK, Nothing, EndOK, PhaseOK, Passing, Plain, TimersOK,
           WaitHasTimer, Live, Idle, Ended, OType
  <2> QED
    BY <2>3, <2>4, <2>5, <2>6, <2>7, <2>8, <2>9 DEF Kept, IndInv
<1> QED
  BY <1>a DEF process_upgraded_closed

(* The first of the two calls of process_upgraded. *)
LEMMA FirstUpgradedKept ==
    ASSUME Settings,
           IndInv,
           process_upgraded,
           Below = <<<<"process_upgraded", FALSE>>>>
    PROVE  Kept
<1>1. call # << >> /\ Top = "process_upgraded" /\ Below = <<<<"process_upgraded", FALSE>>>>
  <2>1. Pending("process_upgraded")
    BY DEF process_upgraded
  <2> QED
    BY <2>1, Run
<1>2. UNCHANGED <<P, client, out>> /\ u.conn
  BY DEF process_upgraded
<1>3. u \in UType({u.d})
  BY DEF IndInv, TypeOK
<1>4. out \in OType /\ client \in {"ok", "gone", "error"}
  BY DEF IndInv, TypeOK
<1>a. CASE u' = u /\ Tail_(Finalize(ERROR))
  <2>1. /\ call' # << >>
        /\ Top' = "finalize"
        /\ Arg' = ERROR
        /\ Below' = <<<<"process_upgraded", FALSE>>>>
    <3>1. call' = <<<<"finalize", ERROR>>, <<"process_upgraded", FALSE>>>>
      BY <1>1, <1>a, Tail1B DEF Finalize
    <3> QED
      BY <3>1, Call2B
  <2>2. u' \in UType({u'.d})
    BY <1>3, <1>2, <1>a DEF UType, DECLINED, ERROR
  <2>3. TypeOK'
    BY <1>4, <1>2, <1>a, <2>1, <2>2 DEF TypeOK, DECLINED, ERROR
  <2>9. StackOK'
    BY <1>1, <1>2, <1>a, <2>1, <2>2 DEF IndInv, TypeOK, UType, StackOK, DECLINED, ERROR
  <2>4. StartOK' /\ EndOK'
    BY <1>1, <1>2, <1>a, <2>1, <2>2 DEF IndInv, TypeOK, UType, StackOK, StartOK, EndOK, Nothing, U0,
           Out0, DECLINED, ERROR
  <2>5. PhaseOK'
    BY <1>1, <1>2, <1>a, <2>1, <2>2 DEF IndInv, TypeOK, UType, StartOK, EndOK, PhaseOK, Passing,
           DECLINED, ERROR
  <2>6. BodyOK'
    BY <1>1, <1>2, <1>a, <2>1, <2>2 DEF IndInv, TypeOK, UType, EndOK, PhaseOK, Passing, BodyOK,
           AllOfIt, DECLINED, ERROR
  <2>7. PeersBalanced'
    BY <1>1, <1>2, <1>a, <2>1, <2>2 DEF IndInv, TypeOK, UType, StartOK, EndOK, PeersBalanced,
           DECLINED, ERROR
  <2>8. ASSUME Plain, TimersOK PROVE TimersOK'
    BY <1>1, <1>2, <1>a, <2>1, <2>2, <2>8 DEF IndInv, TypeOK, UType, StartOK, Nothing, EndOK,
           PhaseOK, Passing, Plain, TimersOK, WaitHasTimer, Live, Idle, Ended, DECLINED, ERROR
  <2> QED
    BY <2>3, <2>4, <2>5, <2>6, <2>7, <2>8, <2>9 DEF Kept, IndInv
<1>b. CASE u' = [u EXCEPT !.eof = TRUE] /\ Tail_(Finalize(0))
  <2>1. call' # << >> /\ Top' = "finalize" /\ Arg' = 0 /\ Below' = <<<<"process_upgraded", FALSE>>>>
    <3>1. call' = <<<<"finalize", 0>>, <<"process_upgraded", FALSE>>>>
      BY <1>1, <1>b, Tail1B DEF Finalize
    <3> QED
      BY <3>1, Call2B
  <2>2. u' \in UType({u'.d})
    BY <1>3, <1>2, <1>b DEF UType, DECLINED
  <2>3. TypeOK'
    BY <1>4, <1>2, <1>b, <2>1, <2>2 DEF TypeOK, DECLINED
  <2>9. StackOK'
    BY <1>1, <1>2, <1>b, <2>1, <2>2 DEF IndInv, TypeOK, UType, StackOK, DECLINED
  <2>4. StartOK' /\ EndOK'
    BY <1>1, <1>2, <1>b, <2>1, <2>2 DEF IndInv, TypeOK, UType, StackOK, StartOK, EndOK, Nothing, U0,
           Out0, DECLINED
  <2>5. PhaseOK'
    BY <1>1, <1>2, <1>b, <2>1, <2>2 DEF IndInv, TypeOK, UType, StartOK, EndOK, PhaseOK, Passing,
           DECLINED
  <2>6. BodyOK'
    BY <1>1, <1>2, <1>b, <2>1, <2>2 DEF IndInv, TypeOK, UType, EndOK, PhaseOK, Passing, BodyOK,
           AllOfIt, DECLINED
  <2>7. PeersBalanced'
    BY <1>1, <1>2, <1>b, <2>1, <2>2 DEF IndInv, TypeOK, UType, StartOK, EndOK, PeersBalanced,
           DECLINED
  <2>8. ASSUME Plain, TimersOK PROVE TimersOK'
    BY <1>1, <1>2, <1>b, <2>1, <2>2, <2>8 DEF IndInv, TypeOK, UType, StartOK, Nothing, EndOK,
           PhaseOK, Passing, Plain, TimersOK, WaitHasTimer, Live, Idle, Ended, DECLINED
  <2> QED
    BY <2>3, <2>4, <2>5, <2>6, <2>7, <2>8, <2>9 DEF Kept, IndInv
<1>c. ASSUME NEW w \in BOOLEAN, NEW c \in BOOLEAN,
             u' = [u EXCEPT !.wt = w, !.rt = TRUE, !.ct = IF c THEN "send" ELSE "off"],
             Tail_(<< >>)
      PROVE  Kept
  <2>1. call' # << >> /\ Top' = "process_upgraded" /\ Arg' = FALSE /\ Below' = << >>
    <3>1. call' = <<<<"process_upgraded", FALSE>>>>
      BY <1>1, <1>c, Tail0B
    <3> QED
      BY <3>1, CallB
  <2> DEFINE new_wt == w
             new_ct == IF c THEN "send" ELSE "off"
  <2>t. new_wt \in BOOLEAN /\ new_ct \in {"off", "send"}
    BY <1>3, <1>4, <1>1, <1>c DEF IndInv, TypeOK, UType
  <2>b. u' = [u EXCEPT !.wt = new_wt, !.rt = TRUE, !.ct = new_ct]
    BY <1>2, <1>c DEF IndInv, TypeOK, UType
  <2> HIDE DEF new_wt, new_ct
  <2>f. /\ u'.st = u.st /\ u'.resolving = u.resolving /\ u'.cleanup = u.cleanup /\ u'.d = u.d
         /\ u'.sock = u.sock /\ u'.conn = u.conn /\ u'.ssl = u.ssl /\ u'.wh = u.wh
         /\ u'.rh = u.rh /\ u'.rt = TRUE /\ u'.wt = new_wt /\ u'.ct = new_ct
         /\ u'.request_sent = u.request_sent /\ u'.header_sent = u.header_sent /\ u'.check = u.check /\ u'.buf = u.buf
         /\ u'.att = u.att /\ u'.cacheable = u.cacheable /\ u'.cache = u.cache /\ u'.cstat = u.cstat
         /\ u'.store = u.store /\ u'.status = u.status /\ u'.cl = u.cl /\ u'.length = u.length
         /\ u'.got = u.got /\ u'.eof = u.eof /\ u'.done = u.done /\ u'.err = u.err
         /\ u'.derr = u.derr
    BY <1>3, <2>b DEF UType
  <2>2. u' \in UType({u'.d})
    <3> DEFINE v1 == [u EXCEPT !.wt = new_wt]
    <3> DEFINE v2 == [v1 EXCEPT !.rt = TRUE]
    <3> DEFINE v3 == [v2 EXCEPT !.ct = new_ct]
    <3>x. u' = v3
      BY <1>3, <2>t, <2>b DEF UType
    <3> HIDE DEF v1, v2, v3
    <3>1. v1 \in UType({u.d})
      BY <1>3, <2>t DEF v1, UType
    <3>2. v2 \in UType({u.d})
      BY <3>1, <2>t DEF v2, UType
    <3>3. v3 \in UType({u.d})
      BY <3>2, <2>t DEF v3, UType
    <3> QED
      BY <3>x, <3>3, SameData
  <2>3. TypeOK'
    BY <1>4, <1>2, <2>t, <2>1, <2>2 DEF TypeOK
  <2>9. StackOK'
    BY <1>1, <1>2, <2>t, <2>f, <2>1 DEF IndInv, TypeOK, UType, StackOK
  <2>4. StartOK' /\ EndOK'
    BY <1>1, <1>2, <2>t, <2>f, <2>1 DEF IndInv, TypeOK, UType, StackOK, StartOK, EndOK, Nothing, U0,
           Out0
  <2>5. PhaseOK'
    BY <1>1, <1>2, <2>t, <2>f, <2>1 DEF IndInv, TypeOK, UType, StartOK, EndOK, PhaseOK, Passing
  <2>6. BodyOK'
    BY <1>1, <1>2, <2>t, <2>f, <2>1 DEF IndInv, TypeOK, UType, EndOK, PhaseOK, Passing, BodyOK,
           AllOfIt
  <2>7. PeersBalanced'
    BY <1>1, <1>2, <2>t, <2>f, <2>1 DEF IndInv, TypeOK, UType, StartOK, EndOK, PeersBalanced
  <2>8. ASSUME Plain, TimersOK PROVE TimersOK'
    BY <1>1, <1>2, <2>t, <2>f, <2>1, <2>8 DEF IndInv, TypeOK, UType, StartOK, Nothing, EndOK,
           PhaseOK, Passing, Plain, TimersOK, WaitHasTimer, Live, Idle, Ended
  <2> QED
    BY <2>3, <2>4, <2>5, <2>6, <2>7, <2>8, <2>9 DEF Kept, IndInv
<1> QED
  BY <1>a, <1>b, <1>c DEF process_upgraded

(* The first of the two calls without a connection. *)
LEMMA FirstUpgradedClosedKept ==
    ASSUME Settings,
           IndInv,
           process_upgraded_closed,
           Below = <<<<"process_upgraded", FALSE>>>>
    PROVE  Kept
<1>1. call # << >> /\ Top = "process_upgraded" /\ Below = <<<<"process_upgraded", FALSE>>>>
  <2>1. Pending("process_upgraded")
    BY DEF process_upgraded_closed
  <2> QED
    BY <2>1, Run
<1>2. UNCHANGED <<P, u, client>> /\ ~u.conn
  BY DEF process_upgraded_closed
<1>3. u \in UType({u.d})
  BY DEF IndInv, TypeOK
<1>4. out \in OType /\ client \in {"ok", "gone", "error"}
  BY DEF IndInv, TypeOK
<1>a. CASE out' = [out EXCEPT !.reply = "crash"] /\ Tail_(<< >>)
  <2>1. call' # << >> /\ Top' = "process_upgraded" /\ Arg' = FALSE /\ Below' = << >>
    <3>1. call' = <<<<"process_upgraded", FALSE>>>>
      BY <1>1, <1>a, Tail0B
    <3> QED
      BY <3>1, CallB
  <2>t. TRUE
    BY <1>3, <1>4, <1>1, <1>a DEF IndInv, TypeOK, UType, OType
  <2>b. out' = [out EXCEPT !.reply = "crash"]
    BY <1>2, <1>a
  <2>2. u' \in UType({u'.d})
    BY <1>3, <1>2, <2>t, <2>b DEF UType, OType
  <2>c. out' \in OType
    BY <1>4, <2>t, <2>b DEF OType
  <2>3. TypeOK'
    BY <1>4, <1>2, <2>t, <2>1, <2>2, <2>c DEF TypeOK
  <2>9. StackOK'
    BY <1>1, <1>2, <2>t, <2>b, <2>c, <2>1, <2>2 DEF IndInv, TypeOK, UType, StackOK, OType
  <2>4. StartOK' /\ EndOK'
    BY <1>1, <1>2, <2>t, <2>b, <2>c, <2>1, <2>2 DEF IndInv, TypeOK, UType, StackOK, StartOK, EndOK,
           Nothing, U0, Out0, OType
  <2>5. PhaseOK'
    BY <1>1, <1>2, <2>t, <2>b, <2>c, <2>1, <2>2 DEF IndInv, TypeOK, UType, StartOK, EndOK, PhaseOK,
           Passing, OType
  <2>6. BodyOK'
    BY <1>1, <1>2, <2>t, <2>b, <2>c, <2>1, <2>2 DEF IndInv, TypeOK, UType, EndOK, PhaseOK, Passing,
           BodyOK, AllOfIt, OType
  <2>7. PeersBalanced'
    BY <1>1, <1>2, <2>t, <2>b, <2>c, <2>1, <2>2 DEF IndInv, TypeOK, UType, StartOK, EndOK,
           PeersBalanced, OType
  <2>8. ASSUME Plain, TimersOK PROVE TimersOK'
    BY <1>1, <1>2, <2>t, <2>b, <2>c, <2>1, <2>2, <2>8
       DEF IndInv, TypeOK, UType, StartOK, Nothing, EndOK, PhaseOK, Passing, Plain, TimersOK,
           WaitHasTimer, Live, Idle, Ended, OType
  <2> QED
    BY <2>3, <2>4, <2>5, <2>6, <2>7, <2>8, <2>9 DEF Kept, IndInv
<1> QED
  BY <1>a DEF process_upgraded_closed

(* next: the peer is given back, and another one, the expired copy or an error follows. *)
LEMMA NextKept == ASSUME Settings, IndInv, next PROVE Kept
<1>1. call # << >> /\ Top = "next" /\ Below = << >>
  <2>1. Pending("next")
    BY DEF next
  <2> QED
    BY <2>1, Alone
<1>2. UNCHANGED <<client>>
  BY DEF next, GivenBack
<1>3. u \in UType({u.d})
  BY DEF IndInv, TypeOK
<1>4. out \in OType /\ client \in {"ok", "gone", "error"}
  BY DEF IndInv, TypeOK
<1>a. ASSUME NEW e,
             u' = [u EXCEPT !.d = e, !.sock = FALSE],
             out' = [out EXCEPT !.frees = IF u.sock THEN @ + 1 ELSE @],
             Tail_(Finalize(499))
      PROVE  Kept
  <2>1. call' # << >> /\ Top' = "finalize" /\ Arg' = 499 /\ Below' = << >>
    BY <1>1, <1>a, Tail1, Call2 DEF Finalize
  <2> DEFINE new_d == e
             new_frees == IF u.sock THEN out.frees + 1 ELSE out.frees
  <2>t. new_frees \in Int
    BY <1>3, <1>4, <1>1, <1>a DEF PeersBalanced, IndInv, TypeOK, UType, OType
  <2>a. out.gets - new_frees = 0
    BY <1>1, <1>2, <1>a DEF PeersBalanced, IndInv, TypeOK, UType, OType
  <2>b. u' = [u EXCEPT !.d = new_d, !.sock = FALSE] /\ out' = [out EXCEPT !.frees = new_frees]
    BY <1>2, <1>a DEF GivenBack, IndInv, TypeOK, UType
  <2> HIDE DEF new_d, new_frees
  <2>2. u' \in UType({u'.d})
    <3> DEFINE v1 == [u EXCEPT !.sock = FALSE]
    <3>x. u' = [v1 EXCEPT !.d = new_d]
      BY <1>3, <2>t, <2>b DEF UType
    <3> HIDE DEF v1
    <3>1. v1 \in UType({u.d})
      BY <1>3, <2>t DEF v1, UType, OType, DECLINED
    <3> QED
      BY <3>x, <3>1, NewData
  <2>c. out' \in OType
    BY <1>4, <2>t, <2>b DEF OType
  <2>3. TypeOK'
    BY <1>4, <1>2, <2>t, <2>1, <2>2, <2>c, <2>a DEF TypeOK, DECLINED
  <2>9. StackOK'
    BY <1>1, <1>2, <2>t, <2>a, <2>b, <2>c, <2>1, <2>2
       DEF IndInv, TypeOK, UType, StackOK, OType, DECLINED
  <2>4. StartOK' /\ EndOK'
    BY <1>1, <1>2, <2>t, <2>a, <2>b, <2>c, <2>1, <2>2
       DEF IndInv, TypeOK, UType, StackOK, StartOK, EndOK, Nothing, U0, Out0, OType, DECLINED
  <2>5. PhaseOK'
    BY <1>1, <1>2, <2>t, <2>a, <2>b, <2>c, <2>1, <2>2
       DEF IndInv, TypeOK, UType, StartOK, EndOK, PhaseOK, Passing, OType, DECLINED
  <2>6. BodyOK'
    BY <1>1, <1>2, <2>t, <2>a, <2>b, <2>c, <2>1, <2>2
       DEF IndInv, TypeOK, UType, EndOK, PhaseOK, Passing, BodyOK, AllOfIt, OType, DECLINED
  <2>7. PeersBalanced'
    BY <1>1, <1>2, <2>t, <2>a, <2>b, <2>c, <2>1, <2>2
       DEF IndInv, TypeOK, UType, StartOK, EndOK, PeersBalanced, OType, DECLINED
  <2>8. ASSUME Plain, TimersOK PROVE TimersOK'
    BY <1>1, <1>2, <2>t, <2>a, <2>b, <2>c, <2>1, <2>2, <2>8
       DEF IndInv, TypeOK, UType, StartOK, Nothing, EndOK, PhaseOK, Passing, Plain, TimersOK,
           WaitHasTimer, Live, Idle, Ended, OType, DECLINED
  <2> QED
    BY <2>3, <2>4, <2>5, <2>6, <2>7, <2>8, <2>9 DEF Kept, IndInv
<1>b. ASSUME NEW e,
             u' = [[u EXCEPT !.d = e, !.sock = FALSE] EXCEPT !.conn = FALSE, !.rt = FALSE,
                             !.wt = FALSE],
             out' = [out EXCEPT !.frees = IF u.sock THEN @ + 1 ELSE @],
             Tail_(<<<<"connect">>>>)
      PROVE  Kept
  <2>1. call' # << >> /\ Top' = "connect" /\ Below' = << >>
    BY <1>1, <1>b, Tail1, Call1
  <2> DEFINE new_d == e
             new_frees == IF u.sock THEN out.frees + 1 ELSE out.frees
  <2>t. new_frees \in Int
    BY <1>3, <1>4, <1>1, <1>b DEF PeersBalanced, IndInv, TypeOK, UType, OType
  <2>a. out.gets - new_frees = 0
    BY <1>1, <1>2, <1>b DEF PeersBalanced, IndInv, TypeOK, UType, OType
  <2>b. u' = [u EXCEPT !.d = new_d, !.sock = FALSE, !.conn = FALSE, !.rt = FALSE, !.wt = FALSE]
    BY <1>2, <1>b DEF GivenBack, IndInv, TypeOK, UType
  <2>o. out' = [out EXCEPT !.frees = new_frees]
    BY <1>1, <1>b, <2>a
  <2> HIDE DEF new_d, new_frees
  <2>f. /\ u'.st = u.st /\ u'.resolving = u.resolving /\ u'.cleanup = u.cleanup /\ u'.d = new_d
         /\ u'.sock = FALSE /\ u'.conn = FALSE /\ u'.ssl = u.ssl /\ u'.wh = u.wh
         /\ u'.rh = u.rh /\ u'.rt = FALSE /\ u'.wt = FALSE /\ u'.ct = u.ct
         /\ u'.request_sent = u.request_sent /\ u'.header_sent = u.header_sent /\ u'.check = u.check /\ u'.buf = u.buf
         /\ u'.att = u.att /\ u'.cacheable = u.cacheable /\ u'.cache = u.cache /\ u'.cstat = u.cstat
         /\ u'.store = u.store /\ u'.status = u.status /\ u'.cl = u.cl /\ u'.length = u.length
         /\ u'.got = u.got /\ u'.eof = u.eof /\ u'.done = u.done /\ u'.err = u.err
         /\ u'.derr = u.derr
    BY <1>3, <2>b DEF UType
  <2>g. /\ out'.final = out.final
        /\ out'.last = out.last
        /\ out'.reply = out.reply
        /\ out'.kept = out.kept
        /\ out'.gets = out.gets
        /\ out'.frees = new_frees
    BY <1>4, <2>o DEF OType
  <2>2. u' \in UType({u'.d})
    <3> DEFINE v1 == [u EXCEPT !.sock = FALSE]
    <3> DEFINE v2 == [v1 EXCEPT !.conn = FALSE, !.rt = FALSE, !.wt = FALSE]
    <3>x. u' = [v2 EXCEPT !.d = new_d]
      BY <1>3, <2>t, <2>b DEF UType
    <3> HIDE DEF v1, v2
    <3>1. v1 \in UType({u.d})
      BY <1>3, <2>t DEF v1, UType, OType
    <3>2. v2 \in UType({u.d})
      BY <3>1, <2>t DEF v2, UType, OType
    <3> QED
      BY <3>x, <3>2, NewData
  <2>c. out' \in OType
    BY <1>4, <2>t, <2>o DEF OType
  <2>3. TypeOK'
    BY <1>4, <1>2, <2>t, <2>1, <2>2, <2>c, <2>a DEF TypeOK
  <2>9. StackOK'
    BY <1>1, <1>2, <2>t, <2>a, <2>f, <2>g, <2>c, <2>1 DEF IndInv, TypeOK, UType, StackOK, OType
  <2>4. StartOK' /\ EndOK'
    BY <1>1, <1>2, <2>t, <2>a, <2>f, <2>g, <2>c, <2>1
       DEF IndInv, TypeOK, UType, StackOK, StartOK, EndOK, Nothing, U0, Out0, OType
  <2>5. PhaseOK'
    BY <1>1, <1>2, <2>t, <2>a, <2>f, <2>g, <2>c, <2>1
       DEF IndInv, TypeOK, UType, StartOK, EndOK, PhaseOK, Passing, OType
  <2>6. BodyOK'
    BY <1>1, <1>2, <2>t, <2>a, <2>f, <2>g, <2>c, <2>1
       DEF IndInv, TypeOK, UType, EndOK, PhaseOK, Passing, BodyOK, AllOfIt, OType
  <2>7. PeersBalanced'
    BY <1>1, <1>2, <2>t, <2>a, <2>f, <2>g, <2>c, <2>1
       DEF IndInv, TypeOK, UType, StartOK, EndOK, PeersBalanced, OType
  <2>8. ASSUME Plain, TimersOK PROVE TimersOK'
    BY <1>1, <1>2, <2>t, <2>a, <2>f, <2>g, <2>c, <2>1, <2>8
       DEF IndInv, TypeOK, UType, StartOK, Nothing, EndOK, PhaseOK, Passing, Plain, TimersOK,
           WaitHasTimer, Live, Idle, Ended, OType
  <2> QED
    BY <2>3, <2>4, <2>5, <2>6, <2>7, <2>8, <2>9 DEF Kept, IndInv
<1>c. ASSUME NEW e,
             u' = [[u EXCEPT !.d = e, !.sock = FALSE] EXCEPT !.cstat = "stale"],
             out' = [out EXCEPT !.frees = IF u.sock THEN @ + 1 ELSE @],
             Tail_(<<<<"stale_send">>>>)
      PROVE  Kept
  <2>1. call' # << >> /\ Top' = "stale_send" /\ Below' = << >>
    BY <1>1, <1>c, Tail1, Call1
  <2> DEFINE new_d == e
             new_frees == IF u.sock THEN out.frees + 1 ELSE out.frees
  <2>t. new_frees \in Int
    BY <1>3, <1>4, <1>1, <1>c DEF PeersBalanced, IndInv, TypeOK, UType, OType
  <2>a. out.gets - new_frees = 0
    BY <1>1, <1>2, <1>c DEF PeersBalanced, IndInv, TypeOK, UType, OType
  <2>b. u' = [u EXCEPT !.d = new_d, !.sock = FALSE, !.cstat = "stale"]
    BY <1>2, <1>c DEF GivenBack, IndInv, TypeOK, UType
  <2>o. out' = [out EXCEPT !.frees = new_frees]
    BY <1>1, <1>c, <2>a
  <2> HIDE DEF new_d, new_frees
  <2>f. /\ u'.st = u.st /\ u'.resolving = u.resolving /\ u'.cleanup = u.cleanup /\ u'.d = new_d
         /\ u'.sock = FALSE /\ u'.conn = u.conn /\ u'.ssl = u.ssl /\ u'.wh = u.wh
         /\ u'.rh = u.rh /\ u'.rt = u.rt /\ u'.wt = u.wt /\ u'.ct = u.ct
         /\ u'.request_sent = u.request_sent /\ u'.header_sent = u.header_sent /\ u'.check = u.check /\ u'.buf = u.buf
         /\ u'.att = u.att /\ u'.cacheable = u.cacheable /\ u'.cache = u.cache /\ u'.cstat = "stale"
         /\ u'.store = u.store /\ u'.status = u.status /\ u'.cl = u.cl /\ u'.length = u.length
         /\ u'.got = u.got /\ u'.eof = u.eof /\ u'.done = u.done /\ u'.err = u.err
         /\ u'.derr = u.derr
    BY <1>3, <2>b DEF UType
  <2>g. /\ out'.final = out.final
        /\ out'.last = out.last
        /\ out'.reply = out.reply
        /\ out'.kept = out.kept
        /\ out'.gets = out.gets
        /\ out'.frees = new_frees
    BY <1>4, <2>o DEF OType
  <2>2. u' \in UType({u'.d})
    <3> DEFINE v1 == [u EXCEPT !.sock = FALSE, !.cstat = "stale"]
    <3>x. u' = [v1 EXCEPT !.d = new_d]
      BY <1>3, <2>t, <2>b DEF UType
    <3> HIDE DEF v1
    <3>1. v1 \in UType({u.d})
      BY <1>3, <2>t DEF v1, UType, OType
    <3> QED
      BY <3>x, <3>1, NewData
  <2>c. out' \in OType
    BY <1>4, <2>t, <2>o DEF OType
  <2>3. TypeOK'
    BY <1>4, <1>2, <2>t, <2>1, <2>2, <2>c, <2>a DEF TypeOK
  <2>9. StackOK'
    BY <1>1, <1>2, <2>t, <2>a, <2>f, <2>g, <2>c, <2>1 DEF IndInv, TypeOK, UType, StackOK, OType
  <2>4. StartOK' /\ EndOK'
    BY <1>1, <1>2, <2>t, <2>a, <2>f, <2>g, <2>c, <2>1
       DEF IndInv, TypeOK, UType, StackOK, StartOK, EndOK, Nothing, U0, Out0, OType
  <2>5. PhaseOK'
    BY <1>1, <1>2, <2>t, <2>a, <2>f, <2>g, <2>c, <2>1
       DEF IndInv, TypeOK, UType, StartOK, EndOK, PhaseOK, Passing, OType
  <2>6. BodyOK'
    BY <1>1, <1>2, <2>t, <2>a, <2>f, <2>g, <2>c, <2>1
       DEF IndInv, TypeOK, UType, EndOK, PhaseOK, Passing, BodyOK, AllOfIt, OType
  <2>7. PeersBalanced'
    BY <1>1, <1>2, <2>t, <2>a, <2>f, <2>g, <2>c, <2>1
       DEF IndInv, TypeOK, UType, StartOK, EndOK, PeersBalanced, OType
  <2>8. ASSUME Plain, TimersOK PROVE TimersOK'
    BY <1>1, <1>2, <2>t, <2>a, <2>f, <2>g, <2>c, <2>1, <2>8
       DEF IndInv, TypeOK, UType, StartOK, Nothing, EndOK, PhaseOK, Passing, Plain, TimersOK,
           WaitHasTimer, Live, Idle, Ended, OType
  <2> QED
    BY <2>3, <2>4, <2>5, <2>6, <2>7, <2>8, <2>9 DEF Kept, IndInv
<1>d. ASSUME NEW e, NEW ft,
             u' = [u EXCEPT !.d = e, !.sock = FALSE],
             out' = [out EXCEPT !.frees = IF u.sock THEN @ + 1 ELSE @],
             Tail_(Finalize(status_of(ft)))
      PROVE  Kept
  <2>1. call' # << >> /\ Top' = "finalize" /\ Arg' = status_of(ft) /\ Below' = << >>
    BY <1>1, <1>d, Tail1, Call2 DEF Finalize
  <2> DEFINE new_d == e
             new_frees == IF u.sock THEN out.frees + 1 ELSE out.frees
  <2>t. new_frees \in Int
    BY <1>3, <1>4, <1>1, <1>d DEF PeersBalanced, DECLINED, status_of, IndInv, TypeOK, UType, OType
  <2>a. /\ out.gets - new_frees = 0
        /\ status_of(ft) \in Int
        /\ status_of(ft) # DECLINED
        /\ status_of(ft) # 0
    BY <1>1, <1>2, <1>d DEF PeersBalanced, DECLINED, status_of, IndInv, TypeOK, UType, OType
  <2>b. u' = [u EXCEPT !.d = new_d, !.sock = FALSE] /\ out' = [out EXCEPT !.frees = new_frees]
    BY <1>2, <1>d DEF GivenBack, IndInv, TypeOK, UType
  <2> HIDE DEF new_d, new_frees
  <2>2. u' \in UType({u'.d})
    <3> DEFINE v1 == [u EXCEPT !.sock = FALSE]
    <3>x. u' = [v1 EXCEPT !.d = new_d]
      BY <1>3, <2>t, <2>b DEF UType
    <3> HIDE DEF v1
    <3>1. v1 \in UType({u.d})
      BY <1>3, <2>t DEF v1, UType, OType
    <3> QED
      BY <3>x, <3>1, NewData
  <2>c. out' \in OType
    BY <1>4, <2>t, <2>b DEF OType
  <2>3. TypeOK'
    BY <1>4, <1>2, <2>t, <2>1, <2>2, <2>c, <2>a DEF TypeOK
  <2>9. StackOK'
    BY <1>1, <1>2, <2>t, <2>a, <2>b, <2>c, <2>1, <2>2 DEF IndInv, TypeOK, UType, StackOK, OType
  <2>4. StartOK' /\ EndOK'
    BY <1>1, <1>2, <2>t, <2>a, <2>b, <2>c, <2>1, <2>2
       DEF IndInv, TypeOK, UType, StackOK, StartOK, EndOK, Nothing, U0, Out0, OType
  <2>5. PhaseOK'
    BY <1>1, <1>2, <2>t, <2>a, <2>b, <2>c, <2>1, <2>2
       DEF IndInv, TypeOK, UType, StartOK, EndOK, PhaseOK, Passing, OType
  <2>6. BodyOK'
    BY <1>1, <1>2, <2>t, <2>a, <2>b, <2>c, <2>1, <2>2
       DEF IndInv, TypeOK, UType, EndOK, PhaseOK, Passing, BodyOK, AllOfIt, OType
  <2>7. PeersBalanced'
    BY <1>1, <1>2, <2>t, <2>a, <2>b, <2>c, <2>1, <2>2
       DEF IndInv, TypeOK, UType, StartOK, EndOK, PeersBalanced, OType
  <2>8. ASSUME Plain, TimersOK PROVE TimersOK'
    BY <1>1, <1>2, <2>t, <2>a, <2>b, <2>c, <2>1, <2>2, <2>8
       DEF IndInv, TypeOK, UType, StartOK, Nothing, EndOK, PhaseOK, Passing, Plain, TimersOK,
           WaitHasTimer, Live, Idle, Ended, OType
  <2> QED
    BY <2>3, <2>4, <2>5, <2>6, <2>7, <2>8, <2>9 DEF Kept, IndInv
<1> QED
  BY <1>a, <1>b, <1>c, <1>d DEF next, GivenBack

(* finalize: everything is given back, and the request ends. *)
LEMMA FinalizeKept == ASSUME Settings, IndInv, finalize, Below = << >> PROVE Kept
<1>1. call # << >> /\ Top = "finalize" /\ Below = << >>
  <2>1. Pending("finalize")
    BY DEF finalize
  <2> QED
    BY <2>1, Run
<1>2. UNCHANGED <<client>>
  BY DEF finalize, Arg
<1>3. u \in UType({u.d})
  BY DEF IndInv, TypeOK
<1>4. out \in OType /\ client \in {"ok", "gone", "error"}
  BY DEF IndInv, TypeOK
<1>a. ASSUME NEW e,
             u' = [Closed(u) EXCEPT !.d = e],
             out' = [out EXCEPT !.frees = IF u.sock THEN @ + 1 ELSE @,
                                !.final = IF Arg = DECLINED THEN @ ELSE @ + 1,
                                !.reply = IF Arg = DECLINED THEN @ ELSE Reply(Arg),
                                !.last = @ \/ (Arg = 0 /\ u.header_sent /\ ~HeadOnly)],
             Tail_(<< >>)
      PROVE  Kept
  <2>1. call' = << >> /\ Top' = "none" /\ Below' = << >>
    BY <1>1, <1>a, Tail0, Call0
  <2> DEFINE new_d == e
             new_frees == IF u.sock THEN out.frees + 1 ELSE out.frees
             new_final == out.final + 1
             new_reply == Reply(Arg)
             new_last == out.last \/ (Arg = 0 /\ u.header_sent /\ ~HeadOnly)
  <2>t. /\ new_frees \in Int
        /\ new_final \in Int
        /\ new_reply \in {"none", "cached", "redirect", "upstream", "error", "aborted", "crash"}
        /\ new_last \in BOOLEAN
    BY <1>3, <1>4, <1>1, <1>a DEF PeersBalanced, StackOK, EndOK, BodyOK, Reply, DECLINED, IndInv,
           TypeOK, UType, OType
  <2>a. /\ out.gets - new_frees = 0
        /\ Arg # DECLINED
        /\ new_final = 1
        /\ (new_last => Arg = 0 /\ ~HeadOnly)
        /\ (new_reply = "upstream" => Arg = 0 /\ out.reply = "upstream")
    BY <1>1, <1>2, <1>a DEF PeersBalanced, StackOK, EndOK, BodyOK, Reply, DECLINED, IndInv, TypeOK,
           UType, OType
  <2>b. u' = [[u EXCEPT !.st = "done", !.cleanup = FALSE, !.resolving = FALSE, !.sock = FALSE,
                        !.conn = FALSE, !.rt = FALSE, !.wt = FALSE, !.ct = "off", !.cache = FALSE,
                        !.store = FALSE] EXCEPT !.d = new_d]
    BY <1>a DEF StackOK, DECLINED, Closed, IndInv, TypeOK, UType
  <2>o. out' = [out EXCEPT !.frees = new_frees, !.final = new_final, !.reply = new_reply,
                           !.last = new_last]
    BY <1>1, <1>a, <2>a DEF DECLINED
  <2> HIDE DEF new_d, new_frees, new_final, new_reply, new_last
  <2>f. /\ u'.st = "done" /\ u'.resolving = FALSE /\ u'.cleanup = FALSE /\ u'.d = new_d
         /\ u'.sock = FALSE /\ u'.conn = FALSE /\ u'.ssl = u.ssl /\ u'.wh = u.wh
         /\ u'.rh = u.rh /\ u'.rt = FALSE /\ u'.wt = FALSE /\ u'.ct = "off"
         /\ u'.request_sent = u.request_sent /\ u'.header_sent = u.header_sent /\ u'.check = u.check /\ u'.buf = u.buf
         /\ u'.att = u.att /\ u'.cacheable = u.cacheable /\ u'.cache = FALSE /\ u'.cstat = u.cstat
         /\ u'.store = FALSE /\ u'.status = u.status /\ u'.cl = u.cl /\ u'.length = u.length
         /\ u'.got = u.got /\ u'.eof = u.eof /\ u'.done = u.done /\ u'.err = u.err
         /\ u'.derr = u.derr
    BY <1>3, <2>b DEF UType
  <2>g. /\ out'.final = new_final
        /\ out'.last = new_last
        /\ out'.reply = new_reply
        /\ out'.kept = out.kept
        /\ out'.gets = out.gets
        /\ out'.frees = new_frees
    BY <1>4, <2>o DEF OType
  <2>2. u' \in UType({u'.d})
    <3> DEFINE v1 == [u EXCEPT !.st = "done", !.cleanup = FALSE, !.resolving = FALSE, !.sock = FALSE]
    <3> DEFINE v2 == [v1 EXCEPT !.conn = FALSE, !.rt = FALSE, !.wt = FALSE, !.ct = "off"]
    <3> DEFINE v3 == [v2 EXCEPT !.cache = FALSE, !.store = FALSE]
    <3>x. u' = [v3 EXCEPT !.d = new_d]
      BY <1>3, <2>t, <2>b DEF UType
    <3> HIDE DEF v1, v2, v3
    <3>1. v1 \in UType({u.d})
      BY <1>3, <2>t DEF v1, UType, OType, DECLINED
    <3>2. v2 \in UType({u.d})
      BY <3>1, <2>t DEF v2, UType, OType, DECLINED
    <3>3. v3 \in UType({u.d})
      BY <3>2, <2>t DEF v3, UType, OType, DECLINED
    <3> QED
      BY <3>x, <3>3, NewData
  <2>c. out' \in OType
    BY <1>4, <2>t, <2>o DEF OType
  <2>3. TypeOK'
    BY <1>4, <1>2, <2>t, <2>1, <2>2, <2>c, <2>a DEF TypeOK, DECLINED
  <2>9. StackOK'
    BY <1>1, <1>2, <2>t, <2>a, <2>f, <2>g, <2>c, <2>1
       DEF IndInv, TypeOK, UType, StackOK, OType, DECLINED
  <2>4. StartOK' /\ EndOK'
    BY <1>1, <1>2, <2>t, <2>a, <2>f, <2>g, <2>c, <2>1
       DEF IndInv, TypeOK, UType, StackOK, StartOK, EndOK, Nothing, U0, Out0, OType, DECLINED
  <2>5. PhaseOK'
    BY <1>1, <1>2, <2>t, <2>a, <2>f, <2>g, <2>c, <2>1
       DEF IndInv, TypeOK, UType, StartOK, EndOK, PhaseOK, Passing, OType, DECLINED
  <2>6. BodyOK'
    BY <1>1, <1>2, <2>t, <2>a, <2>f, <2>g, <2>c, <2>1
       DEF IndInv, TypeOK, UType, EndOK, PhaseOK, Passing, BodyOK, AllOfIt, OType, DECLINED
  <2>7. PeersBalanced'
    BY <1>1, <1>2, <2>t, <2>a, <2>f, <2>g, <2>c, <2>1
       DEF IndInv, TypeOK, UType, StartOK, EndOK, PeersBalanced, OType, DECLINED
  <2>8. ASSUME Plain, TimersOK PROVE TimersOK'
    BY <1>1, <1>2, <2>t, <2>a, <2>f, <2>g, <2>c, <2>1, <2>8
       DEF IndInv, TypeOK, UType, StartOK, Nothing, EndOK, PhaseOK, Passing, Plain, TimersOK,
           WaitHasTimer, Live, Idle, Ended, OType, DECLINED
  <2> QED
    BY <2>3, <2>4, <2>5, <2>6, <2>7, <2>8, <2>9 DEF Kept, IndInv
<1> QED
  BY <1>a DEF finalize, Arg

(* finalize in the first of the two calls of process_upgraded; the second is yet to run. *)
LEMMA FinalizeUpgradedKept ==
    ASSUME Settings,
           IndInv,
           finalize,
           Below = <<<<"process_upgraded", FALSE>>>>
    PROVE  Kept
<1>1. call # << >> /\ Top = "finalize" /\ Below = <<<<"process_upgraded", FALSE>>>>
  <2>1. Pending("finalize")
    BY DEF finalize
  <2> QED
    BY <2>1, Run
<1>2. UNCHANGED <<client>>
  BY DEF finalize, Arg
<1>3. u \in UType({u.d})
  BY DEF IndInv, TypeOK
<1>4. out \in OType /\ client \in {"ok", "gone", "error"}
  BY DEF IndInv, TypeOK
<1>a. ASSUME NEW e,
             u' = [Closed(u) EXCEPT !.d = e],
             out' = [out EXCEPT !.frees = IF u.sock THEN @ + 1 ELSE @,
                                !.final = IF Arg = DECLINED THEN @ ELSE @ + 1,
                                !.reply = IF Arg = DECLINED THEN @ ELSE Reply(Arg),
                                !.last = @ \/ (Arg = 0 /\ u.header_sent /\ ~HeadOnly)],
             Tail_(<< >>)
      PROVE  Kept
  <2>1. call' # << >> /\ Top' = "process_upgraded" /\ Arg' = FALSE /\ Below' = << >>
    <3>1. call' = <<<<"process_upgraded", FALSE>>>>
      BY <1>1, <1>a, Tail0B
    <3> QED
      BY <3>1, CallB
  <2> DEFINE new_d == e
             new_frees == IF u.sock THEN out.frees + 1 ELSE out.frees
             new_final == out.final + 1
             new_reply == Reply(Arg)
             new_last == out.last \/ (Arg = 0 /\ u.header_sent /\ ~HeadOnly)
  <2>t. /\ new_frees \in Int
        /\ new_final \in Int
        /\ new_reply \in {"none", "cached", "redirect", "upstream", "error", "aborted", "crash"}
        /\ new_last \in BOOLEAN
    BY <1>3, <1>4, <1>1, <1>a DEF PeersBalanced, StackOK, EndOK, BodyOK, Reply, DECLINED, IndInv,
           TypeOK, UType, OType
  <2>a. /\ out.gets - new_frees = 0
        /\ Arg # DECLINED
        /\ new_final = 1
        /\ (new_last => Arg = 0 /\ ~HeadOnly)
        /\ (new_reply = "upstream" => Arg = 0 /\ out.reply = "upstream")
    BY <1>1, <1>2, <1>a DEF PeersBalanced, StackOK, EndOK, BodyOK, Reply, DECLINED, IndInv, TypeOK,
           UType, OType
  <2>b. u' = [[u EXCEPT !.st = "done", !.cleanup = FALSE, !.resolving = FALSE, !.sock = FALSE,
                        !.conn = FALSE, !.rt = FALSE, !.wt = FALSE, !.ct = "off", !.cache = FALSE,
                        !.store = FALSE] EXCEPT !.d = new_d]
    BY <1>a DEF StackOK, DECLINED, Closed, IndInv, TypeOK, UType
  <2>o. out' = [out EXCEPT !.frees = new_frees, !.final = new_final, !.reply = new_reply,
                           !.last = new_last]
    BY <1>1, <1>a, <2>a DEF DECLINED
  <2> HIDE DEF new_d, new_frees, new_final, new_reply, new_last
  <2>f. /\ u'.st = "done" /\ u'.resolving = FALSE /\ u'.cleanup = FALSE /\ u'.d = new_d
         /\ u'.sock = FALSE /\ u'.conn = FALSE /\ u'.ssl = u.ssl /\ u'.wh = u.wh
         /\ u'.rh = u.rh /\ u'.rt = FALSE /\ u'.wt = FALSE /\ u'.ct = "off"
         /\ u'.request_sent = u.request_sent /\ u'.header_sent = u.header_sent /\ u'.check = u.check /\ u'.buf = u.buf
         /\ u'.att = u.att /\ u'.cacheable = u.cacheable /\ u'.cache = FALSE /\ u'.cstat = u.cstat
         /\ u'.store = FALSE /\ u'.status = u.status /\ u'.cl = u.cl /\ u'.length = u.length
         /\ u'.got = u.got /\ u'.eof = u.eof /\ u'.done = u.done /\ u'.err = u.err
         /\ u'.derr = u.derr
    BY <1>3, <2>b DEF UType
  <2>g. /\ out'.final = new_final
        /\ out'.last = new_last
        /\ out'.reply = new_reply
        /\ out'.kept = out.kept
        /\ out'.gets = out.gets
        /\ out'.frees = new_frees
    BY <1>4, <2>o DEF OType
  <2>2. u' \in UType({u'.d})
    <3> DEFINE v1 == [u EXCEPT !.st = "done", !.cleanup = FALSE, !.resolving = FALSE, !.sock = FALSE]
    <3> DEFINE v2 == [v1 EXCEPT !.conn = FALSE, !.rt = FALSE, !.wt = FALSE, !.ct = "off"]
    <3> DEFINE v3 == [v2 EXCEPT !.cache = FALSE, !.store = FALSE]
    <3>x. u' = [v3 EXCEPT !.d = new_d]
      BY <1>3, <2>t, <2>b DEF UType
    <3> HIDE DEF v1, v2, v3
    <3>1. v1 \in UType({u.d})
      BY <1>3, <2>t DEF v1, UType, OType, DECLINED
    <3>2. v2 \in UType({u.d})
      BY <3>1, <2>t DEF v2, UType, OType, DECLINED
    <3>3. v3 \in UType({u.d})
      BY <3>2, <2>t DEF v3, UType, OType, DECLINED
    <3> QED
      BY <3>x, <3>3, NewData
  <2>c. out' \in OType
    BY <1>4, <2>t, <2>o DEF OType
  <2>3. TypeOK'
    BY <1>4, <1>2, <2>t, <2>1, <2>2, <2>c, <2>a DEF TypeOK, DECLINED
  <2>9. StackOK'
    BY <1>1, <1>2, <2>t, <2>a, <2>f, <2>g, <2>c, <2>1
       DEF IndInv, TypeOK, UType, StackOK, OType, DECLINED
  <2>4. StartOK' /\ EndOK'
    BY <1>1, <1>2, <2>t, <2>a, <2>f, <2>g, <2>c, <2>1
       DEF IndInv, TypeOK, UType, StackOK, StartOK, EndOK, Nothing, U0, Out0, OType, DECLINED
  <2>5. PhaseOK'
    BY <1>1, <1>2, <2>t, <2>a, <2>f, <2>g, <2>c, <2>1
       DEF IndInv, TypeOK, UType, StartOK, EndOK, PhaseOK, Passing, OType, DECLINED
  <2>6. BodyOK'
    BY <1>1, <1>2, <2>t, <2>a, <2>f, <2>g, <2>c, <2>1
       DEF IndInv, TypeOK, UType, EndOK, PhaseOK, Passing, BodyOK, AllOfIt, OType, DECLINED
  <2>7. PeersBalanced'
    BY <1>1, <1>2, <2>t, <2>a, <2>f, <2>g, <2>c, <2>1
       DEF IndInv, TypeOK, UType, StartOK, EndOK, PeersBalanced, OType, DECLINED
  <2>8. ASSUME Plain, TimersOK PROVE TimersOK'
    BY <1>1, <1>2, <2>t, <2>a, <2>f, <2>g, <2>c, <2>1, <2>8
       DEF IndInv, TypeOK, UType, StartOK, Nothing, EndOK, PhaseOK, Passing, Plain, TimersOK,
           WaitHasTimer, Live, Idle, Ended, OType, DECLINED
  <2> QED
    BY <2>3, <2>4, <2>5, <2>6, <2>7, <2>8, <2>9 DEF Kept, IndInv
<1> QED
  BY <1>a DEF finalize, Arg

(* finalize with NGX_DECLINED: everything is given back, the request goes on. *)
LEMMA FinalizeRedirectKept ==
    ASSUME Settings,
           IndInv,
           finalize,
           Below = <<<<"redirect">>>>
    PROVE  Kept
<1>1. call # << >> /\ Top = "finalize" /\ Below = <<<<"redirect">>>>
  <2>1. Pending("finalize")
    BY DEF finalize
  <2> QED
    BY <2>1, Run
<1>2. UNCHANGED <<client>>
  BY DEF finalize, Arg
<1>3. u \in UType({u.d})
  BY DEF IndInv, TypeOK
<1>4. out \in OType /\ client \in {"ok", "gone", "error"}
  BY DEF IndInv, TypeOK
<1>a. ASSUME NEW e,
             u' = [Closed(u) EXCEPT !.d = e],
             out' = [out EXCEPT !.frees = IF u.sock THEN @ + 1 ELSE @,
                                !.final = IF Arg = DECLINED THEN @ ELSE @ + 1,
                                !.reply = IF Arg = DECLINED THEN @ ELSE Reply(Arg),
                                !.last = @ \/ (Arg = 0 /\ u.header_sent /\ ~HeadOnly)],
             Tail_(<< >>)
      PROVE  Kept
  <2>1. call' # << >> /\ Top' = "redirect" /\ Below' = << >>
    <3>1. call' = <<<<"redirect">>>>
      BY <1>1, <1>a, Tail0B
    <3> QED
      BY <3>1, Call1
  <2> DEFINE new_d == e
             new_frees == IF u.sock THEN out.frees + 1 ELSE out.frees
             new_final == out.final
             new_reply == out.reply
             new_last == out.last \/ (Arg = 0 /\ u.header_sent /\ ~HeadOnly)
  <2>t. /\ new_frees \in Int
        /\ new_final \in Int
        /\ new_reply \in {"none", "cached", "redirect", "upstream", "error", "aborted", "crash"}
        /\ new_last \in BOOLEAN
    BY <1>3, <1>4, <1>1, <1>a DEF PeersBalanced, StackOK, EndOK, BodyOK, Reply, DECLINED, IndInv,
           TypeOK, UType, OType
  <2>a. /\ out.gets - new_frees = 0
        /\ Arg = DECLINED
        /\ new_final = 0
        /\ ~new_last
        /\ new_reply = out.reply
    BY <1>1, <1>2, <1>a DEF PeersBalanced, StackOK, EndOK, BodyOK, Reply, DECLINED, IndInv, TypeOK,
           UType, OType
  <2>b. u' = [[u EXCEPT !.st = "done", !.cleanup = FALSE, !.resolving = FALSE, !.sock = FALSE,
                        !.conn = FALSE, !.rt = FALSE, !.wt = FALSE, !.ct = "off", !.cache = FALSE,
                        !.store = FALSE] EXCEPT !.d = new_d]
    BY <1>a DEF StackOK, DECLINED, Closed, IndInv, TypeOK, UType
  <2>o. out' = [out EXCEPT !.frees = new_frees, !.final = new_final, !.reply = new_reply,
                           !.last = new_last]
    BY <1>1, <1>a, <2>a DEF DECLINED
  <2> HIDE DEF new_d, new_frees, new_final, new_reply, new_last
  <2>f. /\ u'.st = "done" /\ u'.resolving = FALSE /\ u'.cleanup = FALSE /\ u'.d = new_d
         /\ u'.sock = FALSE /\ u'.conn = FALSE /\ u'.ssl = u.ssl /\ u'.wh = u.wh
         /\ u'.rh = u.rh /\ u'.rt = FALSE /\ u'.wt = FALSE /\ u'.ct = "off"
         /\ u'.request_sent = u.request_sent /\ u'.header_sent = u.header_sent /\ u'.check = u.check /\ u'.buf = u.buf
         /\ u'.att = u.att /\ u'.cacheable = u.cacheable /\ u'.cache = FALSE /\ u'.cstat = u.cstat
         /\ u'.store = FALSE /\ u'.status = u.status /\ u'.cl = u.cl /\ u'.length = u.length
         /\ u'.got = u.got /\ u'.eof = u.eof /\ u'.done = u.done /\ u'.err = u.err
         /\ u'.derr = u.derr
    BY <1>3, <2>b DEF UType
  <2>g. /\ out'.final = new_final
        /\ out'.last = new_last
        /\ out'.reply = new_reply
        /\ out'.kept = out.kept
        /\ out'.gets = out.gets
        /\ out'.frees = new_frees
    BY <1>4, <2>o DEF OType
  <2>2. u' \in UType({u'.d})
    <3> DEFINE v1 == [u EXCEPT !.st = "done", !.cleanup = FALSE, !.resolving = FALSE, !.sock = FALSE]
    <3> DEFINE v2 == [v1 EXCEPT !.conn = FALSE, !.rt = FALSE, !.wt = FALSE, !.ct = "off"]
    <3> DEFINE v3 == [v2 EXCEPT !.cache = FALSE, !.store = FALSE]
    <3>x. u' = [v3 EXCEPT !.d = new_d]
      BY <1>3, <2>t, <2>b DEF UType
    <3> HIDE DEF v1, v2, v3
    <3>1. v1 \in UType({u.d})
      BY <1>3, <2>t DEF v1, UType, OType, DECLINED
    <3>2. v2 \in UType({u.d})
      BY <3>1, <2>t DEF v2, UType, OType, DECLINED
    <3>3. v3 \in UType({u.d})
      BY <3>2, <2>t DEF v3, UType, OType, DECLINED
    <3> QED
      BY <3>x, <3>3, NewData
  <2>c. out' \in OType
    BY <1>4, <2>t, <2>o DEF OType
  <2>3. TypeOK'
    BY <1>4, <1>2, <2>t, <2>1, <2>2, <2>c, <2>a DEF TypeOK, DECLINED
  <2>9. StackOK'
    BY <1>1, <1>2, <2>t, <2>a, <2>f, <2>g, <2>c, <2>1
       DEF IndInv, TypeOK, UType, StackOK, OType, DECLINED
  <2>4. StartOK' /\ EndOK'
    BY <1>1, <1>2, <2>t, <2>a, <2>f, <2>g, <2>c, <2>1
       DEF IndInv, TypeOK, UType, StackOK, StartOK, EndOK, Nothing, U0, Out0, OType, DECLINED
  <2>5. PhaseOK'
    BY <1>1, <1>2, <2>t, <2>a, <2>f, <2>g, <2>c, <2>1
       DEF IndInv, TypeOK, UType, StartOK, EndOK, PhaseOK, Passing, OType, DECLINED
  <2>6. BodyOK'
    BY <1>1, <1>2, <2>t, <2>a, <2>f, <2>g, <2>c, <2>1
       DEF IndInv, TypeOK, UType, EndOK, PhaseOK, Passing, BodyOK, AllOfIt, OType, DECLINED
  <2>7. PeersBalanced'
    BY <1>1, <1>2, <2>t, <2>a, <2>f, <2>g, <2>c, <2>1
       DEF IndInv, TypeOK, UType, StartOK, EndOK, PeersBalanced, OType, DECLINED
  <2>8. ASSUME Plain, TimersOK PROVE TimersOK'
    BY <1>1, <1>2, <2>t, <2>a, <2>f, <2>g, <2>c, <2>1, <2>8
       DEF IndInv, TypeOK, UType, StartOK, Nothing, EndOK, PhaseOK, Passing, Plain, TimersOK,
           WaitHasTimer, Live, Idle, Ended, OType, DECLINED
  <2> QED
    BY <2>3, <2>4, <2>5, <2>6, <2>7, <2>8, <2>9 DEF Kept, IndInv
<1> QED
  BY <1>a DEF finalize, Arg

(* Begin: the answer of the cache, from the initial state. *)
LEMMA BeginKept == ASSUME Settings, IndInv, Begin PROVE Kept
<1>1. call = << >> /\ Top = "none" /\ Below = << >> /\ out.final = 0
  BY DEF Begin, Live, Idle, Top, Below
<1>2. UNCHANGED <<P, client, out>>
  BY DEF Begin
<1>3. u \in UType({u.d})
  BY DEF IndInv, TypeOK
<1>4. out \in OType /\ client \in {"ok", "gone", "error"}
  BY DEF IndInv, TypeOK
<1>a. ASSUME NEW a \in CacheAnswers, NEW valid \in BOOLEAN,
             u.st = "new",
             u' = [cache(a, valid) EXCEPT !.st = "fetch"],
             call' = <<<<"cached">>>>
      PROVE  Kept
  <2>1. call' # << >> /\ Top' = "cached" /\ Below' = << >>
    BY <1>1, <1>a, Call1
  <2> DEFINE new_cstat == a
             new_cache == a # "off"
             new_cacheable == a \notin {"off", "scarce"}
  <2>t. /\ new_cstat \in CacheAnswers \union {"none", "stale"}
        /\ new_cache \in BOOLEAN
        /\ new_cacheable \in BOOLEAN
    BY <1>3, <1>4, <1>1, <1>a DEF StartOK, IndInv, TypeOK, UType
  <2>a. u = U0 /\ out = Out0
    BY <1>1, <1>2, <1>a DEF StartOK, IndInv, TypeOK, UType
  <2>b. u' = [[U0 EXCEPT !.cstat = new_cstat, !.cache = new_cache,
                         !.cacheable = new_cacheable] EXCEPT !.st = "fetch"]
    BY <1>a DEF cache
  <2> HIDE DEF new_cstat, new_cache, new_cacheable
  <2>f. /\ u'.st = "fetch" /\ u'.resolving = u.resolving /\ u'.cleanup = u.cleanup /\ u'.d = u.d
         /\ u'.sock = u.sock /\ u'.conn = u.conn /\ u'.ssl = u.ssl /\ u'.wh = u.wh
         /\ u'.rh = u.rh /\ u'.rt = u.rt /\ u'.wt = u.wt /\ u'.ct = u.ct
         /\ u'.request_sent = u.request_sent /\ u'.header_sent = u.header_sent /\ u'.check = u.check /\ u'.buf = u.buf
         /\ u'.att = u.att /\ u'.cacheable = new_cacheable /\ u'.cache = new_cache /\ u'.cstat = new_cstat
         /\ u'.store = u.store /\ u'.status = u.status /\ u'.cl = u.cl /\ u'.length = u.length
         /\ u'.got = u.got /\ u'.eof = u.eof /\ u'.done = u.done /\ u'.err = u.err
         /\ u'.derr = u.derr
    BY <1>3, <2>a, <2>b DEF UType, U0
  <2>2. u' \in UType({u'.d})
    <3> DEFINE v1 == [u EXCEPT !.cstat = new_cstat]
    <3> DEFINE v2 == [v1 EXCEPT !.cache = new_cache]
    <3> DEFINE v3 == [v2 EXCEPT !.cacheable = new_cacheable]
    <3> DEFINE v4 == [v3 EXCEPT !.st = "fetch"]
    <3>x. u' = v4
      BY <1>3, <2>t, <2>a, <2>b DEF UType, U0
    <3> HIDE DEF v1, v2, v3, v4
    <3>1. v1 \in UType({u.d})
      BY <1>3, <2>t DEF v1, UType, U0, Out0
    <3>2. v2 \in UType({u.d})
      BY <3>1, <2>t DEF v2, UType, U0, Out0
    <3>3. v3 \in UType({u.d})
      BY <3>2, <2>t DEF v3, UType, U0, Out0
    <3>4. v4 \in UType({u.d})
      BY <3>3, <2>t DEF v4, UType, U0, Out0
    <3> QED
      BY <3>x, <3>4, SameData
  <2>3. TypeOK'
    BY <1>4, <1>2, <2>t, <2>1, <2>2, <2>a DEF TypeOK
  <2>9. StackOK'
    BY <1>1, <1>2, <2>t, <2>a, <2>f, <2>1 DEF IndInv, TypeOK, UType, StackOK, U0, Out0
  <2>4. StartOK' /\ EndOK'
    BY <1>1, <1>2, <2>t, <2>a, <2>f, <2>1 DEF IndInv, TypeOK, UType, StackOK, StartOK, EndOK,
           Nothing, U0, Out0, U0, Out0
  <2>5. PhaseOK'
    BY <1>1, <1>2, <2>t, <2>a, <2>f, <2>1 DEF IndInv, TypeOK, UType, StartOK, EndOK, PhaseOK,
           Passing, U0, Out0
  <2>6. BodyOK'
    BY <1>1, <1>2, <2>t, <2>a, <2>f, <2>1 DEF IndInv, TypeOK, UType, EndOK, PhaseOK, Passing,
           BodyOK, AllOfIt, U0, Out0
  <2>7. PeersBalanced'
    BY <1>1, <1>2, <2>t, <2>a, <2>f, <2>1 DEF IndInv, TypeOK, UType, StartOK, EndOK, PeersBalanced,
           U0, Out0
  <2>8. ASSUME Plain, TimersOK PROVE TimersOK'
    BY <1>1, <1>2, <2>t, <2>a, <2>f, <2>1, <2>8 DEF IndInv, TypeOK, UType, StartOK, Nothing, EndOK,
           PhaseOK, Passing, Plain, TimersOK, WaitHasTimer, Live, Idle, Ended, U0, Out0
  <2> QED
    BY <2>3, <2>4, <2>5, <2>6, <2>7, <2>8, <2>9 DEF Kept, IndInv
<1>b. ASSUME NEW a \in CacheAnswers, NEW valid \in BOOLEAN,
             u.st = "new",
             u' = [cache(a, valid) EXCEPT !.st = "fetch"],
             call' = <<<<"init_request">>>>
      PROVE  Kept
  <2>1. call' # << >> /\ Top' = "init_request" /\ Below' = << >>
    BY <1>1, <1>b, Call1
  <2> DEFINE new_cstat == a
             new_cache == a # "off"
             new_cacheable == a \notin {"off", "scarce"}
  <2>t. /\ new_cstat \in CacheAnswers \union {"none", "stale"}
        /\ new_cache \in BOOLEAN
        /\ new_cacheable \in BOOLEAN
    BY <1>3, <1>4, <1>1, <1>b DEF StartOK, IndInv, TypeOK, UType
  <2>a. u = U0 /\ out = Out0
    BY <1>1, <1>2, <1>b DEF StartOK, IndInv, TypeOK, UType
  <2>b. u' = [[U0 EXCEPT !.cstat = new_cstat, !.cache = new_cache,
                         !.cacheable = new_cacheable] EXCEPT !.st = "fetch"]
    BY <1>b DEF cache
  <2> HIDE DEF new_cstat, new_cache, new_cacheable
  <2>f. /\ u'.st = "fetch" /\ u'.resolving = u.resolving /\ u'.cleanup = u.cleanup /\ u'.d = u.d
         /\ u'.sock = u.sock /\ u'.conn = u.conn /\ u'.ssl = u.ssl /\ u'.wh = u.wh
         /\ u'.rh = u.rh /\ u'.rt = u.rt /\ u'.wt = u.wt /\ u'.ct = u.ct
         /\ u'.request_sent = u.request_sent /\ u'.header_sent = u.header_sent /\ u'.check = u.check /\ u'.buf = u.buf
         /\ u'.att = u.att /\ u'.cacheable = new_cacheable /\ u'.cache = new_cache /\ u'.cstat = new_cstat
         /\ u'.store = u.store /\ u'.status = u.status /\ u'.cl = u.cl /\ u'.length = u.length
         /\ u'.got = u.got /\ u'.eof = u.eof /\ u'.done = u.done /\ u'.err = u.err
         /\ u'.derr = u.derr
    BY <1>3, <2>a, <2>b DEF UType, U0
  <2>2. u' \in UType({u'.d})
    <3> DEFINE v1 == [u EXCEPT !.cstat = new_cstat]
    <3> DEFINE v2 == [v1 EXCEPT !.cache = new_cache]
    <3> DEFINE v3 == [v2 EXCEPT !.cacheable = new_cacheable]
    <3> DEFINE v4 == [v3 EXCEPT !.st = "fetch"]
    <3>x. u' = v4
      BY <1>3, <2>t, <2>a, <2>b DEF UType, U0
    <3> HIDE DEF v1, v2, v3, v4
    <3>1. v1 \in UType({u.d})
      BY <1>3, <2>t DEF v1, UType, U0, Out0
    <3>2. v2 \in UType({u.d})
      BY <3>1, <2>t DEF v2, UType, U0, Out0
    <3>3. v3 \in UType({u.d})
      BY <3>2, <2>t DEF v3, UType, U0, Out0
    <3>4. v4 \in UType({u.d})
      BY <3>3, <2>t DEF v4, UType, U0, Out0
    <3> QED
      BY <3>x, <3>4, SameData
  <2>3. TypeOK'
    BY <1>4, <1>2, <2>t, <2>1, <2>2, <2>a DEF TypeOK
  <2>9. StackOK'
    BY <1>1, <1>2, <2>t, <2>a, <2>f, <2>1 DEF IndInv, TypeOK, UType, StackOK, U0, Out0
  <2>4. StartOK' /\ EndOK'
    BY <1>1, <1>2, <2>t, <2>a, <2>f, <2>1 DEF IndInv, TypeOK, UType, StackOK, StartOK, EndOK,
           Nothing, U0, Out0, U0, Out0
  <2>5. PhaseOK'
    BY <1>1, <1>2, <2>t, <2>a, <2>f, <2>1 DEF IndInv, TypeOK, UType, StartOK, EndOK, PhaseOK,
           Passing, U0, Out0
  <2>6. BodyOK'
    BY <1>1, <1>2, <2>t, <2>a, <2>f, <2>1 DEF IndInv, TypeOK, UType, EndOK, PhaseOK, Passing,
           BodyOK, AllOfIt, U0, Out0
  <2>7. PeersBalanced'
    BY <1>1, <1>2, <2>t, <2>a, <2>f, <2>1 DEF IndInv, TypeOK, UType, StartOK, EndOK, PeersBalanced,
           U0, Out0
  <2>8. ASSUME Plain, TimersOK PROVE TimersOK'
    BY <1>1, <1>2, <2>t, <2>a, <2>f, <2>1, <2>8 DEF IndInv, TypeOK, UType, StartOK, Nothing, EndOK,
           PhaseOK, Passing, Plain, TimersOK, WaitHasTimer, Live, Idle, Ended, U0, Out0
  <2> QED
    BY <2>3, <2>4, <2>5, <2>6, <2>7, <2>8, <2>9 DEF Kept, IndInv
<1> QED
  BY <1>a, <1>b DEF Begin

(* ResolverAnswers: the first peer, or the end of a name that cannot be resolved. *)
LEMMA ResolverKept == ASSUME Settings, IndInv, ResolverAnswers PROVE Kept
<1>1. call = << >> /\ Top = "none" /\ Below = << >> /\ out.final = 0
  BY DEF ResolverAnswers, Live, Idle, Top, Below
<1>2. UNCHANGED <<P, client, out>>
  BY DEF ResolverAnswers
<1>3. u \in UType({u.d})
  BY DEF IndInv, TypeOK
<1>4. out \in OType /\ client \in {"ok", "gone", "error"}
  BY DEF IndInv, TypeOK
<1>a. CASE u.resolving /\ u' = [u EXCEPT !.resolving = FALSE] /\ call' = <<<<"connect">>>>
  <2>1. call' # << >> /\ Top' = "connect" /\ Below' = << >>
    BY <1>1, <1>a, Call1
  <2>2. u' \in UType({u'.d})
    BY <1>3, <1>2, <1>a DEF UType
  <2>3. TypeOK'
    BY <1>4, <1>2, <1>a, <2>1, <2>2 DEF TypeOK
  <2>9. StackOK'
    BY <1>1, <1>2, <1>a, <2>1, <2>2 DEF IndInv, TypeOK, UType, StackOK
  <2>4. StartOK' /\ EndOK'
    BY <1>1, <1>2, <1>a, <2>1, <2>2 DEF IndInv, TypeOK, UType, StackOK, StartOK, EndOK, Nothing, U0,
           Out0
  <2>5. PhaseOK'
    BY <1>1, <1>2, <1>a, <2>1, <2>2 DEF IndInv, TypeOK, UType, StartOK, EndOK, PhaseOK, Passing
  <2>6. BodyOK'
    BY <1>1, <1>2, <1>a, <2>1, <2>2 DEF IndInv, TypeOK, UType, EndOK, PhaseOK, Passing, BodyOK,
           AllOfIt
  <2>7. PeersBalanced'
    BY <1>1, <1>2, <1>a, <2>1, <2>2 DEF IndInv, TypeOK, UType, StartOK, EndOK, PeersBalanced
  <2>8. ASSUME Plain, TimersOK PROVE TimersOK'
    BY <1>1, <1>2, <1>a, <2>1, <2>2, <2>8 DEF IndInv, TypeOK, UType, StartOK, Nothing, EndOK,
           PhaseOK, Passing, Plain, TimersOK, WaitHasTimer, Live, Idle, Ended
  <2> QED
    BY <2>3, <2>4, <2>5, <2>6, <2>7, <2>8, <2>9 DEF Kept, IndInv
<1>b. CASE u.resolving /\ u' = [u EXCEPT !.resolving = TRUE] /\ call' = Finalize(502)
  <2>1. call' # << >> /\ Top' = "finalize" /\ Arg' = 502 /\ Below' = << >>
    BY <1>1, <1>b, Call2 DEF Finalize
  <2>2. u' \in UType({u'.d})
    BY <1>3, <1>2, <1>b DEF UType, DECLINED
  <2>3. TypeOK'
    BY <1>4, <1>2, <1>b, <2>1, <2>2 DEF TypeOK, DECLINED
  <2>9. StackOK'
    BY <1>1, <1>2, <1>b, <2>1, <2>2 DEF IndInv, TypeOK, UType, StackOK, DECLINED
  <2>4. StartOK' /\ EndOK'
    BY <1>1, <1>2, <1>b, <2>1, <2>2 DEF IndInv, TypeOK, UType, StackOK, StartOK, EndOK, Nothing, U0,
           Out0, DECLINED
  <2>5. PhaseOK'
    BY <1>1, <1>2, <1>b, <2>1, <2>2 DEF IndInv, TypeOK, UType, StartOK, EndOK, PhaseOK, Passing,
           DECLINED
  <2>6. BodyOK'
    BY <1>1, <1>2, <1>b, <2>1, <2>2 DEF IndInv, TypeOK, UType, EndOK, PhaseOK, Passing, BodyOK,
           AllOfIt, DECLINED
  <2>7. PeersBalanced'
    BY <1>1, <1>2, <1>b, <2>1, <2>2 DEF IndInv, TypeOK, UType, StartOK, EndOK, PeersBalanced,
           DECLINED
  <2>8. ASSUME Plain, TimersOK PROVE TimersOK'
    BY <1>1, <1>2, <1>b, <2>1, <2>2, <2>8 DEF IndInv, TypeOK, UType, StartOK, Nothing, EndOK,
           PhaseOK, Passing, Plain, TimersOK, WaitHasTimer, Live, Idle, Ended, DECLINED
  <2> QED
    BY <2>3, <2>4, <2>5, <2>6, <2>7, <2>8, <2>9 DEF Kept, IndInv
<1> QED
  BY <1>a, <1>b DEF ResolverAnswers

(* ssl_handshake: the handshake is over. *)
LEMMA HandshakeKept == ASSUME Settings, IndInv, ssl_handshake PROVE Kept
<1>1. call = << >> /\ Top = "none" /\ Below = << >> /\ out.final = 0
  BY DEF ssl_handshake, Live, Idle, Top, Below
<1>2. UNCHANGED <<P, client, out>>
  BY DEF ssl_handshake
<1>3. u \in UType({u.d})
  BY DEF IndInv, TypeOK
<1>4. out \in OType /\ client \in {"ok", "gone", "error"}
  BY DEF IndInv, TypeOK
<1>a. CASE /\ u.conn
           /\ u.ssl = "shaking"
           /\ u' = [u EXCEPT !.ssl = "on", !.wh = "send", !.rh = "header"]
           /\ call' = <<<<"send_request">>>>
  <2>1. call' # << >> /\ Top' = "send_request" /\ Below' = << >>
    BY <1>1, <1>a, Call1
  <2>2. u' \in UType({u'.d})
    BY <1>3, <1>2, <1>a DEF UType
  <2>3. TypeOK'
    BY <1>4, <1>2, <1>a, <2>1, <2>2 DEF TypeOK
  <2>9. StackOK'
    BY <1>1, <1>2, <1>a, <2>1, <2>2 DEF IndInv, TypeOK, UType, StackOK
  <2>4. StartOK' /\ EndOK'
    BY <1>1, <1>2, <1>a, <2>1, <2>2 DEF IndInv, TypeOK, UType, StackOK, StartOK, EndOK, Nothing, U0,
           Out0
  <2>5. PhaseOK'
    BY <1>1, <1>2, <1>a, <2>1, <2>2 DEF IndInv, TypeOK, UType, StartOK, EndOK, PhaseOK, Passing
  <2>6. BodyOK'
    BY <1>1, <1>2, <1>a, <2>1, <2>2 DEF IndInv, TypeOK, UType, EndOK, PhaseOK, Passing, BodyOK,
           AllOfIt
  <2>7. PeersBalanced'
    BY <1>1, <1>2, <1>a, <2>1, <2>2 DEF IndInv, TypeOK, UType, StartOK, EndOK, PeersBalanced
  <2>8. ASSUME Plain, TimersOK PROVE TimersOK'
    BY <1>1, <1>2, <1>a, <2>1, <2>2, <2>8 DEF IndInv, TypeOK, UType, StartOK, Nothing, EndOK,
           PhaseOK, Passing, Plain, TimersOK, WaitHasTimer, Live, Idle, Ended
  <2> QED
    BY <2>3, <2>4, <2>5, <2>6, <2>7, <2>8, <2>9 DEF Kept, IndInv
<1>b. CASE u.conn /\ u.ssl = "shaking" /\ u' = u /\ call' = GoNext("error")
  <2>1. call' # << >> /\ Top' = "next" /\ Arg' = "error" /\ Below' = << >>
    BY <1>1, <1>b, Call2 DEF GoNext
  <2>2. u' \in UType({u'.d})
    BY <1>3, <1>2, <1>b DEF UType
  <2>3. TypeOK'
    BY <1>4, <1>2, <1>b, <2>1, <2>2 DEF TypeOK
  <2>9. StackOK'
    BY <1>1, <1>2, <1>b, <2>1, <2>2 DEF IndInv, TypeOK, UType, StackOK
  <2>4. StartOK' /\ EndOK'
    BY <1>1, <1>2, <1>b, <2>1, <2>2 DEF IndInv, TypeOK, UType, StackOK, StartOK, EndOK, Nothing, U0,
           Out0
  <2>5. PhaseOK'
    BY <1>1, <1>2, <1>b, <2>1, <2>2 DEF IndInv, TypeOK, UType, StartOK, EndOK, PhaseOK, Passing
  <2>6. BodyOK'
    BY <1>1, <1>2, <1>b, <2>1, <2>2 DEF IndInv, TypeOK, UType, EndOK, PhaseOK, Passing, BodyOK,
           AllOfIt
  <2>7. PeersBalanced'
    BY <1>1, <1>2, <1>b, <2>1, <2>2 DEF IndInv, TypeOK, UType, StartOK, EndOK, PeersBalanced
  <2>8. ASSUME Plain, TimersOK PROVE TimersOK'
    BY <1>1, <1>2, <1>b, <2>1, <2>2, <2>8 DEF IndInv, TypeOK, UType, StartOK, Nothing, EndOK,
           PhaseOK, Passing, Plain, TimersOK, WaitHasTimer, Live, Idle, Ended
  <2> QED
    BY <2>3, <2>4, <2>5, <2>6, <2>7, <2>8, <2>9 DEF Kept, IndInv
<1> QED
  BY <1>a, <1>b DEF ssl_handshake

(* WriteEvent: the handler of the phase that the connection is in. *)
LEMMA WriteEventKept == ASSUME Settings, IndInv, WriteEvent PROVE Kept
<1>1. call = << >> /\ Top = "none" /\ Below = << >> /\ out.final = 0
  BY DEF WriteEvent, Live, Idle, Top, Below
<1>2. UNCHANGED <<P, client, out>>
  BY DEF WriteEvent
<1>3. u \in UType({u.d})
  BY DEF IndInv, TypeOK
<1>4. out \in OType /\ client \in {"ok", "gone", "error"}
  BY DEF IndInv, TypeOK
<1>a. CASE u.conn /\ u.wh = "upgraded" /\ u' = u /\ call' = <<<<"process_upgraded", FALSE>>>>
  <2>1. call' # << >> /\ Top' = "process_upgraded" /\ Arg' = FALSE /\ Below' = << >>
    BY <1>1, <1>a, CallB
  <2>2. u' \in UType({u'.d})
    BY <1>3, <1>2, <1>a DEF UType
  <2>3. TypeOK'
    BY <1>4, <1>2, <1>a, <2>1, <2>2 DEF TypeOK
  <2>9. StackOK'
    BY <1>1, <1>2, <1>a, <2>1, <2>2 DEF IndInv, TypeOK, UType, StackOK
  <2>4. StartOK' /\ EndOK'
    BY <1>1, <1>2, <1>a, <2>1, <2>2 DEF IndInv, TypeOK, UType, StackOK, StartOK, EndOK, Nothing, U0,
           Out0
  <2>5. PhaseOK'
    BY <1>1, <1>2, <1>a, <2>1, <2>2 DEF IndInv, TypeOK, UType, StartOK, EndOK, PhaseOK, Passing
  <2>6. BodyOK'
    BY <1>1, <1>2, <1>a, <2>1, <2>2 DEF IndInv, TypeOK, UType, EndOK, PhaseOK, Passing, BodyOK,
           AllOfIt
  <2>7. PeersBalanced'
    BY <1>1, <1>2, <1>a, <2>1, <2>2 DEF IndInv, TypeOK, UType, StartOK, EndOK, PeersBalanced
  <2>8. ASSUME Plain, TimersOK PROVE TimersOK'
    BY <1>1, <1>2, <1>a, <2>1, <2>2, <2>8 DEF IndInv, TypeOK, UType, StartOK, Nothing, EndOK,
           PhaseOK, Passing, Plain, TimersOK, WaitHasTimer, Live, Idle, Ended
  <2> QED
    BY <2>3, <2>4, <2>5, <2>6, <2>7, <2>8, <2>9 DEF Kept, IndInv
<1>b. CASE u.conn /\ u.wh = "send" /\ UseSSL /\ u' = u /\ call' = <<<<"ssl_init">>>>
  <2>1. call' # << >> /\ Top' = "ssl_init" /\ Below' = << >>
    BY <1>1, <1>b, Call1
  <2>2. u' \in UType({u'.d})
    BY <1>3, <1>2, <1>b DEF UType
  <2>3. TypeOK'
    BY <1>4, <1>2, <1>b, <2>1, <2>2 DEF TypeOK
  <2>9. StackOK'
    BY <1>1, <1>2, <1>b, <2>1, <2>2 DEF IndInv, TypeOK, UType, StackOK
  <2>4. StartOK' /\ EndOK'
    BY <1>1, <1>2, <1>b, <2>1, <2>2 DEF IndInv, TypeOK, UType, StackOK, StartOK, EndOK, Nothing, U0,
           Out0
  <2>5. PhaseOK'
    BY <1>1, <1>2, <1>b, <2>1, <2>2 DEF IndInv, TypeOK, UType, StartOK, EndOK, PhaseOK, Passing
  <2>6. BodyOK'
    BY <1>1, <1>2, <1>b, <2>1, <2>2 DEF IndInv, TypeOK, UType, EndOK, PhaseOK, Passing, BodyOK,
           AllOfIt
  <2>7. PeersBalanced'
    BY <1>1, <1>2, <1>b, <2>1, <2>2 DEF IndInv, TypeOK, UType, StartOK, EndOK, PeersBalanced
  <2>8. ASSUME Plain, TimersOK PROVE TimersOK'
    BY <1>1, <1>2, <1>b, <2>1, <2>2, <2>8 DEF IndInv, TypeOK, UType, StartOK, Nothing, EndOK,
           PhaseOK, Passing, Plain, TimersOK, WaitHasTimer, Live, Idle, Ended
  <2> QED
    BY <2>3, <2>4, <2>5, <2>6, <2>7, <2>8, <2>9 DEF Kept, IndInv
<1>c. CASE /\ u.conn
           /\ u.wh = "send"
           /\ u.header_sent
           /\ u' = [u EXCEPT !.wh = "dummy"]
           /\ call' = << >>
  <2>1. call' = << >> /\ Top' = "none" /\ Below' = << >>
    BY <1>1, <1>c, Call0
  <2>2. u' \in UType({u'.d})
    BY <1>3, <1>2, <1>c DEF UType
  <2>3. TypeOK'
    BY <1>4, <1>2, <1>c, <2>1, <2>2 DEF TypeOK
  <2>9. StackOK'
    BY <1>1, <1>2, <1>c, <2>1, <2>2 DEF IndInv, TypeOK, UType, StackOK
  <2>4. StartOK' /\ EndOK'
    BY <1>1, <1>2, <1>c, <2>1, <2>2 DEF IndInv, TypeOK, UType, StackOK, StartOK, EndOK, Nothing, U0,
           Out0
  <2>5. PhaseOK'
    BY <1>1, <1>2, <1>c, <2>1, <2>2 DEF IndInv, TypeOK, UType, StartOK, EndOK, PhaseOK, Passing
  <2>6. BodyOK'
    BY <1>1, <1>2, <1>c, <2>1, <2>2 DEF IndInv, TypeOK, UType, EndOK, PhaseOK, Passing, BodyOK,
           AllOfIt
  <2>7. PeersBalanced'
    BY <1>1, <1>2, <1>c, <2>1, <2>2 DEF IndInv, TypeOK, UType, StartOK, EndOK, PeersBalanced
  <2>8. ASSUME Plain, TimersOK PROVE TimersOK'
    BY <1>1, <1>2, <1>c, <2>1, <2>2, <2>8 DEF IndInv, TypeOK, UType, StartOK, Nothing, EndOK,
           PhaseOK, Passing, Plain, TimersOK, WaitHasTimer, Live, Idle, Ended
  <2> QED
    BY <2>3, <2>4, <2>5, <2>6, <2>7, <2>8, <2>9 DEF Kept, IndInv
<1>d. CASE u.conn /\ u.wh = "send" /\ ~u.header_sent /\ u' = u /\ call' = <<<<"send_request">>>>
  <2>1. call' # << >> /\ Top' = "send_request" /\ Below' = << >>
    BY <1>1, <1>d, Call1
  <2>2. u' \in UType({u'.d})
    BY <1>3, <1>2, <1>d DEF UType
  <2>3. TypeOK'
    BY <1>4, <1>2, <1>d, <2>1, <2>2 DEF TypeOK
  <2>9. StackOK'
    BY <1>1, <1>2, <1>d, <2>1, <2>2 DEF IndInv, TypeOK, UType, StackOK
  <2>4. StartOK' /\ EndOK'
    BY <1>1, <1>2, <1>d, <2>1, <2>2 DEF IndInv, TypeOK, UType, StackOK, StartOK, EndOK, Nothing, U0,
           Out0
  <2>5. PhaseOK'
    BY <1>1, <1>2, <1>d, <2>1, <2>2 DEF IndInv, TypeOK, UType, StartOK, EndOK, PhaseOK, Passing
  <2>6. BodyOK'
    BY <1>1, <1>2, <1>d, <2>1, <2>2 DEF IndInv, TypeOK, UType, EndOK, PhaseOK, Passing, BodyOK,
           AllOfIt
  <2>7. PeersBalanced'
    BY <1>1, <1>2, <1>d, <2>1, <2>2 DEF IndInv, TypeOK, UType, StartOK, EndOK, PeersBalanced
  <2>8. ASSUME Plain, TimersOK PROVE TimersOK'
    BY <1>1, <1>2, <1>d, <2>1, <2>2, <2>8 DEF IndInv, TypeOK, UType, StartOK, Nothing, EndOK,
           PhaseOK, Passing, Plain, TimersOK, WaitHasTimer, Live, Idle, Ended
  <2> QED
    BY <2>3, <2>4, <2>5, <2>6, <2>7, <2>8, <2>9 DEF Kept, IndInv
<1> QED
  BY <1>a, <1>b, <1>c, <1>d DEF WriteEvent

(* WriteTimeout: another peer, or the end of a switched protocol. *)
LEMMA WriteTimeoutKept == ASSUME Settings, IndInv, WriteTimeout PROVE Kept
<1>1. call = << >> /\ Top = "none" /\ Below = << >> /\ out.final = 0
  BY DEF WriteTimeout, Live, Idle, Top, Below
<1>2. UNCHANGED <<P, client, out>>
  BY DEF WriteTimeout
<1>3. u \in UType({u.d})
  BY DEF IndInv, TypeOK
<1>4. out \in OType /\ client \in {"ok", "gone", "error"}
  BY DEF IndInv, TypeOK
<1>a. CASE /\ u.conn
           /\ u.wt
           /\ u' = [u EXCEPT !.wt = FALSE]
           /\ u.wh = "send"
           /\ call' = GoNext("timeout")
  <2>1. call' # << >> /\ Top' = "next" /\ Arg' = "timeout" /\ Below' = << >>
    BY <1>1, <1>a, Call2 DEF GoNext
  <2>2. u' \in UType({u'.d})
    BY <1>3, <1>2, <1>a DEF UType
  <2>3. TypeOK'
    BY <1>4, <1>2, <1>a, <2>1, <2>2 DEF TypeOK
  <2>9. StackOK'
    BY <1>1, <1>2, <1>a, <2>1, <2>2 DEF IndInv, TypeOK, UType, StackOK
  <2>4. StartOK' /\ EndOK'
    BY <1>1, <1>2, <1>a, <2>1, <2>2 DEF IndInv, TypeOK, UType, StackOK, StartOK, EndOK, Nothing, U0,
           Out0
  <2>5. PhaseOK'
    BY <1>1, <1>2, <1>a, <2>1, <2>2 DEF IndInv, TypeOK, UType, StartOK, EndOK, PhaseOK, Passing
  <2>6. BodyOK'
    BY <1>1, <1>2, <1>a, <2>1, <2>2 DEF IndInv, TypeOK, UType, EndOK, PhaseOK, Passing, BodyOK,
           AllOfIt
  <2>7. PeersBalanced'
    BY <1>1, <1>2, <1>a, <2>1, <2>2 DEF IndInv, TypeOK, UType, StartOK, EndOK, PeersBalanced
  <2>8. ASSUME Plain, TimersOK PROVE TimersOK'
    BY <1>1, <1>2, <1>a, <2>1, <2>2, <2>8 DEF IndInv, TypeOK, UType, StartOK, Nothing, EndOK,
           PhaseOK, Passing, Plain, TimersOK, WaitHasTimer, Live, Idle, Ended
  <2> QED
    BY <2>3, <2>4, <2>5, <2>6, <2>7, <2>8, <2>9 DEF Kept, IndInv
<1>b. CASE u.conn /\ u.wt /\ u' = [u EXCEPT !.wt = FALSE] /\ u.wh = "ssl" /\ call' = GoNext("error")
  <2>1. call' # << >> /\ Top' = "next" /\ Arg' = "error" /\ Below' = << >>
    BY <1>1, <1>b, Call2 DEF GoNext
  <2>2. u' \in UType({u'.d})
    BY <1>3, <1>2, <1>b DEF UType
  <2>3. TypeOK'
    BY <1>4, <1>2, <1>b, <2>1, <2>2 DEF TypeOK
  <2>9. StackOK'
    BY <1>1, <1>2, <1>b, <2>1, <2>2 DEF IndInv, TypeOK, UType, StackOK
  <2>4. StartOK' /\ EndOK'
    BY <1>1, <1>2, <1>b, <2>1, <2>2 DEF IndInv, TypeOK, UType, StackOK, StartOK, EndOK, Nothing, U0,
           Out0
  <2>5. PhaseOK'
    BY <1>1, <1>2, <1>b, <2>1, <2>2 DEF IndInv, TypeOK, UType, StartOK, EndOK, PhaseOK, Passing
  <2>6. BodyOK'
    BY <1>1, <1>2, <1>b, <2>1, <2>2 DEF IndInv, TypeOK, UType, EndOK, PhaseOK, Passing, BodyOK,
           AllOfIt
  <2>7. PeersBalanced'
    BY <1>1, <1>2, <1>b, <2>1, <2>2 DEF IndInv, TypeOK, UType, StartOK, EndOK, PeersBalanced
  <2>8. ASSUME Plain, TimersOK PROVE TimersOK'
    BY <1>1, <1>2, <1>b, <2>1, <2>2, <2>8 DEF IndInv, TypeOK, UType, StartOK, Nothing, EndOK,
           PhaseOK, Passing, Plain, TimersOK, WaitHasTimer, Live, Idle, Ended
  <2> QED
    BY <2>3, <2>4, <2>5, <2>6, <2>7, <2>8, <2>9 DEF Kept, IndInv
<1>c. CASE /\ u.conn
           /\ u.wt
           /\ u' = [u EXCEPT !.wt = FALSE]
           /\ u.wh = "upgraded"
           /\ call' = Finalize(504)
  <2>1. call' # << >> /\ Top' = "finalize" /\ Arg' = 504 /\ Below' = << >>
    BY <1>1, <1>c, Call2 DEF Finalize
  <2>2. u' \in UType({u'.d})
    BY <1>3, <1>2, <1>c DEF UType, DECLINED
  <2>3. TypeOK'
    BY <1>4, <1>2, <1>c, <2>1, <2>2 DEF TypeOK, DECLINED
  <2>9. StackOK'
    BY <1>1, <1>2, <1>c, <2>1, <2>2 DEF IndInv, TypeOK, UType, StackOK, DECLINED
  <2>4. StartOK' /\ EndOK'
    BY <1>1, <1>2, <1>c, <2>1, <2>2 DEF IndInv, TypeOK, UType, StackOK, StartOK, EndOK, Nothing, U0,
           Out0, DECLINED
  <2>5. PhaseOK'
    BY <1>1, <1>2, <1>c, <2>1, <2>2 DEF IndInv, TypeOK, UType, StartOK, EndOK, PhaseOK, Passing,
           DECLINED
  <2>6. BodyOK'
    BY <1>1, <1>2, <1>c, <2>1, <2>2 DEF IndInv, TypeOK, UType, EndOK, PhaseOK, Passing, BodyOK,
           AllOfIt, DECLINED
  <2>7. PeersBalanced'
    BY <1>1, <1>2, <1>c, <2>1, <2>2 DEF IndInv, TypeOK, UType, StartOK, EndOK, PeersBalanced,
           DECLINED
  <2>8. ASSUME Plain, TimersOK PROVE TimersOK'
    BY <1>1, <1>2, <1>c, <2>1, <2>2, <2>8 DEF IndInv, TypeOK, UType, StartOK, Nothing, EndOK,
           PhaseOK, Passing, Plain, TimersOK, WaitHasTimer, Live, Idle, Ended, DECLINED
  <2> QED
    BY <2>3, <2>4, <2>5, <2>6, <2>7, <2>8, <2>9 DEF Kept, IndInv
<1>d. CASE /\ u.conn
           /\ u.wt
           /\ u' = [u EXCEPT !.wt = FALSE]
           /\ u.wh \notin {"send", "ssl", "upgraded"}
           /\ call' = << >>
  <2>1. call' = << >> /\ Top' = "none" /\ Below' = << >>
    BY <1>1, <1>d, Call0
  <2>2. u' \in UType({u'.d})
    BY <1>3, <1>2, <1>d DEF UType
  <2>3. TypeOK'
    BY <1>4, <1>2, <1>d, <2>1, <2>2 DEF TypeOK
  <2>9. StackOK'
    BY <1>1, <1>2, <1>d, <2>1, <2>2 DEF IndInv, TypeOK, UType, StackOK
  <2>4. StartOK' /\ EndOK'
    BY <1>1, <1>2, <1>d, <2>1, <2>2 DEF IndInv, TypeOK, UType, StackOK, StartOK, EndOK, Nothing, U0,
           Out0
  <2>5. PhaseOK'
    BY <1>1, <1>2, <1>d, <2>1, <2>2 DEF IndInv, TypeOK, UType, StartOK, EndOK, PhaseOK, Passing
  <2>6. BodyOK'
    BY <1>1, <1>2, <1>d, <2>1, <2>2 DEF IndInv, TypeOK, UType, EndOK, PhaseOK, Passing, BodyOK,
           AllOfIt
  <2>7. PeersBalanced'
    BY <1>1, <1>2, <1>d, <2>1, <2>2 DEF IndInv, TypeOK, UType, StartOK, EndOK, PeersBalanced
  <2>8. ASSUME Plain, TimersOK PROVE TimersOK'
    BY <1>1, <1>2, <1>d, <2>1, <2>2, <2>8 DEF IndInv, TypeOK, UType, StartOK, Nothing, EndOK,
           PhaseOK, Passing, Plain, TimersOK, WaitHasTimer, Live, Idle, Ended
  <2> QED
    BY <2>3, <2>4, <2>5, <2>6, <2>7, <2>8, <2>9 DEF Kept, IndInv
<1> QED
  BY <1>a, <1>b, <1>c, <1>d DEF WriteTimeout

(* ReadEvent: the handler of the phase that the connection is in. *)
LEMMA ReadEventKept == ASSUME Settings, IndInv, ReadEvent PROVE Kept
<1>1. call = << >> /\ Top = "none" /\ Below = << >> /\ out.final = 0
  BY DEF ReadEvent, Live, Idle, Top, Below
<1>2. UNCHANGED <<P, client, out, u>>
  BY DEF ReadEvent
<1>3. u \in UType({u.d})
  BY DEF IndInv, TypeOK
<1>4. out \in OType /\ client \in {"ok", "gone", "error"}
  BY DEF IndInv, TypeOK
<1>a. CASE u.conn /\ u' = u /\ u.rh = "header" /\ call' = <<<<"process_header">>>>
  <2>1. call' # << >> /\ Top' = "process_header" /\ Below' = << >>
    BY <1>1, <1>a, Call1
  <2>2. u' \in UType({u'.d})
    BY <1>3, <1>2, <1>a DEF UType
  <2>3. TypeOK'
    BY <1>4, <1>2, <1>a, <2>1, <2>2 DEF TypeOK
  <2>9. StackOK'
    BY <1>1, <1>2, <1>a, <2>1, <2>2 DEF IndInv, TypeOK, UType, StackOK
  <2>4. StartOK' /\ EndOK'
    BY <1>1, <1>2, <1>a, <2>1, <2>2 DEF IndInv, TypeOK, UType, StackOK, StartOK, EndOK, Nothing, U0,
           Out0
  <2>5. PhaseOK'
    BY <1>1, <1>2, <1>a, <2>1, <2>2 DEF IndInv, TypeOK, UType, StartOK, EndOK, PhaseOK, Passing
  <2>6. BodyOK'
    BY <1>1, <1>2, <1>a, <2>1, <2>2 DEF IndInv, TypeOK, UType, EndOK, PhaseOK, Passing, BodyOK,
           AllOfIt
  <2>7. PeersBalanced'
    BY <1>1, <1>2, <1>a, <2>1, <2>2 DEF IndInv, TypeOK, UType, StartOK, EndOK, PeersBalanced
  <2>8. ASSUME Plain, TimersOK PROVE TimersOK'
    BY <1>1, <1>2, <1>a, <2>1, <2>2, <2>8 DEF IndInv, TypeOK, UType, StartOK, Nothing, EndOK,
           PhaseOK, Passing, Plain, TimersOK, WaitHasTimer, Live, Idle, Ended
  <2> QED
    BY <2>3, <2>4, <2>5, <2>6, <2>7, <2>8, <2>9 DEF Kept, IndInv
<1>b. CASE u.conn /\ u' = u /\ u.rh = "memory" /\ call' = <<<<"process_body_in_memory">>>>
  <2>1. call' # << >> /\ Top' = "process_body_in_memory" /\ Below' = << >>
    BY <1>1, <1>b, Call1
  <2>2. u' \in UType({u'.d})
    BY <1>3, <1>2, <1>b DEF UType
  <2>3. TypeOK'
    BY <1>4, <1>2, <1>b, <2>1, <2>2 DEF TypeOK
  <2>9. StackOK'
    BY <1>1, <1>2, <1>b, <2>1, <2>2 DEF IndInv, TypeOK, UType, StackOK
  <2>4. StartOK' /\ EndOK'
    BY <1>1, <1>2, <1>b, <2>1, <2>2 DEF IndInv, TypeOK, UType, StackOK, StartOK, EndOK, Nothing, U0,
           Out0
  <2>5. PhaseOK'
    BY <1>1, <1>2, <1>b, <2>1, <2>2 DEF IndInv, TypeOK, UType, StartOK, EndOK, PhaseOK, Passing
  <2>6. BodyOK'
    BY <1>1, <1>2, <1>b, <2>1, <2>2 DEF IndInv, TypeOK, UType, EndOK, PhaseOK, Passing, BodyOK,
           AllOfIt
  <2>7. PeersBalanced'
    BY <1>1, <1>2, <1>b, <2>1, <2>2 DEF IndInv, TypeOK, UType, StartOK, EndOK, PeersBalanced
  <2>8. ASSUME Plain, TimersOK PROVE TimersOK'
    BY <1>1, <1>2, <1>b, <2>1, <2>2, <2>8 DEF IndInv, TypeOK, UType, StartOK, Nothing, EndOK,
           PhaseOK, Passing, Plain, TimersOK, WaitHasTimer, Live, Idle, Ended
  <2> QED
    BY <2>3, <2>4, <2>5, <2>6, <2>7, <2>8, <2>9 DEF Kept, IndInv
<1>c. CASE u.conn /\ u' = u /\ u.rh = "plain" /\ call' = <<<<"non_buffered", FALSE>>>>
  <2>1. call' # << >> /\ Top' = "non_buffered" /\ Arg' = FALSE /\ Below' = << >>
    BY <1>1, <1>c, CallB
  <2>2. u' \in UType({u'.d})
    BY <1>3, <1>2, <1>c DEF UType
  <2>3. TypeOK'
    BY <1>4, <1>2, <1>c, <2>1, <2>2 DEF TypeOK
  <2>9. StackOK'
    BY <1>1, <1>2, <1>c, <2>1, <2>2 DEF IndInv, TypeOK, UType, StackOK
  <2>4. StartOK' /\ EndOK'
    BY <1>1, <1>2, <1>c, <2>1, <2>2 DEF IndInv, TypeOK, UType, StackOK, StartOK, EndOK, Nothing, U0,
           Out0
  <2>5. PhaseOK'
    BY <1>1, <1>2, <1>c, <2>1, <2>2 DEF IndInv, TypeOK, UType, StartOK, EndOK, PhaseOK, Passing
  <2>6. BodyOK'
    BY <1>1, <1>2, <1>c, <2>1, <2>2 DEF IndInv, TypeOK, UType, EndOK, PhaseOK, Passing, BodyOK,
           AllOfIt
  <2>7. PeersBalanced'
    BY <1>1, <1>2, <1>c, <2>1, <2>2 DEF IndInv, TypeOK, UType, StartOK, EndOK, PeersBalanced
  <2>8. ASSUME Plain, TimersOK PROVE TimersOK'
    BY <1>1, <1>2, <1>c, <2>1, <2>2, <2>8 DEF IndInv, TypeOK, UType, StartOK, Nothing, EndOK,
           PhaseOK, Passing, Plain, TimersOK, WaitHasTimer, Live, Idle, Ended
  <2> QED
    BY <2>3, <2>4, <2>5, <2>6, <2>7, <2>8, <2>9 DEF Kept, IndInv
<1>d. CASE u.conn /\ u' = u /\ u.rh = "pipe" /\ call' = <<<<"pipe">>>>
  <2>1. call' # << >> /\ Top' = "pipe" /\ Below' = << >>
    BY <1>1, <1>d, Call1
  <2>2. u' \in UType({u'.d})
    BY <1>3, <1>2, <1>d DEF UType
  <2>3. TypeOK'
    BY <1>4, <1>2, <1>d, <2>1, <2>2 DEF TypeOK
  <2>9. StackOK'
    BY <1>1, <1>2, <1>d, <2>1, <2>2 DEF IndInv, TypeOK, UType, StackOK
  <2>4. StartOK' /\ EndOK'
    BY <1>1, <1>2, <1>d, <2>1, <2>2 DEF IndInv, TypeOK, UType, StackOK, StartOK, EndOK, Nothing, U0,
           Out0
  <2>5. PhaseOK'
    BY <1>1, <1>2, <1>d, <2>1, <2>2 DEF IndInv, TypeOK, UType, StartOK, EndOK, PhaseOK, Passing
  <2>6. BodyOK'
    BY <1>1, <1>2, <1>d, <2>1, <2>2 DEF IndInv, TypeOK, UType, EndOK, PhaseOK, Passing, BodyOK,
           AllOfIt
  <2>7. PeersBalanced'
    BY <1>1, <1>2, <1>d, <2>1, <2>2 DEF IndInv, TypeOK, UType, StartOK, EndOK, PeersBalanced
  <2>8. ASSUME Plain, TimersOK PROVE TimersOK'
    BY <1>1, <1>2, <1>d, <2>1, <2>2, <2>8 DEF IndInv, TypeOK, UType, StartOK, Nothing, EndOK,
           PhaseOK, Passing, Plain, TimersOK, WaitHasTimer, Live, Idle, Ended
  <2> QED
    BY <2>3, <2>4, <2>5, <2>6, <2>7, <2>8, <2>9 DEF Kept, IndInv
<1>e. CASE u.conn /\ u' = u /\ u.rh = "upgraded" /\ call' = <<<<"process_upgraded", TRUE>>>>
  <2>1. call' # << >> /\ Top' = "process_upgraded" /\ Arg' = TRUE /\ Below' = << >>
    BY <1>1, <1>e, CallB
  <2>2. u' \in UType({u'.d})
    BY <1>3, <1>2, <1>e DEF UType
  <2>3. TypeOK'
    BY <1>4, <1>2, <1>e, <2>1, <2>2 DEF TypeOK
  <2>9. StackOK'
    BY <1>1, <1>2, <1>e, <2>1, <2>2 DEF IndInv, TypeOK, UType, StackOK
  <2>4. StartOK' /\ EndOK'
    BY <1>1, <1>2, <1>e, <2>1, <2>2 DEF IndInv, TypeOK, UType, StackOK, StartOK, EndOK, Nothing, U0,
           Out0
  <2>5. PhaseOK'
    BY <1>1, <1>2, <1>e, <2>1, <2>2 DEF IndInv, TypeOK, UType, StartOK, EndOK, PhaseOK, Passing
  <2>6. BodyOK'
    BY <1>1, <1>2, <1>e, <2>1, <2>2 DEF IndInv, TypeOK, UType, EndOK, PhaseOK, Passing, BodyOK,
           AllOfIt
  <2>7. PeersBalanced'
    BY <1>1, <1>2, <1>e, <2>1, <2>2 DEF IndInv, TypeOK, UType, StartOK, EndOK, PeersBalanced
  <2>8. ASSUME Plain, TimersOK PROVE TimersOK'
    BY <1>1, <1>2, <1>e, <2>1, <2>2, <2>8 DEF IndInv, TypeOK, UType, StartOK, Nothing, EndOK,
           PhaseOK, Passing, Plain, TimersOK, WaitHasTimer, Live, Idle, Ended
  <2> QED
    BY <2>3, <2>4, <2>5, <2>6, <2>7, <2>8, <2>9 DEF Kept, IndInv
<1>p. u.rh \in {"none", "header", "ssl", "memory", "plain", "pipe", "upgraded"}
  BY <1>3 DEF UType
<1> QED
  BY <1>2, <1>p, <1>a, <1>b, <1>c, <1>d, <1>e DEF ReadEvent

(* ReadTimeout: another peer while the header is awaited, the end of the body later. *)
LEMMA ReadTimeoutKept == ASSUME Settings, IndInv, ReadTimeout PROVE Kept
<1>1. call = << >> /\ Top = "none" /\ Below = << >> /\ out.final = 0
  BY DEF ReadTimeout, Live, Idle, Top, Below
<1>2. UNCHANGED <<P, client, out>>
  BY DEF ReadTimeout
<1>3. u \in UType({u.d})
  BY DEF IndInv, TypeOK
<1>4. out \in OType /\ client \in {"ok", "gone", "error"}
  BY DEF IndInv, TypeOK
<1>a. CASE /\ u.conn
           /\ u.rt
           /\ u' = [u EXCEPT !.rt = FALSE, !.err = (u.rh = "pipe") \/ @]
           /\ u.rh = "header"
           /\ call' = GoNext("timeout")
  <2>1. call' # << >> /\ Top' = "next" /\ Arg' = "timeout" /\ Below' = << >>
    BY <1>1, <1>a, Call2 DEF GoNext
  <2> DEFINE new_err == (u.rh = "pipe") \/ u.err
  <2>t. new_err \in BOOLEAN
    BY <1>3, <1>4, <1>1, <1>a DEF IndInv, TypeOK, UType
  <2>a. u.rh = "header" /\ u.conn /\ new_err = u.err
    BY <1>1, <1>2, <1>a DEF IndInv, TypeOK, UType
  <2>b. u' = [u EXCEPT !.rt = FALSE, !.err = new_err]
    BY <1>2, <1>a DEF IndInv, TypeOK, UType
  <2> HIDE DEF new_err
  <2>2. u' \in UType({u'.d})
    <3> DEFINE v1 == [u EXCEPT !.rt = FALSE]
    <3> DEFINE v2 == [v1 EXCEPT !.err = new_err]
    <3>x. u' = v2
      BY <1>3, <2>t, <2>b DEF UType
    <3> HIDE DEF v1, v2
    <3>1. v1 \in UType({u.d})
      BY <1>3, <2>t DEF v1, UType
    <3>2. v2 \in UType({u.d})
      BY <3>1, <2>t DEF v2, UType
    <3> QED
      BY <3>x, <3>2, SameData
  <2>3. TypeOK'
    BY <1>4, <1>2, <2>t, <2>1, <2>2, <2>a DEF TypeOK
  <2>9. StackOK'
    BY <1>1, <1>2, <2>t, <2>a, <2>b, <2>1, <2>2 DEF IndInv, TypeOK, UType, StackOK
  <2>4. StartOK' /\ EndOK'
    BY <1>1, <1>2, <2>t, <2>a, <2>b, <2>1, <2>2 DEF IndInv, TypeOK, UType, StackOK, StartOK, EndOK,
           Nothing, U0, Out0
  <2>5. PhaseOK'
    BY <1>1, <1>2, <2>t, <2>a, <2>b, <2>1, <2>2 DEF IndInv, TypeOK, UType, StartOK, EndOK, PhaseOK,
           Passing
  <2>6. BodyOK'
    BY <1>1, <1>2, <2>t, <2>a, <2>b, <2>1, <2>2 DEF IndInv, TypeOK, UType, EndOK, PhaseOK, Passing,
           BodyOK, AllOfIt
  <2>7. PeersBalanced'
    BY <1>1, <1>2, <2>t, <2>a, <2>b, <2>1, <2>2 DEF IndInv, TypeOK, UType, StartOK, EndOK,
           PeersBalanced
  <2>8. ASSUME Plain, TimersOK PROVE TimersOK'
    BY <1>1, <1>2, <2>t, <2>a, <2>b, <2>1, <2>2, <2>8
       DEF IndInv, TypeOK, UType, StartOK, Nothing, EndOK, PhaseOK, Passing, Plain, TimersOK,
           WaitHasTimer, Live, Idle, Ended
  <2> QED
    BY <2>3, <2>4, <2>5, <2>6, <2>7, <2>8, <2>9 DEF Kept, IndInv
<1>b. CASE /\ u.conn
           /\ u.rt
           /\ u' = [u EXCEPT !.rt = FALSE, !.err = (u.rh = "pipe") \/ @]
           /\ u.rh = "pipe"
           /\ call' = <<<<"process_request">>>>
  <2>1. call' # << >> /\ Top' = "process_request" /\ Below' = << >>
    BY <1>1, <1>b, Call1
  <2> DEFINE new_err == (u.rh = "pipe") \/ u.err
  <2>t. new_err \in BOOLEAN
    BY <1>3, <1>4, <1>1, <1>b DEF IndInv, TypeOK, UType
  <2>a. u.rh = "pipe" /\ u.conn /\ new_err = TRUE
    BY <1>1, <1>2, <1>b DEF IndInv, TypeOK, UType
  <2>b. u' = [u EXCEPT !.rt = FALSE, !.err = new_err]
    BY <1>2, <1>b DEF IndInv, TypeOK, UType
  <2> HIDE DEF new_err
  <2>2. u' \in UType({u'.d})
    <3> DEFINE v1 == [u EXCEPT !.rt = FALSE]
    <3> DEFINE v2 == [v1 EXCEPT !.err = new_err]
    <3>x. u' = v2
      BY <1>3, <2>t, <2>b DEF UType
    <3> HIDE DEF v1, v2
    <3>1. v1 \in UType({u.d})
      BY <1>3, <2>t DEF v1, UType
    <3>2. v2 \in UType({u.d})
      BY <3>1, <2>t DEF v2, UType
    <3> QED
      BY <3>x, <3>2, SameData
  <2>3. TypeOK'
    BY <1>4, <1>2, <2>t, <2>1, <2>2, <2>a DEF TypeOK
  <2>9. StackOK'
    BY <1>1, <1>2, <2>t, <2>a, <2>b, <2>1, <2>2 DEF IndInv, TypeOK, UType, StackOK
  <2>4. StartOK' /\ EndOK'
    BY <1>1, <1>2, <2>t, <2>a, <2>b, <2>1, <2>2 DEF IndInv, TypeOK, UType, StackOK, StartOK, EndOK,
           Nothing, U0, Out0
  <2>5. PhaseOK'
    BY <1>1, <1>2, <2>t, <2>a, <2>b, <2>1, <2>2 DEF IndInv, TypeOK, UType, StartOK, EndOK, PhaseOK,
           Passing
  <2>6. BodyOK'
    BY <1>1, <1>2, <2>t, <2>a, <2>b, <2>1, <2>2 DEF IndInv, TypeOK, UType, EndOK, PhaseOK, Passing,
           BodyOK, AllOfIt
  <2>7. PeersBalanced'
    BY <1>1, <1>2, <2>t, <2>a, <2>b, <2>1, <2>2 DEF IndInv, TypeOK, UType, StartOK, EndOK,
           PeersBalanced
  <2>8. ASSUME Plain, TimersOK PROVE TimersOK'
    BY <1>1, <1>2, <2>t, <2>a, <2>b, <2>1, <2>2, <2>8
       DEF IndInv, TypeOK, UType, StartOK, Nothing, EndOK, PhaseOK, Passing, Plain, TimersOK,
           WaitHasTimer, Live, Idle, Ended
  <2> QED
    BY <2>3, <2>4, <2>5, <2>6, <2>7, <2>8, <2>9 DEF Kept, IndInv
<1>c. CASE /\ u.conn
           /\ u.rt
           /\ u' = [u EXCEPT !.rt = FALSE, !.err = (u.rh = "pipe") \/ @]
           /\ u.rh \notin {"header", "pipe"}
           /\ call' = Finalize(504)
  <2>1. call' # << >> /\ Top' = "finalize" /\ Arg' = 504 /\ Below' = << >>
    BY <1>1, <1>c, Call2 DEF Finalize
  <2> DEFINE new_err == (u.rh = "pipe") \/ u.err
  <2>t. new_err \in BOOLEAN
    BY <1>3, <1>4, <1>1, <1>c DEF IndInv, TypeOK, UType
  <2>a. u.rh # "header" /\ u.rh # "pipe" /\ u.conn /\ new_err = u.err
    BY <1>1, <1>2, <1>c DEF IndInv, TypeOK, UType
  <2>b. u' = [u EXCEPT !.rt = FALSE, !.err = new_err]
    BY <1>2, <1>c DEF IndInv, TypeOK, UType
  <2> HIDE DEF new_err
  <2>2. u' \in UType({u'.d})
    <3> DEFINE v1 == [u EXCEPT !.rt = FALSE]
    <3> DEFINE v2 == [v1 EXCEPT !.err = new_err]
    <3>x. u' = v2
      BY <1>3, <2>t, <2>b DEF UType
    <3> HIDE DEF v1, v2
    <3>1. v1 \in UType({u.d})
      BY <1>3, <2>t DEF v1, UType, DECLINED
    <3>2. v2 \in UType({u.d})
      BY <3>1, <2>t DEF v2, UType, DECLINED
    <3> QED
      BY <3>x, <3>2, SameData
  <2>3. TypeOK'
    BY <1>4, <1>2, <2>t, <2>1, <2>2, <2>a DEF TypeOK, DECLINED
  <2>9. StackOK'
    BY <1>1, <1>2, <2>t, <2>a, <2>b, <2>1, <2>2 DEF IndInv, TypeOK, UType, StackOK, DECLINED
  <2>4. StartOK' /\ EndOK'
    BY <1>1, <1>2, <2>t, <2>a, <2>b, <2>1, <2>2 DEF IndInv, TypeOK, UType, StackOK, StartOK, EndOK,
           Nothing, U0, Out0, DECLINED
  <2>5. PhaseOK'
    BY <1>1, <1>2, <2>t, <2>a, <2>b, <2>1, <2>2 DEF IndInv, TypeOK, UType, StartOK, EndOK, PhaseOK,
           Passing, DECLINED
  <2>6. BodyOK'
    BY <1>1, <1>2, <2>t, <2>a, <2>b, <2>1, <2>2 DEF IndInv, TypeOK, UType, EndOK, PhaseOK, Passing,
           BodyOK, AllOfIt, DECLINED
  <2>7. PeersBalanced'
    BY <1>1, <1>2, <2>t, <2>a, <2>b, <2>1, <2>2 DEF IndInv, TypeOK, UType, StartOK, EndOK,
           PeersBalanced, DECLINED
  <2>8. ASSUME Plain, TimersOK PROVE TimersOK'
    BY <1>1, <1>2, <2>t, <2>a, <2>b, <2>1, <2>2, <2>8
       DEF IndInv, TypeOK, UType, StartOK, Nothing, EndOK, PhaseOK, Passing, Plain, TimersOK,
           WaitHasTimer, Live, Idle, Ended, DECLINED
  <2> QED
    BY <2>3, <2>4, <2>5, <2>6, <2>7, <2>8, <2>9 DEF Kept, IndInv
<1> QED
  BY <1>a, <1>b, <1>c DEF ReadTimeout

(* ClientWritable: the body goes on. *)
LEMMA ClientWritableKept == ASSUME Settings, IndInv, ClientWritable PROVE Kept
<1>1. call = << >> /\ Top = "none" /\ Below = << >> /\ out.final = 0
  BY DEF ClientWritable, Live, Idle, Top, Below
<1>2. UNCHANGED <<P, client, out>>
  BY DEF ClientWritable
<1>3. u \in UType({u.d})
  BY DEF IndInv, TypeOK
<1>4. out \in OType /\ client \in {"ok", "gone", "error"}
  BY DEF IndInv, TypeOK
<1>a. CASE u.conn /\ u.ct # "off" /\ u' = u /\ u.rh = "pipe" /\ call' = <<<<"pipe">>>>
  <2>1. call' # << >> /\ Top' = "pipe" /\ Below' = << >>
    BY <1>1, <1>a, Call1
  <2>2. u' \in UType({u'.d})
    BY <1>3, <1>2, <1>a DEF UType
  <2>3. TypeOK'
    BY <1>4, <1>2, <1>a, <2>1, <2>2 DEF TypeOK
  <2>9. StackOK'
    BY <1>1, <1>2, <1>a, <2>1, <2>2 DEF IndInv, TypeOK, UType, StackOK
  <2>4. StartOK' /\ EndOK'
    BY <1>1, <1>2, <1>a, <2>1, <2>2 DEF IndInv, TypeOK, UType, StackOK, StartOK, EndOK, Nothing, U0,
           Out0
  <2>5. PhaseOK'
    BY <1>1, <1>2, <1>a, <2>1, <2>2 DEF IndInv, TypeOK, UType, StartOK, EndOK, PhaseOK, Passing
  <2>6. BodyOK'
    BY <1>1, <1>2, <1>a, <2>1, <2>2 DEF IndInv, TypeOK, UType, EndOK, PhaseOK, Passing, BodyOK,
           AllOfIt
  <2>7. PeersBalanced'
    BY <1>1, <1>2, <1>a, <2>1, <2>2 DEF IndInv, TypeOK, UType, StartOK, EndOK, PeersBalanced
  <2>8. ASSUME Plain, TimersOK PROVE TimersOK'
    BY <1>1, <1>2, <1>a, <2>1, <2>2, <2>8 DEF IndInv, TypeOK, UType, StartOK, Nothing, EndOK,
           PhaseOK, Passing, Plain, TimersOK, WaitHasTimer, Live, Idle, Ended
  <2> QED
    BY <2>3, <2>4, <2>5, <2>6, <2>7, <2>8, <2>9 DEF Kept, IndInv
<1>b. CASE /\ u.conn
           /\ u.ct # "off"
           /\ u' = u
           /\ u.rh = "plain"
           /\ call' = <<<<"non_buffered", TRUE>>>>
  <2>1. call' # << >> /\ Top' = "non_buffered" /\ Arg' = TRUE /\ Below' = << >>
    BY <1>1, <1>b, CallB
  <2>2. u' \in UType({u'.d})
    BY <1>3, <1>2, <1>b DEF UType
  <2>3. TypeOK'
    BY <1>4, <1>2, <1>b, <2>1, <2>2 DEF TypeOK
  <2>9. StackOK'
    BY <1>1, <1>2, <1>b, <2>1, <2>2 DEF IndInv, TypeOK, UType, StackOK
  <2>4. StartOK' /\ EndOK'
    BY <1>1, <1>2, <1>b, <2>1, <2>2 DEF IndInv, TypeOK, UType, StackOK, StartOK, EndOK, Nothing, U0,
           Out0
  <2>5. PhaseOK'
    BY <1>1, <1>2, <1>b, <2>1, <2>2 DEF IndInv, TypeOK, UType, StartOK, EndOK, PhaseOK, Passing
  <2>6. BodyOK'
    BY <1>1, <1>2, <1>b, <2>1, <2>2 DEF IndInv, TypeOK, UType, EndOK, PhaseOK, Passing, BodyOK,
           AllOfIt
  <2>7. PeersBalanced'
    BY <1>1, <1>2, <1>b, <2>1, <2>2 DEF IndInv, TypeOK, UType, StartOK, EndOK, PeersBalanced
  <2>8. ASSUME Plain, TimersOK PROVE TimersOK'
    BY <1>1, <1>2, <1>b, <2>1, <2>2, <2>8 DEF IndInv, TypeOK, UType, StartOK, Nothing, EndOK,
           PhaseOK, Passing, Plain, TimersOK, WaitHasTimer, Live, Idle, Ended
  <2> QED
    BY <2>3, <2>4, <2>5, <2>6, <2>7, <2>8, <2>9 DEF Kept, IndInv
<1> QED
  BY <1>a, <1>b DEF ClientWritable

(* ClientTimeout: the client took nothing for too long. *)
LEMMA ClientTimeoutKept == ASSUME Settings, IndInv, ClientTimeout PROVE Kept
<1>1. call = << >> /\ Top = "none" /\ Below = << >> /\ out.final = 0
  BY DEF ClientTimeout, Live, Idle, Top, Below
<1>2. UNCHANGED <<P, client, out>>
  BY DEF ClientTimeout
<1>3. u \in UType({u.d})
  BY DEF IndInv, TypeOK
<1>4. out \in OType /\ client \in {"ok", "gone", "error"}
  BY DEF IndInv, TypeOK
<1>a. CASE /\ u.conn
           /\ u.ct = "send"
           /\ u' = [u EXCEPT !.ct = "off", !.derr = (u.rh = "pipe") \/ @]
           /\ u.rh = "pipe"
           /\ call' = <<<<"process_request">>>>
  <2>1. call' # << >> /\ Top' = "process_request" /\ Below' = << >>
    BY <1>1, <1>a, Call1
  <2> DEFINE new_derr == (u.rh = "pipe") \/ u.derr
  <2>t. new_derr \in BOOLEAN
    BY <1>3, <1>4, <1>1, <1>a DEF IndInv, TypeOK, UType
  <2>a. u.rh = "pipe" /\ u.conn /\ u.ct = "send" /\ new_derr = TRUE
    BY <1>1, <1>2, <1>a DEF IndInv, TypeOK, UType
  <2>b. u' = [u EXCEPT !.ct = "off", !.derr = new_derr]
    BY <1>2, <1>a DEF IndInv, TypeOK, UType
  <2> HIDE DEF new_derr
  <2>2. u' \in UType({u'.d})
    <3> DEFINE v1 == [u EXCEPT !.ct = "off"]
    <3> DEFINE v2 == [v1 EXCEPT !.derr = new_derr]
    <3>x. u' = v2
      BY <1>3, <2>t, <2>b DEF UType
    <3> HIDE DEF v1, v2
    <3>1. v1 \in UType({u.d})
      BY <1>3, <2>t DEF v1, UType
    <3>2. v2 \in UType({u.d})
      BY <3>1, <2>t DEF v2, UType
    <3> QED
      BY <3>x, <3>2, SameData
  <2>3. TypeOK'
    BY <1>4, <1>2, <2>t, <2>1, <2>2, <2>a DEF TypeOK
  <2>9. StackOK'
    BY <1>1, <1>2, <2>t, <2>a, <2>b, <2>1, <2>2 DEF IndInv, TypeOK, UType, StackOK
  <2>4. StartOK' /\ EndOK'
    BY <1>1, <1>2, <2>t, <2>a, <2>b, <2>1, <2>2 DEF IndInv, TypeOK, UType, StackOK, StartOK, EndOK,
           Nothing, U0, Out0
  <2>5. PhaseOK'
    BY <1>1, <1>2, <2>t, <2>a, <2>b, <2>1, <2>2 DEF IndInv, TypeOK, UType, StartOK, EndOK, PhaseOK,
           Passing
  <2>6. BodyOK'
    BY <1>1, <1>2, <2>t, <2>a, <2>b, <2>1, <2>2 DEF IndInv, TypeOK, UType, EndOK, PhaseOK, Passing,
           BodyOK, AllOfIt
  <2>7. PeersBalanced'
    BY <1>1, <1>2, <2>t, <2>a, <2>b, <2>1, <2>2 DEF IndInv, TypeOK, UType, StartOK, EndOK,
           PeersBalanced
  <2>8. ASSUME Plain, TimersOK PROVE TimersOK'
    BY <1>1, <1>2, <2>t, <2>a, <2>b, <2>1, <2>2, <2>8
       DEF IndInv, TypeOK, UType, StartOK, Nothing, EndOK, PhaseOK, Passing, Plain, TimersOK,
           WaitHasTimer, Live, Idle, Ended
  <2> QED
    BY <2>3, <2>4, <2>5, <2>6, <2>7, <2>8, <2>9 DEF Kept, IndInv
<1>b. CASE /\ u.conn
           /\ u.ct = "send"
           /\ u' = [u EXCEPT !.ct = "off", !.derr = (u.rh = "pipe") \/ @]
           /\ u.rh # "pipe"
           /\ call' = Finalize(408)
  <2>1. call' # << >> /\ Top' = "finalize" /\ Arg' = 408 /\ Below' = << >>
    BY <1>1, <1>b, Call2 DEF Finalize
  <2> DEFINE new_derr == (u.rh = "pipe") \/ u.derr
  <2>t. new_derr \in BOOLEAN
    BY <1>3, <1>4, <1>1, <1>b DEF IndInv, TypeOK, UType
  <2>a. u.rh # "pipe" /\ u.conn
    BY <1>1, <1>2, <1>b DEF IndInv, TypeOK, UType
  <2>b. u' = [u EXCEPT !.ct = "off", !.derr = new_derr]
    BY <1>2, <1>b DEF IndInv, TypeOK, UType
  <2> HIDE DEF new_derr
  <2>2. u' \in UType({u'.d})
    <3> DEFINE v1 == [u EXCEPT !.ct = "off"]
    <3> DEFINE v2 == [v1 EXCEPT !.derr = new_derr]
    <3>x. u' = v2
      BY <1>3, <2>t, <2>b DEF UType
    <3> HIDE DEF v1, v2
    <3>1. v1 \in UType({u.d})
      BY <1>3, <2>t DEF v1, UType, DECLINED
    <3>2. v2 \in UType({u.d})
      BY <3>1, <2>t DEF v2, UType, DECLINED
    <3> QED
      BY <3>x, <3>2, SameData
  <2>3. TypeOK'
    BY <1>4, <1>2, <2>t, <2>1, <2>2, <2>a DEF TypeOK, DECLINED
  <2>9. StackOK'
    BY <1>1, <1>2, <2>t, <2>a, <2>b, <2>1, <2>2 DEF IndInv, TypeOK, UType, StackOK, DECLINED
  <2>4. StartOK' /\ EndOK'
    BY <1>1, <1>2, <2>t, <2>a, <2>b, <2>1, <2>2 DEF IndInv, TypeOK, UType, StackOK, StartOK, EndOK,
           Nothing, U0, Out0, DECLINED
  <2>5. PhaseOK'
    BY <1>1, <1>2, <2>t, <2>a, <2>b, <2>1, <2>2 DEF IndInv, TypeOK, UType, StartOK, EndOK, PhaseOK,
           Passing, DECLINED
  <2>6. BodyOK'
    BY <1>1, <1>2, <2>t, <2>a, <2>b, <2>1, <2>2 DEF IndInv, TypeOK, UType, EndOK, PhaseOK, Passing,
           BodyOK, AllOfIt, DECLINED
  <2>7. PeersBalanced'
    BY <1>1, <1>2, <2>t, <2>a, <2>b, <2>1, <2>2 DEF IndInv, TypeOK, UType, StartOK, EndOK,
           PeersBalanced, DECLINED
  <2>8. ASSUME Plain, TimersOK PROVE TimersOK'
    BY <1>1, <1>2, <2>t, <2>a, <2>b, <2>1, <2>2, <2>8
       DEF IndInv, TypeOK, UType, StartOK, Nothing, EndOK, PhaseOK, Passing, Plain, TimersOK,
           WaitHasTimer, Live, Idle, Ended, DECLINED
  <2> QED
    BY <2>3, <2>4, <2>5, <2>6, <2>7, <2>8, <2>9 DEF Kept, IndInv
<1> QED
  BY <1>a, <1>b DEF ClientTimeout

(* ClientCloses: nobody notices yet. *)
LEMMA ClientClosesKept == ASSUME Settings, IndInv, ClientCloses PROVE Kept
<1>1. call = << >> /\ Top = "none" /\ Below = << >> /\ out.final = 0
  BY DEF ClientCloses, Live, Idle, Top, Below
<1>2. UNCHANGED <<P, u, out>>
  BY DEF ClientCloses
<1>3. u \in UType({u.d})
  BY DEF IndInv, TypeOK
<1>4. out \in OType /\ client \in {"ok", "gone", "error"}
  BY DEF IndInv, TypeOK
<1>a. CASE u.st # "new" /\ client' = "gone" /\ call' = << >>
  <2>1. call' = << >> /\ Top' = "none" /\ Below' = << >>
    BY <1>1, <1>a, Call0
  <2>2. u' \in UType({u'.d})
    BY <1>3, <1>2, <1>a DEF UType
  <2>3. TypeOK'
    BY <1>4, <1>2, <1>a, <2>1, <2>2 DEF TypeOK
  <2>9. StackOK'
    BY <1>1, <1>2, <1>a, <2>1, <2>2 DEF IndInv, TypeOK, UType, StackOK
  <2>4. StartOK' /\ EndOK'
    BY <1>1, <1>2, <1>a, <2>1, <2>2 DEF IndInv, TypeOK, UType, StackOK, StartOK, EndOK, Nothing, U0,
           Out0
  <2>5. PhaseOK'
    BY <1>1, <1>2, <1>a, <2>1, <2>2 DEF IndInv, TypeOK, UType, StartOK, EndOK, PhaseOK, Passing
  <2>6. BodyOK'
    BY <1>1, <1>2, <1>a, <2>1, <2>2 DEF IndInv, TypeOK, UType, EndOK, PhaseOK, Passing, BodyOK,
           AllOfIt
  <2>7. PeersBalanced'
    BY <1>1, <1>2, <1>a, <2>1, <2>2 DEF IndInv, TypeOK, UType, StartOK, EndOK, PeersBalanced
  <2>8. ASSUME Plain, TimersOK PROVE TimersOK'
    BY <1>1, <1>2, <1>a, <2>1, <2>2, <2>8 DEF IndInv, TypeOK, UType, StartOK, Nothing, EndOK,
           PhaseOK, Passing, Plain, TimersOK, WaitHasTimer, Live, Idle, Ended
  <2> QED
    BY <2>3, <2>4, <2>5, <2>6, <2>7, <2>8, <2>9 DEF Kept, IndInv
<1> QED
  BY <1>1, <1>a DEF ClientCloses

(* ClientBroken: the handler that checks the client notices. *)
LEMMA ClientBrokenKept == ASSUME Settings, IndInv, ClientBroken PROVE Kept
<1>1. call = << >> /\ Top = "none" /\ Below = << >> /\ out.final = 0
  BY DEF ClientBroken, Live, Idle, Top, Below
<1>2. UNCHANGED <<P, u, out>>
  BY DEF ClientBroken
<1>3. u \in UType({u.d})
  BY DEF IndInv, TypeOK
<1>4. out \in OType /\ client \in {"ok", "gone", "error"}
  BY DEF IndInv, TypeOK
<1>a. CASE u.check /\ client' = "error" /\ call' = Finalize(499)
  <2>1. call' # << >> /\ Top' = "finalize" /\ Arg' = 499 /\ Below' = << >>
    BY <1>1, <1>a, Call2 DEF Finalize
  <2>2. u' \in UType({u'.d})
    BY <1>3, <1>2, <1>a DEF UType, DECLINED
  <2>3. TypeOK'
    BY <1>4, <1>2, <1>a, <2>1, <2>2 DEF TypeOK, DECLINED
  <2>9. StackOK'
    BY <1>1, <1>2, <1>a, <2>1, <2>2 DEF IndInv, TypeOK, UType, StackOK, DECLINED
  <2>4. StartOK' /\ EndOK'
    BY <1>1, <1>2, <1>a, <2>1, <2>2 DEF IndInv, TypeOK, UType, StackOK, StartOK, EndOK, Nothing, U0,
           Out0, DECLINED
  <2>5. PhaseOK'
    BY <1>1, <1>2, <1>a, <2>1, <2>2 DEF IndInv, TypeOK, UType, StartOK, EndOK, PhaseOK, Passing,
           DECLINED
  <2>6. BodyOK'
    BY <1>1, <1>2, <1>a, <2>1, <2>2 DEF IndInv, TypeOK, UType, EndOK, PhaseOK, Passing, BodyOK,
           AllOfIt, DECLINED
  <2>7. PeersBalanced'
    BY <1>1, <1>2, <1>a, <2>1, <2>2 DEF IndInv, TypeOK, UType, StartOK, EndOK, PeersBalanced,
           DECLINED
  <2>8. ASSUME Plain, TimersOK PROVE TimersOK'
    BY <1>1, <1>2, <1>a, <2>1, <2>2, <2>8 DEF IndInv, TypeOK, UType, StartOK, Nothing, EndOK,
           PhaseOK, Passing, Plain, TimersOK, WaitHasTimer, Live, Idle, Ended, DECLINED
  <2> QED
    BY <2>3, <2>4, <2>5, <2>6, <2>7, <2>8, <2>9 DEF Kept, IndInv
<1>b. CASE client' = "error" /\ call' = << >>
  <2>1. call' = << >> /\ Top' = "none" /\ Below' = << >>
    BY <1>1, <1>b, Call0
  <2>2. u' \in UType({u'.d})
    BY <1>3, <1>2, <1>b DEF UType
  <2>3. TypeOK'
    BY <1>4, <1>2, <1>b, <2>1, <2>2 DEF TypeOK
  <2>9. StackOK'
    BY <1>1, <1>2, <1>b, <2>1, <2>2 DEF IndInv, TypeOK, UType, StackOK
  <2>4. StartOK' /\ EndOK'
    BY <1>1, <1>2, <1>b, <2>1, <2>2 DEF IndInv, TypeOK, UType, StackOK, StartOK, EndOK, Nothing, U0,
           Out0
  <2>5. PhaseOK'
    BY <1>1, <1>2, <1>b, <2>1, <2>2 DEF IndInv, TypeOK, UType, StartOK, EndOK, PhaseOK, Passing
  <2>6. BodyOK'
    BY <1>1, <1>2, <1>b, <2>1, <2>2 DEF IndInv, TypeOK, UType, EndOK, PhaseOK, Passing, BodyOK,
           AllOfIt
  <2>7. PeersBalanced'
    BY <1>1, <1>2, <1>b, <2>1, <2>2 DEF IndInv, TypeOK, UType, StartOK, EndOK, PeersBalanced
  <2>8. ASSUME Plain, TimersOK PROVE TimersOK'
    BY <1>1, <1>2, <1>b, <2>1, <2>2, <2>8 DEF IndInv, TypeOK, UType, StartOK, Nothing, EndOK,
           PhaseOK, Passing, Plain, TimersOK, WaitHasTimer, Live, Idle, Ended
  <2> QED
    BY <2>3, <2>4, <2>5, <2>6, <2>7, <2>8, <2>9 DEF Kept, IndInv
<1> QED
  BY <1>a, <1>b DEF ClientBroken

(* Cleanup: the request is torn down from outside. *)
LEMMA CleanupKept == ASSUME Settings, IndInv, Cleanup PROVE Kept
<1>1. call = << >> /\ Top = "none" /\ Below = << >> /\ out.final = 0
  BY DEF Cleanup, Live, Idle, Top, Below
<1>2. UNCHANGED <<P, u, client, out>>
  BY DEF Cleanup
<1>3. u \in UType({u.d})
  BY DEF IndInv, TypeOK
<1>4. out \in OType /\ client \in {"ok", "gone", "error"}
  BY DEF IndInv, TypeOK
<1>a. CASE u.cleanup /\ call' = Finalize(DONE)
  <2>1. call' # << >> /\ Top' = "finalize" /\ Arg' = DONE /\ Below' = << >>
    BY <1>1, <1>a, Call2 DEF Finalize
  <2>2. u' \in UType({u'.d})
    BY <1>3, <1>2, <1>a DEF UType, DECLINED, DONE
  <2>3. TypeOK'
    BY <1>4, <1>2, <1>a, <2>1, <2>2 DEF TypeOK, DECLINED, DONE
  <2>9. StackOK'
    BY <1>1, <1>2, <1>a, <2>1, <2>2 DEF IndInv, TypeOK, UType, StackOK, DECLINED, DONE
  <2>4. StartOK' /\ EndOK'
    BY <1>1, <1>2, <1>a, <2>1, <2>2 DEF IndInv, TypeOK, UType, StackOK, StartOK, EndOK, Nothing, U0,
           Out0, DECLINED, DONE
  <2>5. PhaseOK'
    BY <1>1, <1>2, <1>a, <2>1, <2>2 DEF IndInv, TypeOK, UType, StartOK, EndOK, PhaseOK, Passing,
           DECLINED, DONE
  <2>6. BodyOK'
    BY <1>1, <1>2, <1>a, <2>1, <2>2 DEF IndInv, TypeOK, UType, EndOK, PhaseOK, Passing, BodyOK,
           AllOfIt, DECLINED, DONE
  <2>7. PeersBalanced'
    BY <1>1, <1>2, <1>a, <2>1, <2>2 DEF IndInv, TypeOK, UType, StartOK, EndOK, PeersBalanced,
           DECLINED, DONE
  <2>8. ASSUME Plain, TimersOK PROVE TimersOK'
    BY <1>1, <1>2, <1>a, <2>1, <2>2, <2>8 DEF IndInv, TypeOK, UType, StartOK, Nothing, EndOK,
           PhaseOK, Passing, Plain, TimersOK, WaitHasTimer, Live, Idle, Ended, DECLINED, DONE
  <2> QED
    BY <2>3, <2>4, <2>5, <2>6, <2>7, <2>8, <2>9 DEF Kept, IndInv
<1> QED
  BY <1>a DEF Cleanup

(* Init: a request that has not begun. *)
LEMMA InitHolds == ASSUME Settings, Init PROVE IndInv /\ TimersOK
<1>1. u = U0 /\ client = "ok" /\ out = Out0 /\ call = << >>
  BY DEF Init
<1>2. Top = "none" /\ Below = << >>
  BY <1>1 DEF Top, Below
<1>3. u \in UType({u.d}) /\ out \in OType
  BY <1>1 DEF U0, UType, Out0, OType
<1>4. TypeOK /\ StackOK
  BY <1>1, <1>2, <1>3 DEF TypeOK, StackOK
<1>5. StartOK /\ EndOK /\ PhaseOK
  BY <1>1, <1>2, <1>3 DEF StartOK, EndOK, PhaseOK, Passing, U0, Out0
<1>6. BodyOK /\ PeersBalanced
  BY <1>1, <1>2, <1>3 DEF BodyOK, PeersBalanced, U0, Out0
<1>7. TimersOK
  BY <1>1, <1>2, <1>3 DEF TimersOK, WaitHasTimer, Live, Idle, U0, Out0
<1> QED
  BY <1>4, <1>5, <1>6, <1>7 DEF IndInv

(* Every function, by what may wait below the two that do not run alone. *)
LEMMA FunctionsKept == ASSUME Settings, IndInv, Functions PROVE Kept
<1>1. Below \in {<< >>, <<<<"redirect">>>>, <<<<"process_upgraded", FALSE>>>>}
  BY DEF IndInv, StackOK
<1>2. CASE finalize
  BY <1>1, <1>2, FinalizeKept, FinalizeRedirectKept, FinalizeUpgradedKept
<1>3. ASSUME Pending("process_upgraded") PROVE Below \in {<< >>, <<<<"process_upgraded", FALSE>>>>}
  <2>1. Top = "process_upgraded"
    BY <1>3, Run
  <2> QED
    BY <1>1, <2>1 DEF IndInv, StackOK
<1>4. CASE process_upgraded
  BY <1>3, <1>4, ProcessUpgradedKept, FirstUpgradedKept DEF process_upgraded
<1>5. CASE process_upgraded_closed
  BY <1>3, <1>5, ProcessUpgradedClosedKept, FirstUpgradedClosedKept DEF process_upgraded_closed
<1>6. CASE next
  BY <1>6, NextKept
<1>7. CASE finalize_request
  BY <1>7, FinalizeRequestKept
<1>8. CASE cache_send
  BY <1>8, CacheSendKept
<1>9. CASE init_request
  BY <1>9, InitRequestKept
<1>10. CASE connect
  BY <1>10, ConnectKept
<1>11. CASE ssl_init_connection
  BY <1>11, SslInitKept
<1>12. CASE send_request
  BY <1>12, SendRequestKept
<1>13. CASE process_header
  BY <1>13, ProcessHeaderKept
<1>14. CASE header_done
  BY <1>14, HeaderDoneKept
<1>15. CASE redirect
  BY <1>15, RedirectKept
<1>16. CASE stale_send
  BY <1>16, StaleSendKept
<1>17. CASE process_body_in_memory
  BY <1>17, ProcessBodyKept
<1>18. CASE send_response
  BY <1>18, SendResponseKept
<1>19. CASE unbuffered
  BY <1>19, UnbufferedKept
<1>20. CASE buffered
  BY <1>20, BufferedKept
<1>21. CASE pipe
  BY <1>21, PipeKept
<1>22. CASE process_request
  BY <1>22, ProcessRequestKept
<1>23. CASE non_buffered_request
  BY <1>23, NonBufferedKept
<1>24. CASE upgrade
  BY <1>24, UpgradeKept
<1> QED
  BY <1>2, <1>4, <1>5, <1>6, <1>7, <1>8, <1>9, <1>10, <1>11, <1>12, <1>13, <1>14, <1>15, <1>16,
     <1>17, <1>18, <1>19, <1>20, <1>21, <1>22, <1>23, <1>24
     DEF Functions

(* Every event. *)
LEMMA EventsKept == ASSUME Settings, IndInv, Events PROVE Kept
<1>1. CASE Begin
  BY <1>1, BeginKept
<1>2. CASE ResolverAnswers
  BY <1>2, ResolverKept
<1>3. CASE ssl_handshake
  BY <1>3, HandshakeKept
<1>4. CASE WriteEvent
  BY <1>4, WriteEventKept
<1>5. CASE WriteTimeout
  BY <1>5, WriteTimeoutKept
<1>6. CASE ReadEvent
  BY <1>6, ReadEventKept
<1>7. CASE ReadTimeout
  BY <1>7, ReadTimeoutKept
<1>8. CASE ClientWritable
  BY <1>8, ClientWritableKept
<1>9. CASE ClientTimeout
  BY <1>9, ClientTimeoutKept
<1>10. CASE ClientCloses
  BY <1>10, ClientClosesKept
<1>11. CASE ClientBroken
  BY <1>11, ClientBrokenKept
<1>12. CASE Cleanup
  BY <1>12, CleanupKept
<1> QED
  BY <1>1, <1>2, <1>3, <1>4, <1>5, <1>6, <1>7, <1>8, <1>9, <1>10, <1>11, <1>12 DEF Events

(* Every step, and a stuttering one. *)
LEMMA StepKept == ASSUME Settings, IndInv, [Next]_vars PROVE Kept
<1>1. CASE Functions
  BY <1>1, FunctionsKept
<1>2. CASE Events
  BY <1>2, EventsKept
<1>3. ASSUME UNCHANGED vars PROVE Kept
  <2>1. UNCHANGED <<u, client, out, call>>
    BY <1>3 DEF vars
  <2>2. Top' = Top /\ Arg' = Arg /\ Below' = Below
    BY <2>1 DEF Top, Arg, Below
  <2>a. TypeOK'
    BY <2>1, <2>2 DEF IndInv, TypeOK
  <2>b. StackOK' /\ PhaseOK'
    BY <2>1, <2>2 DEF IndInv, StackOK, PhaseOK
  <2>c. StartOK' /\ EndOK'
    BY <2>1, <2>2 DEF IndInv, StartOK, EndOK, Nothing
  <2>d. BodyOK' /\ PeersBalanced'
    BY <2>1, <2>2 DEF IndInv, BodyOK, AllOfIt, PeersBalanced
  <2>3. IndInv'
    BY <2>a, <2>b, <2>c, <2>d DEF IndInv
  <2>4. TimersOK => TimersOK'
    BY <2>1, <2>2 DEF TimersOK, WaitHasTimer, Live, Idle, Ended
  <2> QED
    BY <2>3, <2>4 DEF Kept
<1> QED
  BY <1>1, <1>2, <1>3 DEF Next, Over

(* The stack of functions, the phase, the body and the peers always fit together: *)
(* IndInv is an invariant of every proxied request.                               *)
THEOREM UpstreamInvariant == ASSUME Settings PROVE Spec => []IndInv
<1>1. Init => IndInv
  BY InitHolds
<1>2. IndInv /\ [Next]_vars => IndInv'
  BY StepKept DEF Kept
<1> QED
  BY <1>1, <1>2, PTL DEF Spec

(* ngx_http_upstream_connect, _next and _finalize_request: the peers taken from   *)
(* the balancer and those given back differ by the one in use, whatever fails.    *)
THEOREM PeersAlwaysBalanced == ASSUME Settings PROVE Spec => []PeersBalanced
<1>1. IndInv => PeersBalanced
  BY DEF IndInv
<1> QED
  BY <1>1, UpstreamInvariant, PTL

(* ngx_http_upstream_finalize_request: a request ends at most once, and when it   *)
(* has ended it holds no peer, connection, timer, cache node or resolver context. *)
THEOREM AlwaysReleased == ASSUME Settings PROVE Spec => []ReleasedAtEnd
<1>1. IndInv => ReleasedAtEnd
  BY DEF IndInv, EndOK, Nothing, ReleasedAtEnd, Idle
<1> QED
  BY <1>1, UpstreamInvariant, PTL

(* ngx_http_upstream_process_request: neither the cache nor a stored file keeps a *)
(* response that is shorter than its header announced.                            *)
THEOREM NothingCutKept == ASSUME Settings PROVE Spec => []KeptWhole
<1>1. IndInv => KeptWhole
  BY DEF IndInv, BodyOK, KeptWhole
<1> QED
  BY <1>1, UpstreamInvariant, PTL

(* The last buffer goes to the client only when the upstream sent the whole body. *)
THEOREM NothingCutEnded == ASSUME Settings PROVE Spec => []EndedWhole
<1>1. IndInv => EndedWhole
  BY DEF IndInv, BodyOK, AllOfIt, EndedWhole
<1> QED
  BY <1>1, UpstreamInvariant, PTL

(* Without TLS, and with upstreams that have the request before they answer it,   *)
(* a request never waits for an upstream connection without a timer.              *)
THEOREM AlwaysTimed == ASSUME Settings, Plain PROVE Spec => []WaitHasTimer
<1>1. Init => IndInv /\ TimersOK
  BY InitHolds
<1>2. IndInv /\ TimersOK /\ [Next]_vars => IndInv' /\ TimersOK'
  BY StepKept DEF Kept
<1>3. TimersOK => WaitHasTimer
  BY DEF TimersOK
<1> QED
  BY <1>1, <1>2, <1>3, PTL DEF Spec

================================================================================
